\* Two sweeps over two messages with one long retry each; a sweep may crash.
CONSTANTS
    Message = {m1, m2}
    Sweep = {s1, s2}
    NoMessage = none
    Lease = 1
    Second = 2
    Delay = 3
    LongRetries = 1
    MaxAge = 2
    MaxCrashes = 1
SPECIFICATION FairSpec
INVARIANTS
    LostByLateDelete
    ClaimIsExclusive
    SentOncePerClaim
    DueInItsSecond
    SweepInvariant
PROPERTIES
    ImplementsPort
    EveryRetrySent
