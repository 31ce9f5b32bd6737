CONSTANTS
    Message = {m1}
    Sweep = {s1, s2}
    NoMessage = none
    Lease = 1
    Second = 2
    Delay = 3
    LongRetries = 2
    MaxAge = 2
    MaxCrashes = 0
SPECIFICATION Spec
INVARIANT RetryNeverLost
