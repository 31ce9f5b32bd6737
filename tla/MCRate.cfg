\* Two calls at a time; a burst of two, three quarters of a token per tick.
CONSTANTS
    Worker = {w1, w2}
    One = 4
    PerTick = 3
    Second = 3
    NoBucket = none
    MaxNow = 4
    MaxCalls = 5
SPECIFICATION Spec
INVARIANTS
    GrantsWithinRate
    RetryAfterSuffices
    RateInvariant
