\* Four retries, handler runs that throw.
CONSTANTS
    Retry = {r1, r2, r3, r4}
    MaxDelay = 3
    NoTime = none
    MaxThrows = 2
SPECIFICATION FairSpec
INVARIANTS
    AlarmArmed
    AlarmCoversEarliest
    AlarmInvariant
PROPERTIES
    ImplementsPort
    NoRetryForgotten
