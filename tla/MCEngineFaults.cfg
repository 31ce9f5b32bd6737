\* Two workers, one message, a crash or duplicate delivery, a throttle, circuit write conflicts.
CONSTANTS
    Message = {m1}
    Endpoint = {e1}
    EndpointOf <- OneEndpoint
    Worker = {w1, w2}
    NoMessage = none
    NoVersion = unread
    MaxVersion = 4
    Threshold = 2
    Cooldown = 1
    Schedule <- ImmediateRetry
    RetryAfterCap = 0
    ThrottleDelays <- OneTick
    MaxWait = 2
    MaxFaults = 1
    MaxThrottles = 1
SPECIFICATION DynamoSpec
SYMMETRY Symmetry
INVARIANTS
    SettledTruthfully
    RetryHistoryComplete
    DlqHasTerminalAttempt
    DeliveredMeansReceived
    BreakerConsistent
    InductiveInvariant
PROPERTIES
    ImplementsEngine
    EveryWriteRaisesVersion
