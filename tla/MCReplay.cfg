\* One worker, one message, a fault (duplicate, crash or portal failure), a
\* refusal by the rate limiter and a portal call.
CONSTANTS
    Message = {m1}
    Endpoint = {e1}
    EndpointOf <- OneEndpoint
    Worker = {w1}
    NoMessage = none
    Threshold = 2
    Cooldown = 1
    Schedule <- OneRetry
    RetryAfterCap = 0
    ThrottleDelays <- OneTick
    MaxWait = 2
    MaxFaults = 1
    MaxReplays = 1
    MaxThrottles = 1
SPECIFICATION ReplayFairSpec
INVARIANT SettledOrStranded
PROPERTIES
    TripsOnlyAfterStreak
    EventuallySettled
