CONSTANTS
    Message = {m1, m2}
    Endpoint = {e1}
    EndpointOf <- OneEndpoint
    Worker = {w1, w2}
    NoMessage = none
    NoVersion = unread
    MaxVersion = 4
    Threshold = 2
    Cooldown = 1
    Schedule <- OneRetry
    RetryAfterCap = 0
    ThrottleDelays <- OneTick
    MaxWait = 2
    MaxFaults = 0
    MaxThrottles = 0
SPECIFICATION DynamoSpec
SYMMETRY Symmetry
INVARIANT SingleProbe
