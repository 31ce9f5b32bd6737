SPECIFICATION Spec
CONSTANTS
    c1 = c1  c2 = c2  c3 = c3
    Call <- MCCall
    Url <- MCUrl
    Subscription <- MCSubscription
    Patch <- MCPatch
    Absent = Absent
    Keep = Keep
    None = None
    EventType <- MCEventType
    Second = 2
    Tolerance = 1
    MaxAttempts = 2
    MaxNow = 4
    EnginePolicy <- MCEnginePolicy
    ClientPolicy <- MCClientPolicy
    Threshold = 1
    Cooldown = 1
    Schedule <- MCSchedule
    RetryAfterCap = 1
INVARIANTS TypeOK NothingLost RefusedNeverPosted DeliveredMeansAccepted ResultsAsEngineAssumes FanoutFollowsRegistry
PROPERTIES WindowVerifies
SYMMETRY Symmetry
CHECK_DEADLOCK FALSE
