SPECIFICATION Spec
CONSTANTS
    w1 = w1  w2 = w2
    Message <- MCMessage
    Endpoint <- MCEndpoint
    EndpointOf <- MCEndpointOf
    Created <- MCCreated
    Worker <- MCWorker
    Query <- MCQuery
    Unset = Unset
    PageSize = 1
    NoMessage = NoMessage
    Log <- MCLog
    MaxWrites = 3
    MaxCrashes = 1
INVARIANTS StoredIsFound AppendsKept ListingComplete
SYMMETRY Symmetry
CHECK_DEADLOCK FALSE
