SPECIFICATION FairSpec
CONSTANTS
    r1 = r1
    r2 = r2
    g1 = g1
    Requests = {r1, r2}
    Gateways = {g1}
    GatewayOf <- SameGateway
    MaxAttempts = 2
    Capacity = 1
    MaxChunks = 2
    None = None
CHECK_DEADLOCK FALSE
INVARIANTS
    TypeOK
    GuardInv
    
    CompletedIsWhole
    NoSilentEnd
PROPERTIES
    StreamSpec
    
