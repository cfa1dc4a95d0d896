SPECIFICATION FairSpec
CONSTANTS
    c1 = c1
    c2 = c2
    c3 = c3
    Calls = {c1, c2, c3}
    MaxTools = 2
    MaxDeltas = 3
    Message = Message
CHECK_DEADLOCK FALSE

    
PROPERTIES
    ProtocolSpec
    OutcomeTold
