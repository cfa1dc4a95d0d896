SPECIFICATION FairSpec
CONSTANTS
    MaxBuffer = 2
    MaxOutput = 2
    MaxBytes = 6
    MaxChunk = 3
CHECK_DEADLOCK FALSE
INVARIANTS
    TypeOK
    
PROPERTIES
    StreamSpec
    OutcomeTold
