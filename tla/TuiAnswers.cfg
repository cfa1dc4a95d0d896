SPECIFICATION FairSpec
CONSTANTS
    p1 = p1
    s1 = s1
    MaxRequests = 2
    MaxDeltas = 1
    Graphemes = 2
    Capacity = 1
    Prompts = {p1}
    Sessions = {s1}
    Start = s1
    None = None
CHECK_DEADLOCK FALSE
PROPERTIES
    AnswerEnds
