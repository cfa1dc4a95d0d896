SPECIFICATION Spec
CONSTANTS
    p1 = p1
    p2 = p2
    s1 = s1
    s2 = s2
    MaxRequests = 2
    MaxDeltas = 1
    Graphemes = 2
    Capacity = 1
    Prompts = {p1, p2}
    Sessions = {s1, s2}
    Start = s1
    None = None
SYMMETRY Sym
CHECK_DEADLOCK FALSE
INVARIANTS
    ShowsCurrentAnswer
    
    OutcomeIsLast
    CanCancel
