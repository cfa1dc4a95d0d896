SPECIFICATION FairSpec
CONSTANTS
    p1 = p1
    p2 = p2
    a = a
    b = b
    i1 = i1
    i2 = i2
    j1 = j1
    j2 = j2
    m1 = m1
    m2 = m2
    bad = bad
    old = old
    new = new
    o1 = o1
    None = None
    Torn = Torn
    Ids = {i1, i2}
    Projects = {j1, j2}
    Titles = {old, new}
    Openings = {o1}
    AutoId <- Auto
    Messages = {m1, m2, bad}
    Malformed = {bad}
    TitleOf <- Named
    MaxTurns = 1
    Procs = {p1, p2}
    Tasks = {a, b}
    ProcOf <- OnProc
    Requested <- Asked
    Legacy <- LeftBehind
    MaxCalls = 2
CHECK_DEADLOCK FALSE
INVARIANTS
    FileWhole
    HistoriesValid
    InProject
PROPERTIES
    MapSpec
    
