SPECIFICATION Spec
CONSTANTS
    Sessions = {s1, s2}
    Requests = {r1}
    Deleters = {}
    Reaper = reaper
    Shutdown = shutdown
    Pids = {p1, p2}
    Ports = {q1}
    MaxSidecars = 1
    IdleEnabled = TRUE
    MayDisconnect = FALSE
    MaySicken = TRUE
    MayCrash = TRUE
    MayReusePid = TRUE
    None = None
SYMMETRY SymPids
INVARIANTS
    TypeOK
    
    
PROPERTIES
    StopTouchesOnlyItsSession
