SPECIFICATION Spec
CONSTANTS
    Sessions = {s1}
    Requests = {r1, r2}
    Deleters = {d1}
    Reaper = reaper
    Shutdown = shutdown
    Pids = {p1, p2}
    Ports = {q1}
    MaxSidecars = 1
    IdleEnabled = TRUE
    MayDisconnect = TRUE
    MaySicken = FALSE
    MayCrash = FALSE
    MayReusePid = FALSE
    None = None
SYMMETRY SymBoth
INVARIANTS
    LockInv
    Ownership

    
