SPECIFICATION Safety
CONSTANTS
    q1 = q1
    q2 = q2
    x1 = x1
    s1 = s1
    s2 = s2
    None = None
    Posts = {q1, q2}
    Patches = {x1}
    Sessions = {s1, s2}
    MaxSessions = 1
    Shutdown = FALSE
SYMMETRY Symmetry
CHECK_DEADLOCK FALSE
INVARIANT CapHolds
 
