SPECIFICATION Spec
CONSTANTS
    q1 = q1
    q2 = q2
    s1 = s1
    None = None
    Posts = {q1, q2}
    Patches = {}
    Sessions = {s1}
    MaxSessions = 0
    Shutdown = TRUE
CHECK_DEADLOCK FALSE
PROPERTIES AbandonedIsReaped ClosedWindsDown
