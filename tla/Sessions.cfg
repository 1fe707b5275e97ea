SPECIFICATION Safety
CONSTANTS
    q1 = q1
    q2 = q2
    q3 = q3
    s1 = s1
    None = None
    Posts = {q1, q2, q3}
    Patches = {}
    Sessions = {s1}
    MaxSessions = 0
    Shutdown = FALSE
SYMMETRY Symmetry
CHECK_DEADLOCK FALSE
INVARIANTS OneCarrier NoLostSession ConversationOwner
