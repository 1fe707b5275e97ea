SPECIFICATION PluginSpec
CONSTANTS
    None = None
    s1 = s1
    s2 = s2
    p1 = p1
    p2 = p2
    c1 = c1
    Names <- MCNames
    Folders = 2
    Contents <- MCContents
    Overrides = {"unset", "on"}
    Declared <- MCDeclared
    Emits = {}
    Sessions = {s1, s2}
    Pipes = {p1, p2}
    Callers = {c1}
    Topics <- MCTopics
    Args <- MCArgs
    Exact = 2
    MaxInputs = 3
SYMMETRY Symmetry
CHECK_DEADLOCK FALSE
INVARIANTS ConfirmedOnce 
