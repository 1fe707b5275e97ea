SPECIFICATION Spec
CONSTANTS
    None = None
    s1 = s1
    p1 = p1
    c1 = c1
    Names <- MCNames
    Folders = 1
    Contents <- MCContents
    Overrides = {"unset"}
    Declared <- MCDeclared
    Emits = {}
    Sessions = {s1}
    Pipes = {p1}
    Callers = {c1}
    Topics <- MCTopics
    Args <- MCArgs
    Exact = 2
    MaxInputs = 4
    Texts <- MCTexts
CHECK_DEADLOCK FALSE
INVARIANTS NothingSwallowed OncePerInstruction
