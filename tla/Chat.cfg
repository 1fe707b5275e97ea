SPECIFICATION Spec
CONSTANTS
    Providers = {"openai", "ollama", "agent"}
    MaxTurns = 2
    MaxRounds = 2
    HistoryWindow = 4
    CallLists <- MCCallLists
    Chunks <- MCChunks
    MaxText = 3
CHECK_DEADLOCK FALSE
INVARIANTS RequestsWellFormed TokensWhole
PROPERTIES ToolLoopEnds
