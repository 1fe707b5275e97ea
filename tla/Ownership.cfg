SPECIFICATION Safety
CONSTANTS
    MaxGen = 2
    OutCap = 1
    MaxFrames = 2
    SentenceCap = 1
    MaxSentences = 1
    TtsFails = TRUE
    Greeting = TRUE
    LateGreeting = FALSE
    ToolCalls = FALSE
    CallEnds = FALSE
CHECK_DEADLOCK FALSE
INVARIANTS OwnerInv LiveIsCancellable ListeningAfterSpeech
PROPERTY FloorSafety
