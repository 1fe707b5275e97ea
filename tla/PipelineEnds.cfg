SPECIFICATION Spec
CONSTANTS
    MaxGen = 1
    OutCap = 1
    MaxFrames = 1
    SentenceCap = 1
    MaxSentences = 3
    TtsFails = TRUE
    Greeting = FALSE
    LateGreeting = FALSE
    ToolCalls = TRUE
    CallEnds = TRUE
CHECK_DEADLOCK FALSE
INVARIANT ListeningAfterSpeech
PROPERTIES FloorReturned WindsDown
