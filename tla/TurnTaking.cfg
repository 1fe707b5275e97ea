SPECIFICATION Spec
CONSTANTS
    Finals <- MCFinals
    Partials <- MCPartials
    EmitsPartials = TRUE
    Guards = {"readback", "echo"}
    MaxFinals = 2
    ChanSize = 1
    Onset = 1
    Offset = 1
    Window = 1
    Grace = 1
    EchoWindow = 1
    Base = 1
    Incomplete = 2
    MergeMax = 3
INVARIANTS WordsKept HoldIsBounded
PROPERTIES FreshCandidate EveryTurnTaken
