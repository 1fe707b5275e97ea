SPECIFICATION Spec
CONSTANTS
    Providers = {"cartesia", "http", "minimax", "mimo", "volcengine", "aliyun", "telnyx", "whole"}
    Limit = 1
    MaxStreams = 2
    MaxConns = 2
    MaxBytes = 13
    MaxChunks = 1
    OutCap = 1
    PendingBuf = 1
    Taps = 5
CHECK_DEADLOCK FALSE
INVARIANTS AudioFaithful ConnectionOwned SlotsHeld
PROPERTY CancelledEnds
