SPECIFICATION Safety
CONSTANTS
    MaxLaunch = 2
    MaxRequests = 1
    Attempts = 2
    OverlongLines = FALSE
    Shutdown = TRUE
CHECK_DEADLOCK FALSE
INVARIANTS TypeOK OneProcess StopHonoured StopWaits RunningIsServed
