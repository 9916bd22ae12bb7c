SPECIFICATION Spec
CONSTANTS
    i1 = i1
    i2 = i2
    Images = {i1, i2}
    PopTimeout = 1
    MaxDelay = 1
    PollInterval = 1
    Timeout = 3
    MaxAttempts = 3
    MaxClock = 8
    MaxFaults = 1
INVARIANTS RetryRenders FilesAreOwn TimeoutIsDue SilenceBounded
SYMMETRY Symmetry
CHECK_DEADLOCK FALSE
