SPECIFICATION Spec
CONSTANTS
    p1 = p1
    p2 = p2
    Poems = {p1}
    Types = {"image", "audio"}
    MaxRetries = 1
    FaultKinds = {}
    MaxFaults = 0
INVARIANT VerdictMatchesCounter
