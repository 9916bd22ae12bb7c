SPECIFICATION FairSpec
CONSTANTS
    p1 = p1
    p2 = p2
    Poems = {p1}
    Types = {"image"}
    MaxRetries = 1
    FaultKinds = {"crash", "flush"}
    MaxFaults = 2
PROPERTY OrphansRecovered
