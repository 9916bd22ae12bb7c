SPECIFICATION Spec
CONSTANTS
    p1 = p1
    p2 = p2
    Poems = {p1}
    Types = {"image"}
    MaxRetries = 1
    FaultKinds = {"api", "crash", "redis", "reply", "db", "unlink"}
    MaxFaults = 3
INVARIANTS TypeOK RowsInStep RunningIsParked QueuedIsParkedOrOwed DoneHasFile RenderBudget
PROPERTIES DoneIsFinal ImplementsLifecycle
