SPECIFICATION FairSpec
CONSTANTS
    g1 = g1
    g2 = g2
    g3 = g3
    r1 = r1
    Generations = {g1, g2, g3}
    Reads = {r1}
    PoolSize = 2
    MaxConcurrent = 1
    ParseRetries = 1
INVARIANTS SlotsConserved CapHolds OnlyAnsweredPersist
PROPERTIES ReadsAnswered GenerationsEnd
CHECK_DEADLOCK FALSE
