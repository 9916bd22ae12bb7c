SPECIFICATION LimitingSpec
CONSTANTS
    k1 = k1
    k2 = k2
    t1 = t1
    t2 = t2
    r1 = r1
    r2 = r2
    r3 = r3
    Threads = {t1, t2}
    Keys = {k1, k2}
    Requests = {r1, r2, r3}
    MaxRequests = 2
    Second = 2
    Window = 4
    MaxKeys = 1
    MaxDelay = 1
    MaxClock = 9
    RedisDelay = 3
    RedisClock = 14
    FaultKinds = {"down", "reply", "crash"}
    MaxFaults = 2
INVARIANTS LimitHolds KeysBounded WindowLimit LeaksAreFaults
PROPERTIES RetrySuffices NoSpuriousRefusal
SYMMETRY Symmetry
CHECK_DEADLOCK FALSE
