SPECIFICATION Spec
CONSTANTS
    t1 = t1
    t2 = t2
    a1 = a1
    a2 = a2
    frontend = frontend
    lan = lan
    vpn = vpn
    broken = broken
    Absent = Absent
    NoName = NoName
    Threads = {t1, t2}
    Addresses = {a1, a2}
    Names = {frontend}
    Entries <- FrontendTwice
    DefaultMax = 1
    Ttl = 1
    MaxDelay = 2
    MaxClock = 4
    MaxMoves = 2
INVARIANTS FirstMatchWins SameAllowance
PROPERTIES NotStale NotMissed
SYMMETRY Symmetry
