SPECIFICATION Spec
CONSTANTS
    yuri = yuri
    monika = monika
    All = All
    Characters = {yuri, monika}
    PAGE_SIZE = 1
    MaxPoems = 3
    MaxLoads = 3
    MaxDeletes = 2
    MaxFailures = 1
INVARIANTS MissesAreDeletions ShownIsCurrent
SYMMETRY Symmetry
CHECK_DEADLOCK FALSE
