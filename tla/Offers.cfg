SPECIFICATION OffersSpec
CONSTANTS
    a1 = a1
    a2 = a2
    Audios = {a1, a2}
    FaultKinds = {"crash", "engine", "network"}
    Damaged = {"model", "config"}
    MaxRetries = 1
    MaxFaults = 3
    i1 = i1
    Images = {i1}
    anything = anything
    sdxl = sdxl
    custom = custom
    Checkpoints = {anything, sdxl, custom}
    Builtin <- BuiltinModels
    DefaultOf <- DefaultModels
    Unset = Unset
    MaxListed = 1
    MaxChanges = 1
    MaxFailures = 1
INVARIANTS SpokenWell RenderedAsOffered
PROPERTIES OfferedAreSpoken PinnedStays
CHECK_DEADLOCK FALSE
