\* One process with its memory cache, restarted once.
SPECIFICATION Spec
CONSTANTS
    Instances = {i1}
    Shared = FALSE
    Clients = {c1, c2}
    OfferedEdits <- AllEdits
    MaxReads = 3
    MaxEdits = 2
    MaxRestarts = 1
INVARIANTS
    ListsAreCurrent
    StaleDetailIsExplained
PROPERTIES
    UpdatesSawLatest
SYMMETRY ClientSymmetry
CHECK_DEADLOCK FALSE
