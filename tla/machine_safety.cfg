CONSTANTS
    VMIds = {v1, v2}
    None = None
    Controllers = {"M"}
    LbNeeded = TRUE
    Disturbances = {"error", "crash", "vanish", "stop", "suspend", "delist", "foreground"}
    MaxFaults = 2
    MaxLag = 4
SPECIFICATION Spec
SYMMETRY VMSymmetry
INVARIANT AtMostOneVM
INVARIANT SettledIsComplete
PROPERTY DestroyOnlyWhenDeleting
\* the system rests for good once the object is gone
CHECK_DEADLOCK FALSE
