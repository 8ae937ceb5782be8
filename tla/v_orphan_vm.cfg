CONSTANTS
    VMIds = {v1}
    None = None
    Controllers = {"M"}
    LbNeeded = FALSE
    Disturbances = {}
    MaxFaults = 0
    MaxLag = 2
SPECIFICATION Spec
INVARIANT NoOrphanVM
\* the system rests for good once the object is gone
CHECK_DEADLOCK FALSE
