CONSTANTS
    Domains = {"f1", "f2"}
    Removed = "f1"
    Replicas = 2
    MaxMachines = 3
    None = None
    Disturbances = {"restart", "unready", "error"}
    MaxFaults = 1
SPECIFICATION FairSpec
INVARIANT TypeOK
INVARIANT OneAtATime
PROPERTY DrainCompletes
\* The system rests once the failure domain is drained.
CHECK_DEADLOCK FALSE
