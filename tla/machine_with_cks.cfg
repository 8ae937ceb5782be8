CONSTANTS
    VMIds = {v1, v2}
    None = None
    Controllers = {"M", "K"}
    LbNeeded = TRUE
    Disturbances = {"error", "crash"}
    MaxFaults = 1
    MaxLag = 2
SPECIFICATION FairSpec
INVARIANT TypeOK
INVARIANT FinalizerHasInstance
PROPERTY GuardedUntilDestroyed
PROPERTY ImplementsContract
PROPERTY DeletionCompletes
PROPERTY ProvisioningEnds
PROPERTY ReadyIsBalanced
PROPERTY ErrorIsReplaced
\* the system rests for good once the object is gone
CHECK_DEADLOCK FALSE
