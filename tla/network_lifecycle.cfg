CONSTANTS
    Clusters = {c1}
    Nets = {n1, n2}
    Vpcs = {v1, v2}
    Provided = {n1, v1}
    Layouts = {"plain", "vpc", "routed"}
    IPs = {p1, p2}
    None = None
    Disturbances = {"error", "crash"}
    MaxFaults = 1
SPECIFICATION FairSpec
INVARIANT TypeOK
INVARIANT ReadyIsServed
INVARIANT ProvidedKept
PROPERTY EndpointRecorded
PROPERTY UndisturbedDisposal
PROPERTY DeletionCompletes
PROPERTY ProvisioningEnds
\* the system rests for good once the objects are gone
CHECK_DEADLOCK FALSE
