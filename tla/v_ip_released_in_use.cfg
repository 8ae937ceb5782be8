CONSTANTS
    Clusters = {c1, c2}
    Nets = {n1}
    Vpcs = {v1}
    Provided = {n1}
    Layouts = {"plain"}
    IPs = {p1}
    None = None
    Disturbances = {}
    MaxFaults = 0
SPECIFICATION Spec
INVARIANT EndpointInUseKept
\* the system rests for good once the objects are gone
CHECK_DEADLOCK FALSE
