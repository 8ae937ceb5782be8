SPECIFICATION Spec
CONSTANTS
  Domains = {"f1", "f2"}
  Nets = {"n1", "n2"}
  Naming <- OwnOrSharedNets
  First = {"f1"}
  Cks = FALSE
  DeleteEarly = FALSE
  Disturbances = {"error", "crash"}
  MaxFaults = 1
  MaxEdits = 1
INVARIANT TypeOK
PROPERTY ClusterOutlivesDomains
PROPERTY DomainOutlivesNetworks
PROPERTY SharedNetworkKept
\* the system rests for good once the cluster is gone
CHECK_DEADLOCK FALSE
