SPECIFICATION FairSpec
CONSTANTS
  Domains = {"f1"}
  Nets = {"n1"}
  Naming <- OwnNets
  First = {"f1"}
  Cks = TRUE
  DeleteEarly = FALSE
  Disturbances = {"error", "crash"}
  MaxFaults = 1
  MaxEdits = 0
PROPERTY TeardownCompletes
PROPERTY SetupCompletes
PROPERTY NetworksDisposed
PROPERTY ClusterOutlivesDomains
\* the system rests for good once the cluster is gone
CHECK_DEADLOCK FALSE
