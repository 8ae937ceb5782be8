SPECIFICATION FairSpec
CONSTANTS
  Domains = {"f1"}
  Nets = {"n1"}
  Naming <- OwnNets
  First = {"f1"}
  Cks = FALSE
  DeleteEarly = TRUE
  Disturbances = {}
  MaxFaults = 0
  MaxEdits = 0
PROPERTY AnyTeardownCompletes
\* the system rests for good once the cluster is gone
CHECK_DEADLOCK FALSE
