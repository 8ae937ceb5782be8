SPECIFICATION Spec
CONSTANTS
  Kinds = {"Machine", "Template", "Network", "Group", "Cluster", "Domain", "Checker"}
  Values = {"a"}
  Ports = {"p", "s", "t"}
  NonRunes = {"s", "t"}
  Zones = {"z1", "z2"}
  Names = {"n1", "n2"}
  ByName = {"z1", "z2"}
  Lookups = {TRUE, FALSE}
  MaxDomains = 2
INVARIANT TypeOK
INVARIANT ReadYourWrites
INVARIANT Readable
INVARIANT UpdatesAdmitted
PROPERTY OldWritesKeepNew
PROPERTY NamesStable
PROPERTY EndpointFixed
