CONSTANTS
  Job = {j1}
  Cert = {"zone", "plain"}
  Domain <- MCDomain
  Wild = {"zone"}
  Host = {"zone", "app"}
  HostNames <- MCHostNames
  WildcardAttach = TRUE
  MaxVersion = 2
  MaxEntry = 2
  MaxStart = 2
SPECIFICATION Spec
INVARIANTS ServedCovers
CHECK_DEADLOCK FALSE
