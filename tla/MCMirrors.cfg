CONSTANTS
  Job = {j1, j2}
  Cert = {"zone", "app"}
  Domain <- MCDomain
  Wild = {"zone"}
  Host = {"app", "deep"}
  HostNames <- MCHostNames
  WildcardAttach = TRUE
  MaxVersion = 2
  MaxEntry = 2
  MaxStart = 3
SYMMETRY JobSymmetry
SPECIFICATION Spec
INVARIANTS TypeOK OneGate ServedByDomain
PROPERTIES WildcardNeverReplaces SyncDelivers NoPileUp
CHECK_DEADLOCK FALSE
