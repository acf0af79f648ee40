CONSTANTS
  Node <- MCPair
  Home = "home"
  Master <- MCMaster
  Role <- MCAuto
  GivenDomain <- MCDomain
  LabDomain = 1
  Task = {"a1", "a2"}
  NodeOf <- MCTwoSlots
  Timer = {"a1"}
  Id = {1, 2}
  Lab = {1, 2}
  InitialId <- MCDistinct
  Renamed <- MCNone
  Peered <- MCHome
  Payload <- MCFirst
  Restarted <- MCAt
SPECIFICATION FairSpec
PROPERTIES ReplicaConverges RoleConverges
