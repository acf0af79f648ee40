CONSTANTS
  Node <- MCTrio
  Home = "home"
  Master <- MCChain
  Role <- MCMixed
  GivenDomain <- MCDomain
  LabDomain = 1
  Task = {"a1", "b1"}
  NodeOf <- MCAll
  Timer = {"a1", "b1"}
  Id = {1, 2}
  Lab = {1}
  InitialId <- MCOneId
  Renamed <- MCTail
  Peered <- MCNone
  Payload <- MCNone
  Restarted <- MCNone
SPECIFICATION Spec
INVARIANTS TypeOK ReplicaSound
PROPERTIES IdsStayTaken
