SPECIFICATION Spec
CONSTANTS
  Node = {n1, n2, n3}
  BacklogSize = 2
  Setups <- MCSetups
  NULL = NULL
SYMMETRY Symmetry
INVARIANTS
  PartialResyncSafe
  StreamConsistent
  NoReplicaLeftBehind
PROPERTIES
  FailoverLosesNothing
CHECK_DEADLOCK FALSE
