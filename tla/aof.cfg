SPECIFICATION Spec
CONSTANTS
  PipeSize = 1
  Setups <- MCSetups
INVARIANTS LogComplete RewriteTail ShutdownKeepsAll
PROPERTIES ImplementsDurableLog WrittenIsSynced WaitEnds WriteErrorCleared
CHECK_DEADLOCK FALSE
