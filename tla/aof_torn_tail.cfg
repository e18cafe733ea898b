SPECIFICATION Spec
CONSTANTS
  PipeSize = 1
  Setups <- TornSetups
PROPERTIES ImplementsDurableLog
CHECK_DEADLOCK FALSE
