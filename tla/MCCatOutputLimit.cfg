SPECIFICATION Spec
CONSTANTS
  MaxRecursion = 20
  MaxEvents = 2
  Setups <- FailingSetups
PROPERTIES
  LimitMeansNesting
CHECK_DEADLOCK FALSE
