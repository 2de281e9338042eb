SPECIFICATION Spec
CONSTANTS
  MaxRecursion = 20
  MaxEvents = 2
  Setups <- OrdinarySetups
INVARIANTS
  UnlockCommandAtExit
CHECK_DEADLOCK FALSE
