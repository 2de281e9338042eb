SPECIFICATION MCSpec
CONSTANTS
  NumBuffers = 2
  CameraFaults = TRUE
  PinFaults = TRUE
  LockoutMethods = {1, 2}
  MaxSigint = 2
  MaxUserSignals = 2
  MaxSignals = 3
INVARIANTS
  HandoverIsSafe
  DoorAgrees
  LockoutHasTimer
  EndsUnlocked
PROPERTIES
  QueryIsAnswered
  StopsWhenAsked
