SPECIFICATION FairSpec
CONSTANTS
  MaxRecursion = 20
  MaxEvents = 2
  Setups <- OutputSetups
INVARIANTS
  NestingBounded
  IdleIsClean
  PathsAreOfThisEvent
  CommandsFollowTemplates
PROPERTIES
  LeaksOnlyOnFailure
  EventEnds
CHECK_DEADLOCK FALSE
