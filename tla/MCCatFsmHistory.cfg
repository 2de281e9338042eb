SPECIFICATION HSpec
CONSTANTS
  Res = 2
  MaxTick = 7
  Configs <- SafetyConfigs
  Frames <- SafetyFrames
  Signals = {"SIGINT"}
INVARIANTS
  TypeOK
  DoorFollowsState
  NeverLeavesLocked
  ImagesReleased
PROPERTIES
  LockoutLasts
  GivesUpOnlyOnAStreak
  PassUsesThisGroup
  PassageLasts
  ImplementsDoor
CHECK_DEADLOCK FALSE
