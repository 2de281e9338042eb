SPECIFICATION FairSpec
CONSTANTS
  Res = 2
  MaxTick = 5
  Configs <- LiveConfigs
  Frames <- LiveFrames
  Signals = {"SIGINT"}
PROPERTIES
  LockedIsUnlocked
  VisitsEnd
CHECK_DEADLOCK FALSE
