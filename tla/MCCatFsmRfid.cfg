SPECIFICATION HSpec
CONSTANTS
  Res = 2
  MaxTick = 7
  Configs <- RfidConfigs
  Frames <- LiveFrames
  Signals = {}
PROPERTIES
  NoTagLocksOut
CHECK_DEADLOCK FALSE
