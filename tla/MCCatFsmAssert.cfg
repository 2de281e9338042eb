SPECIFICATION HSpec
CONSTANTS
  Res = 2
  MaxTick = 7
  Configs <- DefaultConfigs
  Frames <- LiveFrames
  Signals = {}
INVARIANTS
  MatchCountBounded
CHECK_DEADLOCK FALSE
