SPECIFICATION Spec
CONSTANTS
  Names <- TwoNames
  MaxDepth = 3
  Caller = {c1, c2}
  Flags = {show, nocolor}
  Options = {roi, haar}
  Unknown = {typo, long}
  LongKeys = {long}
  MaxVals = 2
  IntLimit = 8
  SizeLimit = 64
  MaxPairs = 3
  FrameWidth = 320
  FrameHeight = 240
  MinBacklight = 10000
  Configs <- AllConfigs
SYMMETRY Alike
INVARIANTS
  MadeIsADirectory
CHECK_DEADLOCK FALSE
