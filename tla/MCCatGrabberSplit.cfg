SPECIFICATION Spec
CONSTANTS
  p1 = p1
  p2 = p2
  p3 = p3
  Proc = {p1, p2, p3}
  Process = {p1, p2, p3}
  File = {f1, f2, f3, f4}
  NoProc = NoProc
  NoFile = NoFile
  A = A
  B = B
  Tag = {A, B}
  AllowedTag = {A}
  MaxPending = 3
  Setups <- ReaderSetups
INVARIANTS
  CorrectReadSuffices
CHECK_DEADLOCK FALSE
