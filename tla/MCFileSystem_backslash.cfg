SPECIFICATION Spec
CONSTANTS
  BlockCount = 4
  DataStart = 1
  Name = {a, b}
  a = a
  b = b
  Dot = "."
  DotDot = ".."
  Stored <- NoCut
  EntriesPerBlock = 3
  BlockSize = 1
  WordSize = 16
  WriteSizes = {1}
  ReadSizes = {1}
  MaxFds = 0
  MaxCursor = 2
  Paths <- OneSegment
  MaxDepth = 3
  Habits <- TypesBackslashes
INVARIANTS
  PwdNamesCwd
CHECK_DEADLOCK FALSE
