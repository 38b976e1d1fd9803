SPECIFICATION SessionSpec
CONSTANTS
  BlockCount = 4
  DataStart = 1
  Name = {a}
  a = a
  Dot = "."
  DotDot = ".."
  Stored <- NoCut
  EntriesPerBlock = 3
  BlockSize = 1
  WordSize = 16
  WriteSizes = {2}
  ReadSizes = {1, 15}
  MaxFds = 1
  MaxCursor = 2
  Paths <- OneSegment
  MaxDepth = 3
  Habits <- AnyCount
INVARIANTS
  SessionTypeOK
  SavedFreeCount
  DiskSound
  SizesSurvive
CHECK_DEADLOCK FALSE
