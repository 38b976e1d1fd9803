SPECIFICATION FOSpec
CONSTANTS
  BlockCount = 5
  DataStart = 1
  Name = {n1, n2}
  n1 = n1
  n2 = n2
  Dot = "."
  DotDot = ".."
  Stored <- NoCut
  EntriesPerBlock = 3
  BlockSize = 1
  WordSize = 16
  WriteSizes = {2}
  ReadSizes = {1}
  MaxFds = 1
  MaxCursor = 3
  Habits <- Careful
PROPERTIES
  FreedIsReclaimed
CHECK_DEADLOCK FALSE
