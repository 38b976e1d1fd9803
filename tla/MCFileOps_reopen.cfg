SPECIFICATION FOSpec
CONSTANTS
  BlockCount = 4
  DataStart = 1
  Name = {n1, n2}
  n1 = n1
  n2 = n2
  Dot = "."
  DotDot = ".."
  Stored <- NoCut
  EntriesPerBlock = 3
  BlockSize = 1
  WordSize = 16
  WriteSizes = {1}
  ReadSizes = {1}
  MaxFds = 2
  MaxCursor = 2
  Habits <- DeletesOpenFiles
PROPERTIES
  OpenLeadsToFile
CHECK_DEADLOCK FALSE
