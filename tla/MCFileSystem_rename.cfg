SPECIFICATION Spec
CONSTANTS
  BlockCount = 4
  DataStart = 1
  Name = {a, b}
  a = a
  b = b
  Dot = "."
  DotDot = ".."
  Stored <- NoCut
  EntriesPerBlock = 3
  BlockSize = 1
  WordSize = 16
  WriteSizes = {2}
  ReadSizes = {1}
  MaxFds = 1
  MaxCursor = 2
  Paths <- NoPaths
  MaxDepth = 3
  Habits <- RenamesOpenFiles
PROPERTIES
  CloseSavesSize
CHECK_DEADLOCK FALSE
