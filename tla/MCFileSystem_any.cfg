SPECIFICATION Spec
CONSTANTS
  BlockCount = 4
  DataStart = 1
  Name = {a, b}
  a = a
  b = b
  Dot = "."
  DotDot = ".."
  Stored <- NoCut
  EntriesPerBlock = 3
  BlockSize = 1
  WordSize = 16
  WriteSizes = {1}
  ReadSizes = {1, 15}
  MaxFds = 2
  MaxCursor = 2
  Paths <- OneSegment
  MaxDepth = 1
  Habits <- DotsAndSlashes
INVARIANTS
  DescriptorsCounted
  OneRecordPerFile
  CursorInFile
  EntriesFit
PROPERTIES
  WritesReturn
CHECK_DEADLOCK FALSE
