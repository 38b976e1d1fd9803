SPECIFICATION ContentsSpec
CONSTANTS
  BlockCount = 6
  DataStart = 1
  Name = {n1, n2}
  n1 = n1
  n2 = n2
  x = x
  y = y
  Zero = Zero
  Dot = "."
  DotDot = ".."
  Stored <- NoCut
  EntriesPerBlock = 3
  BlockSize = 2
  WordSize = 16
  Texts <- OneText
  WriteSizes = {3}
  ReadSizes = {2}
  MaxFds = 2
  MaxCursor = 3
  Habits <- Careful
PROPERTIES
  CatShowsAll
CHECK_DEADLOCK FALSE
