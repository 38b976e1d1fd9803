SPECIFICATION Spec
CONSTANTS
  BlockCount = 5
  DataStart = 1
  Name = {a, b}
  a = a
  b = b
  Dot = "."
  DotDot = ".."
  Stored <- NoCut
  EntriesPerBlock = 3
  BlockSize = 1
  WordSize = 16
  WriteSizes = {2}
  ReadSizes = {1, 14, 15}
  MaxFds = 1
  MaxCursor = 2
  Paths <- ShortPaths
  MaxDepth = 3
  Habits <- Careful
INVARIANTS
  TypeOK
  NoSharedBlocks
  ChainsIntact
  BitmapCoversFat
  OpenFilesListed
  CwdIsDirectory
  ParentLinks
  TreeIsFinite
  UniqueNames
  PwdNamesCwd
  EntriesFit
  DiskInv
  NeverLost
  SizeMatchesChain
  TreeShowsEachOnce
  DfCoversTree
PROPERTIES
  CommandsReturn
  BlocksMoveAsPool
  CommandsActOnNames
CHECK_DEADLOCK FALSE
