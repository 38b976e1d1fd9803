--------------------------- MODULE SessionProofs ---------------------------
(***************************************************************************)
(* Runs of the program one after the other: what outlives them in the      *)
(* image is of the right type, with the right count of free blocks, and,   *)
(* with a user who takes care, a disk the next run can go on with, however *)
(* the run before came to its end, and the sizes of the files with it if   *)
(* they were closed before.                                                *)
(***************************************************************************)
EXTENDS Session, SizeProofs

---------------------------------------------------------------------------
(* The count of free blocks *)

LEMMA CountFacts ==
  /\ FormatFree \in Nat /\ FormatFree = FreeCount(FormatBitmap)
  /\ \A u \in SUBSET Block : FreeCount(u) \in Nat
<1>1. BlockCount \in Nat /\ DataStart \in Nat /\ DataStart >= 1 /\ DataStart <= BlockCount - 1
  BY BlockAssumption
<1>2. IsFiniteSet(Block) /\ Cardinality(Block) = BlockCount
  BY <1>1, FS_Interval DEF Block
<1>3. FormatBitmap = 0 .. DataStart
  BY <1>1 DEF FormatBitmap, MetaBlock, Root
<1>4. Cardinality(FormatBitmap) = DataStart + 1
  <2>1. Cardinality(0 .. DataStart) = DataStart + 1
    BY <1>1, FS_Interval
  <2>. QED  BY <1>3, <2>1
<1>5. ASSUME NEW u \in SUBSET Block
      PROVE  FreeCount(u) \in Nat
  <2>1. IsFiniteSet(u) /\ Cardinality(u) <= BlockCount
    BY <1>2, FS_Subset
  <2>2. Cardinality(u) \in Nat
    BY <2>1, FS_CardinalityType
  <2>. QED  BY <1>1, <2>1, <2>2 DEF FreeCount
<1>6. FormatFree = FreeCount(FormatBitmap) /\ FormatFree \in Nat
  BY <1>1, <1>4 DEF FormatFree, FreeCount
<1>. QED  BY <1>5, <1>6

---------------------------------------------------------------------------
(* Types, and the count in the image *)

\* With what the loop of the shell keeps, and before it starts no file is open.
SessionInv ==
  /\ TypeInv
  /\ phase \in Phase
  /\ image \in GoodImage \cup {NoImage, BadImage, UnknownImage}
  /\ free_blocks \in Nat
  /\ SavedFreeCount
  /\ phase \in {"menu", "confirm", "unloaded"} =>
       sys_files = <<>> /\ user_fds = {} /\ op = Idle

LEMMA ImageStates ==
  /\ NoImage.state = "none" /\ BadImage.state = "bad" /\ UnknownImage.state = "unknown"
  /\ \A f, u, ds, free :
       /\ Snapshot(f, u, ds, free).state = "good" /\ Snapshot(f, u, ds, free).fat = f
       /\ Snapshot(f, u, ds, free).bitmap = u /\ Snapshot(f, u, ds, free).dir = ds
       /\ Snapshot(f, u, ds, free).free = free
BY DEF NoImage, BadImage, UnknownImage, Snapshot

LEMMA GoodImageFacts ==
  ASSUME SessionInv, image.state = "good"
  PROVE  /\ image.fat \in [Block -> FatValue] /\ image.bitmap \in SUBSET Block
         /\ image.dir \in [Block -> SUBSET Entry] /\ image.free \in Nat
<1>1. image \in GoodImage
  BY ImageStates DEF SessionInv
<1>. QED  BY <1>1 DEF GoodImage

LEMMA SnapshotType ==
  ASSUME NEW f \in [Block -> FatValue], NEW u \in SUBSET Block,
         NEW ds \in [Block -> SUBSET Entry], NEW free \in Nat
  PROVE  Snapshot(f, u, ds, free) \in GoodImage
BY DEF Snapshot, GoodImage

\* What save leaves in the image.
LEMMA SaveKeeps ==
  ASSUME SessionInv, NEW f \in [Block -> FatValue], NEW u \in SUBSET Block,
         NEW ds \in [Block -> SUBSET Entry], NEW free \in Nat, free = FreeCount(u),
         image' \in Saved(Snapshot(f, u, ds, free))
  PROVE  image' \in GoodImage \cup {NoImage, BadImage, UnknownImage} /\ SavedFreeCount'
<1>1. CASE image' = image
  BY <1>1 DEF SessionInv, SavedFreeCount
<1>2. CASE image' = BadImage
  BY <1>2, ImageStates DEF SavedFreeCount
<1>3. CASE image' = Snapshot(f, u, ds, free)
  BY <1>3, ImageStates, SnapshotType DEF SavedFreeCount
<1>. QED  BY <1>1, <1>2, <1>3 DEF Saved

\* A disk buffer that is new as a whole, with the tables of a new process.
LEMMA BufferType ==
  ASSUME TypeInv, fat' \in [Block -> FatValue], bitmap' \in SUBSET Block,
         dir' \in [Block -> SUBSET Entry], cur_block' = Root, path_stack' = <<>>,
         UNCHANGED <<openVars, op>>
  PROVE  TypeInv'
<1>1. path_stack' \in Seq(Name) /\ cur_block' \in DataBlock
  BY BlockFacts
<1>. QED  BY <1>1 DEF TypeInv, TypeOK, DirectoryTypeOK, BlocksTypeOK, openVars

LEMMA FreshKeeps ==
  ASSUME SessionInv, FreshDisk, FormatSaves, phase' = "running", UNCHANGED <<openVars, op>>
  PROVE  SessionInv'
<1>1. TypeInv'
  BY FormatTypes, BufferType DEF FreshDisk, SessionInv
<1>2. image' \in GoodImage \cup {NoImage, BadImage, UnknownImage} /\ SavedFreeCount'
  BY FormatTypes, CountFacts, SaveKeeps DEF FormatSaves
<1>. QED  BY <1>1, <1>2, CountFacts DEF SessionInv, FreshDisk, Phase

LEMMA LoadKeeps ==
  ASSUME SessionInv, image.state = "good", LoadedDisk, phase' = "running",
         UNCHANGED <<openVars, op, image>>
  PROVE  SessionInv'
<1>1. TypeInv'
  BY GoodImageFacts, BufferType DEF LoadedDisk, SessionInv
<1>. QED  BY <1>1, GoodImageFacts DEF SessionInv, LoadedDisk, SavedFreeCount, Phase

LEMMA LaunchKeeps ==
  ASSUME SessionInv, Launch
  PROVE  SessionInv'
<1>1. TypeInv'
  <2>1. sys_files' \in Seq(OpenFile)
    BY DEF Launch
  <2>. QED  BY <2>1 DEF Launch, SessionInv, TypeInv, TypeOK, DirectoryTypeOK, BlocksTypeOK,
                       Idle, diskVars, fsVars
<1>. QED  BY <1>1 DEF SessionInv, Launch, Phase, SavedFreeCount

LEMMA ExitKeeps ==
  ASSUME SessionInv, Exit
  PROVE  SessionInv'
<1>1. TypeInv /\ TypeInv'
  BY NextType DEF Exit, SessionInv
<1>2. free_blocks' = FreeCount(bitmap) /\ free_blocks' \in Nat
  BY <1>1, TypeFacts, CountFacts DEF Exit
<1>3. image' \in GoodImage \cup {NoImage, BadImage, UnknownImage} /\ SavedFreeCount'
  BY <1>1, <1>2, TypeFacts, SaveKeeps DEF Exit
<1>. QED  BY <1>1, <1>2, <1>3 DEF SessionInv, Exit, Phase

\* The two steps of a run of which nothing is claimed.
LEMMA LoadUnknownKeeps ==
  ASSUME SessionInv, LoadUnknown
  PROVE  SessionInv'
<1>1. TypeInv'
  BY DEF LoadUnknown, SessionInv, TypeInv, TypeOK, DirectoryTypeOK, BlocksTypeOK, Lost,
         diskVars, openVars, fsVars
<1>. QED  BY <1>1 DEF SessionInv, LoadUnknown, SavedFreeCount, Phase

LEMMA SaveLostKeeps ==
  ASSUME SessionInv, SaveLost
  PROVE  SessionInv'
<1>1. TypeInv'
  BY NextType DEF SaveLost, SessionInv
<1>2. image' \in {image, BadImage, UnknownImage}
  BY DEF SaveLost, Saved
<1>3. SavedFreeCount'
  BY <1>2, ImageStates DEF SessionInv, SavedFreeCount
<1>. QED  BY <1>1, <1>2, <1>3 DEF SessionInv, SaveLost, Phase

\* Steps that change the phase, or run a command.
LEMMA CommandKeeps ==
  ASSUME SessionInv, [Next]_vars, UNCHANGED <<image, free_blocks>>,
         phase' \in Phase, phase' \in {"off", "running"} \/ (UNCHANGED vars /\ phase # "off" /\ phase # "running")
  PROVE  SessionInv'
<1>1. TypeInv'
  BY NextType DEF SessionInv
<1>2. phase' \in {"menu", "confirm", "unloaded"} => sys_files' = <<>> /\ user_fds' = {} /\ op' = Idle
  BY DEF SessionInv, Phase, vars, foVars, openVars
<1>. QED  BY <1>1, <1>2 DEF SessionInv, SavedFreeCount

LEMMA FormatCommandKeeps ==
  ASSUME SessionInv, FormatCommand
  PROVE  SessionInv'
<1>1. TypeInv'
  BY NextType DEF SessionInv, FormatCommand, Next
<1>2. image' \in GoodImage \cup {NoImage, BadImage, UnknownImage} /\ SavedFreeCount'
  BY FormatTypes, CountFacts, SaveKeeps DEF FormatCommand, FormatSaves
<1>. QED  BY <1>1, <1>2, CountFacts DEF SessionInv, FormatCommand

LEMMA InitSession == SessionInit => SessionInv
BY InitType, ImageStates DEF SessionInit, SessionInv, SavedFreeCount, Phase

LEMMA NextSession == SessionInv /\ [SessionNext]_allVars => SessionInv'
<1> SUFFICES ASSUME SessionInv, [SessionNext]_allVars PROVE SessionInv'
  OBVIOUS
<1>1. CASE Launch
  BY <1>1, LaunchKeeps
<1>2. CASE Startup
  <2>1. CASE ChooseLoad
    BY <2>1, LoadKeeps, FreshKeeps DEF ChooseLoad
  <2>2. CASE ChooseFormat \/ ConfirmNo
    BY <2>2, CommandKeeps DEF ChooseFormat, ConfirmNo, Phase
  <2>3. CASE ConfirmYes \/ FormatUnloaded
    BY <2>3, FreshKeeps DEF ConfirmYes, FormatUnloaded
  <2>. QED  BY <1>2, <2>1, <2>2, <2>3, LoadUnknownKeeps DEF Startup
<1>3. CASE Command
  <2>1. [Next]_vars /\ UNCHANGED <<image, free_blocks>> /\ phase' = "running"
    BY <1>3 DEF Command, Next, sessionVars
  <2>. QED  BY <2>1, CommandKeeps DEF Phase
<1>4. CASE FormatCommand
  BY <1>4, FormatCommandKeeps
<1>5. CASE Exit
  BY <1>5, ExitKeeps
<1>6. CASE Abort
  BY <1>6, CommandKeeps DEF Abort, Phase
<1>7. CASE UNCHANGED allVars
  <2>1. UNCHANGED vars /\ UNCHANGED <<phase, image, free_blocks>>
    BY <1>7 DEF allVars, sessionVars
  <2>2. TypeInv'
    BY <2>1, NextType DEF SessionInv
  <2>. QED  BY <2>1, <2>2 DEF SessionInv, SavedFreeCount, vars, foVars, openVars
<1>. QED  BY <1>1, <1>2, <1>3, <1>4, <1>5, <1>6, <1>7, SaveLostKeeps DEF SessionNext

LEMMA SessionsKeep == SessionSpec => []SessionInv
BY InitSession, NextSession, PTL DEF SessionSpec

\* Whatever is typed, and however runs end: as long as a run is not Lost, the buffer in
\* memory has its type, and an image that is not marked as unknown is missing, is cut
\* short, or holds the buffer of a run that was not Lost (save, load).  What a Lost run
\* has in memory or saves is not described by the variables, and nothing is claimed of it.
THEOREM SessionTypeCorrect == SessionSpec => []SessionTypeOK
<1>1. SessionInv => SessionTypeOK
  BY DEF SessionInv, TypeInv, SessionTypeOK
<1>. QED  BY <1>1, SessionsKeep, PTL

\* The count of free blocks in a saved image is right, on a disk of any size: format
\* computes it from constants, exit_fs counts the bits.
THEOREM FreeCountIsSaved == SessionSpec => []SavedFreeCount
<1>1. SessionInv => SavedFreeCount
  BY DEF SessionInv
<1>. QED  BY <1>1, SessionsKeep, PTL

---------------------------------------------------------------------------
(* The disk in the image *)

\* The image, taken for the disk of a process that has just loaded it.
Img == INSTANCE CarefulUse WITH
  fat <- image.fat, bitmap <- image.bitmap, dir <- image.dir,
  sys_files <- <<>>, user_fds <- {}, next_fd <- 0, op <- Idle,
  cur_block <- Root, path_stack <- <<>>

\* What DiskInv says of FAT, bitmap and directories.
BufferSound == Sound(fat, Heads) /\ BitmapCoversFat /\ DirInv
ImageSound  == Sound(image.fat, Img!Heads) /\ Img!BitmapCoversFat /\ Img!DirInv

LEMMA ImageIsBuffer ==
  image.fat = fat /\ image.bitmap = bitmap /\ image.dir = dir => (ImageSound <=> BufferSound)
<1> SUFFICES ASSUME image.fat = fat, image.bitmap = bitmap, image.dir = dir
             PROVE  ImageSound <=> BufferSound
  OBVIOUS
<1>1. /\ \A d : Img!Listed(image.dir, d) = Listed(dir, d)
      /\ \A d, n : Img!Find(image.dir, d, n) = Find(dir, d, n)
      /\ Img!DataBlock = DataBlock /\ Img!Block = Block /\ Img!Root = Root /\ Img!Dots = Dots
      /\ Img!ATTR_DIR = ATTR_DIR /\ Img!FAT_FREE = FAT_FREE
  BY DEF Img!Listed, Listed, Img!Find, Find, Img!DataBlock, DataBlock, Img!Block, Block,
         Img!Root, Root, Img!Dots, Dots, Img!ATTR_DIR, ATTR_DIR, Img!FAT_FREE, FAT_FREE
<1>2. Img!Heads = Heads
  BY <1>1 DEF Img!Heads, Heads
<1>3. Img!Directories = Directories
  BY <1>1 DEF Img!Directories, Directories
<1>4. \A d : Img!ParentBlock(image.dir, d) = ParentBlock(dir, d)
  <2>1. ASSUME NEW ds, NEW d
        PROVE  Img!ParentBlock(ds, d) = ParentBlock(ds, d)
    BY DEF Img!ParentBlock, ParentBlock, Img!Find, Find
  <2>. QED  BY <2>1
<1>5. Img!BitmapCoversFat <=> BitmapCoversFat
  BY <1>1 DEF Img!BitmapCoversFat, BitmapCoversFat
<1>6. Img!EntriesDistinct <=> EntriesDistinct
  BY <1>1 DEF Img!EntriesDistinct, EntriesDistinct
<1>7. Img!KindsAgree <=> KindsAgree
  BY <1>1 DEF Img!KindsAgree, KindsAgree
<1>8. Img!DotsKept <=> DotsKept
  BY <1>1 DEF Img!DotsKept, DotsKept
<1>9. Img!TreeHoldsAll <=> TreeHoldsAll
  BY <1>1, <1>3 DEF Img!TreeHoldsAll, TreeHoldsAll
<1>10. Img!ParentLinks <=> ParentLinks
  BY <1>1, <1>4 DEF Img!ParentLinks, ParentLinks
<1>11. Img!TreeIsFinite <=> TreeIsFinite
  <2>1. ASSUME NEW S, NEW d
        PROVE  (\A e \in Img!Listed(image.dir, d) : e.attr = Img!ATTR_DIR => e.first \notin S)
               <=> (\A e \in Listed(dir, d) : e.attr = ATTR_DIR => e.first \notin S)
    BY <1>1
  <2>. QED  BY <1>3, <2>1 DEF Img!TreeIsFinite, TreeIsFinite
<1>. QED  BY <1>2, <1>5, <1>6, <1>7, <1>8, <1>9, <1>10, <1>11
          DEF ImageSound, BufferSound, Img!DirInv, DirInv

\* With a user who takes care: the disk in memory at all times, and the one in the
\* image when there is one.
CarefulSessionInv ==
  SessionInv /\ CarefulInv /\ (image.state = "good" => ImageSound)

\* A disk that was loaded or formatted by a new process.
LEMMA NewBuffer ==
  ASSUME SessionInv, phase \in {"menu", "confirm", "unloaded"}, UNCHANGED <<openVars, op>>,
         cur_block' = Root, BufferSound', CarefulInv, TypeInv'
  PROVE  CarefulInv'
<1>1. sys_files' = <<>> /\ op' = Idle
  BY DEF SessionInv, openVars
<1>2. TableInv'
  BY TablesKept DEF CarefulInv
<1>3. Root \in Directories'
  BY InDirectories
<1>4. OpenFilesListed' /\ RecordsInv' /\ CwdIsDirectory'
  BY <1>1, <1>3 DEF OpenFilesListed, RecordsInv, CwdIsDirectory, Idle
<1>. QED  BY <1>2, <1>4 DEF CarefulInv, DiskInv, BufferSound

\* An image that is left alone.
LEMMA ImageLeft ==
  ASSUME UNCHANGED image
  PROVE  ImageSound <=> ImageSound'
<1>1. Img!Heads' = Img!Heads /\ Img!Directories' = Img!Directories
  BY DEF Img!Heads, Img!Directories
<1>2. Img!BitmapCoversFat <=> Img!BitmapCoversFat'
  BY DEF Img!BitmapCoversFat
<1>3. /\ Img!EntriesDistinct <=> Img!EntriesDistinct'
      /\ Img!KindsAgree <=> Img!KindsAgree'
      /\ Img!DotsKept <=> Img!DotsKept'
  BY DEF Img!EntriesDistinct, Img!KindsAgree, Img!DotsKept
<1>4. /\ Img!TreeHoldsAll <=> Img!TreeHoldsAll'
      /\ Img!ParentLinks <=> Img!ParentLinks'
      /\ Img!TreeIsFinite <=> Img!TreeIsFinite'
  BY <1>1 DEF Img!TreeHoldsAll, Img!ParentLinks, Img!TreeIsFinite
<1>. QED  BY <1>1, <1>2, <1>3, <1>4 DEF ImageSound, Img!DirInv

\* What save leaves in the image, when the buffer is sound.
LEMMA SavesSound ==
  ASSUME image.state = "good" => ImageSound, BufferSound', NEW free,
         image' \in Saved(Snapshot(fat', bitmap', dir', free))
  PROVE  (image.state = "good" => ImageSound)'
<1>1. CASE image' = image
  BY <1>1, ImageLeft
<1>2. CASE image' = BadImage
  BY <1>2, ImageStates
<1>3. CASE image' = Snapshot(fat', bitmap', dir', free)
  <2>1. (image.fat = fat /\ image.bitmap = bitmap /\ image.dir = dir)'
    BY <1>3, ImageStates
  <2>2. (ImageSound <=> BufferSound)'
    BY <2>1, ImageIsBuffer, PTL
  <2>. QED  BY <2>2
<1>. QED  BY <1>1, <1>2, <1>3 DEF Saved

LEMMA FreshCareful ==
  ASSUME CarefulSessionInv, phase \in {"menu", "confirm", "unloaded"}, FreshDisk, FormatSaves,
         UNCHANGED <<openVars, op>>, SessionInv'
  PROVE  CarefulSessionInv'
<1>1. Formatted'
  BY DEF Formatted, FreshDisk, CarefulSessionInv, SessionInv, openVars
<1>2. DiskInv'
  BY <1>1, FormatDisk, PTL
<1>3. BufferSound'
  BY <1>2 DEF DiskInv, BufferSound
<1>4. CarefulInv'
  BY <1>2, TablesKept DEF CarefulInv, CarefulSessionInv, SessionInv
<1>5. image' \in Saved(Snapshot(fat', bitmap', dir', FormatFree))
  BY DEF FormatSaves, FreshDisk
<1>6. (image.state = "good" => ImageSound)'
  BY <1>3, <1>5, SavesSound DEF CarefulSessionInv
<1>. QED  BY <1>4, <1>6 DEF CarefulSessionInv

LEMMA LoadCareful ==
  ASSUME CarefulSessionInv, phase = "menu", image.state = "good", LoadedDisk,
         UNCHANGED <<openVars, op, image>>, SessionInv'
  PROVE  CarefulSessionInv'
<1>1. ImageSound'
  BY ImageLeft DEF CarefulSessionInv
<1>2. (image.fat = fat /\ image.bitmap = bitmap /\ image.dir = dir)'
  BY DEF LoadedDisk
<1>3. (ImageSound <=> BufferSound)'
  BY <1>2, ImageIsBuffer, PTL
<1>4. CarefulInv'
  BY <1>1, <1>3, NewBuffer DEF CarefulSessionInv, SessionInv, LoadedDisk
<1>. QED  BY <1>1, <1>4 DEF CarefulSessionInv

LEMMA LaunchCareful ==
  ASSUME CarefulSessionInv, Launch, SessionInv'
  PROVE  CarefulSessionInv'
<1>1. /\ sys_files' = <<>> /\ user_fds' = {} /\ op' = Idle
      /\ UNCHANGED <<fat, bitmap, dir, cur_block, image>>
  BY DEF Launch, diskVars, fsVars
<1>2. DOMAIN sys_files' = {}
  BY <1>1
<1>3. TableInv'
  BY <1>1, <1>2, FS_EmptySet
     DEF SessionInv, TableInv, FdsFresh, DescriptorsCounted, OneRecordPerFile, CursorInFile
<1>4. DirInv' /\ Heads' = Heads /\ Directories' = Directories
  BY <1>1, DirKept DEF CarefulSessionInv, CarefulInv, DiskInv
<1>5. Sound(fat', Heads') /\ BitmapCoversFat' /\ CwdIsDirectory'
  BY <1>1, <1>4
     DEF CarefulSessionInv, CarefulInv, DiskInv, BitmapCoversFat, CwdIsDirectory, Idle
<1>6. OpenFilesListed' /\ RecordsInv'
  BY <1>1, <1>2 DEF OpenFilesListed, RecordsInv, Idle
<1>7. CarefulInv'
  BY <1>3, <1>4, <1>5, <1>6 DEF CarefulInv, DiskInv
<1>. QED  BY <1>1, <1>7, ImageLeft DEF CarefulSessionInv

LEMMA LoadUnknownCareful ==
  ASSUME CarefulSessionInv, LoadUnknown, SessionInv'
  PROVE  CarefulSessionInv'
<1>1. op' = Lost /\ UNCHANGED <<openVars, fat, bitmap, dir, cur_block, image>>
  BY DEF LoadUnknown, diskVars, fsVars
<1>2. TableInv' /\ op'.cmd = "lost"
  BY <1>1, TablesKept DEF CarefulSessionInv, CarefulInv, SessionInv, Lost
<1>3. DirInv' /\ Heads' = Heads /\ Directories' = Directories
  BY <1>1, DirKept DEF CarefulSessionInv, CarefulInv, DiskInv
<1>4. Sound(fat', Heads') /\ BitmapCoversFat' /\ CwdIsDirectory'
  BY <1>1, <1>2, <1>3
     DEF CarefulSessionInv, CarefulInv, DiskInv, BitmapCoversFat, CwdIsDirectory
<1>5. OpenFilesListed' /\ RecordsInv'
  BY <1>1, <1>2
     DEF CarefulSessionInv, CarefulInv, DiskInv, OpenFilesListed, RecordsInv, InUse, openVars
<1>6. CarefulInv'
  BY <1>2, <1>3, <1>4, <1>5 DEF CarefulInv, DiskInv
<1>. QED  BY <1>1, <1>6, ImageLeft DEF CarefulSessionInv

LEMMA SaveLostCareful ==
  ASSUME UsedWithCare, CarefulSessionInv, SaveLost, SessionInv'
  PROVE  CarefulSessionInv'
<1>1. CarefulInv'
  BY NextCareful DEF CarefulSessionInv, SaveLost
<1>2. CASE image' = image
  BY <1>1, <1>2, ImageLeft DEF CarefulSessionInv
<1>3. CASE image' \in {BadImage, UnknownImage}
  BY <1>1, <1>3, ImageStates DEF CarefulSessionInv
<1>. QED  BY <1>2, <1>3 DEF SaveLost, Saved

\* A command, or a step of main that leaves everything else alone.
LEMMA CommandCareful ==
  ASSUME UsedWithCare, CarefulSessionInv, [Next]_vars, UNCHANGED image, SessionInv'
  PROVE  CarefulSessionInv'
BY NextCareful, ImageLeft DEF CarefulSessionInv

LEMMA SavingCareful ==
  ASSUME UsedWithCare, CarefulSessionInv, [Next]_vars, SessionInv', NEW free,
         image' \in Saved(Snapshot(fat', bitmap', dir', free))
  PROVE  CarefulSessionInv'
<1>1. CarefulInv'
  BY NextCareful DEF CarefulSessionInv
<1>2. BufferSound'
  BY <1>1 DEF CarefulInv, DiskInv, BufferSound
<1>. QED  BY <1>1, <1>2, SavesSound DEF CarefulSessionInv

LEMMA NextCarefulSession ==
  UsedWithCare /\ CarefulSessionInv /\ [SessionNext]_allVars => CarefulSessionInv'
<1> SUFFICES ASSUME UsedWithCare, CarefulSessionInv, [SessionNext]_allVars
             PROVE  CarefulSessionInv'
  OBVIOUS
<1>1. SessionInv'
  BY NextSession DEF CarefulSessionInv
<1>2. CASE Launch
  BY <1>1, <1>2, LaunchCareful
<1>3. CASE Startup
  <2>1. CASE ChooseLoad
    BY <1>1, <2>1, LoadCareful, FreshCareful DEF ChooseLoad
  <2>2. CASE ChooseFormat \/ ConfirmNo
    BY <1>1, <2>2, CommandCareful DEF ChooseFormat, ConfirmNo
  <2>3. CASE ConfirmYes \/ FormatUnloaded
    BY <1>1, <2>3, FreshCareful DEF ConfirmYes, FormatUnloaded
  <2>4. CASE LoadUnknown
    BY <1>1, <2>4, LoadUnknownCareful
  <2>. QED  BY <1>3, <2>1, <2>2, <2>3, <2>4 DEF Startup
<1>4. CASE Command
  <2>1. [Next]_vars /\ UNCHANGED image
    BY <1>4 DEF Command, Next, sessionVars
  <2>. QED  BY <1>1, <2>1, CommandCareful
<1>5. CASE FormatCommand
  <2>1. [Next]_vars /\ image' \in Saved(Snapshot(fat', bitmap', dir', FormatFree))
    BY <1>5 DEF FormatCommand, Next, Format, FormatSaves
  <2>. QED  BY <1>1, <2>1, SavingCareful
<1>6. CASE Exit
  <2>1. [Next]_vars /\ image' \in Saved(Snapshot(fat', bitmap', dir', free_blocks'))
    BY <1>6 DEF Exit, vars, foVars, diskVars
  <2>. QED  BY <1>1, <2>1, SavingCareful
<1>7. CASE Abort
  BY <1>1, <1>7, CommandCareful DEF Abort
<1>8. CASE UNCHANGED allVars
  BY <1>1, <1>8, CommandCareful DEF allVars, sessionVars
<1>9. CASE SaveLost
  BY <1>1, <1>9, SaveLostCareful
<1>. QED  BY <1>2, <1>3, <1>4, <1>5, <1>6, <1>7, <1>8, <1>9 DEF SessionNext

LEMMA InitCarefulSession == SessionInit => CarefulSessionInv
BY InitSession, InitCareful, ImageStates DEF SessionInit, CarefulSessionInv

\* With a user who takes care, a run always works on a sound disk, however the runs
\* before it ended: cut off, with an image that could not be written, or by exit.  A run
\* that read with a count that wraps around is Lost, and is not spoken of, nor is one
\* that loads what a Lost run has saved.
THEOREM RunsGoOn ==
  ASSUME UsedWithCare
  PROVE  SessionSpec => []DiskSound
<1>1. CarefulSessionInv /\ [SessionNext]_allVars => CarefulSessionInv'
  BY NextCarefulSession
<1>2. CarefulSessionInv => DiskSound
  <2> SUFFICES ASSUME CarefulSessionInv PROVE NoSharedBlocks /\ ChainsIntact /\ BitmapCoversFat
    BY DEF DiskSound
  <2>. QED  BY DiskImplies DEF CarefulSessionInv, CarefulInv, TableInv, TypeInv, DiskInv
<1>. QED  BY <1>1, <1>2, InitCarefulSession, PTL DEF SessionSpec

---------------------------------------------------------------------------
(* The sizes in the image *)

\* The sizes and names of a disk that nobody works on.
FilesFit(f, ds) ==
  \A d \in DataBlock : \A e \in Listed(ds, d) :
    e.attr = ATTR_FILE => Cardinality(Chain(f, e.first)) = BlocksFor(e.size)

NamesApart(ds) == \A d \in DataBlock : \A e, k \in ds[d] : e.name = k.name => e = k

BufferFits == sys_files = <<>> /\ user_fds = {} /\ FilesFit(fat, dir)
ImageFits  == FilesFit(image.fat, image.dir) /\ NamesApart(image.dir)

\* The records of the last run are gone when a new process starts, and with them what
\* SizeInv says of the buffer; only a disk that was loaded or formatted has it again,
\* and not the one of a run that is Lost from its start.
OrderlySessionInv ==
  /\ CarefulSessionInv
  /\ UniqueNames
  /\ phase = "running" /\ op # Lost => SizeInv
  /\ image.state = "good" => ImageFits

\* A new process knows of no open file.
LEMMA NothingOpenFits ==
  user_fds = {} /\ TableInv => (ClosedSizes <=> FilesFit(fat, dir))
<1> SUFFICES ASSUME user_fds = {}, TableInv
             PROVE  ClosedSizes <=> FilesFit(fat, dir)
  OBVIOUS
<1>1. \A b : ~IsOpen(b)
  BY DEF IsOpen
<1>. QED  BY <1>1 DEF ClosedSizes, FilesFit

LEMMA EmptyTablesSizes == BufferFits /\ TableInv => SizeInv
<1>1. sys_files = <<>> => DOMAIN sys_files = {}
  OBVIOUS
<1>. QED  BY <1>1, NothingOpenFits DEF BufferFits, SizeInv, RecordsNamed, OpenSizes

LEMMA FormatFits == FilesFit(FormatFat, FormatDir) /\ NamesApart(FormatDir)
<1>1. \A d \in DataBlock : FormatDir[d] = {} \/ FormatDir[d] = InitDir(Root, Root)
  BY BlockFacts DEF FormatDir
<1>2. \A k \in InitDir(Root, Root) : k.name \in Dots
  BY DEF InitDir, NewEntry, StoredName, Dots
<1>3. \A d \in DataBlock : Listed(FormatDir, d) = {}
  BY <1>1, <1>2 DEF Listed
<1>. QED  BY <1>1, <1>3, InitDirNames DEF FilesFit, NamesApart

\* What save leaves in the image, when the disk in memory fits.
LEMMA SavesFit ==
  ASSUME image.state = "good" => ImageFits, NEW f, NEW u, NEW ds, NEW free,
         FilesFit(f, ds), NamesApart(ds), image' \in Saved(Snapshot(f, u, ds, free))
  PROVE  (image.state = "good" => ImageFits)'
<1>1. CASE image' = image
  BY <1>1 DEF ImageFits, FilesFit, NamesApart
<1>2. CASE image' = BadImage
  BY <1>2, ImageStates
<1>3. CASE image' = Snapshot(f, u, ds, free)
  BY <1>3, ImageStates DEF ImageFits, FilesFit, NamesApart
<1>. QED  BY <1>1, <1>2, <1>3 DEF Saved

\* The disk of a run that starts: formatted, or loaded.
LEMMA StartsFitting ==
  ASSUME OrderlySessionInv, phase \in {"menu", "confirm", "unloaded"}, CarefulSessionInv',
         UNCHANGED <<openVars, op>>, FilesFit(fat', dir'), NamesApart(dir')
  PROVE  SizeInv' /\ UniqueNames'
<1>1. sys_files' = <<>> /\ user_fds' = {}
  BY DEF OrderlySessionInv, CarefulSessionInv, SessionInv, openVars
<1>2. TableInv'
  BY DEF CarefulSessionInv, CarefulInv
<1>3. BufferFits'
  BY <1>1 DEF BufferFits, FilesFit
<1>4. SizeInv'
  BY <1>2, <1>3, EmptyTablesSizes, PTL
<1>. QED  BY <1>4 DEF NamesApart, UniqueNames

LEMMA FreshOrderly ==
  ASSUME OrderlySessionInv, phase \in {"menu", "confirm", "unloaded"}, FreshDisk, FormatSaves,
         UNCHANGED <<openVars, op>>, CarefulSessionInv'
  PROVE  OrderlySessionInv'
<1>1. SizeInv' /\ UniqueNames'
  BY FormatFits, StartsFitting DEF FreshDisk
<1>2. (image.state = "good" => ImageFits)'
  BY FormatFits, SavesFit DEF FormatSaves, OrderlySessionInv
<1>. QED  BY <1>1, <1>2 DEF OrderlySessionInv

LEMMA LoadOrderly ==
  ASSUME OrderlySessionInv, phase = "menu", image.state = "good", LoadedDisk,
         UNCHANGED <<openVars, op, image>>, CarefulSessionInv'
  PROVE  OrderlySessionInv'
<1>1. SizeInv' /\ UniqueNames'
  BY StartsFitting DEF LoadedDisk, OrderlySessionInv, ImageFits
<1>2. (image.state = "good" => ImageFits)'
  BY DEF OrderlySessionInv, ImageFits, FilesFit, NamesApart
<1>. QED  BY <1>1, <1>2 DEF OrderlySessionInv

\* Steps in which nobody works on the disk.
LEMMA QuietOrderly ==
  ASSUME OrderlySessionInv, CarefulSessionInv', UNCHANGED <<dir, image>>, phase' # "running"
  PROVE  OrderlySessionInv'
<1>1. (image.state = "good" => ImageFits)'
  BY DEF OrderlySessionInv, ImageFits, FilesFit, NamesApart
<1>. QED  BY <1>1 DEF OrderlySessionInv, UniqueNames

\* No command is carried out in a run that is Lost.
LEMMA LostStays ==
  ASSUME op = Lost, [Next]_vars
  PROVE  UNCHANGED vars
<1>1. op # Idle /\ op.cmd # "write" /\ op.cmd # "cd"
  BY DEF Idle, Lost
<1>2. ~FileCommand
  BY <1>1, Zenon DEF FileCommand, Create, Open, Remove, Close, Read, Write
<1>3. ~DirectoryCommand
  BY <1>1, Zenon DEF DirectoryCommand, Mkdir, Rmdir, Rename, Cd
<1>4. ~Format /\ ~Turn
  BY <1>1, Zenon DEF Format, Turn, Loop, WriteBlock, WriteEnd, CdUp, CdDown, CdFail, CdEnd
<1>. QED  BY <1>2, <1>3, <1>4 DEF Next

LEMMA CommandOrderly ==
  ASSUME Orderly, OrderlySessionInv, CarefulSessionInv', phase = "running", [Next]_vars
  PROVE  (op' # Lost => SizeInv') /\ UniqueNames'
<1>1. CASE op = Lost
  <2>1. op' = Lost /\ UNCHANGED dir
    BY <1>1, LostStays DEF vars, foVars, diskVars
  <2>. QED  BY <2>1 DEF OrderlySessionInv, UniqueNames
<1>2. CASE op # Lost
  <2>1. OrderlyInv
    BY <1>2 DEF OrderlySessionInv, CarefulSessionInv, OrderlyInv
  <2>. QED  BY <2>1, NextOrderly DEF OrderlyInv
<1>. QED  BY <1>1, <1>2

\* The two steps of a run of which nothing is claimed.
LEMMA LostOrderly ==
  ASSUME OrderlySessionInv, CarefulSessionInv', LoadUnknown \/ SaveLost
  PROVE  OrderlySessionInv'
<1>1. op' = Lost /\ UNCHANGED dir
  BY DEF LoadUnknown, SaveLost, vars, foVars, diskVars
<1>2. image' \in {image, BadImage, UnknownImage}
  BY DEF LoadUnknown, SaveLost, Saved
<1>3. (image.state = "good" => ImageFits)'
  BY <1>2, ImageStates DEF OrderlySessionInv, ImageFits, FilesFit, NamesApart
<1>. QED  BY <1>1, <1>3 DEF OrderlySessionInv, UniqueNames

\* exit with all files closed: the entries have the sizes.
LEMMA ExitOrderly ==
  ASSUME Orderly, "close before exit" \in Habits, OrderlySessionInv, CarefulSessionInv', Exit
  PROVE  OrderlySessionInv'
<1>1. user_fds = {} /\ TableInv /\ ClosedSizes /\ UniqueNames
  BY DEF Exit, Idle, Lost, CanExit, Allows, OrderlySessionInv, CarefulSessionInv, CarefulInv,
         SizeInv
<1>2. FilesFit(fat, dir) /\ NamesApart(dir)
  BY <1>1, NothingOpenFits DEF UniqueNames, NamesApart
<1>3. image' \in Saved(Snapshot(fat, bitmap, dir, free_blocks'))
  BY DEF Exit
<1>4. (image.state = "good" => ImageFits)'
  BY <1>2, <1>3, SavesFit DEF OrderlySessionInv
<1>5. UniqueNames' /\ phase' # "running"
  BY <1>1 DEF Exit, vars, foVars, diskVars, UniqueNames
<1>. QED  BY <1>4, <1>5 DEF OrderlySessionInv

LEMMA NextOrderlySession ==
  Orderly /\ "close before exit" \in Habits /\ OrderlySessionInv /\ [SessionNext]_allVars
    => OrderlySessionInv'
<1> SUFFICES ASSUME Orderly, "close before exit" \in Habits, OrderlySessionInv,
                    [SessionNext]_allVars
             PROVE  OrderlySessionInv'
  OBVIOUS
<1>1. CarefulSessionInv'
  BY NextCarefulSession DEF Orderly, OrderlySessionInv
<1>2. CASE Launch \/ ChooseFormat \/ ConfirmNo \/ Abort
  <2>1. UNCHANGED <<dir, image>> /\ phase' # "running"
    BY <1>2 DEF Launch, ChooseFormat, ConfirmNo, Abort, vars, foVars, diskVars
  <2>. QED  BY <1>1, <2>1, QuietOrderly
<1>3. CASE ChooseLoad \/ ConfirmYes \/ FormatUnloaded
  BY <1>1, <1>3, LoadOrderly, FreshOrderly DEF ChooseLoad, ConfirmYes, FormatUnloaded
<1>4. CASE Command
  <2>1. phase = "running" /\ [Next]_vars /\ UNCHANGED image
    BY <1>4 DEF Command, Next, sessionVars
  <2>2. (image.state = "good" => ImageFits)'
    BY <2>1 DEF OrderlySessionInv, ImageFits, FilesFit, NamesApart
  <2>. QED  BY <1>1, <2>1, <2>2, CommandOrderly DEF OrderlySessionInv
<1>5. CASE FormatCommand
  <2>1. phase = "running" /\ [Next]_vars
    BY <1>5 DEF FormatCommand, Next
  <2>2. (image.state = "good" => ImageFits)'
    BY <1>5, FormatFits, SavesFit DEF FormatCommand, FormatSaves, OrderlySessionInv
  <2>. QED  BY <1>1, <2>1, <2>2, CommandOrderly DEF OrderlySessionInv
<1>6. CASE Exit
  BY <1>1, <1>6, ExitOrderly
<1>7. CASE UNCHANGED allVars
  <2>1. [Next]_vars /\ UNCHANGED <<dir, image, phase>>
    BY <1>7 DEF allVars, sessionVars, vars, foVars, diskVars
  <2>2. (image.state = "good" => ImageFits)'
    BY <2>1 DEF OrderlySessionInv, ImageFits, FilesFit, NamesApart
  <2>3. UniqueNames'
    BY <2>1 DEF OrderlySessionInv, UniqueNames
  <2>4. phase' = "running" /\ op' # Lost => SizeInv'
    BY <1>1, <2>1, CommandOrderly
  <2>. QED  BY <1>1, <2>2, <2>3, <2>4 DEF OrderlySessionInv
<1>8. CASE LoadUnknown \/ SaveLost
  BY <1>1, <1>8, LostOrderly
<1>. QED  BY <1>2, <1>3, <1>4, <1>5, <1>6, <1>7, <1>8 DEF SessionNext, Startup

LEMMA InitOrderlySession == SessionInit => OrderlySessionInv
<1> SUFFICES ASSUME SessionInit PROVE OrderlySessionInv
  OBVIOUS
<1>1. CarefulSessionInv /\ UniqueNames
  BY InitCarefulSession, InitNames DEF SessionInit
<1>2. phase # "running" /\ image.state # "good"
  BY ImageStates DEF SessionInit
<1>. QED  BY <1>1, <1>2 DEF OrderlySessionInv

\* With a user who closes all files before exit, and takes care besides, the files of
\* an earlier run have the sizes their blocks call for, on a disk of any size, however
\* runs end and whether or not the image could be written (close, exit_fs, load).
THEOREM SizesSurviveRuns ==
  ASSUME Orderly, "close before exit" \in Habits
  PROVE  SessionSpec => []SizesSurvive
<1>1. OrderlySessionInv => SizesSurvive
  <2>1. Idle # Lost
    BY DEF Idle, Lost
  <2>. QED  BY <2>1, SizesMatch
       DEF OrderlySessionInv, CarefulSessionInv, CarefulInv, SizesSurvive, SizeMatchesChain
<1>2. OrderlySessionInv /\ [SessionNext]_allVars => OrderlySessionInv'
  BY NextOrderlySession
<1>. QED  BY <1>1, <1>2, InitOrderlySession, PTL DEF SessionSpec
===========================================================================
