------------------------------ MODULE Session ------------------------------
(***************************************************************************)
(* Runs of the program (src/src/main.cpp, the loop of src/src/shell.cpp)   *)
(* and the image of the disk that outlives them (load and save in          *)
(* src/src/disk_io.cpp, start, format and exit_fs in src/src/fs_core.cpp). *)
(* The file system of FileSystem works on a buffer in memory; the image    *)
(* data/fs.fsimg is written by format and exit only, by opening the file   *)
(* anew, so that a run cut off meanwhile leaves a file that is too short.  *)
(***************************************************************************)
EXTENDS FileSystem

VARIABLES
  phase,         \* where main has got to, "off" when no program runs
  image,         \* the file data/fs.fsimg
  free_blocks    \* the count of free blocks in the super block

sessionVars == <<phase, image, free_blocks>>
allVars     == <<vars, sessionVars>>

Phase == {"off", "menu", "confirm", "unloaded", "running"}

NoImage  == [state |-> "none"]
BadImage == [state |-> "bad"]

\* Saved by a run whose buffer is damaged: load may take it, and finds nobody knows what.
UnknownImage == [state |-> "unknown"]

Snapshot(f, u, ds, free) ==
  [state |-> "good", fat |-> f, bitmap |-> u, dir |-> ds, free |-> free]

\* Slip: the difference is taken the wrong way round.
FreeCountNegated(u) == Cardinality(u) - BlockCount

FreeCount(u) == BlockCount - Cardinality(u)

---------------------------------------------------------------------------
(* The disk buffer and the image *)

\* What save can make of the image when it is to write img: the file cannot be
\* opened, it is written in part, it is written.
Saved(img) == {image, BadImage, img}

FormatFree == BlockCount - DataStart - 1

FreshDisk ==
  /\ fat' = FormatFat /\ bitmap' = FormatBitmap /\ dir' = FormatDir
  /\ free_blocks' = FormatFree
  /\ cur_block' = Root /\ path_stack' = <<>>

FormatSaves == image' \in Saved(Snapshot(FormatFat, FormatBitmap, FormatDir, FormatFree))

\* Slip: the bitmap is initialised, not loaded.
LoadedDiskNewBitmap ==
  /\ fat' = image.fat /\ bitmap' = FormatBitmap /\ dir' = image.dir
  /\ free_blocks' = image.free
  /\ cur_block' = Root /\ path_stack' = <<>>

LoadedDisk ==
  /\ fat' = image.fat /\ bitmap' = image.bitmap /\ dir' = image.dir
  /\ free_blocks' = image.free
  /\ cur_block' = Root /\ path_stack' = <<>>

---------------------------------------------------------------------------
(* main *)

\* A new process has empty tables of open files and a disk buffer of zeros,
\* which nothing looks at before it is formatted or loaded.
Launch ==
  /\ phase = "off"
  /\ phase' = IF image = NoImage THEN "unloaded" ELSE "menu"
  /\ sys_files' = <<>> /\ user_fds' = {} /\ next_fd' = 0
  /\ op' = Idle
  /\ UNCHANGED <<diskVars, fsVars, image, free_blocks>>

\* Choice 1: the image is loaded, or, if it cannot be read or is no good, replaced.
ChooseLoad ==
  /\ phase = "menu"
  /\ \/ image.state = "good" /\ LoadedDisk /\ UNCHANGED image
     \/ FreshDisk /\ FormatSaves
  /\ phase' = "running"
  /\ UNCHANGED <<openVars, op>>

\* An image of which nothing is known may have the right length and magic number;
\* the run that goes on with it knows no more.
LoadUnknown ==
  /\ phase = "menu"
  /\ image.state = "unknown"
  /\ op' = Lost
  /\ phase' = "running"
  /\ UNCHANGED <<diskVars, openVars, fsVars, image, free_blocks>>

\* Any other choice asks for a confirmation.
ChooseFormat ==
  /\ phase = "menu"
  /\ phase' = "confirm"
  /\ UNCHANGED <<vars, image, free_blocks>>

ConfirmYes ==
  /\ phase = "confirm"
  /\ FreshDisk /\ FormatSaves
  /\ phase' = "running"
  /\ UNCHANGED <<openVars, op>>

\* main goes on with loaded = false.
ConfirmNo ==
  /\ phase = "confirm"
  /\ phase' = "unloaded"
  /\ UNCHANGED <<vars, image, free_blocks>>

\* if (!loaded) fs.format()
FormatUnloaded ==
  /\ phase = "unloaded"
  /\ FreshDisk /\ FormatSaves
  /\ phase' = "running"
  /\ UNCHANGED <<openVars, op>>

Startup ==
  ChooseLoad \/ LoadUnknown \/ ChooseFormat \/ ConfirmYes \/ ConfirmNo \/ FormatUnloaded

---------------------------------------------------------------------------
(* The shell *)

Command ==
  /\ phase = "running"
  /\ FileCommand \/ DirectoryCommand \/ Turn
  /\ UNCHANGED sessionVars

FormatCommand ==
  /\ phase = "running"
  /\ CanFormat
  /\ Format
  /\ free_blocks' = FormatFree
  /\ FormatSaves
  /\ UNCHANGED phase

CanExit == Allows("close before exit", user_fds = {})

\* Slip: the super block is saved with the count it had.
ExitOldCount ==
  /\ phase = "running"
  /\ op = Idle
  /\ CanExit
  /\ image' \in Saved(Snapshot(fat, bitmap, dir, free_blocks))
  /\ phase' = "off"
  /\ UNCHANGED <<vars, free_blocks>>

\* exit_fs; the shell stops whether or not the image could be saved.
Exit ==
  /\ phase = "running"
  /\ op = Idle
  /\ CanExit
  /\ free_blocks' = FreeCount(bitmap)
  /\ image' \in Saved(Snapshot(fat, bitmap, dir, free_blocks'))
  /\ phase' = "off"
  /\ UNCHANGED vars

\* exit or format once the run is Lost: text may be where entries were, and save
\* writes whatever the buffer has.
SaveLost ==
  /\ phase = "running"
  /\ op = Lost
  /\ image' \in Saved(UnknownImage)
  /\ phase' \in {"running", "off"}
  /\ UNCHANGED <<vars, free_blocks>>

\* The process ends without exit: the end of the input, an exception of stoi,
\* a signal.  Nothing is saved.
Abort ==
  /\ phase # "off"
  /\ phase' = "off"
  /\ UNCHANGED <<vars, image, free_blocks>>

\* Before the first run there is no image.  What the buffer has before it is formatted
\* or loaded is never looked at.
SessionInit ==
  /\ Init
  /\ phase = "off" /\ image = NoImage /\ free_blocks = 0

SessionNext ==
  \/ Launch \/ Startup
  \/ Command \/ FormatCommand \/ Exit \/ SaveLost \/ Abort

\* What the program does without being asked: the last step of main before the prompt,
\* and the turns of a command.  The questions of main wait for an answer as long as
\* none is typed.
SessionSpec ==
  SessionInit /\ [][SessionNext]_allVars
    /\ WF_allVars(FormatUnloaded)
    /\ WF_allVars(phase = "running" /\ Turn /\ UNCHANGED sessionVars)

---------------------------------------------------------------------------
(* Properties *)

GoodImage == [state : {"good"}, fat : [Block -> FatValue], bitmap : SUBSET Block,
              dir : [Block -> SUBSET Entry], free : Nat]

SessionTypeOK ==
  /\ TypeOK
  /\ phase \in Phase
  /\ image \in GoodImage \cup {NoImage, BadImage, UnknownImage}
  /\ free_blocks \in Nat

\* The count in the super block of a saved image is the number of blocks its
\* bitmap calls free (format computes it from constants, exit_fs counts).
SavedFreeCount == image.state = "good" => image.free = FreeCount(image.bitmap)

\* A disk in use is sound whatever happened to earlier runs: what a run finds in
\* the image, it can go on with.  Of a run that is Lost nothing is claimed.
DiskSound ==
  phase = "running" /\ op # Lost => NoSharedBlocks /\ ChainsIntact /\ BitmapCoversFat

\* The files of an earlier run have the sizes their blocks call for: exit is not
\* typed before the sizes of open files are written back.
SizesSurvive == phase = "running" => SizeMatchesChain

\* An image found at the start is kept when the user does not agree to formatting.
KeptUnlessAgreed ==
  [][phase = "unloaded" /\ image.state = "good" => image' = image]_allVars
===========================================================================
