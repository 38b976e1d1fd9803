---------------------------- MODULE CarefulUse ----------------------------
(***************************************************************************)
(* The file system used with care: files are closed before they are        *)
(* deleted and before the disk is formatted, and "." and ".." are not      *)
(* renamed.  DiskInv is what every command then keeps, and from which the  *)
(* properties of blocks and directories follow.  It speaks of single links *)
(* and entries, where NoSharedBlocks and ChainsIntact speak of chains.     *)
(***************************************************************************)
EXTENDS FileSystem

UsedWithCare ==
  {"close before delete", "close before format", "keep dots"} \subseteq Habits

\* No two entries stand for the same file or directory.
EntriesDistinct ==
  \A c, d \in DataBlock : \A e \in Listed(dir, c), k \in Listed(dir, d) :
    e.first = k.first => c = d /\ e = k

\* An entry marked as a directory leads to a directory other than the root, an
\* entry marked as a file does not lead to a directory.
KindsAgree ==
  \A d \in DataBlock : \A e \in Listed(dir, d) :
    /\ e.first # Root
    /\ e.attr = ATTR_DIR <=> dir[e.first] # {}

\* A directory has "." and "..", and nothing else is called so.
DotsKept ==
  /\ dir[Root] # {}
  /\ \A d \in DataBlock :
       /\ dir[d] # {} => Find(dir, d, Dot) # {} /\ Find(dir, d, DotDot) # {}
       /\ \A e \in dir[d] : e.name \in Dots => e.attr = ATTR_DIR

\* A directory with something in it is a directory of the tree; one that mkdir
\* could not enter anywhere stays empty.
TreeHoldsAll == \A d \in DataBlock : Listed(dir, d) # {} => d \in Directories

DirInv ==
  EntriesDistinct /\ KindsAgree /\ DotsKept /\ TreeHoldsAll /\ ParentLinks /\ TreeIsFinite

\* A record keeps the name of a file, and a running write has a record in use.
RecordsInv ==
  /\ \A i \in DOMAIN sys_files : sys_files[i].name \notin Dots
  /\ op.cmd = "write" => InUse(op.file)

\* Everything together, with a user who takes care.  It relates the FAT to the
\* bitmap, both to the directories, the directories to each other, and the open
\* files and the working directory to them.
DiskInv ==
  /\ Sound(fat, Heads) /\ BitmapCoversFat
  /\ DirInv /\ CwdIsDirectory
  /\ OpenFilesListed /\ RecordsInv

---------------------------------------------------------------------------
(* What the block layer promises *)

\* The blocks of each file and directory.
OwnedBlocks ==
  LET heads == Heads IN [h \in DataBlock |-> IF h \in heads THEN Chain(fat, h) ELSE {}]

Pool == INSTANCE BlockPool WITH Block <- DataBlock, owned <- OwnedBlocks

\* Every command, seen from the blocks, claims free blocks for one file or
\* directory or gives back all blocks of one: the links of the FAT, changed one at a
\* time, and the entries, changed elsewhere, add up to that (alloc_block,
\* free_chain, write_entry_to_dir and their callers).
BlocksMoveAsPool == Pool!Spec
===========================================================================
