---------------------------- MODULE FileSystem ----------------------------
(***************************************************************************)
(* The file system (src/src/fs_core.cpp): the commands on directories, the *)
(* working directory, and the file operations of FileOps applied to it.    *)
(* cd walks its path one segment at a time, and is one action per segment; *)
(* it takes effect at the end of the path only.                            *)
(***************************************************************************)
EXTENDS FileOps

CONSTANTS
  Paths,       \* bound: the paths given to cd, sequences of segments
  MaxDepth     \* bound: the length of the path shown in the prompt

ASSUME FileSystemAssumption ==
  /\ Paths \subseteq Seq(Name \cup {DotDot})
  /\ MaxDepth \in Nat

VARIABLES
  cur_block,   \* the first block of the working directory
  path_stack   \* the path shown in the prompt, without the leading "/"

fsVars == <<cur_block, path_stack>>
vars   == <<foVars, fsVars>>

---------------------------------------------------------------------------
(* mkdir, rmdir, rename *)

\* The result of add_entry is not looked at: a directory that could not be
\* entered into its parent keeps its block.
Mkdir(n) ==
  /\ op = Idle
  /\ Find(dir, cur_block, n) = {}
  /\ \E b \in FindFree(bitmap) :
       LET f  == [fat EXCEPT ![b] = FAT_EOF]
           u  == bitmap \cup {b}
           ds == [dir EXCEPT ![b] = InitDir(b, cur_block)]
       IN  \/ AddEntry(f, u, ds, cur_block, NewEntry(n, b, ATTR_DIR))
           \/ AddFails(f, ds, cur_block) /\ fat' = f /\ bitmap' = u /\ dir' = ds
  /\ UNCHANGED <<openVars, op, fsVars>>

\* Slip: the directory may have something in it.
RmdirFull(n) ==
  /\ op = Idle
  /\ n \notin Dots
  /\ \E e \in Find(dir, cur_block, n) :
       /\ e.attr = ATTR_DIR
       /\ fat' = FreeChain(fat, e.first)
       /\ bitmap' = bitmap \ {e.first}
       /\ dir' = [dir EXCEPT ![e.first] = {}, ![cur_block] = @ \ {e}]
  /\ UNCHANGED <<openVars, op, fsVars>>

\* free_chain frees the whole chain, mark_free the bit of its first block only.
Rmdir(n) ==
  /\ op = Idle
  /\ n \notin Dots
  /\ \E e \in Find(dir, cur_block, n) :
       /\ e.attr = ATTR_DIR
       /\ Listed(dir, e.first) = {}
       /\ fat' = FreeChain(fat, e.first)
       /\ bitmap' = bitmap \ {e.first}
       /\ dir' = [dir EXCEPT ![e.first] = {}, ![cur_block] = @ \ {e}]
  /\ UNCHANGED <<openVars, op, fsVars>>

\* Slip: the new name may be taken.
RenameOver(old, new) ==
  /\ op = Idle
  /\ \E e \in Find(dir, cur_block, old) :
       dir' = Replaced(dir, cur_block, e, [e EXCEPT !.name = StoredName(new)])
  /\ UNCHANGED <<fat, bitmap, openVars, op, fsVars>>

\* Any entry can be renamed, "." and ".." too.
Rename(old, new) ==
  /\ op = Idle
  /\ Find(dir, cur_block, new) = {}
  /\ \E e \in Find(dir, cur_block, old) :
       dir' = Replaced(dir, cur_block, e, [e EXCEPT !.name = StoredName(new)])
  /\ UNCHANGED <<fat, bitmap, openVars, op, fsVars>>

---------------------------------------------------------------------------
(* cd *)

\* A path starts at the root if its first character is '/' or '\'; the path
\* shown starts afresh for '/' only.  "." and empty segments are skipped.
PathStart == {"relative", "slash", "backslash"}

Walking(at, segs, stack) == [cmd |-> "cd", at |-> at, segs |-> segs, stack |-> stack]

Cd(start, segs) ==
  /\ op = Idle
  /\ Len(path_stack) + Len(segs) <= MaxDepth
  /\ op' = Walking(IF start = "relative" THEN cur_block ELSE Root,
                   segs,
                   IF start = "slash" THEN <<>> ELSE path_stack)
  /\ UNCHANGED <<diskVars, openVars, fsVars>>

\* Slips: ".." leaves the path shown as it is; ".." is shown like any segment.
UpStays(stack)  == stack
UpPushes(stack) == Append(stack, DotDot)

Up(stack) == IF stack = <<>> THEN stack ELSE SubSeq(stack, 1, Len(stack) - 1)

CdUp ==
  /\ op.cmd = "cd"
  /\ op.segs # <<>> /\ Head(op.segs) = DotDot
  /\ op' = Walking(ParentBlock(dir, op.at), Tail(op.segs), Up(op.stack))
  /\ UNCHANGED <<diskVars, openVars, fsVars>>

\* Slip: a file will do.
SubdirOrFile(d, n) == Find(dir, d, n)

Subdir(d, n) == {e \in Find(dir, d, n) : e.attr = ATTR_DIR}

CdDown ==
  /\ op.cmd = "cd"
  /\ op.segs # <<>> /\ Head(op.segs) # DotDot
  /\ \E e \in Subdir(op.at, Head(op.segs)) :
       op' = Walking(e.first, Tail(op.segs), Append(op.stack, Head(op.segs)))
  /\ UNCHANGED <<diskVars, openVars, fsVars>>

\* Slip: a file of that name is not an error, and not a directory either.
CdFailUnlessFile ==
  /\ op.cmd = "cd"
  /\ op.segs # <<>> /\ Head(op.segs) # DotDot
  /\ Find(dir, op.at, Head(op.segs)) = {}
  /\ op' = Idle
  /\ UNCHANGED <<diskVars, openVars, fsVars>>

\* No directory of that name: cd gives up, and nothing has changed.
CdFail ==
  /\ op.cmd = "cd"
  /\ op.segs # <<>> /\ Head(op.segs) # DotDot
  /\ Subdir(op.at, Head(op.segs)) = {}
  /\ op' = Idle
  /\ UNCHANGED <<diskVars, openVars, fsVars>>

CdEnd ==
  /\ op.cmd = "cd"
  /\ op.segs = <<>>
  /\ cur_block' = op.at
  /\ path_stack' = op.stack
  /\ op' = Idle
  /\ UNCHANGED <<diskVars, openVars>>

---------------------------------------------------------------------------
(* format, and the file operations in the working directory *)

\* Slip: the descriptors are dropped, the records stay in use.
FormatDropsDescriptors ==
  /\ op = Idle
  /\ fat' = FormatFat /\ bitmap' = FormatBitmap /\ dir' = FormatDir
  /\ cur_block' = Root /\ path_stack' = <<>>
  /\ user_fds' = {}
  /\ UNCHANGED <<sys_files, next_fd, op>>

\* The tables of open files are not reset.
Format ==
  /\ op = Idle
  /\ fat' = FormatFat /\ bitmap' = FormatBitmap /\ dir' = FormatDir
  /\ cur_block' = Root /\ path_stack' = <<>>
  /\ UNCHANGED <<openVars, op>>

\* The disk as format leaves it, with no file open.
Init == FOInit /\ cur_block = Root /\ path_stack = <<>>

FileCommand ==
  /\ \/ \E n \in AnyName :
          \/ Create(cur_block, n)
          \/ Open(cur_block, n)
          \/ CanRemove(cur_block, n) /\ Remove(cur_block, n)
     \/ \E fd \in 0 .. MaxFds - 1 :
          \/ Close(fd)
          \/ \E n \in ReadSizes : CanAsk(fd, n) /\ Read(fd, n)
          \/ \E n \in WriteSizes : Write(fd, n)
  /\ UNCHANGED fsVars

CanRename(old, new) ==
  /\ Allows("close before rename", NotOpen(cur_block, old))
  /\ Allows("keep dots", old \notin Dots /\ new \notin Dots)

DirectoryCommand ==
  \/ \E n \in AnyName : Mkdir(n) \/ Rmdir(n)
  \/ \E old, new \in AnyName : CanRename(old, new) /\ Rename(old, new)
  \/ \E start \in PathStart, segs \in Paths :
       Allows("slash paths", start # "backslash") /\ Cd(start, segs)

CanFormat == Allows("close before format", user_fds = {})

\* The turns of the loops of write and cd: the program's own steps.
Turn ==
  \/ Loop /\ UNCHANGED fsVars
  \/ CdUp \/ CdDown \/ CdFail \/ CdEnd

Next ==
  \/ FileCommand
  \/ DirectoryCommand
  \/ CanFormat /\ Format
  \/ Turn

\* The program carries a command out; the user need not type one.
Spec == Init /\ [][Next]_vars /\ WF_vars(Turn)

---------------------------------------------------------------------------
(* Properties *)

CdWalks == [cmd : {"cd"}, at : DataBlock, segs : Seq(Name \cup {DotDot}), stack : Seq(Name)]

TypeOK ==
  /\ DirectoryTypeOK
  /\ sys_files \in Seq(OpenFile)
  /\ user_fds \in SUBSET UserFd
  /\ next_fd \in Nat
  /\ op \in {Idle, Lost} \cup Writing \cup CdWalks
  /\ cur_block \in DataBlock
  /\ path_stack \in Seq(Name)

\* The directories of the tree: the root and the directories listed somewhere.
Directories ==
  {Root} \cup {e.first : e \in {k \in UNION {Listed(dir, d) : d \in DataBlock} :
                                  k.attr = ATTR_DIR}}

\* The working directory, and the place a running cd has come to, are directories
\* of the tree (rmdir never takes away the ground the user stands on).
CwdIsDirectory ==
  /\ cur_block \in Directories
  /\ op.cmd = "cd" => op.at \in Directories

\* ".." of a directory is the directory it is listed in, so that cd .. leads back
\* (init_dir, parent_block).
ParentLinks ==
  /\ ParentBlock(dir, Root) = Root
  /\ \A d \in DataBlock : \A e \in Listed(dir, d) :
       e.attr = ATTR_DIR => ParentBlock(dir, e.first) = d

\* No directory is listed below itself: among any directories there is one with
\* none of the others in it, so print_tree comes to an end.
TreeIsFinite ==
  \A S \in SUBSET Directories : S # {} =>
    \E d \in S : \A e \in Listed(dir, d) : e.attr = ATTR_DIR => e.first \notin S

\* A directory has no two entries of the same name (create, mkdir and rename
\* look for the name first).
UniqueNames ==
  \A d \in DataBlock : \A e, k \in dir[d] : e.name = k.name => e = k

\* The directory a path leads to from the root, NoBlock if there is none.
Resolved(path) ==
  LET at[k \in 0 .. Len(path)] ==
        IF k = 0 THEN Root
        ELSE LET found == {e \in UNION {dir[b] : b \in {at[k-1]} \cap DataBlock} :
                             e.name = path[k] /\ e.attr = ATTR_DIR}
             IN  IF found = {} THEN NoBlock ELSE (CHOOSE e \in found : TRUE).first
  IN  at[Len(path)]

\* Every directory is the root or listed in a directory of the tree: mkdir leaves
\* no directory behind that nobody can reach.
DirectoriesListed == {d \in DataBlock : dir[d] # {}} \subseteq Directories

\* The path in the prompt is the path of the working directory (pwd).
PwdNamesCwd == Resolved(path_stack) = cur_block

\* Every command comes to an end.
CommandsReturn == op # Idle ~> op \in {Idle, Lost}
===========================================================================
