------------------------------ MODULE Contents ------------------------------
(***************************************************************************)
(* The bytes of files: FileOps with the contents of the data blocks, and   *)
(* with cat.  Reading follows the FAT to the block and place of each byte; *)
(* writing puts each part of the text into the block the loop has come to. *)
(* A block is not cleared when it is taken or given back, so what a file   *)
(* shows depends on its size being right.  The bytes of a block that holds *)
(* entries are not kept here: dir stands for them.                         *)
(***************************************************************************)
EXTENDS FileOps

CONSTANTS
  Texts,    \* bound: the texts written, sequences of bytes
  Zero      \* the byte a fresh disk is filled with

ASSUME ContentsAssumption ==
  \A t \in Texts : t \in Seq({t[k] : k \in DOMAIN t}) /\ Len(t) \in WriteSizes

VARIABLES
  data,      \* the bytes of each data block
  typed,     \* what is left of the text being written
  answer     \* the bytes the last command has printed

contentsVars == <<foVars, data, typed, answer>>

Place == 0 .. BlockSize - 1

---------------------------------------------------------------------------
(* read and cat *)

\* The byte at position p of the chain that starts at b; behind the end of the
\* chain, one of the bytes a string is filled with.
ByteAt(b, p) ==
  LET block == NthBlock(fat, b, p \div BlockSize)
  IN  IF block = NoBlock THEN Zero ELSE data[block][p % BlockSize]

\* The bytes from position from up to, and without, position to.
Bytes(b, from, to) == [k \in 1 .. to - from |-> ByteAt(b, from + k - 1)]

Kept     == UNCHANGED <<data, typed>>
Answered == answer' = <<>>

ReadBytes(fd, n) ==
  /\ Read(fd, n)
  /\ \E u \in user_fds :
       /\ u.fd = fd
       /\ answer' = Bytes(sys_files[u.file].first, sys_files[u.file].cursor,
                          sys_files'[u.file].cursor)
  /\ Kept

\* cat takes the size from the entry, whether the file is open or not.
Cat(n) ==
  /\ op = Idle
  /\ \/ \E e \in Find(dir, Root, n) :
          answer' = IF e.attr = ATTR_FILE THEN Bytes(e.first, 0, e.size) ELSE <<>>
     \/ Find(dir, Root, n) = {} /\ Answered
  /\ UNCHANGED foVars /\ Kept

---------------------------------------------------------------------------
(* write *)

WriteText(fd, t) ==
  /\ Write(fd, Len(t))
  /\ typed' = t
  /\ UNCHANGED data /\ Answered

\* The block this turn of the loop writes to: the next of the chain, or a new one.
Destination ==
  IF Target # NoBlock THEN Target ELSE CHOOSE b \in Lowest(FatFree(fat)) : TRUE

\* Slip: a new part starts at the beginning of its block.
FilledFromStart(block) ==
  [k \in Place |-> IF k < Part THEN typed[k + 1] ELSE block[k]]

\* A block with the next part of the text in its place.
Filled(block) ==
  LET off == op.pos % BlockSize
  IN  [k \in Place |-> IF k \in off .. off + Part - 1 THEN typed[k - off + 1] ELSE block[k]]

\* Slip: the next turn starts with the same part of the text again.
WriteBytesSameText ==
  /\ WriteBlock
  /\ data' = [data EXCEPT ![Destination] = Filled(@)]
  /\ UNCHANGED typed
  /\ Answered

WriteBytes ==
  /\ WriteBlock
  /\ data' = [data EXCEPT ![Destination] = Filled(@)]
  /\ typed' = SubSeq(typed, Part + 1, Len(typed))
  /\ Answered

WriteDone == WriteEnd /\ typed' = <<>> /\ UNCHANGED data /\ Answered

---------------------------------------------------------------------------
ContentsInit ==
  /\ FOInit
  /\ data = [b \in DataBlock |-> [k \in Place |-> Zero]]
  /\ typed = <<>> /\ answer = <<>>

ContentsNext ==
  \/ \E n \in AnyName :
       \/ /\ \/ Create(Root, n)
             \/ Open(Root, n)
             \/ CanRemove(Root, n) /\ Remove(Root, n)
          /\ Kept /\ Answered
       \/ Cat(n)
  \/ \E fd \in 0 .. MaxFds - 1 :
       \/ /\ \/ Close(fd)
             \/ \E n \in ReadSizes : Seek(fd, n)
          /\ Kept /\ Answered
       \/ \E n \in ReadSizes : CanAsk(fd, n) /\ ReadBytes(fd, n)
       \/ \E t \in Texts : WriteText(fd, t)
  \/ WriteBytes \/ WriteDone

ContentsSpec ==
  /\ ContentsInit /\ [][ContentsNext]_contentsVars
  /\ WF_contentsVars(WriteBytes \/ WriteDone)

---------------------------------------------------------------------------
(* What the file operations promise *)

Byte == {Zero} \cup UNION {{t[k] : k \in DOMAIN t} : t \in Texts}

\* The types, and that the text still to be written keeps pace with the count of what
\* is left (in and remaining in write).
ContentsTypeOK ==
  /\ FileOpsTypeOK
  /\ data \in [DataBlock -> [Place -> Byte]]
  /\ typed \in Seq(Byte) /\ answer \in Seq(Byte)
  /\ op.cmd = "write" => Len(typed) = op.left

FilesAt(b) == {e \in Listed(dir, Root) : e.first = b}

\* The bytes a file has so far, those of a write that is going on included.
Extent(e) ==
  IF op.cmd = "write" /\ sys_files[op.file].first = e.first
  THEN LargerOf(SizeOf(e), op.pos) ELSE SizeOf(e)

TheFile(b) == CHOOSE e \in FilesAt(b) : TRUE

TheNamed(n) ==
  IF Find(dir, Root, n) = {} THEN NoBlock
  ELSE (CHOOSE e \in Find(dir, Root, n) : TRUE).first

TheText(b) == IF FilesAt(b) = {} THEN <<>> ELSE Bytes(b, 0, Extent(TheFile(b)))

TheCursor(b) ==
  IF IsOpen(b)
  THEN (CHOOSE of \in {sys_files[u.file] : u \in user_fds} : of.first = b).cursor
  ELSE 0

AllNamed   == [n \in Name |-> TheNamed(n)]
AllTexts   == [b \in DataBlock |-> TheText(b)]
AllKept    == [b \in DataBlock |-> IF FilesAt(b) = {} THEN 0 ELSE TheFile(b).size]
AllUsers   == {<<u.fd, sys_files[u.file].first>> : u \in user_fds}
AllCursors == [b \in DataBlock |-> TheCursor(b)]
TheWriter  ==
  IF op.cmd = "write"
  THEN [id |-> sys_files[op.file].first, pos |-> op.pos, rest |-> typed]
  ELSE [pos |-> 0, rest |-> <<>>]
IsFull     == FatFree(fat) = {}

Promise == INSTANCE ByteFiles WITH
  Fd     <- 0 .. MaxFds - 1,
  Id     <- DataBlock,
  NoId   <- NoBlock,
  Text   <- Texts,
  Count  <- ReadSizes,
  named  <- AllNamed,
  text   <- AllTexts,
  kept   <- AllKept,
  users  <- AllUsers,
  cursor <- AllCursors,
  writer <- TheWriter,
  full   <- IsFull

\* Files behave as sequences of bytes of their own: what is written through a
\* descriptor is what read of that file shows at once, and cat once a descriptor of the
\* file has been closed since, for until then cat goes by the size the directory knows;
\* nothing else changes it (file_op.cpp: create, open, close, read, write, remove,
\* seek, cat).
FilesAreByteSequences == Promise!Spec

\* cat prints the whole of a file, open or not (README.md:50 of the repository; cat
\* and the write-back in close, file_op.cpp).
CatShowsAll ==
  [][\A n \in Name :
       Cat(n) /\ TheNamed(n) # NoBlock => answer' = TheText(TheNamed(n))]_contentsVars
=============================================================================
