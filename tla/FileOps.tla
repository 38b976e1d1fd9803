------------------------------ MODULE FileOps ------------------------------
(***************************************************************************)
(* Files and open files (src/src/file_op.cpp).  FileOperator keeps two     *)
(* tables in memory: sys_files, one record per file that was ever opened,  *)
(* which holds the cursor and the size while the file is open, and         *)
(* user_fds, which maps a descriptor to a record.  Nothing ties a record   *)
(* to the directory entry it came from except the number of the file's     *)
(* first block, the number of its directory's first block and its name.    *)
(*                                                                         *)
(* Every operation is one action, with the directory it works in as a      *)
(* parameter, as in the code; write, whose loop allocates one block per    *)
(* turn, is one action per turn of the loop.  The program has one thread:  *)
(* op holds the command that is in its loop, and no other starts before it *)
(* is done.                                                                *)
(***************************************************************************)
EXTENDS Directory, Sequences

CONSTANTS
  BlockSize,    \* BLOCK_SIZE, 1024 in the code
  WordSize,     \* cursors, sizes and counts are kept modulo this, 2^32 in the code
  WriteSizes,   \* bound: the lengths of the texts written
  ReadSizes,    \* bound: the lengths asked for by read
  MaxFds,       \* bound: the number of successful opens
  MaxCursor,    \* bound: no write starts behind it; a chain that a write after
                \* a delete has made circular would let a file grow for ever
  Habits        \* what the user takes care of, see Allows

ASSUME FileOpsAssumption ==
  /\ BlockSize \in Nat \ {0}
  /\ WordSize \in Nat \ {0}
  /\ WriteSizes \subseteq Nat \ {0}
  /\ ReadSizes \subseteq Nat
  /\ MaxFds \in Nat /\ MaxCursor \in Nat
  /\ Habits \in SUBSET {"close before delete", "close before rename",
                        "close before format", "close before exit",
                        "keep dots", "slash paths", "counts in range"}

VARIABLES
  sys_files,    \* the system table of open files; records are never removed
  user_fds,     \* the descriptors in use, each with the index of its record
  next_fd,      \* descriptors are never used again
  op            \* the command whose loop is running

diskVars == <<fat, bitmap, dir>>
openVars == <<sys_files, user_fds, next_fd>>
foVars   == <<diskVars, openVars, op>>

OpenFile == [first : DataBlock, size : Nat, cursor : Nat, ref : Nat,
             dir : DataBlock, name : AnyName]
UserFd   == [fd : Nat, file : Nat \ {0}]

Idle    == [cmd |-> "idle"]
Writing == [cmd : {"write"}, file : Nat \ {0}, pos : Nat, left : Nat]

\* Text was written over the entries of a directory, or read has copied bytes to
\* behind the end of a buffer.  What the program does
\* from here on is not defined, or depends on the bytes of the text, and is not
\* modelled.
Lost == [cmd |-> "lost"]

\* The user's good habits restrict which commands are typed, never what a
\* command does.  A habit restricts a step only if the user has it.
Allows(habit, safe) == habit \in Habits => safe

\* The record with index i is in use.
InUse(i) == i \in DOMAIN sys_files /\ sys_files[i].ref > 0

\* Some descriptor is open on the file whose first block is b.
IsOpen(b) == \E u \in user_fds : sys_files[u.file].first = b

SmallerOf(a, b) == IF a <= b THEN a ELSE b
LargerOf(a, b)  == IF a <= b THEN b ELSE a

---------------------------------------------------------------------------
(* create, open, remove *)

\* The bitmap says which block is free; if the directory then has to grow and
\* cannot, the block is given back.
Create(d, n) ==
  /\ op = Idle
  /\ Find(dir, d, n) = {}
  /\ \E b \in FindFree(bitmap) :
       LET f == [fat EXCEPT ![b] = FAT_EOF]
           u == bitmap \cup {b}
       IN  \/ AddEntry(f, u, dir, d, NewEntry(n, b, ATTR_FILE))
           \/ /\ AddFails(f, dir, d)
              /\ fat' = [f EXCEPT ![b] = FAT_FREE]
              /\ bitmap' = u \ {b}
              /\ UNCHANGED dir
  /\ UNCHANGED <<openVars, op>>

\* Slips: every open gets a record of its own; a record is used again after its
\* last close.
SharedNever(b) == {}
SharedEver(b)  == {i \in DOMAIN sys_files : sys_files[i].first = b}

\* The records that open would use again for a file whose first block is b.
Shared(b) == {i \in DOMAIN sys_files : sys_files[i].first = b /\ sys_files[i].ref > 0}

NewOpenFile(e, d, n) ==
  [first |-> e.first, size |-> e.size, cursor |-> 0, ref |-> 1, dir |-> d,
   name |-> StoredName(n)]

Open(d, n) ==
  /\ op = Idle
  /\ next_fd < MaxFds
  /\ \E e \in Find(dir, d, n) :
       /\ e.attr = ATTR_FILE
       /\ \/ \E i \in Lowest(Shared(e.first)) :
               /\ sys_files' = [sys_files EXCEPT ![i].ref = @ + 1]
               /\ user_fds' = user_fds \cup {[fd |-> next_fd, file |-> i]}
          \/ /\ Shared(e.first) = {}
             /\ sys_files' = Append(sys_files, NewOpenFile(e, d, n))
             /\ user_fds' = user_fds \cup {[fd |-> next_fd, file |-> Len(sys_files) + 1]}
  /\ next_fd' = next_fd + 1
  /\ UNCHANGED <<diskVars, op>>

\* The bits remove clears: it walks the chain of b in the FAT after free_chain
\* has freed it, so the walk ends where it starts.
ReleasedBits(f, b) == Chain(FreeChain(f, b), b)

Remove(d, n) ==
  /\ op = Idle
  /\ \E e \in Find(dir, d, n) :
       /\ e.attr = ATTR_FILE
       /\ fat' = FreeChain(fat, e.first)
       /\ bitmap' = bitmap \ ReleasedBits(fat, e.first)
       /\ dir' = [dir EXCEPT ![d] = @ \ {e}]
  /\ UNCHANGED <<openVars, op>>

---------------------------------------------------------------------------
(* close, read, seek *)

\* Slips: no size is written back; the cursor is written in its place.
WriteBackNothing(of) == {}
WriteBackCursor(of)  ==
  {Replaced(dir, of.dir, e, [e EXCEPT !.size = of.cursor]) :
     e \in Find(dir, of.dir, of.name)}

\* The directories in which close puts the size of the record of back.  It
\* looks for the name, not for the file.  If the directory is gone, its block
\* holds "." and ".." only, and nothing is found.
WriteBack(of) ==
  {Replaced(dir, of.dir, e, [e EXCEPT !.size = of.size]) :
     e \in Find(dir, of.dir, of.name)}

\* The block of the record's directory serves as something else by now.
Recycled(of) == dir[of.dir] = {} /\ fat[of.dir] # FAT_FREE

\* Slip: the last use of a record is never given up.
ReleasedButLast(of) == [of EXCEPT !.ref = IF @ > 1 THEN @ - 1 ELSE @]

Released(of) == [of EXCEPT !.ref = IF @ > 0 THEN @ - 1 ELSE @]

Close(fd) ==
  /\ op = Idle
  /\ \E u \in user_fds :
       LET of == sys_files[u.file] IN
       /\ u.fd = fd
       /\ sys_files' = [sys_files EXCEPT ![u.file] = Released(of)]
       /\ user_fds' = user_fds \ {u}
       /\ \/ WriteBack(of) = {} /\ UNCHANGED dir
          \/ dir' \in WriteBack(of)
       /\ op' = IF Recycled(of) THEN Lost ELSE op
  /\ UNCHANGED <<fat, bitmap, next_fd>>

\* Slip: what lies before the cursor is not taken off.
CutFromStart(of, n) == SmallerOf(n, of.size)

\* The number of bytes read goes for: as many as asked for, if the cursor then
\* stays in the file.  The sum is taken in 32 bits.
Cut(of, n) == IF (of.cursor + n) % WordSize > of.size THEN of.size - of.cursor ELSE n

\* The bytes of the buffer that the shell brings along: one more than it asks for,
\* and none if it asks for -1, the largest count there is.  A smaller count than -1
\* ends the program before it reads.
BufferSize(n) == (n + 1) % WordSize

\* The sum has wrapped around, and read goes for more than there is; or the buffer is
\* too small for the bytes and the zero put behind them.
Overruns(of, n) ==
  \/ of.cursor + Cut(of, n) > of.size
  \/ Cut(of, n) >= BufferSize(n)

\* Slip: the size of the file does not bound what is read.
CanReadPastEnd(of, n, got) ==
  LET Ends(p) == NthBlock(fat, of.first, p \div BlockSize) = NoBlock
  IN  /\ got \in 0 .. n
      /\ \A p \in of.cursor .. of.cursor + got - 1 : ~Ends(p)
      /\ got = n \/ Ends(of.cursor + got)

\* The number of bytes read gets: all it goes for, or less if the chain ends.
CanRead(of, n, got) ==
  LET Ends(p) == NthBlock(fat, of.first, p \div BlockSize) = NoBlock
  IN  /\ got \in 0 .. Cut(of, n)
      /\ \A p \in of.cursor .. of.cursor + got - 1 : ~Ends(p)
      /\ got = Cut(of, n) \/ Ends(of.cursor + got)

Read(fd, n) ==
  /\ op = Idle
  /\ \E u \in user_fds :
       /\ u.fd = fd
       /\ \/ /\ ~Overruns(sys_files[u.file], n)
             /\ \E got \in 0 .. n :
                  /\ CanRead(sys_files[u.file], n, got)
                  /\ sys_files' = [sys_files EXCEPT ![u.file].cursor = @ + got]
             /\ UNCHANGED op
          \/ /\ Overruns(sys_files[u.file], n)
             /\ op' = Lost
             /\ UNCHANGED sys_files
  /\ UNCHANGED <<diskVars, user_fds, next_fd>>

\* Only FileOperator offers seek; no command of the shell reaches it.
Seek(fd, pos) ==
  /\ op = Idle
  /\ \E u \in user_fds :
       /\ u.fd = fd
       /\ pos <= sys_files[u.file].size
       /\ sys_files' = [sys_files EXCEPT ![u.file].cursor = pos]
  /\ UNCHANGED <<diskVars, user_fds, next_fd, op>>

---------------------------------------------------------------------------
(* write *)

Write(fd, n) ==
  /\ op = Idle
  /\ \E u \in user_fds :
       /\ u.fd = fd
       /\ sys_files[u.file].cursor <= MaxCursor
       /\ op' = [cmd |-> "write", file |-> u.file,
                 pos |-> sys_files[u.file].cursor, left |-> n]
  /\ UNCHANGED <<diskVars, openVars>>

\* The block the loop is about to write to, NoBlock if the chain is too short.
Target == NthBlock(fat, sys_files[op.file].first, op.pos \div BlockSize)

\* The part of the text that fits into that block.
Part == SmallerOf(BlockSize - (op.pos % BlockSize), op.left)

\* The blocks that hold the entries of some directory.
DirectoryBlocks(f) == UNION {Chain(f, d) : d \in {x \in DataBlock : dir[x] # {}}}

\* Text goes to block b; over entries it does damage that is not modelled.
Put(f, b) ==
  op' = IF b \in DirectoryBlocks(f) THEN Lost
        ELSE [op EXCEPT !.pos = @ + Part, !.left = @ - Part]

\* Slip: the new block is not marked used.
WriteBlockUnmarked ==
  /\ op.cmd = "write"
  /\ op.left > 0
  /\ \/ Target # NoBlock /\ Put(fat, Target) /\ UNCHANGED fat
     \/ /\ Target = NoBlock
        /\ \E b \in Lowest(FatFree(fat)), t \in Tails(fat, sys_files[op.file].first) :
             fat' = Linked(fat, t, b) /\ Put(fat', b)
  /\ UNCHANGED <<bitmap, dir, openVars>>

WriteBlock ==
  /\ op.cmd = "write"
  /\ op.left > 0
  /\ \/ Target # NoBlock /\ Put(fat, Target) /\ UNCHANGED <<fat, bitmap>>
     \/ /\ Target = NoBlock
        /\ \E b \in Lowest(FatFree(fat)), t \in Tails(fat, sys_files[op.file].first) :
             /\ fat' = Linked(fat, t, b)
             /\ bitmap' = bitmap \cup {b}
             /\ Put(fat', b)
  /\ UNCHANGED <<dir, openVars>>

\* The cursor moves past what was written, and the file grows with it.
Written(of, pos) == [of EXCEPT !.cursor = pos, !.size = LargerOf(pos, of.size)]

\* Slip: a full disk does not end the loop.
WriteEndAtTextEnd ==
  /\ op.cmd = "write"
  /\ op.left = 0
  /\ sys_files' = [sys_files EXCEPT ![op.file] = Written(@, op.pos)]
  /\ op' = Idle
  /\ UNCHANGED <<diskVars, user_fds, next_fd>>

\* All is written, or the disk is full.
WriteEnd ==
  /\ op.cmd = "write"
  /\ \/ op.left = 0
     \/ Target = NoBlock /\ FatFree(fat) = {}
  /\ sys_files' = [sys_files EXCEPT ![op.file] = Written(@, op.pos)]
  /\ op' = Idle
  /\ UNCHANGED <<diskVars, user_fds, next_fd>>

---------------------------------------------------------------------------
(* FileOperator used on its own, on the root directory *)

FOInit ==
  /\ fat = FormatFat /\ bitmap = FormatBitmap /\ dir = FormatDir
  /\ sys_files = <<>> /\ user_fds = {} /\ next_fd = 0
  /\ op = Idle

\* No descriptor is open on the file that d calls n.
NotOpen(d, n) == \A e \in Find(dir, d, n) : ~IsOpen(e.first)

CanRemove(d, n) == Allows("close before delete", NotOpen(d, n))

\* The count is not so large that it, or its sum with the cursor, wraps around; the
\* count -1, which the shell passes on, is.
InRange(fd, n) ==
  /\ n + 1 < WordSize
  /\ \A u \in user_fds : u.fd = fd => sys_files[u.file].cursor + n < WordSize

CanAsk(fd, n) == Allows("counts in range", InRange(fd, n))

\* The turns of the loop of write: the program's own steps.
Loop == WriteBlock \/ WriteEnd

FONext ==
  \/ \E n \in AnyName :
       \/ Create(Root, n)
       \/ Open(Root, n)
       \/ CanRemove(Root, n) /\ Remove(Root, n)
  \/ \E fd \in 0 .. MaxFds - 1 :
       \/ Close(fd)
       \/ \E n \in ReadSizes : CanAsk(fd, n) /\ Read(fd, n)
       \/ \E n \in ReadSizes : Seek(fd, n)
       \/ \E n \in WriteSizes : Write(fd, n)
  \/ Loop

\* A command that has started is carried out: the program has one thread and
\* waits for nothing.  The user need not type anything.
FOSpec == FOInit /\ [][FONext]_foVars /\ WF_foVars(Loop)

---------------------------------------------------------------------------
(* Properties *)

FileOpsTypeOK ==
  /\ DirectoryTypeOK
  /\ sys_files \in Seq(OpenFile)
  /\ user_fds \in SUBSET UserFd
  /\ next_fd \in Nat
  /\ op.cmd = "write" => op \in Writing

\* The first blocks of everything that has blocks: directories and the files
\* and directories listed in them.
Heads ==
  {d \in DataBlock : dir[d] # {}}
    \cup UNION {{e.first : e \in Listed(dir, d)} : d \in DataBlock}

\* No block belongs to two files or directories, and no two entries stand for
\* the same file: what is written to one never shows up in another
\* (alloc_block and find_free hand a block out once).
NoSharedBlocks ==
  /\ \A g, h \in Heads : g # h => Chain(fat, g) \cap Chain(fat, h) = {}
  /\ \A c, d \in DataBlock : \A e \in Listed(dir, c), k \in Listed(dir, d) :
       e.first = k.first => c = d /\ e = k

\* No block in the chain of a file or directory is free in the FAT, and the
\* chain has an end (free_chain frees nothing that is still linked to).
ChainsIntact ==
  \A h \in Heads :
    /\ \A x \in Chain(fat, h) : fat[x] # FAT_FREE
    /\ Tails(fat, h) # {}

\* A block the bitmap calls free is free in the FAT too.  create and mkdir take
\* their block from the bitmap and overwrite its FAT entry without looking.
BitmapCoversFat == \A b \in Block : fat[b] # FAT_FREE => b \in bitmap

\* A record in use stands for a file that is still listed in the directory it
\* was opened in (read and write go through first_block alone).
OpenFilesListed ==
  \A i \in DOMAIN sys_files : InUse(i) =>
    \E e \in Listed(dir, sys_files[i].dir) :
      e.first = sys_files[i].first /\ e.attr = ATTR_FILE

\* ref_count is the number of descriptors that lead to the record, so close
\* ends the use of a record with its last descriptor, not before.
DescriptorsCounted ==
  \A i \in DOMAIN sys_files :
    sys_files[i].ref = Cardinality({u \in user_fds : u.file = i})

\* A file has one cursor and one size however often it is opened: at most one
\* record in use for a first block.
OneRecordPerFile ==
  \A i, j \in DOMAIN sys_files :
    InUse(i) /\ InUse(j) /\ sys_files[i].first = sys_files[j].first => i = j

\* The cursor stays within the file; read computes size - cursor in unsigned
\* arithmetic.
CursorInFile ==
  \A i \in DOMAIN sys_files : sys_files[i].cursor <= sys_files[i].size

BlocksFor(size) == IF size = 0 THEN 1 ELSE (size + BlockSize - 1) \div BlockSize

\* The size of a file: the record's while it is open, else the entry's.
SizeOf(e) ==
  IF IsOpen(e.first)
  THEN (CHOOSE of \in {sys_files[u.file] : u \in user_fds} : of.first = e.first).size
  ELSE e.size

\* Between commands a file has exactly the blocks its size calls for: write
\* allocates none too many, and cat, which trusts the size of the entry, finds
\* them all.
SizeMatchesChain ==
  op = Idle =>
    \A d \in DataBlock : \A e \in Listed(dir, d) :
      e.attr = ATTR_FILE =>
        Cardinality(Chain(fat, e.first)) = BlocksFor(SizeOf(e))

\* The chain of a directory has a slot for each of its entries: no entry is lost
\* when a chain is cut short or a block serves twice.
EntriesFit ==
  \A d \in DataBlock :
    Cardinality(dir[d]) <= EntriesPerBlock * Cardinality(Chain(fat, d))

\* Text never goes over the entries of a directory, and read never copies more than
\* there is: what the program does stays defined (the destinations of write and
\* close, the cut in read).
NeverLost == op # Lost

\* A step that does something to one file leaves the chains of the others as
\* they are: only the file being written may grow.
Isolation ==
  [][\A d \in DataBlock : \A e \in Listed(dir, d) :
       /\ e.attr = ATTR_FILE
       /\ \E k \in Listed(dir', d) : k.first = e.first
       /\ op.cmd = "write" => sys_files[op.file].first # e.first
       => Chain(fat', e.first) = Chain(fat, e.first)]_foVars

\* A block that a step frees in the FAT is free in the bitmap too, and can be
\* handed out by create and mkdir again (remove, rmdir).
FreedIsReclaimed ==
  [][\A b \in DataBlock :
       fat[b] # FAT_FREE /\ fat'[b] = FAT_FREE => b \notin bitmap']_foVars

\* close writes the size of the file back: once a descriptor is closed, the entry
\* of the file it was open on has the size of the record.
CloseSavesSize ==
  [][\A u \in user_fds \ user_fds' : \A d \in DataBlock : \A e \in Listed(dir', d) :
       e.first = sys_files[u.file].first => e.size = sys_files[u.file].size]_foVars

\* open leads to the file that was named: the record behind a new descriptor has
\* the name and the first block of an entry of its directory.
OpenLeadsToFile ==
  [][\A u \in user_fds' \ user_fds :
       LET of == sys_files'[u.file] IN
       \E e \in Listed(dir, of.dir) : e.name = of.name /\ e.first = of.first]_foVars

\* Every write ends: the loop does not run forever, whatever state the FAT is in.
WritesReturn == op.cmd = "write" ~> op.cmd # "write"
===========================================================================
