----------------------------- MODULE SizeProofs -----------------------------
(***************************************************************************)
(* Files and their sizes, used with care.  First: text never goes over the *)
(* entries of a directory and read never copies more than there is.  Then: *)
(* a file has the blocks its size calls for, and close writes the size to  *)
(* the entry it belongs to.                                                *)
(***************************************************************************)
EXTENDS PoolProofs

---------------------------------------------------------------------------
(* What the program does stays defined *)

LEMMA SmallMod ==
  \A a \in Nat : a < WordSize => a % WordSize = a
<1> SUFFICES ASSUME NEW a \in Nat, a < WordSize PROVE a % WordSize = a
  OBVIOUS
<1>1. WordSize \in Nat \ {0}
  BY FileOpsAssumption
<1>2. WordSize \in Nat /\ WordSize > 0
  BY <1>1
<1>. QED  BY <1>2

\* With a count in range, nothing wraps around.
LEMMA NoOverrun ==
  ASSUME TypeInv, CursorInFile, NEW fd, NEW n \in Nat, InRange(fd, n),
         NEW u \in user_fds, u.fd = fd
  PROVE  ~Overruns(sys_files[u.file], n)
<1> DEFINE of == sys_files[u.file]
<1>1. /\ of.cursor \in Nat /\ of.size \in Nat /\ of.cursor <= of.size
  <2>1. u.file \in DOMAIN sys_files /\ of \in OpenFile
    BY TypeFacts
  <2>. QED  BY <2>1 DEF OpenFile, CursorInFile
<1>2. of.cursor + n < WordSize /\ n + 1 < WordSize
  BY DEF InRange
<1>3. (of.cursor + n) % WordSize = of.cursor + n /\ (n + 1) % WordSize = n + 1
  BY <1>1, <1>2, SmallMod
<1> HIDE DEF of
<1>4. Cut(of, n) = IF of.cursor + n > of.size THEN of.size - of.cursor ELSE n
  BY <1>3 DEF Cut
<1>5. of.cursor + Cut(of, n) <= of.size /\ Cut(of, n) <= n
  BY <1>1, <1>4
<1>6. Cut(of, n) \in Int
  BY <1>1, <1>4
<1>. QED  BY <1>1, <1>3, <1>5, <1>6 DEF Overruns, BufferSize, of

\* A block of a file holds no entries.
LEMMA FileBlocksApart ==
  ASSUME TypeInv, NEW f, Sound(f, Heads), NEW h \in Heads, dir[h] = {},
         NEW b \in Chain(f, h)
  PROVE  b \notin DirectoryBlocks(f)
<1> SUFFICES ASSUME NEW d \in DataBlock, dir[d] # {}, b \in Chain(f, d) PROVE FALSE
  BY DEF DirectoryBlocks
<1>1. d \in Heads /\ d # h
  BY InHeads
<1>. QED  BY <1>1, HeadsType, ChainsDisjoint

\* The first block of an open file is that of a file.
LEMMA OpenFileIsFile ==
  ASSUME TypeInv, DiskInv, NEW i, InUse(i)
  PROVE  /\ sys_files[i].first \in Heads /\ sys_files[i].first \in DataBlock
         /\ dir[sys_files[i].first] = {}
<1>1. i \in DOMAIN sys_files /\ sys_files[i].dir \in DataBlock /\ sys_files[i].first \in DataBlock
  BY RecordType DEF InUse
<1>2. PICK e \in Listed(dir, sys_files[i].dir) : e.first = sys_files[i].first /\ e.attr = ATTR_FILE
  BY <1>1 DEF DiskInv, OpenFilesListed
<1>3. dir[sys_files[i].first] = {}
  BY <1>1, <1>2, AttrsDiffer DEF DiskInv, DirInv, KindsAgree
<1>. QED  BY <1>1, <1>3, OpenFileIsHead DEF DiskInv

LEMMA CloseStaysDefined ==
  ASSUME TableInv, DiskInv, NEW fd, Close(fd)
  PROVE  op' = Idle
<1>1. PICK u \in user_fds : op' = IF Recycled(sys_files[u.file]) THEN Lost ELSE op
  BY DEF Close
<1>2. InUse(u.file)
  BY UsedRecords
<1>3. \E e : e \in Listed(dir, sys_files[u.file].dir)
  BY <1>2 DEF DiskInv, OpenFilesListed, InUse
<1>4. ~Recycled(sys_files[u.file])
  BY <1>3 DEF Recycled, Listed
<1>. QED  BY <1>1, <1>4 DEF Close

LEMMA ReadStaysDefined ==
  ASSUME TypeInv, CursorInFile, NEW fd, NEW n \in Nat, InRange(fd, n), Read(fd, n)
  PROVE  op' = Idle
BY NoOverrun DEF Read

\* The block the loop of write is about to write to, if there is one, is the file's.
LEMMA TargetFacts ==
  ASSUME TypeInv, DiskInv, op.cmd = "write"
  PROVE  LET h == sys_files[op.file].first IN
         /\ op \in Writing /\ InUse(op.file) /\ h \in Heads /\ h \in DataBlock /\ dir[h] = {}
         /\ op.pos \div BlockSize \in Nat
         /\ Target \in Chain(fat, h) \cup {NoBlock}
         /\ Target # NoBlock <=> op.pos \div BlockSize < Cardinality(Chain(fat, h))
<1> DEFINE h == sys_files[op.file].first
           k == op.pos \div BlockSize
<1>1. op \in Writing /\ InUse(op.file)
  BY WritingFacts DEF DiskInv, RecordsInv
<1>2. h \in Heads /\ h \in DataBlock /\ dir[h] = {}
  BY <1>1, OpenFileIsFile
<1>3. k \in Nat
  <2>1. op.pos \in Nat
    BY <1>1 DEF Writing
  <2>2. BlockSize \in Nat \ {0}
    BY FileOpsAssumption
  <2>. QED  BY <2>1, <2>2
<1>4. Target = NthBlock(fat, h, k)
  BY DEF Target
<1> HIDE DEF h, k
<1>5. NthBlock(fat, h, k) \in Chain(fat, h) \cup {NoBlock}
  BY <1>2, <1>3, TypeFacts, NthInChain
<1>6. NthBlock(fat, h, k) # NoBlock <=> k < Cardinality(Chain(fat, h))
  BY <1>2, <1>3, SoundFacts, NthFound
<1>. QED  BY <1>1, <1>2, <1>3, <1>4, <1>5, <1>6 DEF h, k

\* A turn of write goes to a block of the file, or to one the file grows by.
LEMMA WriteBlockSteps ==
  ASSUME TypeInv, DiskInv, WriteBlock
  PROVE  LET h == sys_files[op.file].first IN
         /\ op' = [op EXCEPT !.pos = @ + Part, !.left = @ - Part]
         /\ UNCHANGED <<dir, openVars>>
         /\ \/ Target # NoBlock /\ fat' = fat
            \/ /\ Target = NoBlock
               /\ \E b \in DataBlock, t \in Tails(fat, h) :
                    fat[b] = FAT_FREE /\ fat' = Linked(fat, t, b)
<1> DEFINE h == sys_files[op.file].first
<1>0. op.cmd = "write" /\ UNCHANGED <<dir, openVars>>
  BY DEF WriteBlock
<1>1. h \in Heads /\ h \in DataBlock /\ dir[h] = {} /\ Target \in Chain(fat, h) \cup {NoBlock}
  BY <1>0, TargetFacts
<1> HIDE DEF h
<1>2. CASE Target # NoBlock /\ Put(fat, Target) /\ fat' = fat
  <2>1. Target \notin DirectoryBlocks(fat)
    BY <1>1, <1>2, SoundFacts, FileBlocksApart
  <2>. QED  BY <1>0, <1>2, <2>1 DEF Put
<1>3. CASE /\ Target = NoBlock
           /\ \E b \in Lowest(FatFree(fat)), t \in Tails(fat, h) :
                fat' = Linked(fat, t, b) /\ Put(fat', b)
  <2>1. PICK b \in Lowest(FatFree(fat)), t \in Tails(fat, h) :
               fat' = Linked(fat, t, b) /\ Put(fat', b)
    BY <1>3
  <2>2. b \in DataBlock /\ fat[b] = FAT_FREE
    BY LowestIn DEF FatFree
  <2>3. t \in DataBlock /\ fat[t] = FAT_EOF
    BY <1>1, SoundFacts, TailsEnd DEF Sound
  <2>4. Sound(fat', Heads) /\ b \in Chain(fat', h)
    BY <1>1, <2>1, <2>2, <2>3, SoundFacts, SoundGrow, ChainGrown
  <2>5. b \notin DirectoryBlocks(fat')
    BY <1>1, <2>4, FileBlocksApart
  <2>. QED  BY <1>0, <1>3, <2>1, <2>2, <2>5 DEF Put, h
<1>. QED  BY <1>0, <1>2, <1>3 DEF WriteBlock, h

LEMMA NextDefined ==
  ASSUME UsedWithCare, "counts in range" \in Habits, CarefulInv, NeverLost, [Next]_vars
  PROVE  NeverLost'
<1>1. TypeInv /\ TableInv /\ DiskInv /\ CursorInFile
  BY DEF CarefulInv, TableInv
<1>2. /\ UNCHANGED op => NeverLost'
      /\ op'.cmd = "cd" \/ op'.cmd = "write" => NeverLost'
      /\ op' = Idle => NeverLost'
  <2>1. Lost.cmd = "lost" /\ Idle.cmd = "idle"
    BY DEF Idle, Lost
  <2>. QED  BY <2>1 DEF NeverLost
<1>3. CASE FileCommand
  <2>1. ASSUME NEW fd, Close(fd) PROVE NeverLost'
    BY <1>1, <1>2, <2>1, CloseStaysDefined
  <2>2. ASSUME NEW fd, NEW n \in ReadSizes, CanAsk(fd, n), Read(fd, n) PROVE NeverLost'
    <3>1. n \in Nat /\ InRange(fd, n)
      BY <2>2, FileOpsAssumption DEF CanAsk, Allows
    <3>. QED  BY <1>1, <1>2, <2>2, <3>1, ReadStaysDefined
  <2>3. ASSUME NEW fd, NEW n, Write(fd, n) PROVE NeverLost'
    <3>1. PICK u \in user_fds : op' = [cmd |-> "write", file |-> u.file,
                                     pos |-> sys_files[u.file].cursor, left |-> n]
      BY <2>3 DEF Write
    <3>2. op'.cmd = "write"
      BY <3>1
    <3>. QED  BY <1>2, <3>2
  <2>4. ASSUME NEW n, Create(cur_block, n) \/ Open(cur_block, n) \/ Remove(cur_block, n)
        PROVE  NeverLost'
    BY <1>2, <2>4 DEF Create, Open, Remove
  <2>. QED  BY <1>3, <2>1, <2>2, <2>3, <2>4 DEF FileCommand
<1>4. CASE DirectoryCommand
  <2>1. ASSUME NEW n, Mkdir(n) \/ Rmdir(n) PROVE NeverLost'
    BY <1>2, <2>1 DEF Mkdir, Rmdir
  <2>2. ASSUME NEW old, NEW new, Rename(old, new) PROVE NeverLost'
    BY <1>2, <2>2 DEF Rename
  <2>3. ASSUME NEW start, NEW segs, Cd(start, segs) PROVE NeverLost'
    <3>1. op'.cmd = "cd"
      BY <2>3 DEF Cd, Walking
    <3>. QED  BY <1>2, <3>1
  <2>. QED  BY <1>4, <2>1, <2>2, <2>3 DEF DirectoryCommand
<1>5. CASE Turn
  <2>1. CASE WriteBlock
    <3>1. op \in Writing /\ op' = [op EXCEPT !.pos = @ + Part, !.left = @ - Part]
      BY <1>1, <2>1, WriteBlockSteps, WritingFacts DEF WriteBlock
    <3>2. op'.cmd = "write"
      BY <3>1 DEF Writing
    <3>. QED  BY <1>2, <3>2
  <2>2. CASE CdUp \/ CdDown
    <3>1. PICK at, segs, stack : op' = Walking(at, segs, stack)
      BY <2>2, Zenon DEF CdUp, CdDown
    <3>2. op'.cmd = "cd"
      BY <3>1 DEF Walking
    <3>. QED  BY <1>2, <3>2
  <2>. QED  BY <1>2, <1>5, <2>1, <2>2 DEF Turn, Loop, WriteEnd, CdFail, CdEnd
<1>6. CASE Format
  BY <1>2, <1>6 DEF Format
<1>7. CASE UNCHANGED vars
  BY <1>2, <1>7 DEF vars, foVars
<1>. QED  BY <1>3, <1>4, <1>5, <1>6, <1>7 DEF Next

\* What the program does stays defined, on a disk of any size: text never goes over
\* the entries of a directory, a size is never written back into a block that serves
\* as something else, and read copies no more than there is, as long as the counts
\* given to it do not wrap around (write, close, read).
THEOREM StaysDefined ==
  ASSUME UsedWithCare, "counts in range" \in Habits
  PROVE  Spec => []NeverLost
<1>1. Init => NeverLost
  <2>1. Idle # Lost
    BY DEF Idle, Lost
  <2>. QED  BY <2>1 DEF Init, FOInit, NeverLost
<1>2. CarefulInv /\ [Next]_vars => CarefulInv'
  BY NextCareful
<1>3. CarefulInv /\ NeverLost /\ [Next]_vars => NeverLost'
  BY NextDefined
<1>. QED  BY <1>1, <1>2, <1>3, InitCareful, PTL DEF Spec
---------------------------------------------------------------------------
(* Bytes and blocks *)

LEMMA Products ==
  /\ BlockSize \in Nat /\ BlockSize > 0
  /\ \A m, n \in Int : m <= n => BlockSize * m <= BlockSize * n
  /\ \A n \in Int : BlockSize * (n + 1) = BlockSize * n + BlockSize
  /\ \A n \in Int : BlockSize * n \in Int
<1>1. BlockSize \in Nat \ {0}
  BY FileOpsAssumption
<1>2. BlockSize \in Nat /\ BlockSize > 0
  BY <1>1
<1>3. ASSUME NEW m \in Int, NEW n \in Int, m <= n
      PROVE  BlockSize * m <= BlockSize * n
  <2>1. n - m \in Nat
    BY <1>3
  <2>2. BlockSize * (n - m) >= 0
    BY <1>2, <2>1
  <2>3. BlockSize * (n - m) = BlockSize * n - BlockSize * m
    BY <1>2
  <2>4. BlockSize * n \in Int /\ BlockSize * m \in Int
    BY <1>2
  <2>. QED  BY <2>2, <2>3, <2>4
<1>4. \A n \in Int : BlockSize * (n + 1) = BlockSize * n + BlockSize
  BY <1>2
<1>5. \A n \in Int : BlockSize * n \in Int
  BY <1>2
<1>. QED  BY <1>2, <1>3, <1>4, <1>5

LEMMA Division ==
  \A p \in Nat : /\ p \div BlockSize \in Nat /\ p % BlockSize \in Nat
                 /\ p % BlockSize < BlockSize
                 /\ p = BlockSize * (p \div BlockSize) + (p % BlockSize)
<1> SUFFICES ASSUME NEW p \in Nat
             PROVE  /\ p \div BlockSize \in Nat /\ p % BlockSize \in Nat
                    /\ p % BlockSize < BlockSize
                    /\ p = BlockSize * (p \div BlockSize) + (p % BlockSize)
  OBVIOUS
<1>1. BlockSize \in Nat /\ BlockSize > 0
  BY Products
<1>. QED  BY <1>1

\* The number of blocks a size calls for is the least that is enough, and never 0.
LEMMA BlocksForLeast ==
  ASSUME NEW x \in Nat
  PROVE  /\ BlocksFor(x) \in Nat /\ BlocksFor(x) >= 1
         /\ \A n \in Nat : n >= 1 => (BlocksFor(x) <= n <=> x <= BlockSize * n)
<1>1. CASE x = 0
  <2>1. BlocksFor(x) = 1
    BY <1>1 DEF BlocksFor
  <2>2. \A n \in Nat : BlockSize * 0 <= BlockSize * n /\ BlockSize * 0 = 0
    BY Products
  <2>. QED  BY <1>1, <2>1, <2>2
<1>2. CASE x # 0
  <2> DEFINE y == x + BlockSize - 1
             d == y \div BlockSize
             r == y % BlockSize
  <2>0. BlockSize \in Nat /\ BlockSize > 0
    BY Products
  <2>1. y \in Nat /\ y >= BlockSize
    BY <1>2, <2>0
  <2>2. d \in Nat /\ r \in Nat /\ r < BlockSize /\ y = BlockSize * d + r
    BY <2>1, Division
  <2>3. BlocksFor(x) = d /\ x = y - BlockSize + 1
    BY <1>2, <2>0 DEF BlocksFor
  <2> HIDE DEF y, d, r
  <2>4. d >= 1
    <3>1. CASE d = 0
      <4>1. BlockSize * d = 0
        BY <2>0, <3>1
      <4>. QED  BY <2>0, <2>1, <2>2, <4>1
    <3>. QED  BY <2>2, <3>1
  <2>5. ASSUME NEW n \in Nat
        PROVE  d <= n <=> x <= BlockSize * n
    <3>0. BlockSize * n \in Int /\ BlockSize * d \in Int /\ BlockSize * (n + 1) \in Int
      BY <2>2, Products
    <3>1. ASSUME d <= n PROVE x <= BlockSize * n
      <4>1. BlockSize * d <= BlockSize * n
        BY <2>2, <3>1, Products
      <4>. QED  BY <2>0, <2>1, <2>2, <2>3, <3>0, <4>1
    <3>2. ASSUME ~ (d <= n) PROVE ~ (x <= BlockSize * n)
      <4>1. n + 1 <= d
        BY <2>2, <3>2
      <4>2. BlockSize * (n + 1) <= BlockSize * d
        BY <2>2, <4>1, Products
      <4>3. BlockSize * (n + 1) = BlockSize * n + BlockSize
        BY Products
      <4>. QED  BY <2>0, <2>1, <2>2, <2>3, <3>0, <4>2, <4>3
    <3>. QED  BY <3>1, <3>2
  <2>. QED  BY <2>2, <2>3, <2>4, <2>5
<1>. QED  BY <1>1, <1>2

\* One turn of write puts l bytes at p, none of them behind the block of p.  If the
\* chain, which has a block for each byte up to p or s, reaches to the block of p, it
\* is long enough; if not, it is exactly one block too short.
LEMMA OneTurn ==
  ASSUME NEW p \in Nat, NEW s \in Nat, NEW l \in Nat, l >= 1,
         l <= BlockSize - (p % BlockSize), NEW c \in Nat, c = BlocksFor(LargerOf(p, s))
  PROVE  /\ p \div BlockSize < c => BlocksFor(LargerOf(p + l, s)) = c
         /\ ~ (p \div BlockSize < c) => BlocksFor(LargerOf(p + l, s)) = c + 1
<1> DEFINE q == p \div BlockSize
           x == LargerOf(p + l, s)
<1>0. BlockSize \in Nat /\ BlockSize > 0
  BY Products
<1>1. q \in Nat /\ p >= BlockSize * q /\ p + l <= BlockSize * (q + 1) /\ BlockSize * q \in Int
  <2>1. q \in Nat /\ p % BlockSize \in Nat /\ p = BlockSize * q + (p % BlockSize)
    BY Division
  <2>2. BlockSize * (q + 1) = BlockSize * q + BlockSize /\ BlockSize * q \in Int
    BY <2>1, Products
  <2> HIDE DEF q
  <2>. QED  BY <1>0, <2>1, <2>2
<1>2. /\ x \in Nat /\ LargerOf(p, s) \in Nat
      /\ \A m \in Int : x <= m <=> p + l <= m /\ s <= m
      /\ \A m \in Int : LargerOf(p, s) <= m <=> p <= m /\ s <= m
  BY DEF LargerOf
<1>3. c >= 1 /\ \A n \in Nat : n >= 1 => (c <= n <=> LargerOf(p, s) <= BlockSize * n)
  BY <1>2, BlocksForLeast
<1>4. /\ BlocksFor(x) \in Nat /\ BlocksFor(x) >= 1
      /\ \A n \in Nat : n >= 1 => (BlocksFor(x) <= n <=> x <= BlockSize * n)
  BY <1>2, BlocksForLeast
<1> HIDE DEF q, x
<1>5. p <= BlockSize * c /\ s <= BlockSize * c /\ BlockSize * c \in Int
  <2>1. LargerOf(p, s) <= BlockSize * c /\ BlockSize * c \in Int
    BY <1>3, Products
  <2>. QED  BY <1>2, <2>1
<1>6. ASSUME q < c PROVE BlocksFor(x) = c
  <2>1. BlockSize * (q + 1) <= BlockSize * c /\ BlockSize * (q + 1) \in Int
    BY <1>1, <1>6, Products
  <2>2. BlocksFor(x) <= c
    BY <1>1, <1>2, <1>3, <1>4, <1>5, <2>1
  <2>3. c <= BlocksFor(x)
    <3>1. x <= BlockSize * BlocksFor(x) /\ BlockSize * BlocksFor(x) \in Int
      BY <1>4, Products
    <3>2. LargerOf(p, s) <= BlockSize * BlocksFor(x)
      BY <1>2, <3>1
    <3>. QED  BY <1>3, <1>4, <3>2
  <2>. QED  BY <1>4, <2>2, <2>3
<1>7. ASSUME ~ (q < c) PROVE BlocksFor(x) = c + 1
  <2>1. BlockSize * c <= BlockSize * q
    BY <1>1, <1>7, Products
  <2>2. p = BlockSize * q /\ BlockSize * q = BlockSize * c
    BY <1>1, <1>5, <2>1
  <2>3. BlockSize * (c + 1) = BlockSize * (q + 1) /\ BlockSize * (c + 1) \in Int
    BY <1>1, <2>2, Products
  <2>4. x <= BlockSize * (c + 1)
    BY <1>1, <1>2, <1>5, <2>2, <2>3, Products
  <2>5. ~ (x <= BlockSize * c)
    BY <1>2, <1>5, <2>2
  <2>. QED  BY <1>3, <1>4, <2>4, <2>5
<1>. QED  BY <1>6, <1>7 DEF q, x

---------------------------------------------------------------------------
(* The invariant *)

\* A record in use has the name of the entry it stands for, so that close finds it.
RecordsNamed ==
  \A i \in DOMAIN sys_files : InUse(i) =>
    \E e \in Listed(dir, sys_files[i].dir) :
      /\ e.first = sys_files[i].first /\ e.attr = ATTR_FILE
      /\ e.name = sys_files[i].name

\* The size in the entry of a file that is not open is right ...
ClosedSizes ==
  \A d \in DataBlock : \A e \in Listed(dir, d) :
    e.attr = ATTR_FILE /\ ~IsOpen(e.first) =>
      Cardinality(Chain(fat, e.first)) = BlocksFor(e.size)

\* ... and that in the record of an open one, if what the loop of write has put
\* down and not yet counted is added.
GrownSize(i) ==
  IF op.cmd = "write" /\ op.file = i THEN LargerOf(op.pos, sys_files[i].size)
  ELSE sys_files[i].size

OpenSizes ==
  \A i \in DOMAIN sys_files : InUse(i) =>
    Cardinality(Chain(fat, sys_files[i].first)) = BlocksFor(GrownSize(i))

SizeInv == RecordsNamed /\ ClosedSizes /\ OpenSizes

\* The program works with one file at a time and with files that are closed.
Orderly ==
  UsedWithCare /\ NothingCut /\ "close before rename" \in Habits

LEMMA UsedIsOpen ==
  TableInv => \A b : IsOpen(b) <=> \E i : InUse(i) /\ sys_files[i].first = b
<1> SUFFICES ASSUME TableInv
             PROVE  \A b : IsOpen(b) <=> \E i : InUse(i) /\ sys_files[i].first = b
  OBVIOUS
<1>1. /\ \A i : InUse(i) => \E u \in user_fds : u.file = i
      /\ \A u \in user_fds : InUse(u.file)
  BY UsedRecords
<1>. QED  BY <1>1 DEF IsOpen

LEMMA UsedIsOpenNext ==
  TableInv' => \A b : IsOpen(b)' <=> \E i : InUse(i)' /\ sys_files'[i].first = b
<1>1. (\A b : IsOpen(b) <=> \E i : InUse(i) /\ sys_files[i].first = b)'
        <=> \A b : IsOpen(b)' <=> \E i : InUse(i)' /\ sys_files'[i].first = b
  OBVIOUS
<1>. QED  BY <1>1, UsedIsOpen, PTL

\* What is new has one block.
LEMMA MovesFresh ==
  ASSUME TypeInv, DiskInv, MovesSome, NEW h \in DataBlock, h \in Heads', h \notin Heads
  PROVE  Chain(fat', h) = {h}
<1>1. CASE \E g \in DataBlock : Takes(g)
  <2>1. PICK g \in DataBlock : Takes(g)
    BY <1>1
  <2>2. g = h /\ fat' = Marked(h) /\ fat[h] = FAT_FREE
    BY <2>1 DEF Takes, Fresh
  <2>. QED  BY <2>2, MarkedChains
<1>2. CASE \E g, x, b \in DataBlock : dir[x] # {} /\ TakesAndGrows(g, x, b)
  <2>1. PICK g \in DataBlock, x \in DataBlock, b \in DataBlock : TakesAndGrows(g, x, b)
    BY <1>2
  <2>2. g = h
    BY <2>1 DEF TakesAndGrows
  <2>. QED  BY <2>1, <2>2, TakesAndGrowsFacts
<1>. QED  BY <1>1, <1>2 DEF MovesSome, Stays, GivesBack, Grows

\* Every file there is after a step was there before, with the same size, or is new
\* and empty ...
FilesKeepSizes ==
  \A c \in DataBlock : \A k \in Listed(dir', c) : k.attr = ATTR_FILE =>
    \/ k.first \notin Heads /\ k.size = 0
    \/ \E d \in DataBlock : \E e \in Listed(dir, d) :
         e.first = k.first /\ e.attr = ATTR_FILE /\ e.size = k.size

\* ... and the entries of open files stay as they are.
OpenEntriesKept ==
  \A d \in DataBlock : \A e \in Listed(dir, d) :
    e.attr = ATTR_FILE /\ IsOpen(e.first) => e \in Listed(dir', d)

\* That is enough for a command that touches neither the tables of open files nor the
\* state of a loop.
LEMMA DiskCommandSizes ==
  ASSUME TableInv, TypeInv, DiskInv, SizeInv, TypeInv', MovesSome,
         op = Idle, UNCHANGED <<openVars, op>>, FilesKeepSizes, OpenEntriesKept
  PROVE  SizeInv'
<1>1. /\ sys_files' = sys_files /\ user_fds' = user_fds /\ op' = Idle /\ op.cmd # "write"
      /\ \A i : InUse(i)' <=> InUse(i)
      /\ \A b : IsOpen(b)' <=> IsOpen(b)
      /\ \A i : GrownSize(i)' = GrownSize(i)
  BY DEF openVars, InUse, IsOpen, GrownSize, Idle
<1>2. Moves
  BY DEF Moves
<1>3. ASSUME NEW d \in DataBlock, NEW e \in Listed(dir, d), e.attr = ATTR_FILE,
             NEW c \in DataBlock, NEW k \in Listed(dir', c), k.first = e.first
      PROVE  Chain(fat', e.first) = Chain(fat, e.first)
  <2>1. k.first \in Heads'
    BY <1>3, InHeads, TypeFacts, ListedType
  <2>. QED  BY <1>1, <1>2, <1>3, <2>1, MovesIsolate
<1>4. RecordsNamed'
  <2> SUFFICES ASSUME NEW i \in DOMAIN sys_files, InUse(i)
               PROVE  \E e \in Listed(dir', sys_files[i].dir) :
                        /\ e.first = sys_files[i].first /\ e.attr = ATTR_FILE
                        /\ e.name = sys_files[i].name
    BY <1>1 DEF RecordsNamed
  <2>1. sys_files[i].dir \in DataBlock /\ IsOpen(sys_files[i].first)
    BY RecordType, UsedIsOpen
  <2>. QED  BY <2>1 DEF SizeInv, RecordsNamed, OpenEntriesKept
<1>5. ClosedSizes'
  <2> SUFFICES ASSUME NEW c \in DataBlock, NEW k \in Listed(dir', c), k.attr = ATTR_FILE,
                      ~IsOpen(k.first)
               PROVE  Cardinality(Chain(fat', k.first)) = BlocksFor(k.size)
    BY <1>1 DEF ClosedSizes
  <2>0. k.first \in DataBlock /\ k.first \in Heads'
    <3>1. dir' \in [Block -> SUBSET Entry]
      BY DEF TypeInv, TypeOK, DirectoryTypeOK
    <3>2. k.first \in DataBlock
      BY <3>1, ListedType
    <3>. QED  BY <3>2, InHeads
  <2>1. CASE k.first \notin Heads /\ k.size = 0
    <3>1. Chain(fat', k.first) = {k.first}
      BY <2>0, <2>1, MovesFresh
    <3>. QED  BY <2>1, <3>1, FS_Singleton DEF BlocksFor
  <2>2. CASE \E d \in DataBlock : \E e \in Listed(dir, d) :
                e.first = k.first /\ e.attr = ATTR_FILE /\ e.size = k.size
    <3>0. PICK d \in DataBlock : \E e \in Listed(dir, d) :
            e.first = k.first /\ e.attr = ATTR_FILE /\ e.size = k.size
      BY <2>2
    <3>1. PICK e \in Listed(dir, d) :
            e.first = k.first /\ e.attr = ATTR_FILE /\ e.size = k.size
      BY <3>0
    <3>2. Chain(fat', e.first) = Chain(fat, e.first)
      BY <1>3, <3>1
    <3>3. Cardinality(Chain(fat, e.first)) = BlocksFor(e.size)
      BY <3>1 DEF SizeInv, ClosedSizes
    <3>. QED  BY <3>1, <3>2, <3>3
  <2>. QED  BY <2>1, <2>2 DEF FilesKeepSizes
<1>6. OpenSizes'
  <2> SUFFICES ASSUME NEW i \in DOMAIN sys_files, InUse(i)
               PROVE  Chain(fat', sys_files[i].first) = Chain(fat, sys_files[i].first)
    BY <1>1 DEF SizeInv, OpenSizes
  <2>1. sys_files[i].dir \in DataBlock /\ IsOpen(sys_files[i].first)
    BY RecordType, UsedIsOpen
  <2>2. PICK e \in Listed(dir, sys_files[i].dir) :
          e.first = sys_files[i].first /\ e.attr = ATTR_FILE
    BY DEF SizeInv, RecordsNamed
  <2>3. e \in Listed(dir', sys_files[i].dir)
    BY <2>1, <2>2 DEF OpenEntriesKept
  <2>. QED  BY <1>3, <2>1, <2>2, <2>3
<1>. QED  BY <1>4, <1>5, <1>6 DEF SizeInv

---------------------------------------------------------------------------
(* The commands that change the disk *)

LEMMA CreateSizes ==
  ASSUME TypeInv, DiskInv, NEW n \in AnyName, Create(cur_block, n)
  PROVE  FilesKeepSizes /\ OpenEntriesKept
<1>1. PICK b \in FindFree(bitmap) :
        \/ dir' = [dir EXCEPT ![cur_block] = @ \cup {NewEntry(n, b, ATTR_FILE)}]
        \/ UNCHANGED dir
  BY DEF Create, AddEntry
<1> DEFINE e == NewEntry(n, b, ATTR_FILE)
<1>2. b \notin Heads /\ e.first = b /\ e.size = 0
  BY BlockClaimed DEF NewEntry
<1> HIDE DEF e
<1>3. \A c \in DataBlock : dir[c] \subseteq dir'[c] /\ dir'[c] \subseteq dir[c] \cup {e}
  BY <1>1, TypeFacts, BlockFacts DEF e
<1>. QED  BY <1>2, <1>3 DEF FilesKeepSizes, OpenEntriesKept, Listed

LEMMA MkdirSizes ==
  ASSUME TypeInv, DiskInv, NEW n \in AnyName, Mkdir(n)
  PROVE  FilesKeepSizes /\ OpenEntriesKept
<1>1. PICK b \in FindFree(bitmap) :
        LET ds == [dir EXCEPT ![b] = InitDir(b, cur_block)]
        IN  \/ dir' = [ds EXCEPT ![cur_block] = @ \cup {NewEntry(n, b, ATTR_DIR)}]
            \/ dir' = ds
  BY DEF Mkdir, AddEntry
<1> DEFINE e == NewEntry(n, b, ATTR_DIR)
           i == InitDir(b, cur_block)
<1>2. b \in DataBlock /\ b # cur_block /\ dir[b] = {}
  <2>1. cur_block \in Heads
    BY DirectoryFacts DEF DiskInv, CwdIsDirectory
  <2>. QED  BY <2>1, BlockClaimed, NotHead
<1>3. e.attr = ATTR_DIR /\ \A k \in i : k.attr = ATTR_DIR
  BY DEF NewEntry, InitDir
<1> HIDE DEF e, i
<1>4. \A c \in DataBlock : dir[c] \subseteq dir'[c] /\ dir'[c] \subseteq dir[c] \cup {e} \cup i
  BY <1>1, <1>2, TypeFacts, BlockFacts DEF e, i
<1>. QED  BY <1>3, <1>4, AttrsDiffer DEF FilesKeepSizes, OpenEntriesKept, Listed

LEMMA RemoveSizes ==
  ASSUME TypeInv, DiskInv, NEW n, Remove(cur_block, n), NotOpen(cur_block, n)
  PROVE  FilesKeepSizes /\ OpenEntriesKept
<1>1. PICK e \in Find(dir, cur_block, n) : dir' = [dir EXCEPT ![cur_block] = @ \ {e}]
  BY DEF Remove
<1>2. ~IsOpen(e.first)
  BY DEF NotOpen
<1>3. \A c \in DataBlock : dir'[c] \subseteq dir[c] /\ dir[c] \subseteq dir'[c] \cup {e}
  BY <1>1, TypeFacts, BlockFacts
<1>. QED  BY <1>2, <1>3 DEF FilesKeepSizes, OpenEntriesKept, Listed

LEMMA RmdirSizes ==
  ASSUME TypeInv, DiskInv, NEW n, Rmdir(n)
  PROVE  FilesKeepSizes /\ OpenEntriesKept
<1>1. PICK e \in Find(dir, cur_block, n) :
        /\ e.attr = ATTR_DIR /\ Listed(dir, e.first) = {}
        /\ dir' = [dir EXCEPT ![e.first] = {}, ![cur_block] = @ \ {e}]
  BY DEF Rmdir
<1>2. \A c \in DataBlock : /\ Listed(dir', c) \subseteq Listed(dir, c)
                           /\ Listed(dir, c) \subseteq Listed(dir', c) \cup {e}
  BY <1>1, TypeFacts, BlockFacts DEF Listed
<1>. QED  BY <1>1, <1>2, AttrsDiffer DEF FilesKeepSizes, OpenEntriesKept

LEMMA RenameSizes ==
  ASSUME TypeInv, DiskInv, NEW old \in AnyName, NEW new \in AnyName, Rename(old, new),
         old \notin Dots, NotOpen(cur_block, old)
  PROVE  FilesKeepSizes /\ OpenEntriesKept
<1>1. PICK e \in Find(dir, cur_block, old) :
        dir' = Replaced(dir, cur_block, e, [e EXCEPT !.name = StoredName(new)])
  BY DEF Rename
<1> DEFINE k == [e EXCEPT !.name = StoredName(new)]
<1>2. cur_block \in DataBlock /\ e \in Listed(dir, cur_block) /\ e \in Entry
  BY TypeFacts, FindType DEF Find, Listed
<1>3. k.first = e.first /\ k.attr = e.attr /\ k.size = e.size /\ ~IsOpen(e.first)
  BY <1>2 DEF Entry, NotOpen
<1> HIDE DEF k
<1>4. \A c \in DataBlock : dir'[c] \subseteq dir[c] \cup {k} /\ dir[c] \subseteq dir'[c] \cup {e}
  BY <1>1, TypeFacts, BlockFacts DEF Replaced, k
<1>. QED  BY <1>2, <1>3, <1>4 DEF FilesKeepSizes, OpenEntriesKept, Listed

\* format leaves no file.
LEMMA FormatSizes ==
  ASSUME TableInv, user_fds = {}, Format
  PROVE  SizeInv'
<1>1. \A i : ~InUse(i)'
  <2>1. \A i : ~InUse(i)
    BY UsedRecords
  <2>. QED  BY <2>1 DEF Format, openVars, InUse
<1>2. \A d \in DataBlock : Listed(dir', d) = {}
  <2>1. \A d \in DataBlock : dir'[d] = {} \/ dir'[d] = InitDir(Root, Root)
    BY BlockFacts DEF Format, FormatDir
  <2>2. \A k \in InitDir(Root, Root) : k.name \in Dots
    BY DEF InitDir, NewEntry, StoredName, Dots
  <2>. QED  BY <2>1, <2>2 DEF Listed
<1>. QED  BY <1>1, <1>2 DEF SizeInv, RecordsNamed, ClosedSizes, OpenSizes

---------------------------------------------------------------------------
(* The commands that change the records of open files *)

\* A step that leaves the disk alone, and of every record what the invariant says
\* something about.
LEMMA SameSizes ==
  ASSUME TableInv, TableInv', SizeInv, UNCHANGED <<fat, dir>>,
         DOMAIN sys_files' = DOMAIN sys_files,
         \A j \in DOMAIN sys_files :
           /\ sys_files'[j].first = sys_files[j].first /\ sys_files'[j].dir = sys_files[j].dir
           /\ sys_files'[j].name = sys_files[j].name
           /\ sys_files'[j].ref > 0 <=> sys_files[j].ref > 0
           /\ GrownSize(j)' = GrownSize(j)
  PROVE  SizeInv'
<1>1. \A j : InUse(j)' <=> InUse(j)
  BY DEF InUse
<1>2. \A b : IsOpen(b)' <=> IsOpen(b)
  BY <1>1, UsedIsOpen, UsedIsOpenNext DEF InUse
<1>3. RecordsNamed'
  BY <1>1 DEF SizeInv, RecordsNamed
<1>4. ClosedSizes'
  BY <1>2 DEF SizeInv, ClosedSizes
<1>5. OpenSizes'
  BY <1>1 DEF SizeInv, OpenSizes
<1>. QED  BY <1>3, <1>4, <1>5 DEF SizeInv

\* ... that changes nothing but the running command, for instance.
LEMMA SameRecords ==
  ASSUME TableInv, TableInv', SizeInv, UNCHANGED <<fat, dir, sys_files>>,
         \A j \in DOMAIN sys_files : GrownSize(j)' = GrownSize(j)
  PROVE  SizeInv'
BY SameSizes

LEMMA NotWriting ==
  ASSUME op.cmd # "write", op'.cmd # "write", NEW j, sys_files'[j].size = sys_files[j].size
  PROVE  GrownSize(j)' = GrownSize(j)
BY DEF GrownSize

LEMMA ReadKeepsSizes ==
  ASSUME TableInv, TableInv', SizeInv, NEW fd, NEW n \in Nat, Read(fd, n)
  PROVE  SizeInv'
<1>1. TypeInv /\ UNCHANGED <<fat, dir>> /\ op.cmd # "write" /\ op'.cmd # "write"
  BY DEF TableInv, Read, diskVars, Idle, Lost
<1>2. CASE UNCHANGED sys_files
  BY <1>1, <1>2, NotWriting, SameRecords
<1>3. ASSUME NEW u \in user_fds, NEW got \in 0 .. n,
             sys_files' = [sys_files EXCEPT ![u.file].cursor = @ + got]
      PROVE  SizeInv'
  <2> DEFINE r == [sys_files[u.file] EXCEPT !.cursor = @ + got]
  <2>1. u.file \in DOMAIN sys_files /\ sys_files[u.file] \in OpenFile
    BY <1>1, TypeFacts
  <2>2. /\ r \in OpenFile /\ r.first = sys_files[u.file].first /\ r.dir = sys_files[u.file].dir
        /\ r.name = sys_files[u.file].name /\ r.ref = sys_files[u.file].ref
        /\ r.size = sys_files[u.file].size
    BY <2>1 DEF OpenFile
  <2>3. sys_files' = [sys_files EXCEPT ![u.file] = r]
    BY <1>3
  <2> HIDE DEF r
  <2>4. /\ DOMAIN sys_files' = DOMAIN sys_files
        /\ \A j \in DOMAIN sys_files : sys_files'[j] = IF j = u.file THEN r ELSE sys_files[j]
    BY <1>1, <2>1, <2>2, <2>3, TypeFacts, RecordUpdate
  <2>. QED  BY <1>1, <2>2, <2>4, NotWriting, SameSizes
<1>. QED  BY <1>2, <1>3 DEF Read

\* write starts at the cursor, which is in the file.
LEMMA WriteKeepsSizes ==
  ASSUME TableInv, TableInv', SizeInv, NEW fd, NEW n, Write(fd, n)
  PROVE  SizeInv'
<1>1. PICK u \in user_fds : op' = [cmd |-> "write", file |-> u.file,
                                  pos |-> sys_files[u.file].cursor, left |-> n]
  BY DEF Write
<1>2. /\ UNCHANGED <<fat, dir, sys_files>> /\ op.cmd # "write"
      /\ op'.file = u.file /\ op'.pos = sys_files[u.file].cursor
  BY <1>1 DEF Write, diskVars, openVars, Idle
<1>3. sys_files[u.file].cursor <= sys_files[u.file].size
  BY TypeFacts DEF TableInv, CursorInFile
<1>4. sys_files[u.file].cursor \in Nat /\ sys_files[u.file].size \in Nat
  <2>1. sys_files[u.file] \in OpenFile
    BY TypeFacts DEF TableInv
  <2>. QED  BY <2>1 DEF OpenFile
<1>5. \A j : GrownSize(j)' = GrownSize(j)
  BY <1>2, <1>3, <1>4 DEF GrownSize, LargerOf
<1>. QED  BY <1>2, <1>5, SameRecords

\* At the end of the loop the record gets what was put down.
LEMMA WriteEndKeepsSizes ==
  ASSUME TableInv, TableInv', SizeInv, WriteEnd
  PROVE  SizeInv'
<1> DEFINE of == sys_files[op.file]
           r  == Written(of, op.pos)
<1>0. TypeInv
  BY DEF TableInv
<1>1. op \in Writing /\ op.file \in DOMAIN sys_files /\ of \in OpenFile /\ op.cmd = "write"
  BY <1>0, WritingFacts DEF WriteEnd
<1>2. /\ r \in OpenFile /\ r.first = of.first /\ r.dir = of.dir
      /\ r.name = of.name /\ r.ref = of.ref /\ r.size = LargerOf(op.pos, of.size)
  BY <1>1 DEF Written, OpenFile, Writing, LargerOf
<1>3. sys_files' = [sys_files EXCEPT ![op.file] = r] /\ op'.cmd # "write"
  BY DEF WriteEnd, Idle
<1> HIDE DEF r
<1>4. /\ DOMAIN sys_files' = DOMAIN sys_files
      /\ \A j \in DOMAIN sys_files : sys_files'[j] = IF j = op.file THEN r ELSE sys_files[j]
  BY <1>0, <1>1, <1>2, <1>3, TypeFacts, RecordUpdate
<1>5. \A j \in DOMAIN sys_files : GrownSize(j)' = GrownSize(j)
  BY <1>1, <1>2, <1>3, <1>4 DEF GrownSize
<1>. QED  BY <1>2, <1>4, <1>5, SameSizes DEF WriteEnd, diskVars

\* open finds the right size in the entry of a file that is not open, and in the
\* record of one that is.
LEMMA OpenKeepsSizes ==
  ASSUME NothingCut, TableInv, TableInv', DiskInv, SizeInv, NEW n \in AnyName,
         Open(cur_block, n)
  PROVE  SizeInv'
<1>1. /\ TypeInv /\ UNCHANGED <<fat, dir>> /\ op.cmd # "write" /\ op'.cmd # "write"
      /\ cur_block \in DataBlock
  BY TypeFacts DEF TableInv, Open, diskVars, Idle
<1>2. PICK e \in Find(dir, cur_block, n) :
        /\ e.attr = ATTR_FILE
        /\ \/ \E i \in Lowest(Shared(e.first)) :
                sys_files' = [sys_files EXCEPT ![i].ref = @ + 1]
           \/ /\ Shared(e.first) = {}
              /\ sys_files' = Append(sys_files, NewOpenFile(e, cur_block, n))
  BY DEF Open
<1>3. e \in Listed(dir, cur_block) /\ e.name = n
  BY <1>1, <1>2, FileIsListed DEF DiskInv
<1>4. CASE \E i \in Lowest(Shared(e.first)) : sys_files' = [sys_files EXCEPT ![i].ref = @ + 1]
  <2>1. PICK i \in DOMAIN sys_files :
          sys_files[i].ref > 0 /\ sys_files' = [sys_files EXCEPT ![i].ref = @ + 1]
    BY <1>4, LowestIn DEF Shared
  <2> DEFINE r == [sys_files[i] EXCEPT !.ref = @ + 1]
  <2>2. sys_files[i] \in OpenFile
    BY <1>1, RecordType
  <2>3. /\ r \in OpenFile /\ r.first = sys_files[i].first /\ r.dir = sys_files[i].dir
        /\ r.name = sys_files[i].name /\ r.ref > 0 /\ r.size = sys_files[i].size
    BY <2>1, <2>2 DEF OpenFile
  <2>4. sys_files' = [sys_files EXCEPT ![i] = r]
    BY <2>1
  <2> HIDE DEF r
  <2>5. /\ DOMAIN sys_files' = DOMAIN sys_files
        /\ \A j \in DOMAIN sys_files : sys_files'[j] = IF j = i THEN r ELSE sys_files[j]
    BY <1>1, <2>1, <2>3, <2>4, TypeFacts, RecordUpdate
  <2>. QED  BY <1>1, <2>1, <2>3, <2>5, NotWriting, SameSizes
<1>5. CASE /\ Shared(e.first) = {}
           /\ sys_files' = Append(sys_files, NewOpenFile(e, cur_block, n))
  <2> DEFINE m == Len(sys_files) + 1
             r == NewOpenFile(e, cur_block, n)
  <2>1. /\ r.first = e.first /\ r.dir = cur_block /\ r.name = e.name /\ r.size = e.size
        /\ r.ref = 1
    BY <1>3, StoredSame DEF NewOpenFile
  <2> HIDE DEF r
  <2>2. /\ DOMAIN sys_files' = DOMAIN sys_files \cup {m}
        /\ sys_files'[m] = r /\ m \notin DOMAIN sys_files
        /\ \A j \in DOMAIN sys_files : sys_files'[j] = sys_files[j]
    BY <1>1, <1>5, TypeFacts DEF r
  <2> HIDE DEF m
  <2>3. \A j : InUse(j)' <=> InUse(j) \/ j = m
    BY <2>1, <2>2 DEF InUse
  <2>4. ~IsOpen(e.first)
    BY <1>5, UsedIsOpen DEF Shared, InUse
  <2>5. Cardinality(Chain(fat, e.first)) = BlocksFor(e.size)
    BY <1>1, <1>2, <1>3, <2>4 DEF SizeInv, ClosedSizes
  <2>6. RecordsNamed'
    BY <1>1, <1>2, <1>3, <2>1, <2>2, <2>3 DEF SizeInv, RecordsNamed
  <2>7. ClosedSizes'
    <3>1. \A b : IsOpen(b) => IsOpen(b)'
      BY <2>2, <2>3, UsedIsOpen, UsedIsOpenNext DEF InUse
    <3>. QED  BY <1>1, <3>1 DEF SizeInv, ClosedSizes
  <2>8. OpenSizes'
    <3> SUFFICES ASSUME NEW j \in DOMAIN sys_files', InUse(j)'
                 PROVE  Cardinality(Chain(fat, sys_files'[j].first)) = BlocksFor(sys_files'[j].size)
      BY <1>1 DEF OpenSizes, GrownSize
    <3>1. CASE j = m
      BY <2>1, <2>2, <2>5, <3>1
    <3>2. CASE j # m
      BY <1>1, <2>2, <2>3, <3>2 DEF SizeInv, OpenSizes, GrownSize
    <3>. QED  BY <3>1, <3>2
  <2>. QED  BY <2>6, <2>7, <2>8 DEF SizeInv
<1>. QED  BY <1>2, <1>4, <1>5

\* The entry close finds by name is that of the file that is open, and there is no
\* other of that name.
LEMMA CloseWritesBack ==
  ASSUME TableInv, DiskInv, UniqueNames, SizeInv, NEW u \in user_fds,
         NEW of, of = sys_files[u.file],
         \/ WriteBack(of) = {} /\ UNCHANGED dir
         \/ dir' \in WriteBack(of)
  PROVE  \E e \in Listed(dir, of.dir) :
           /\ e.first = of.first /\ e.attr = ATTR_FILE /\ e.name = of.name
           /\ dir' = Replaced(dir, of.dir, e, [e EXCEPT !.size = of.size])
<1>1. u.file \in DOMAIN sys_files /\ InUse(u.file)
  BY UsedRecords DEF InUse
<1>2. PICK e \in Listed(dir, of.dir) :
        e.first = of.first /\ e.attr = ATTR_FILE /\ e.name = of.name
  BY <1>1 DEF SizeInv, RecordsNamed
<1>3. of.dir \in DataBlock
  BY <1>1, RecordType DEF TableInv
<1>4. \A k \in Find(dir, of.dir, of.name) : k = e
  BY <1>2, <1>3 DEF UniqueNames, Find, Listed
<1>5. e \in Find(dir, of.dir, of.name)
  BY <1>2 DEF Find, Listed
<1>6. WriteBack(of) = {Replaced(dir, of.dir, e, [e EXCEPT !.size = of.size])}
  BY <1>4, <1>5 DEF WriteBack
<1>. QED  BY <1>2, <1>6

LEMMA CloseKeepsSizes ==
  ASSUME TableInv, TableInv', DiskInv, UniqueNames, SizeInv, NEW fd, Close(fd)
  PROVE  SizeInv'
<1>1. PICK u \in user_fds :
        /\ sys_files' = [sys_files EXCEPT ![u.file] = Released(sys_files[u.file])]
        /\ \/ WriteBack(sys_files[u.file]) = {} /\ UNCHANGED dir
           \/ dir' \in WriteBack(sys_files[u.file])
  BY DEF Close
<1> DEFINE of == sys_files[u.file]
           r  == Released(of)
<1>2. TypeInv /\ fat' = fat /\ op.cmd # "write" /\ op'.cmd # "write"
  <2>1. op = Idle /\ op' = Idle
    BY CloseStaysDefined DEF Close
  <2>. QED  BY <2>1 DEF TableInv, Close, Idle
<1>3. u.file \in DOMAIN sys_files /\ InUse(u.file) /\ of \in OpenFile
  BY <1>2, TypeFacts, UsedRecords
<1>4. /\ r \in OpenFile /\ r.first = of.first /\ r.dir = of.dir /\ r.name = of.name
      /\ r.size = of.size /\ (r.ref > 0 => of.ref > 0)
  BY <1>3 DEF Released, OpenFile
<1>5. sys_files' = [sys_files EXCEPT ![u.file] = r]
  BY <1>1
<1> HIDE DEF r
<1>6. /\ DOMAIN sys_files' = DOMAIN sys_files
      /\ \A j \in DOMAIN sys_files : sys_files'[j] = IF j = u.file THEN r ELSE sys_files[j]
  BY <1>2, <1>3, <1>4, <1>5, TypeFacts, RecordUpdate
<1>7. PICK e \in Listed(dir, of.dir) :
        /\ e.first = of.first /\ e.attr = ATTR_FILE /\ e.name = of.name
        /\ dir' = Replaced(dir, of.dir, e, [e EXCEPT !.size = of.size])
  BY <1>1, CloseWritesBack
<1> DEFINE k == [e EXCEPT !.size = of.size]
<1>8. of.dir \in DataBlock /\ e \in Entry /\ of.first \in DataBlock /\ of.size \in Nat
  BY <1>2, <1>3, <1>7, TypeFacts, ListedType DEF OpenFile
<1>9. /\ k.first = e.first /\ k.attr = e.attr /\ k.name = e.name /\ k.size = of.size
  BY <1>8 DEF Entry
<1> HIDE DEF k
<1>10. \A c \in DataBlock :
         Listed(dir', c) = IF c = of.dir THEN (Listed(dir, c) \ {e}) \cup {k} ELSE Listed(dir, c)
  <2>1. \A c \in DataBlock : dir'[c] = IF c = of.dir THEN (dir[c] \ {e}) \cup {k} ELSE dir[c]
    BY <1>2, <1>7, TypeFacts, BlockFacts DEF Replaced, k
  <2>. QED  BY <1>7, <1>9, <2>1 DEF Listed
<1> HIDE DEF of
<1>11. \A j \in DOMAIN sys_files :
         /\ sys_files'[j].first = sys_files[j].first /\ sys_files'[j].dir = sys_files[j].dir
         /\ sys_files'[j].name = sys_files[j].name /\ sys_files'[j].size = sys_files[j].size
         /\ InUse(j)' => InUse(j)
         /\ j # u.file /\ InUse(j) => InUse(j)'
  BY <1>4, <1>6 DEF InUse, of
<1>12. RecordsNamed'
  <2> SUFFICES ASSUME NEW j \in DOMAIN sys_files, InUse(j)
               PROVE  \E x \in Listed(dir', sys_files[j].dir) :
                        /\ x.first = sys_files[j].first /\ x.attr = ATTR_FILE
                        /\ x.name = sys_files[j].name
    BY <1>6, <1>11 DEF RecordsNamed
  <2>1. sys_files[j].dir \in DataBlock
    BY <1>2, RecordType
  <2>. QED  BY <1>9, <1>10, <2>1 DEF SizeInv, RecordsNamed
<1>13. OpenSizes'
  BY <1>2, <1>6, <1>11 DEF SizeInv, OpenSizes, GrownSize
<1>14. ClosedSizes'
  <2> SUFFICES ASSUME NEW d \in DataBlock, NEW x \in Listed(dir', d), x.attr = ATTR_FILE,
                      ~IsOpen(x.first)'
               PROVE  Cardinality(Chain(fat, x.first)) = BlocksFor(x.size)
    BY <1>2 DEF ClosedSizes
  <2>1. CASE x = k /\ d = of.dir
    <3>1. Cardinality(Chain(fat, of.first)) = BlocksFor(of.size)
      BY <1>2, <1>3 DEF SizeInv, OpenSizes, GrownSize, of
    <3>. QED  BY <1>7, <1>9, <2>1, <3>1
  <2>2. CASE x \in Listed(dir, d) /\ (d # of.dir \/ x # e)
    <3>1. x.first # of.first
      BY <1>7, <1>8, <2>2 DEF DiskInv, DirInv, EntriesDistinct
    <3>2. ~IsOpen(x.first)
      <4>1. \A j : InUse(j)' /\ j \in DOMAIN sys_files => sys_files[j].first # x.first
        BY <1>11, UsedIsOpenNext
      <4>2. \A j : InUse(j) => sys_files[j].first # x.first
        BY <1>11, <3>1, <4>1 DEF InUse, of
      <4>. QED  BY <4>2, UsedIsOpen
    <3>. QED  BY <2>2, <3>2 DEF SizeInv, ClosedSizes
  <2>. QED  BY <1>10, <2>1, <2>2
<1>. QED  BY <1>12, <1>13, <1>14 DEF SizeInv

\* A turn of write gives the file a block exactly if what it puts down calls for one.
LEMMA WriteBlockKeepsSizes ==
  ASSUME TableInv, TableInv', DiskInv, DiskInv', MovesSome, SizeInv, WriteBlock
  PROVE  SizeInv'
<1> DEFINE h == sys_files[op.file].first
           s == sys_files[op.file].size
           n == Cardinality(Chain(fat, h))
<1>1. TypeInv /\ Moves /\ UNCHANGED <<dir, sys_files, user_fds>> /\ op.cmd = "write"
  BY DEF TableInv, Moves, WriteBlock, openVars
<1>2. /\ op \in Writing /\ InUse(op.file) /\ h \in Heads /\ h \in DataBlock
      /\ op.pos \div BlockSize \in Nat
      /\ Target # NoBlock <=> op.pos \div BlockSize < n
  BY <1>1, TargetFacts
<1>3. /\ op' = [op EXCEPT !.pos = @ + Part, !.left = @ - Part]
      /\ \/ Target # NoBlock /\ fat' = fat
         \/ /\ Target = NoBlock
            /\ \E b \in DataBlock, t \in Tails(fat, h) :
                 fat[b] = FAT_FREE /\ fat' = Linked(fat, t, b)
  BY <1>1, WriteBlockSteps
<1>4. op'.cmd = "write" /\ op'.file = op.file /\ op'.pos = op.pos + Part
  BY <1>2, <1>3 DEF Writing
<1>5. op.pos \in Nat /\ op.left \in Nat /\ op.left > 0 /\ s \in Nat
  BY <1>1, <1>2, RecordType DEF Writing, WriteBlock, InUse, OpenFile
<1>6. Part \in Nat /\ Part >= 1 /\ Part <= BlockSize - (op.pos % BlockSize)
  <2> DEFINE r == op.pos % BlockSize
  <2>1. r \in Nat /\ r < BlockSize /\ BlockSize \in Nat
    BY <1>5, Division, Products
  <2>2. Part = IF BlockSize - r <= op.left THEN BlockSize - r ELSE op.left
    BY DEF Part, SmallerOf
  <2> HIDE DEF r
  <2>3. Part \in Nat /\ Part >= 1 /\ Part <= BlockSize - r
    BY <1>5, <2>1, <2>2
  <2>. QED  BY <2>3 DEF r
<1>7. n = BlocksFor(LargerOf(op.pos, s)) /\ n \in Nat
  BY <1>1, <1>2, ChainFinite DEF SizeInv, OpenSizes, GrownSize, InUse
<1>8. Cardinality(Chain(fat', h)) = BlocksFor(LargerOf(op.pos + Part, s))
  <2>1. CASE Target # NoBlock
    BY <1>2, <1>3, <1>5, <1>6, <1>7, <2>1, OneTurn
  <2>2. CASE Target = NoBlock
    <3>1. PICK b \in DataBlock, t \in Tails(fat, h) :
            fat[b] = FAT_FREE /\ fat' = Linked(fat, t, b)
      BY <1>3, <2>2
    <3>2. Chain(fat', h) = Chain(fat, h) \cup {b} /\ b \notin Chain(fat, h)
      BY <1>1, <1>2, <3>1, SoundFacts, ChainGrown
    <3>3. Cardinality(Chain(fat', h)) = n + 1
      BY <3>2, ChainFinite, FS_AddElement
    <3>. QED  BY <1>2, <1>5, <1>6, <1>7, <2>2, <3>3, OneTurn
  <2>. QED  BY <2>1, <2>2
<1>9. ASSUME NEW d \in DataBlock, NEW e \in Listed(dir, d), e.attr = ATTR_FILE, e.first # h
      PROVE  Chain(fat', e.first) = Chain(fat, e.first)
  <2>1. e.first \in Heads'
    BY <1>1, InHeads, TypeFacts, ListedType
  <2>. QED  BY <1>1, <1>9, <2>1, MovesIsolate
<1> HIDE DEF h, s, n
<1>10. /\ \A i : InUse(i)' <=> InUse(i)
       /\ \A b : IsOpen(b)' <=> IsOpen(b)
       /\ \A i : i # op.file => GrownSize(i)' = GrownSize(i)
       /\ \A i : i = op.file => GrownSize(i)' = LargerOf(op.pos + Part, s)
  BY <1>1, <1>4 DEF InUse, IsOpen, GrownSize, s
<1>11. RecordsNamed'
  BY <1>1, <1>10 DEF SizeInv, RecordsNamed
<1>12. ClosedSizes'
  <2> SUFFICES ASSUME NEW d \in DataBlock, NEW e \in Listed(dir, d), e.attr = ATTR_FILE,
                      ~IsOpen(e.first)
               PROVE  Cardinality(Chain(fat', e.first)) = BlocksFor(e.size)
    BY <1>1, <1>10 DEF ClosedSizes
  <2>1. e.first # h
    BY <1>2, UsedIsOpen DEF h
  <2>. QED  BY <1>9, <2>1 DEF SizeInv, ClosedSizes
<1>13. OpenSizes'
  <2> SUFFICES ASSUME NEW i \in DOMAIN sys_files, InUse(i)
               PROVE  Cardinality(Chain(fat', sys_files[i].first)) = BlocksFor(GrownSize(i)')
    BY <1>1, <1>10 DEF OpenSizes
  <2>1. CASE i = op.file
    BY <1>8, <1>10, <2>1 DEF h
  <2>2. CASE i # op.file
    <3>1. sys_files[i].first # h /\ sys_files[i].dir \in DataBlock
      BY <1>1, <1>2, <2>2, RecordType DEF TableInv, OneRecordPerFile, InUse, h
    <3>2. PICK e \in Listed(dir, sys_files[i].dir) :
            e.first = sys_files[i].first /\ e.attr = ATTR_FILE
      BY DEF SizeInv, RecordsNamed
    <3>3. Chain(fat', sys_files[i].first) = Chain(fat, sys_files[i].first)
      BY <1>9, <3>1, <3>2
    <3>4. GrownSize(i)' = GrownSize(i)
      BY <1>10, <2>2
    <3>. QED  BY <3>3, <3>4 DEF SizeInv, OpenSizes
  <2>. QED  BY <2>1, <2>2
<1>. QED  BY <1>11, <1>12, <1>13 DEF SizeInv

---------------------------------------------------------------------------
(* The theorems *)

LEMMA InitSizes == Init => SizeInv
<1> SUFFICES ASSUME Init PROVE SizeInv
  OBVIOUS
<1>1. DOMAIN sys_files = {} /\ dir = FormatDir
  BY DEF Init, FOInit
<1>2. \A d \in DataBlock : Listed(dir, d) = {}
  <2>1. \A d \in DataBlock : dir[d] = {} \/ dir[d] = InitDir(Root, Root)
    BY <1>1, BlockFacts DEF FormatDir
  <2>2. \A k \in InitDir(Root, Root) : k.name \in Dots
    BY DEF InitDir, NewEntry, StoredName, Dots
  <2>. QED  BY <2>1, <2>2 DEF Listed
<1>. QED  BY <1>1, <1>2 DEF SizeInv, RecordsNamed, ClosedSizes, OpenSizes

LEMMA NextSizes ==
  Orderly /\ CarefulInv /\ CarefulInv' /\ UniqueNames /\ SizeInv /\ [Next]_vars => SizeInv'
<1> SUFFICES ASSUME Orderly, CarefulInv, CarefulInv', UniqueNames, SizeInv, [Next]_vars
             PROVE  SizeInv'
  OBVIOUS
<1>1. /\ TableInv /\ TableInv' /\ DiskInv /\ DiskInv' /\ TypeInv /\ TypeInv'
      /\ UsedWithCare /\ NothingCut
      /\ \A fd, n : CanRemove(fd, n) => NotOpen(fd, n)
      /\ \A old, new : CanRename(old, new) => NotOpen(cur_block, old) /\ old \notin Dots
      /\ CanFormat => user_fds = {}
  BY DEF CarefulInv, TableInv, Orderly, UsedWithCare, CanRemove, CanRename, CanFormat, Allows
<1>2. CASE FileCommand
  <2>1. ASSUME NEW n \in AnyName, Create(cur_block, n) PROVE SizeInv'
    BY <1>1, <2>1, CreateSizes, CreateMoves, DiskCommandSizes DEF Create
  <2>2. ASSUME NEW n \in AnyName, Open(cur_block, n) PROVE SizeInv'
    BY <1>1, <2>2, OpenKeepsSizes
  <2>3. ASSUME NEW n \in AnyName, CanRemove(cur_block, n), Remove(cur_block, n) PROVE SizeInv'
    BY <1>1, <2>3, RemoveSizes, RemoveMoves, DiskCommandSizes DEF Remove
  <2>4. ASSUME NEW fd, Close(fd) PROVE SizeInv'
    BY <1>1, <2>4, CloseKeepsSizes
  <2>5. ASSUME NEW fd, NEW n \in ReadSizes, Read(fd, n) PROVE SizeInv'
    BY <1>1, <2>5, ReadKeepsSizes, FileOpsAssumption
  <2>6. ASSUME NEW fd, NEW n, Write(fd, n) PROVE SizeInv'
    BY <1>1, <2>6, WriteKeepsSizes
  <2>. QED  BY <1>2, <2>1, <2>2, <2>3, <2>4, <2>5, <2>6 DEF FileCommand
<1>3. ASSUME UNCHANGED <<diskVars, openVars>>, op.cmd # "write", op'.cmd # "write"
      PROVE  SizeInv'
  BY <1>1, <1>3, NotWriting, SameRecords DEF diskVars, openVars
<1>4. CASE DirectoryCommand
  <2>1. ASSUME NEW n \in AnyName, Mkdir(n) PROVE SizeInv'
    BY <1>1, <2>1, MkdirSizes, MkdirMoves, DiskCommandSizes DEF Mkdir
  <2>2. ASSUME NEW n \in AnyName, Rmdir(n) PROVE SizeInv'
    BY <1>1, <2>2, RmdirSizes, RmdirMoves, DiskCommandSizes DEF Rmdir
  <2>3. ASSUME NEW old \in AnyName, NEW new \in AnyName, CanRename(old, new), Rename(old, new)
        PROVE  SizeInv'
    BY <1>1, <2>3, RenameSizes, RenameMoves, DiskCommandSizes DEF Rename
  <2>4. ASSUME NEW start, NEW segs, Cd(start, segs) PROVE SizeInv'
    BY <1>3, <2>4 DEF Cd, Walking, Idle
  <2>. QED  BY <1>4, <2>1, <2>2, <2>3, <2>4 DEF DirectoryCommand
<1>5. CASE CanFormat /\ Format
  BY <1>1, <1>5, FormatSizes
<1>6. CASE Turn
  <2>1. CASE WriteBlock
    BY <1>1, <2>1, WriteBlockMoves, WriteBlockKeepsSizes
  <2>2. CASE WriteEnd
    BY <1>1, <2>2, WriteEndKeepsSizes
  <2>3. CASE CdUp \/ CdDown
    <3>1. PICK at, segs, stack : op' = Walking(at, segs, stack)
      BY <2>3, Zenon DEF CdUp, CdDown
    <3>2. op'.cmd = "cd"
      BY <3>1 DEF Walking
    <3>. QED  BY <1>3, <2>3, <3>2 DEF CdUp, CdDown
  <2>4. CASE CdFail \/ CdEnd
    BY <1>3, <2>4 DEF CdFail, CdEnd, Idle
  <2>. QED  BY <1>6, <2>1, <2>2, <2>3, <2>4 DEF Turn, Loop
<1>7. CASE UNCHANGED vars
  <2>1. UNCHANGED <<fat, dir, sys_files, op>>
    BY <1>7 DEF vars, foVars, diskVars, openVars
  <2>2. \A j : GrownSize(j)' = GrownSize(j)
    BY <2>1 DEF GrownSize
  <2>. QED  BY <1>1, <2>1, <2>2, SameRecords
<1>. QED  BY <1>2, <1>4, <1>5, <1>6, <1>7 DEF Next

LEMMA SizesMatch ==
  ASSUME TableInv, SizeInv
  PROVE  SizeMatchesChain
<1> SUFFICES ASSUME op = Idle, NEW d \in DataBlock, NEW e \in Listed(dir, d), e.attr = ATTR_FILE
             PROVE  Cardinality(Chain(fat, e.first)) = BlocksFor(SizeOf(e))
  BY DEF SizeMatchesChain
<1>1. op.cmd # "write"
  BY DEF Idle
<1>2. CASE ~IsOpen(e.first)
  BY <1>2 DEF SizeOf, SizeInv, ClosedSizes
<1>3. CASE IsOpen(e.first)
  <2> DEFINE S == {sys_files[u.file] : u \in user_fds}
             w == CHOOSE of \in S : of.first = e.first
  <2>1. \E of \in S : of.first = e.first
    BY <1>3 DEF IsOpen
  <2>2. w \in S /\ w.first = e.first
    BY <2>1
  <2>3. SizeOf(e) = w.size
    BY <1>3 DEF SizeOf
  <2> HIDE DEF w
  <2>4. PICK u \in user_fds : w = sys_files[u.file]
    BY <2>2
  <2>5. InUse(u.file) /\ u.file \in DOMAIN sys_files
    BY UsedRecords DEF InUse
  <2>6. Cardinality(Chain(fat, w.first)) = BlocksFor(w.size)
    BY <1>1, <2>4, <2>5 DEF SizeInv, OpenSizes, GrownSize
  <2>. QED  BY <2>2, <2>3, <2>6
<1>. QED  BY <1>2, <1>3

\* A descriptor goes with close only, which finds the entry of its file.
LEMMA CloseSaves ==
  ASSUME CarefulInv, UniqueNames, SizeInv, [Next]_vars,
         NEW u \in user_fds \ user_fds', NEW d \in DataBlock, NEW e \in Listed(dir', d),
         e.first = sys_files[u.file].first
  PROVE  e.size = sys_files[u.file].size
<1>1. TableInv /\ TypeInv /\ DiskInv
  BY DEF CarefulInv, TableInv
<1>2. \E fd : Close(fd)
  BY DEF Next, FileCommand, DirectoryCommand, Turn, Loop, Create, Open, Remove, Read, Write,
         Mkdir, Rmdir, Rename, Cd, Format, WriteBlock, WriteEnd, CdUp, CdDown, CdFail, CdEnd,
         vars, foVars, openVars
<1> DEFINE of == sys_files[u.file]
<1>3. \/ WriteBack(of) = {} /\ UNCHANGED dir
      \/ dir' \in WriteBack(of)
  BY <1>2 DEF Close
<1>4. PICK k \in Listed(dir, of.dir) :
        /\ k.first = of.first
        /\ dir' = Replaced(dir, of.dir, k, [k EXCEPT !.size = of.size])
  BY <1>1, <1>3, CloseWritesBack
<1>5. of.dir \in DataBlock
  BY <1>1, TypeFacts, RecordType
<1> HIDE DEF of
<1>6. k \in Entry /\ [k EXCEPT !.size = of.size].size = of.size
  BY <1>1, <1>4, <1>5, TypeFacts, ListedType DEF Entry
<1>7. e = [k EXCEPT !.size = of.size] \/ (e \in Listed(dir, d) /\ (d # of.dir \/ e # k))
  BY <1>1, <1>4, <1>5, TypeFacts, BlockFacts DEF Replaced, Listed
<1>8. ~ (e \in Listed(dir, d) /\ (d # of.dir \/ e # k))
  BY <1>1, <1>4, <1>5 DEF DiskInv, DirInv, EntriesDistinct, of
<1>. QED  BY <1>6, <1>7, <1>8 DEF of

\* A descriptor comes with open only.
LEMMA OpenLeads ==
  ASSUME NothingCut, CarefulInv, SizeInv, [Next]_vars, NEW u \in user_fds' \ user_fds
  PROVE  \E e \in Listed(dir, sys_files'[u.file].dir) :
           e.name = sys_files'[u.file].name /\ e.first = sys_files'[u.file].first
<1>1. TableInv /\ TypeInv /\ DiskInv /\ cur_block \in DataBlock
  BY TypeFacts DEF CarefulInv, TableInv
<1>2. PICK n \in AnyName : Open(cur_block, n)
  BY DEF Next, FileCommand, DirectoryCommand, Turn, Loop, Create, Remove, Read, Write, Close,
         Mkdir, Rmdir, Rename, Cd, Format, WriteBlock, WriteEnd, CdUp, CdDown, CdFail, CdEnd,
         vars, foVars, openVars
<1>3. PICK e \in Find(dir, cur_block, n) :
        /\ e.attr = ATTR_FILE
        /\ \/ \E i \in Lowest(Shared(e.first)) :
                /\ sys_files' = [sys_files EXCEPT ![i].ref = @ + 1]
                /\ user_fds' = user_fds \cup {[fd |-> next_fd, file |-> i]}
           \/ /\ sys_files' = Append(sys_files, NewOpenFile(e, cur_block, n))
              /\ user_fds' = user_fds \cup {[fd |-> next_fd, file |-> Len(sys_files) + 1]}
  BY <1>2 DEF Open
<1>4. CASE \E i \in Lowest(Shared(e.first)) :
             /\ sys_files' = [sys_files EXCEPT ![i].ref = @ + 1]
             /\ user_fds' = user_fds \cup {[fd |-> next_fd, file |-> i]}
  <2>1. PICK i \in Lowest(Shared(e.first)) :
             /\ sys_files' = [sys_files EXCEPT ![i].ref = @ + 1]
             /\ user_fds' = user_fds \cup {[fd |-> next_fd, file |-> i]}
    BY <1>4
  <2>2. i \in DOMAIN sys_files /\ InUse(i) /\ u.file = i
    BY <2>1, LowestIn DEF Shared, InUse
  <2>3. sys_files'[i] = [sys_files[i] EXCEPT !.ref = @ + 1] /\ sys_files[i] \in OpenFile
    BY <1>1, <2>1, <2>2, RecordType
  <2>4. /\ sys_files'[i].dir = sys_files[i].dir /\ sys_files'[i].name = sys_files[i].name
        /\ sys_files'[i].first = sys_files[i].first
    BY <2>3 DEF OpenFile
  <2>. QED  BY <2>2, <2>4 DEF SizeInv, RecordsNamed
<1>5. CASE /\ sys_files' = Append(sys_files, NewOpenFile(e, cur_block, n))
           /\ user_fds' = user_fds \cup {[fd |-> next_fd, file |-> Len(sys_files) + 1]}
  <2>1. u.file = Len(sys_files) + 1 /\ sys_files'[u.file] = NewOpenFile(e, cur_block, n)
    BY <1>1, <1>5, TypeFacts
  <2>2. e \in Listed(dir, cur_block) /\ e.name = n
    BY <1>1, <1>3, FileIsListed DEF DiskInv
  <2>. QED  BY <2>1, <2>2, StoredSame DEF NewOpenFile
<1>. QED  BY <1>3, <1>4, <1>5

\* Everything the sizes rest on.
OrderlyInv == CarefulInv /\ UniqueNames /\ SizeInv

LEMMA InitOrderly == Init => OrderlyInv
BY InitCareful, InitNames, InitSizes DEF OrderlyInv

LEMMA NextOrderly == Orderly /\ OrderlyInv /\ [Next]_vars => OrderlyInv'
<1> SUFFICES ASSUME Orderly, OrderlyInv, [Next]_vars PROVE OrderlyInv'
  OBVIOUS
<1>1. CarefulInv'
  BY NextCareful DEF Orderly, OrderlyInv
<1>2. UniqueNames'
  BY NextNames DEF Orderly, OrderlyInv, CarefulInv, TableInv
<1>3. SizeInv'
  BY <1>1, NextSizes DEF OrderlyInv
<1>. QED  BY <1>1, <1>2, <1>3 DEF OrderlyInv

\* With a user who takes care and renames no open file, between commands every file
\* has exactly the blocks its size calls for, on a disk of any size, however often
\* it is open (write, whose loop decides block by block; open, close).
THEOREM SizesMatchChains ==
  ASSUME Orderly
  PROVE  Spec => []SizeMatchesChain
<1>1. OrderlyInv => SizeMatchesChain
  BY SizesMatch DEF OrderlyInv, CarefulInv
<1>2. OrderlyInv /\ [Next]_vars => OrderlyInv'
  BY NextOrderly
<1>. QED  BY <1>1, <1>2, InitOrderly, PTL DEF Spec

\* close writes the size of a file to the entry of that file, which it finds by the
\* name it was opened under (close).
THEOREM ClosingSavesSize ==
  ASSUME Orderly
  PROVE  Spec => CloseSavesSize
<1>1. OrderlyInv /\ [Next]_vars => OrderlyInv'
  BY NextOrderly
<1>2. OrderlyInv /\ [Next]_vars =>
        [\A u \in user_fds \ user_fds' : \A d \in DataBlock : \A e \in Listed(dir', d) :
           e.first = sys_files[u.file].first => e.size = sys_files[u.file].size]_foVars
  BY CloseSaves DEF OrderlyInv
<1>. QED  BY <1>1, <1>2, InitOrderly, PTL DEF Spec, CloseSavesSize

\* open leads to the file of the given name, also when it takes a record that was there
\* before (open).
THEOREM OpeningLeadsToFile ==
  ASSUME Orderly
  PROVE  Spec => OpenLeadsToFile
<1>1. OrderlyInv /\ [Next]_vars => OrderlyInv'
  BY NextOrderly
<1>2. OrderlyInv /\ [Next]_vars =>
        [\A u \in user_fds' \ user_fds :
           LET of == sys_files'[u.file] IN
           \E e \in Listed(dir, of.dir) : e.name = of.name /\ e.first = of.first]_foVars
  BY OpenLeads DEF OrderlyInv, Orderly
<1>. QED  BY <1>1, <1>2, InitOrderly, PTL DEF Spec, OpenLeadsToFile
===========================================================================
