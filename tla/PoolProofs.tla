---------------------------- MODULE PoolProofs ----------------------------
(***************************************************************************)
(* The file system used with care implements BlockPool: each command takes *)
(* free blocks for one file or directory, or gives back the blocks of one, *)
(* and what it does to the links of the FAT and to the entries of the      *)
(* directories fits together.  First every command is shown to move blocks *)
(* in one of six ways, then each way is shown to be a step of BlockPool    *)
(* and to leave the chains of other files alone.  Last, the chain of a     *)
(* directory is always long enough for its entries: an entry is added      *)
(* where there is room, or with the block that makes room, and no command  *)
(* shortens the chain of something that stays.                             *)
(***************************************************************************)
EXTENDS CarefulProofs

---------------------------------------------------------------------------
(* How a step moves blocks *)

Stays == fat' = fat /\ Heads' = Heads

\* Block h, which was free, becomes the first block of something new.
Marked(h) == [fat EXCEPT ![h] = FAT_EOF]

Fresh(h) == h \in DataBlock \ Heads /\ fat[h] = FAT_FREE

Takes(h) == Fresh(h) /\ fat' = Marked(h) /\ Heads' = Heads \cup {h}

\* The chain of d, in the FAT f, is extended by b.
Extended(f, d, b) ==
  /\ d \in Heads /\ b \in DataBlock /\ f[b] = FAT_FREE
  /\ \E t \in Tails(f, d) : fat' = Linked(f, t, b)

Grows(d, b) == Extended(fat, d, b) /\ Heads' = Heads

TakesAndGrows(h, d, b) ==
  Fresh(h) /\ Extended(Marked(h), d, b) /\ Heads' = Heads \cup {h}

GivesBack(h) ==
  h \in Heads \ {Root} /\ fat' = FreeChain(fat, h) /\ Heads' = Heads \ {h}

StartsAfresh ==
  fat' = FormatFat /\ Heads' = {Root} /\ \A d \in DataBlock : Listed(dir', d) = {}

\* What grows is a directory or the file being written.
MayGrow(d) == dir[d] # {} \/ (op.cmd = "write" /\ sys_files[op.file].first = d)

MovesSome ==
  \/ Stays
  \/ \E h \in DataBlock : Takes(h) \/ GivesBack(h)
  \/ \E d, b \in DataBlock : MayGrow(d) /\ Grows(d, b)
  \/ \E h, d, b \in DataBlock : dir[d] # {} /\ TakesAndGrows(h, d, b)

Moves == MovesSome \/ StartsAfresh

---------------------------------------------------------------------------
(* Each way of moving blocks is a step of BlockPool *)

LEMMA OwnedFacts ==
  /\ DOMAIN OwnedBlocks = DataBlock
  /\ \A h \in DataBlock : OwnedBlocks[h] = IF h \in Heads THEN Chain(fat, h) ELSE {}
  /\ OwnedBlocks' = [h \in DataBlock |-> IF h \in Heads' THEN Chain(fat', h) ELSE {}]
  /\ OwnedBlocks = [h \in DataBlock |-> IF h \in Heads THEN Chain(fat, h) ELSE {}]
BY DEF OwnedBlocks

LEMMA OwnersAre ==
  ASSUME TypeInv
  PROVE  Pool!Owners = Heads
<1>1. Heads \subseteq DataBlock /\ \A h \in Heads : h \in Chain(fat, h)
  BY HeadsType, ChainClosed
<1>. QED  BY <1>1, OwnedFacts DEF Pool!Owners

LEMMA FreeAre ==
  ASSUME TypeInv, DiskInv, NEW b \in DataBlock, fat[b] = FAT_FREE
  PROVE  b \in Pool!Free
<1>1. \A h \in Heads : h \in DataBlock /\ b \notin Chain(fat, h)
  BY SoundFacts, ChainUsed DEF Sound
<1>. QED  BY <1>1, OwnedFacts DEF Pool!Free

LEMMA StaysIsStep ==
  ASSUME Stays
  PROVE  Pool!Next
BY OwnedFacts DEF Stays, Pool!Next, Pool!Rest

LEMMA MarkedChains ==
  ASSUME TypeInv, DiskInv, NEW h \in DataBlock, fat[h] = FAT_FREE
  PROVE  /\ Chain(Marked(h), h) = {h}
         /\ \A g \in Heads : g \in DataBlock /\ Chain(Marked(h), g) = Chain(fat, g)
<1>1. fat \in [Block -> FatValue] /\ Heads \in SUBSET DataBlock /\ Sound(fat, Heads)
  BY SoundFacts
<1>2. Marked(h)[h] = FAT_EOF /\ \A x \in Block : x # h => Marked(h)[x] = fat[x]
  BY <1>1, BlockFacts DEF Marked
<1>. QED  BY <1>1, <1>2, ChainClaimed

LEMMA TakesIsStep ==
  ASSUME TypeInv, DiskInv, NEW h \in DataBlock, Takes(h)
  PROVE  Pool!Next
<1>1. /\ Chain(fat', h) = {h}
      /\ \A g \in Heads : g \in DataBlock /\ Chain(fat', g) = Chain(fat, g)
  BY MarkedChains DEF Takes, Fresh
<1>2. OwnedBlocks' = [OwnedBlocks EXCEPT ![h] = {h}]
  BY <1>1, OwnedFacts DEF Takes, Fresh
<1>3. h \in Pool!Free
  BY FreeAre DEF Takes, Fresh
<1>. QED  BY <1>2, <1>3 DEF Pool!Next, Pool!Claim

LEMMA GrowsIsStep ==
  ASSUME TypeInv, DiskInv, NEW d \in DataBlock, NEW b \in DataBlock, Grows(d, b)
  PROVE  Pool!Next
<1>1. /\ Chain(fat', d) = Chain(fat, d) \cup {b}
      /\ \A g \in Heads : g # d => Chain(fat', g) = Chain(fat, g)
  BY SoundFacts, ChainGrown DEF Grows, Extended
<1>2. OwnedBlocks' = [OwnedBlocks EXCEPT ![d] = @ \cup {b}]
  BY <1>1, OwnedFacts DEF Grows, Extended
<1>3. d \in Pool!Owners /\ b \in Pool!Free
  BY FreeAre, OwnersAre DEF Grows, Extended
<1>. QED  BY <1>2, <1>3 DEF Pool!Next, Pool!Grow

\* What comes of a step that takes one block and extends a chain by another.
LEMMA TakesAndGrowsFacts ==
  ASSUME TypeInv, DiskInv, NEW h \in DataBlock, NEW d \in DataBlock, NEW b \in DataBlock,
         TakesAndGrows(h, d, b)
  PROVE  /\ d \in Heads /\ b # h /\ d # h /\ fat[b] = FAT_FREE
         /\ Chain(fat', h) = {h} /\ Chain(fat', d) = Chain(fat, d) \cup {b}
         /\ \A g \in Heads : g # d => Chain(fat', g) = Chain(fat, g)
<1> DEFINE f == Marked(h)
           H == Heads \cup {h}
<1>1. /\ h \notin Heads /\ fat[h] = FAT_FREE /\ d \in Heads /\ f[b] = FAT_FREE
      /\ \E t \in Tails(f, d) : fat' = Linked(f, t, b)
  BY DEF TakesAndGrows, Fresh, Extended
<1>2. /\ f \in [Block -> FatValue] /\ H \in SUBSET DataBlock /\ Sound(f, H)
      /\ h # b /\ fat[b] = FAT_FREE
  BY <1>1, SoundFacts, SoundClaim, BlockFacts, MarkFacts DEF Marked
<1>3. Chain(f, h) = {h} /\ \A g \in Heads : Chain(f, g) = Chain(fat, g)
  BY <1>1, MarkedChains
<1>4. /\ Chain(fat', d) = Chain(f, d) \cup {b}
      /\ \A g \in H : g # d => Chain(fat', g) = Chain(f, g)
  <2> HIDE DEF f
  <2>1. d \in H
    BY <1>1
  <2> HIDE DEF H
  <2>. QED  BY <1>1, <1>2, <2>1, ChainGrown
<1>. QED  BY <1>1, <1>2, <1>3, <1>4

LEMMA TakesAndGrowsIsStep ==
  ASSUME TypeInv, DiskInv, NEW h \in DataBlock, NEW d \in DataBlock, NEW b \in DataBlock,
         TakesAndGrows(h, d, b)
  PROVE  Pool!Next
<1>1. /\ d \in Heads /\ b # h /\ d # h /\ fat[b] = FAT_FREE /\ fat[h] = FAT_FREE
      /\ Chain(fat', h) = {h} /\ Chain(fat', d) = Chain(fat, d) \cup {b}
      /\ \A g \in Heads : g # d => Chain(fat', g) = Chain(fat, g)
      /\ Heads' = Heads \cup {h} /\ h \notin Heads
  BY TakesAndGrowsFacts DEF TakesAndGrows, Fresh
<1>2. OwnedBlocks' = [OwnedBlocks EXCEPT ![h] = {h}, ![d] = @ \cup {b}]
  BY <1>1, OwnedFacts
<1>3. d \in Pool!Owners /\ b \in Pool!Free \ {h} /\ h \in Pool!Free
  BY <1>1, FreeAre, OwnersAre
<1>. QED  BY <1>2, <1>3 DEF Pool!Next, Pool!ClaimAndGrow

LEMMA GivesBackIsStep ==
  ASSUME TypeInv, DiskInv, NEW h \in DataBlock, GivesBack(h)
  PROVE  Pool!Next
<1>1. \A g \in Heads \ {h} : Chain(fat', g) = Chain(fat, g)
  BY SoundFacts, OtherChainsStay DEF GivesBack
<1>2. OwnedBlocks' = [OwnedBlocks EXCEPT ![h] = {}]
  BY <1>1, OwnedFacts DEF GivesBack
<1>3. h \in Pool!Owners \ {Root}
  BY OwnersAre DEF GivesBack
<1>. QED  BY <1>2, <1>3 DEF Pool!Next, Pool!Release

\* On a formatted disk the root directory has one block.
LEMMA FormattedOwned ==
  Chain(FormatFat, Root) = {Root}
<1>1. {Root} \in SUBSET DataBlock /\ \A x \in {Root} : FormatFat[x] \notin DataBlock
  BY BlockFacts, MarkFacts DEF FormatFat
<1>2. Chain(FormatFat, Root) \subseteq {Root}
  BY <1>1, ChainLeast
<1>. QED  BY <1>2, ChainClosed, BlockFacts

LEMMA StartsAfreshIsStep ==
  ASSUME StartsAfresh
  PROVE  Pool!Next
BY FormattedOwned, OwnedFacts DEF StartsAfresh, Pool!Next, Pool!Clear, Pool!Fresh

LEMMA MovesAreSteps ==
  ASSUME TypeInv, DiskInv, Moves
  PROVE  Pool!Next
BY StaysIsStep, TakesIsStep, GrowsIsStep, TakesAndGrowsIsStep, GivesBackIsStep,
   StartsAfreshIsStep DEF Moves, MovesSome

---------------------------------------------------------------------------
(* How the commands move blocks *)

\* A step that leaves the FAT and the entries, or all but their names and sizes.
LEMMA StaysMoves ==
  ASSUME fat' = fat, Heads' = Heads
  PROVE  MovesSome
BY DEF MovesSome, Stays

\* Something new gets its first block and an entry in directory d.
LEMMA AddMoves ==
  ASSUME NEW d \in Heads, d \in DataBlock, dir[d] # {}, NEW h, Fresh(h),
         Heads' = Heads \cup {h}, NEW u, NEW ds, NEW e, AddEntry(Marked(h), u, ds, d, e)
  PROVE  MovesSome
<1>1. CASE fat' = Marked(h)
  BY <1>1 DEF MovesSome, Takes, Fresh
<1>2. CASE \E b \in Lowest(FatFree(Marked(h))), t \in Tails(Marked(h), d) :
             fat' = Linked(Marked(h), t, b)
  <2>1. PICK b \in Lowest(FatFree(Marked(h))), t \in Tails(Marked(h), d) :
          fat' = Linked(Marked(h), t, b)
    BY <1>2
  <2>2. b \in DataBlock /\ Marked(h)[b] = FAT_FREE
    BY LowestIn DEF FatFree
  <2>. QED  BY <2>1, <2>2 DEF MovesSome, TakesAndGrows, Extended, Fresh
<1>. QED  BY <1>1, <1>2 DEF AddEntry

LEMMA CreateMoves ==
  ASSUME TypeInv, TypeInv', DiskInv, NEW n \in AnyName, Create(cur_block, n)
  PROVE  MovesSome
<1>1. DirInv /\ cur_block \in Directories
  BY DEF DiskInv, CwdIsDirectory
<1>2. cur_block \in DataBlock /\ cur_block \in Heads /\ dir[cur_block] # {}
  BY <1>1, DirectoryFacts
<1>3. PICK b \in FindFree(bitmap) :
        \/ AddEntry(Marked(b), bitmap \cup {b}, dir, cur_block, NewEntry(n, b, ATTR_FILE))
        \/ fat' = [Marked(b) EXCEPT ![b] = FAT_FREE] /\ UNCHANGED dir
  BY DEF Create, Marked
<1>4. b \in DataBlock /\ b \notin Heads /\ fat[b] = FAT_FREE
  BY BlockClaimed
<1>5. CASE AddEntry(Marked(b), bitmap \cup {b}, dir, cur_block, NewEntry(n, b, ATTR_FILE))
  <2> DEFINE e == NewEntry(n, b, ATTR_FILE)
  <2>1. e \in Entry /\ e.first = b /\ e.attr = ATTR_FILE /\ e.name \notin Dots
    BY <1>1, <1>4, NewEntryType, NewName DEF NewEntry, Create
  <2>2. dir' = [dir EXCEPT ![cur_block] = @ \cup {e}]
    BY <1>5 DEF AddEntry
  <2> HIDE DEF e
  <2>3. Heads' = Heads \cup {b}
    BY <1>1, <1>4, <2>1, <2>2, FileAdded
  <2>. QED  BY <1>2, <1>4, <1>5, <2>3, AddMoves DEF Fresh, e
<1>6. CASE fat' = [Marked(b) EXCEPT ![b] = FAT_FREE] /\ UNCHANGED dir
  <2>1. fat' = fat
    BY <1>4, <1>6, TypeFacts, BlockFacts DEF Marked
  <2>. QED  BY <1>6, <2>1, DirKept, StaysMoves
<1>. QED  BY <1>3, <1>5, <1>6

LEMMA MkdirMoves ==
  ASSUME TypeInv, TypeInv', DiskInv, NEW n \in AnyName, Mkdir(n)
  PROVE  MovesSome
<1>1. DirInv /\ cur_block \in Directories
  BY DEF DiskInv, CwdIsDirectory
<1>2. cur_block \in DataBlock /\ cur_block \in Heads /\ dir[cur_block] # {}
  BY <1>1, DirectoryFacts
<1>3. PICK b \in FindFree(bitmap) :
        LET u  == bitmap \cup {b}
            ds == [dir EXCEPT ![b] = InitDir(b, cur_block)]
        IN  \/ AddEntry(Marked(b), u, ds, cur_block, NewEntry(n, b, ATTR_DIR))
            \/ fat' = Marked(b) /\ dir' = ds
  BY DEF Mkdir, Marked
<1> DEFINE u  == bitmap \cup {b}
           ds == [dir EXCEPT ![b] = InitDir(b, cur_block)]
           e  == NewEntry(n, b, ATTR_DIR)
<1>4. b \in DataBlock /\ b \notin Heads /\ fat[b] = FAT_FREE /\ cur_block # b
  BY <1>2, BlockClaimed
<1>5. e \in Entry /\ e.first = b /\ e.attr = ATTR_DIR /\ e.name \notin Dots
  BY <1>1, <1>4, NewEntryType, NewName DEF NewEntry, Mkdir
<1>6. dir' = [ds EXCEPT ![cur_block] = @ \cup {e}] \/ dir' = ds
  BY <1>3 DEF AddEntry
<1>7. /\ dir'[b] = InitDir(b, cur_block)
      /\ dir'[cur_block] = dir[cur_block] \cup {e} \/ dir'[cur_block] = dir[cur_block]
      /\ \A c \in DataBlock : c # b /\ c # cur_block => dir'[c] = dir[c]
  <2> HIDE DEF e
  <2>. QED  BY <1>2, <1>4, <1>6, TypeFacts, BlockFacts
<1> HIDE DEF e, u, ds
<1>8. Heads' = Heads \cup {b}
  BY <1>1, <1>4, <1>5, <1>7, DirectoryAdded
<1>9. CASE AddEntry(Marked(b), u, ds, cur_block, e)
  BY <1>2, <1>4, <1>8, <1>9, AddMoves DEF Fresh
<1>10. CASE fat' = Marked(b)
  BY <1>4, <1>8, <1>10 DEF MovesSome, Takes, Fresh
<1>. QED  BY <1>3, <1>9, <1>10 DEF e, u, ds

\* When an entry goes, only its first block ceases to be one.
LEMMA HeadRemoved ==
  ASSUME TypeInv, TypeInv', DirInv, NEW d \in DataBlock, NEW e \in Listed(dir, d),
         e.attr = ATTR_DIR => Listed(dir, e.first) = {},
         \A c \in DataBlock : dir'[c] = IF c = e.first THEN {}
                                        ELSE IF c = d THEN dir[d] \ {e} ELSE dir[c]
  PROVE  Heads' = Heads \ {e.first} /\ e.first \in Heads \ {Root}
<1>1. Heads' \subseteq Heads \ {e.first} /\ e.first \in Heads
  BY EntryRemoved
<1>2. e.first # Root /\ e.first \in DataBlock /\ e \in dir[d] /\ e.name \notin Dots
  BY TypeFacts, ListedType DEF DirInv, KindsAgree
<1>3. ASSUME NEW x \in Heads, x # e.first
      PROVE  x \in Heads'
  <2>1. x \in DataBlock
    BY HeadsType
  <2>2. CASE dir[x] # {}
    <3>1. Find(dir, x, Dot) # {}
      BY <2>1, <2>2 DEF DirInv, DotsKept
    <3>2. Find(dir', x, Dot) # {}
      BY <1>2, <1>3, <2>1, <3>1 DEF Find, Dots
    <3>. QED  BY <2>1, <3>2, InHeads DEF Find
  <2>3. CASE \E c \in DataBlock : \E k \in Listed(dir, c) : k.first = x
    <3>1. PICK c \in DataBlock : \E k \in Listed(dir, c) : k.first = x
      BY <2>3
    <3>2. PICK k \in Listed(dir, c) : k.first = x
      BY <3>1
    <3>3. k # e /\ c # e.first
      <4>1. CASE e.attr = ATTR_DIR
        BY <1>3, <3>2, <4>1
      <4>2. CASE e.attr # ATTR_DIR
        BY <1>2, <1>3, <3>2, <4>2 DEF DirInv, KindsAgree, Listed
      <4>. QED  BY <4>1, <4>2
    <3>4. k \in Listed(dir', c)
      BY <3>3 DEF Listed
    <3>. QED  BY <2>1, <3>2, <3>4, InHeads
  <2>. QED  BY <2>1, <2>2, <2>3, InHeads
<1>. QED  BY <1>1, <1>2, <1>3

LEMMA RemoveMoves ==
  ASSUME TypeInv, TypeInv', DiskInv, NEW n, Remove(cur_block, n)
  PROVE  MovesSome
<1>1. DirInv /\ cur_block \in Directories
  BY DEF DiskInv, CwdIsDirectory
<1>2. PICK e \in Find(dir, cur_block, n) :
        /\ e.attr = ATTR_FILE
        /\ fat' = FreeChain(fat, e.first)
        /\ dir' = [dir EXCEPT ![cur_block] = @ \ {e}]
  BY DEF Remove
<1>3. cur_block \in DataBlock /\ e \in Listed(dir, cur_block)
  BY <1>1, <1>2, DirectoryFacts, FileIsListed
<1>4. e.first \in DataBlock /\ dir[e.first] = {}
  BY <1>1, <1>2, <1>3, TypeFacts, ListedType, AttrsDiffer DEF DirInv, KindsAgree
<1>5. \A c \in DataBlock : dir'[c] = IF c = e.first THEN {}
                                     ELSE IF c = cur_block THEN dir[cur_block] \ {e} ELSE dir[c]
  BY <1>2, <1>3, <1>4, TypeFacts, BlockFacts
<1>6. Heads' = Heads \ {e.first} /\ e.first \in Heads \ {Root}
  BY <1>1, <1>2, <1>3, <1>5, AttrsDiffer, HeadRemoved
<1>. QED  BY <1>2, <1>4, <1>6 DEF MovesSome, GivesBack

LEMMA RmdirMoves ==
  ASSUME TypeInv, TypeInv', DiskInv, NEW n, Rmdir(n)
  PROVE  MovesSome
<1>1. DirInv /\ cur_block \in Directories
  BY DEF DiskInv, CwdIsDirectory
<1>2. PICK e \in Find(dir, cur_block, n) :
        /\ Listed(dir, e.first) = {}
        /\ fat' = FreeChain(fat, e.first)
        /\ dir' = [dir EXCEPT ![e.first] = {}, ![cur_block] = @ \ {e}]
  BY DEF Rmdir
<1>3. cur_block \in DataBlock /\ e \in Listed(dir, cur_block)
  BY <1>1, <1>2, DirectoryFacts DEF Rmdir, Find, Listed
<1>4. e.first \in DataBlock /\ e.first # cur_block
  BY <1>2, <1>3, TypeFacts, ListedType
<1>5. \A c \in DataBlock : dir'[c] = IF c = e.first THEN {}
                                     ELSE IF c = cur_block THEN dir[cur_block] \ {e} ELSE dir[c]
  BY <1>2, <1>3, <1>4, TypeFacts, BlockFacts
<1>6. Heads' = Heads \ {e.first} /\ e.first \in Heads \ {Root}
  BY <1>1, <1>2, <1>3, <1>5, HeadRemoved
<1>. QED  BY <1>2, <1>4, <1>6 DEF MovesSome, GivesBack

LEMMA RenameMoves ==
  ASSUME TypeInv, TypeInv', DiskInv, NEW old \in AnyName, NEW new \in AnyName,
         Rename(old, new), old \notin Dots
  PROVE  MovesSome
<1>1. DirInv /\ cur_block \in Directories /\ fat' = fat
  BY DEF DiskInv, CwdIsDirectory, Rename
<1>2. PICK e \in Find(dir, cur_block, old) :
        dir' = Replaced(dir, cur_block, e, [e EXCEPT !.name = StoredName(new)])
  BY DEF Rename
<1> DEFINE k == [e EXCEPT !.name = StoredName(new)]
<1>3. cur_block \in DataBlock /\ e \in Listed(dir, cur_block) /\ e \in Entry
  BY <1>1, DirectoryFacts, TypeFacts, FindType DEF Find, Listed
<1>4. k \in Entry /\ k.first = e.first /\ k.attr = e.attr /\ k.name \notin Dots
  BY <1>1, <1>3, NewName DEF Rename, Entry
<1> HIDE DEF k
<1>5. Heads' = Heads
  BY <1>1, <1>2, <1>3, <1>4, EntryReplaced DEF k
<1>. QED  BY <1>1, <1>5, StaysMoves

LEMMA CloseMoves ==
  ASSUME TypeInv, TypeInv', DiskInv, NEW fd, Close(fd)
  PROVE  MovesSome
<1>1. PICK u \in user_fds :
        \/ UNCHANGED dir
        \/ dir' \in WriteBack(sys_files[u.file])
  BY DEF Close
<1> DEFINE of == sys_files[u.file]
<1>2. of \in OpenFile /\ of.dir \in DataBlock /\ of.size \in Nat /\ of.name \notin Dots
  BY TypeFacts, RecordType DEF OpenFile, DiskInv, RecordsInv
<1>3. fat' = fat
  BY DEF Close
<1>4. CASE UNCHANGED dir
  BY <1>3, <1>4, DirKept, StaysMoves
<1>5. CASE dir' \in WriteBack(of)
  <2>1. PICK e \in Find(dir, of.dir, of.name) :
          dir' = Replaced(dir, of.dir, e, [e EXCEPT !.size = of.size])
    BY <1>5 DEF WriteBack
  <2> DEFINE k == [e EXCEPT !.size = of.size]
  <2>2. e \in Entry /\ e \in Listed(dir, of.dir)
    BY <1>2, TypeFacts, FindType DEF Find, Listed
  <2>3. k \in Entry /\ k.first = e.first /\ k.attr = e.attr /\ k.name \notin Dots
    BY <1>2, <2>2 DEF Entry, Listed
  <2> HIDE DEF k, of
  <2>4. Heads' = Heads
    BY <1>2, <2>1, <2>2, <2>3, EntryReplaced DEF k, DiskInv
  <2>. QED  BY <1>3, <2>4, StaysMoves
<1>. QED  BY <1>1, <1>4, <1>5

\* A turn of the loop of write lets the chain of the file it writes to grow.
LEMMA WriteBlockMoves ==
  ASSUME TypeInv, DiskInv, WriteBlock
  PROVE  MovesSome
<1> DEFINE d == sys_files[op.file].first
<1>1. op.cmd = "write" /\ InUse(op.file)
  BY DEF WriteBlock, DiskInv, RecordsInv
<1>2. d \in Heads /\ d \in DataBlock /\ Heads' = Heads
  <2>1. UNCHANGED dir
    BY DEF WriteBlock
  <2>. QED  BY <1>1, <2>1, OpenFileIsHead, HeadsType, DirKept DEF DiskInv
<1>3. CASE \E b \in Lowest(FatFree(fat)), t \in Tails(fat, d) : fat' = Linked(fat, t, b)
  <2>1. PICK b \in Lowest(FatFree(fat)), t \in Tails(fat, d) : fat' = Linked(fat, t, b)
    BY <1>3
  <2>2. b \in DataBlock /\ fat[b] = FAT_FREE
    BY LowestIn DEF FatFree
  <2>3. MayGrow(d) /\ Grows(d, b)
    BY <1>1, <1>2, <2>1, <2>2 DEF MayGrow, Grows, Extended
  <2> HIDE DEF d
  <2>. QED  BY <1>2, <2>2, <2>3 DEF MovesSome
<1>4. CASE fat' = fat
  BY <1>2, <1>4, StaysMoves
<1>. QED  BY <1>3, <1>4 DEF WriteBlock

LEMMA FormatMoves ==
  ASSUME Format
  PROVE  Moves
<1>1. fat' = FormatFat /\ dir' = FormatDir
  BY DEF Format
<1>2. \A d \in DataBlock : FormatDir[d] = IF d = Root THEN InitDir(Root, Root) ELSE {}
  BY BlockFacts DEF FormatDir
<1>3. InitDir(Root, Root) # {} /\ \A k \in InitDir(Root, Root) : k.name \in Dots
  BY DEF InitDir, NewEntry, StoredName, Dots
<1>4. \A d \in DataBlock : Listed(dir', d) = {}
  BY <1>1, <1>2, <1>3 DEF Listed
<1>5. Heads' = {Root}
  BY <1>1, <1>2, <1>3, <1>4, BlockFacts DEF Heads
<1>. QED  BY <1>1, <1>4, <1>5 DEF Moves, StartsAfresh

\* The other commands touch neither the FAT nor the directories.
LEMMA OthersMove ==
  ASSUME UNCHANGED <<fat, dir>>
  PROVE  MovesSome
BY DirKept, StaysMoves

LEMMA NextMoves == UsedWithCare /\ CarefulInv /\ CarefulInv' /\ [Next]_vars => Moves
<1> SUFFICES ASSUME UsedWithCare, CarefulInv, CarefulInv', [Next]_vars PROVE Moves
  OBVIOUS
<1>1. TypeInv /\ TypeInv' /\ DiskInv /\ (MovesSome => Moves)
  BY DEF CarefulInv, TableInv, Moves
<1>2. CASE FileCommand
  <2>1. ASSUME NEW n \in AnyName, Create(cur_block, n) PROVE Moves
    BY <1>1, <2>1, CreateMoves
  <2>2. ASSUME NEW n, Open(cur_block, n) PROVE Moves
    BY <1>1, <2>2, OthersMove DEF Open, diskVars
  <2>3. ASSUME NEW n, Remove(cur_block, n) PROVE Moves
    BY <1>1, <2>3, RemoveMoves
  <2>4. ASSUME NEW fd, Close(fd) PROVE Moves
    BY <1>1, <2>4, CloseMoves
  <2>5. ASSUME NEW fd, NEW n, Read(fd, n) \/ Write(fd, n) PROVE Moves
    BY <1>1, <2>5, OthersMove DEF Read, Write, diskVars
  <2>. QED  BY <1>2, <2>1, <2>2, <2>3, <2>4, <2>5 DEF FileCommand
<1>3. CASE DirectoryCommand
  <2>1. ASSUME NEW n \in AnyName, Mkdir(n) \/ Rmdir(n) PROVE Moves
    BY <1>1, <2>1, MkdirMoves, RmdirMoves
  <2>2. ASSUME NEW old \in AnyName, NEW new \in AnyName, CanRename(old, new), Rename(old, new)
        PROVE  Moves
    BY <1>1, <2>2, RenameMoves DEF CanRename, Allows, UsedWithCare
  <2>3. ASSUME NEW start, NEW segs, Cd(start, segs) PROVE Moves
    BY <1>1, <2>3, OthersMove DEF Cd, diskVars
  <2>. QED  BY <1>3, <2>1, <2>2, <2>3 DEF DirectoryCommand
<1>4. CASE Format
  BY <1>4, FormatMoves
<1>5. CASE Turn
  BY <1>1, <1>5, WriteBlockMoves, OthersMove
     DEF Turn, Loop, WriteEnd, CdUp, CdDown, CdFail, CdEnd, diskVars
<1>6. CASE UNCHANGED vars
  BY <1>1, <1>6, OthersMove DEF vars, foVars, diskVars
<1>. QED  BY <1>2, <1>3, <1>4, <1>5, <1>6 DEF Next

---------------------------------------------------------------------------
(* The theorems *)

LEMMA InitPool == Init => Pool!Init
<1> SUFFICES ASSUME Init PROVE Pool!Init
  OBVIOUS
<1>1. fat = FormatFat /\ dir = FormatDir
  BY DEF Init, FOInit
<1>2. \A d \in DataBlock : FormatDir[d] = IF d = Root THEN InitDir(Root, Root) ELSE {}
  BY BlockFacts DEF FormatDir
<1>3. InitDir(Root, Root) # {} /\ \A k \in InitDir(Root, Root) : k.name \in Dots
  BY DEF InitDir, NewEntry, StoredName, Dots
<1>4. Heads = {Root}
  BY <1>1, <1>2, <1>3, BlockFacts DEF Heads, Listed
<1>. QED  BY <1>1, <1>4, FormattedOwned, OwnedFacts DEF Pool!Init, Pool!Fresh

\* With a user who takes care, the blocks move as BlockPool says, on a disk of any
\* size: what alloc_block, find_free, free_chain, write_entry_to_dir and their
\* callers do to links and entries adds up to that.
THEOREM BlocksFormPool ==
  ASSUME UsedWithCare
  PROVE  Spec => BlocksMoveAsPool
<1>1. CarefulInv /\ [Next]_vars => CarefulInv'
  BY NextCareful
<1>2. CarefulInv /\ CarefulInv' /\ [Next]_vars => Pool!Next
  BY NextMoves, MovesAreSteps DEF CarefulInv, TableInv
<1>. QED  BY <1>1, <1>2, InitCareful, InitPool, PTL DEF Spec, BlocksMoveAsPool, Pool!Spec

\* What BlockPool promises to those who rely on it alone: no block has two owners
\* (BlockPool!Spec, with the blocks of the file system in the place of owned).
THEOREM PoolHasOneOwner == BlocksMoveAsPool => []Pool!OneOwner
<1>1. Pool!Init => Pool!OneOwner
  BY DEF Pool!Init, Pool!Fresh, Pool!OneOwner
<1>2. Pool!OneOwner /\ [Pool!Next]_OwnedBlocks => Pool!OneOwner'
  <2> SUFFICES ASSUME Pool!OneOwner, [Pool!Next]_OwnedBlocks
               PROVE  Pool!OneOwner'
    OBVIOUS
  <2>1. /\ DOMAIN OwnedBlocks = DataBlock
        /\ \A h \in Pool!Free : h \in DataBlock /\ \A g \in DataBlock : h \notin OwnedBlocks[g]
    BY OwnedFacts DEF Pool!Free
  <2> USE DEF Pool!OneOwner
  <2>2. CASE UNCHANGED OwnedBlocks
    BY <2>2
  <2>3. CASE \E h \in Pool!Owners : Pool!Release(h)
    BY <2>1, <2>3 DEF Pool!Release
  <2>4. CASE \E h \in Pool!Free : Pool!Claim(h)
    BY <2>1, <2>4 DEF Pool!Claim
  <2>5. CASE \E h \in Pool!Free : \E d \in Pool!Owners, b \in Pool!Free : Pool!ClaimAndGrow(h, d, b)
    BY <2>1, <2>5 DEF Pool!ClaimAndGrow
  <2>6. CASE \E d \in Pool!Owners, b \in Pool!Free : Pool!Grow(d, b)
    BY <2>1, <2>6 DEF Pool!Grow
  <2>7. CASE Pool!Clear
    BY <2>7 DEF Pool!Clear, Pool!Fresh
  <2>. QED  BY <2>2, <2>3, <2>4, <2>5, <2>6, <2>7 DEF Pool!Next, Pool!Rest
<1>. QED  BY <1>1, <1>2, PTL DEF BlocksMoveAsPool, Pool!Spec

\* A step that does something to one file leaves the chains of the others alone:
\* what moves is the chain of a directory, of the file being written, or of what
\* comes or goes.
LEMMA MovesIsolate ==
  ASSUME TypeInv, DiskInv, Moves,
         NEW d \in DataBlock, NEW e \in Listed(dir, d), e.attr = ATTR_FILE,
         NEW c \in DataBlock, NEW k \in Listed(dir', c), k.first = e.first, k.first \in Heads',
         op.cmd = "write" => sys_files[op.file].first # e.first
  PROVE  Chain(fat', e.first) = Chain(fat, e.first)
<1> DEFINE h == e.first
<1>1. h \in DataBlock /\ h \in Heads /\ dir[h] = {} /\ h \in Heads'
  BY TypeFacts, ListedType, InHeads, AttrsDiffer DEF DiskInv, DirInv, KindsAgree
<1> HIDE DEF h
<1>2. CASE Stays
  BY <1>2 DEF Stays
<1>3. CASE \E g \in DataBlock : Takes(g)
  <2>1. PICK g \in DataBlock : Takes(g)
    BY <1>3
  <2>2. Chain(Marked(g), h) = Chain(fat, h)
    BY <1>1, <2>1, MarkedChains DEF Takes, Fresh
  <2>. QED  BY <2>1, <2>2 DEF Takes, h
<1>4. CASE \E g \in DataBlock : GivesBack(g)
  <2>1. PICK g \in DataBlock : GivesBack(g)
    BY <1>4
  <2>2. h \in Heads \ {g} /\ g \in Heads
    BY <1>1, <2>1 DEF GivesBack
  <2>3. Chain(FreeChain(fat, g), h) = Chain(fat, h)
    BY <2>2, SoundFacts, OtherChainsStay
  <2>. QED  BY <2>1, <2>3 DEF GivesBack, h
<1>5. CASE \E g, b \in DataBlock : MayGrow(g) /\ Grows(g, b)
  <2>1. PICK g \in DataBlock, b \in DataBlock : MayGrow(g) /\ Grows(g, b)
    BY <1>5
  <2>2. h # g
    BY <1>1, <2>1 DEF MayGrow, h
  <2>3. PICK t \in Tails(fat, g) : fat' = Linked(fat, t, b)
    BY <2>1 DEF Grows, Extended
  <2>4. g \in Heads /\ fat[b] = FAT_FREE
    BY <2>1 DEF Grows, Extended
  <2>5. Chain(Linked(fat, t, b), h) = Chain(fat, h)
    BY <1>1, <2>2, <2>3, <2>4, SoundFacts, ChainGrown
  <2>. QED  BY <2>3, <2>5 DEF h
<1>6. CASE \E g, x, b \in DataBlock : dir[x] # {} /\ TakesAndGrows(g, x, b)
  <2>1. PICK g \in DataBlock, x \in DataBlock, b \in DataBlock :
          dir[x] # {} /\ TakesAndGrows(g, x, b)
    BY <1>6
  <2>2. h # x
    BY <1>1, <2>1
  <2>. QED  BY <1>1, <2>1, <2>2, TakesAndGrowsFacts DEF h
<1>7. CASE StartsAfresh
  BY <1>7 DEF StartsAfresh
<1>. QED  BY <1>2, <1>3, <1>4, <1>5, <1>6, <1>7 DEF Moves, MovesSome

\* With a user who takes care, no command changes the chain of a file it is not
\* about, whatever it does to its own (write, remove, create, mkdir, rmdir).
THEOREM FilesStayApart ==
  ASSUME UsedWithCare
  PROVE  Spec => Isolation
<1>1. CarefulInv /\ [Next]_vars => CarefulInv'
  BY NextCareful
<1>2. ASSUME CarefulInv, CarefulInv', [Next]_vars,
             NEW d \in DataBlock, NEW e \in Listed(dir, d), e.attr = ATTR_FILE,
             \E k \in Listed(dir', d) : k.first = e.first,
             op.cmd = "write" => sys_files[op.file].first # e.first
      PROVE  Chain(fat', e.first) = Chain(fat, e.first)
  <2>1. PICK k \in Listed(dir', d) : k.first = e.first
    BY <1>2
  <2>2. TypeInv /\ DiskInv /\ Moves /\ e.first \in DataBlock
    BY <1>2, NextMoves, TypeFacts, ListedType DEF CarefulInv, TableInv
  <2>3. k.first \in Heads'
    BY <2>1, <2>2, InHeads
  <2>. QED  BY <1>2, <2>1, <2>2, <2>3, MovesIsolate
<1>3. CarefulInv /\ CarefulInv' /\ [Next]_vars =>
        [\A d \in DataBlock : \A e \in Listed(dir, d) :
           /\ e.attr = ATTR_FILE
           /\ \E k \in Listed(dir', d) : k.first = e.first
           /\ op.cmd = "write" => sys_files[op.file].first # e.first
           => Chain(fat', e.first) = Chain(fat, e.first)]_foVars
  BY <1>2
<1>. QED  BY <1>1, <1>3, InitCareful, PTL DEF Spec, Isolation

---------------------------------------------------------------------------
(* Entries and the blocks that hold them *)

\* The entries es have slots in as many blocks as S has.
Fits(es, S) == IsFiniteSet(es) /\ Cardinality(es) <= EntriesPerBlock * Cardinality(S)

LEMMA Slots ==
  /\ EntriesPerBlock \in Nat /\ EntriesPerBlock >= 2
  /\ \A m, n \in Nat : m <= n => EntriesPerBlock * m <= EntriesPerBlock * n
  /\ \A n \in Nat : EntriesPerBlock * (n + 1) = EntriesPerBlock * n + EntriesPerBlock
  /\ \A n \in Nat : EntriesPerBlock * n \in Nat
<1>1. EntriesPerBlock \in Nat /\ EntriesPerBlock >= 2
  BY DirectoryAssumption
<1>2. ASSUME NEW m \in Nat, NEW n \in Nat, m <= n
      PROVE  EntriesPerBlock * m <= EntriesPerBlock * n
  <2>1. EntriesPerBlock * n = EntriesPerBlock * m + EntriesPerBlock * (n - m)
    BY <1>1, <1>2
  <2>2. EntriesPerBlock * (n - m) >= 0
    BY <1>1, <1>2
  <2>. QED  BY <1>1, <1>2, <2>1, <2>2
<1>. QED  BY <1>1, <1>2

LEMMA FewerFit ==
  ASSUME NEW es, NEW S, Fits(es, S), NEW ks, ks \subseteq es,
         NEW T, S \subseteq T, IsFiniteSet(T)
  PROVE  Fits(ks, T)
<1>1. IsFiniteSet(ks) /\ Cardinality(ks) <= Cardinality(es)
  BY FS_Subset DEF Fits
<1>2. IsFiniteSet(S) /\ Cardinality(S) <= Cardinality(T)
  BY FS_Subset
<1>3. /\ Cardinality(S) \in Nat /\ Cardinality(T) \in Nat
      /\ Cardinality(es) \in Nat /\ Cardinality(ks) \in Nat
  BY <1>1, <1>2, FS_CardinalityType DEF Fits
<1>4. EntriesPerBlock * Cardinality(S) <= EntriesPerBlock * Cardinality(T)
  BY <1>2, <1>3, Slots
<1>5. EntriesPerBlock * Cardinality(S) \in Nat /\ EntriesPerBlock * Cardinality(T) \in Nat
  BY <1>3, Slots
<1>. QED  BY <1>1, <1>3, <1>4, <1>5 DEF Fits

LEMMA NoneFit ==
  ASSUME NEW T, IsFiniteSet(T)
  PROVE  Fits({}, T)
BY FS_EmptySet, FS_CardinalityType, Slots DEF Fits

\* One entry in the place of another.
LEMMA ReplacedFit ==
  ASSUME NEW es, NEW S, Fits(es, S), IsFiniteSet(S), NEW e \in es, NEW k
  PROVE  Fits((es \ {e}) \cup {k}, S)
<1>1. IsFiniteSet(es \ {e}) /\ Cardinality(es \ {e}) = Cardinality(es) - 1
  BY FS_RemoveElement DEF Fits
<1>2. /\ IsFiniteSet((es \ {e}) \cup {k})
      /\ \/ Cardinality((es \ {e}) \cup {k}) = Cardinality(es \ {e})
         \/ Cardinality((es \ {e}) \cup {k}) = Cardinality(es \ {e}) + 1
  BY <1>1, FS_AddElement
<1>3. Cardinality(es) \in Nat /\ EntriesPerBlock * Cardinality(S) \in Nat
  BY FS_CardinalityType, Slots DEF Fits
<1>. QED  BY <1>1, <1>2, <1>3 DEF Fits

\* An entry in a slot that was free.
LEMMA OneMoreFits ==
  ASSUME NEW es, NEW S, IsFiniteSet(S), IsFiniteSet(es), NEW e,
         Cardinality(es) < EntriesPerBlock * Cardinality(S)
  PROVE  Fits(es \cup {e}, S)
<1>1. /\ IsFiniteSet(es \cup {e})
      /\ \/ Cardinality(es \cup {e}) = Cardinality(es)
         \/ Cardinality(es \cup {e}) = Cardinality(es) + 1
  BY FS_AddElement
<1>2. Cardinality(es) \in Nat /\ EntriesPerBlock * Cardinality(S) \in Nat
  BY FS_CardinalityType, Slots
<1>. QED  BY <1>1, <1>2 DEF Fits

\* An entry, and a block that makes room for it.
LEMMA GrownFits ==
  ASSUME NEW es, NEW S, Fits(es, S), IsFiniteSet(S), NEW b, b \notin S, NEW e
  PROVE  Fits(es \cup {e}, S \cup {b})
<1>1. IsFiniteSet(S \cup {b}) /\ Cardinality(S \cup {b}) = Cardinality(S) + 1
  BY FS_AddElement
<1>2. Cardinality(S) \in Nat /\ Cardinality(es) \in Nat
  BY FS_CardinalityType DEF Fits
<1>3. Cardinality(es) < EntriesPerBlock * Cardinality(S \cup {b})
  <2>1. EntriesPerBlock * Cardinality(S \cup {b})
          = EntriesPerBlock * Cardinality(S) + EntriesPerBlock
    BY <1>1, <1>2, Slots
  <2>2. EntriesPerBlock * Cardinality(S) \in Nat
    BY <1>2, Slots
  <2>. QED  BY <1>2, <2>1, <2>2, Slots DEF Fits
<1>. QED  BY <1>1, <1>3, OneMoreFits DEF Fits

\* A new directory has two entries, for which one block is enough.
LEMMA NewDirectoryFits ==
  ASSUME NEW d, NEW p, NEW S, IsFiniteSet(S), NEW b \in S
  PROVE  Fits(InitDir(d, p), S)
<1> DEFINE one == {NewEntry(Dot, d, ATTR_DIR)}
<1>1. IsFiniteSet(one) /\ Cardinality(one) = 1
  BY FS_Singleton
<1>2. InitDir(d, p) = one \cup {NewEntry(DotDot, p, ATTR_DIR)}
  BY DEF InitDir
<1>3. Cardinality(one) < EntriesPerBlock * Cardinality(S)
  <2>1. Cardinality(S) \in Nat /\ Cardinality(S) # 0
    BY FS_CardinalityType, FS_EmptySet
  <2>2. EntriesPerBlock * 1 <= EntriesPerBlock * Cardinality(S)
    BY <2>1, Slots
  <2>. QED  BY <1>1, <2>1, <2>2, Slots
<1> HIDE DEF one
<1>. QED  BY <1>1, <1>2, <1>3, OneMoreFits

---------------------------------------------------------------------------
(* The invariant *)

AllFit == \A d \in DataBlock : Fits(dir[d], Chain(fat, d))

\* No command shortens the chain of something that stays.
LEMMA ChainsKept ==
  ASSUME TypeInv, DiskInv, MovesSome, NEW h \in Heads, h \in Heads'
  PROVE  Chain(fat, h) \subseteq Chain(fat', h)
<1>1. CASE Stays
  BY <1>1 DEF Stays
<1>2. CASE \E g \in DataBlock : Takes(g)
  <2>1. PICK g \in DataBlock : Takes(g)
    BY <1>2
  <2>. QED  BY <2>1, MarkedChains DEF Takes, Fresh
<1>3. CASE \E g \in DataBlock : GivesBack(g)
  <2>1. PICK g \in DataBlock : GivesBack(g)
    BY <1>3
  <2>2. h \in Heads \ {g} /\ g \in Heads
    BY <2>1 DEF GivesBack
  <2>3. Chain(FreeChain(fat, g), h) = Chain(fat, h)
    BY <2>2, SoundFacts, OtherChainsStay
  <2>. QED  BY <2>1, <2>3 DEF GivesBack
<1>4. CASE \E g, b \in DataBlock : Grows(g, b)
  <2>1. PICK g \in DataBlock, b \in DataBlock : Grows(g, b)
    BY <1>4
  <2>2. PICK t \in Tails(fat, g) : fat' = Linked(fat, t, b)
    BY <2>1 DEF Grows, Extended
  <2>3. g \in Heads /\ fat[b] = FAT_FREE
    BY <2>1 DEF Grows, Extended
  <2>4. /\ Chain(Linked(fat, t, b), g) = Chain(fat, g) \cup {b}
        /\ h # g => Chain(Linked(fat, t, b), h) = Chain(fat, h)
    BY <2>2, <2>3, SoundFacts, ChainGrown
  <2>. QED  BY <2>2, <2>4
<1>5. CASE \E g, x, b \in DataBlock : TakesAndGrows(g, x, b)
  <2>1. PICK g \in DataBlock, x \in DataBlock, b \in DataBlock : TakesAndGrows(g, x, b)
    BY <1>5
  <2>. QED  BY <2>1, TakesAndGrowsFacts
<1>. QED  BY <1>1, <1>2, <1>3, <1>4, <1>5 DEF MovesSome

\* A block whose entries become none or fewer.
LEMMA FitKept ==
  ASSUME TypeInv, TypeInv', DiskInv, MovesSome, AllFit,
         NEW d \in DataBlock, dir'[d] \subseteq dir[d]
  PROVE  Fits(dir'[d], Chain(fat', d))
<1>1. CASE dir'[d] = {}
  BY <1>1, NoneFit, ChainFinite
<1>2. CASE dir'[d] # {}
  <2>1. d \in Heads /\ d \in Heads'
    BY <1>2, InHeads
  <2>2. Chain(fat, d) \subseteq Chain(fat', d) /\ IsFiniteSet(Chain(fat', d))
    BY <2>1, ChainsKept, ChainFinite
  <2>. QED  BY <2>2, FewerFit DEF AllFit
<1>. QED  BY <1>1, <1>2

\* The directory an entry is added to.
LEMMA AddedFits ==
  ASSUME TypeInv, DiskInv, NEW d \in Heads, NEW h, Fresh(h), Fits(dir[d], Chain(fat, d)),
         NEW u, NEW ds, ds[d] = dir[d], NEW e, AddEntry(Marked(h), u, ds, d, e)
  PROVE  Fits(dir[d] \cup {e}, Chain(fat', d))
<1>1. /\ h \in DataBlock /\ d \in DataBlock
      /\ Chain(Marked(h), d) = Chain(fat, d) /\ IsFiniteSet(Chain(fat, d))
  BY MarkedChains, ChainFinite, HeadsType DEF Fresh
<1>2. CASE HasRoom(Marked(h), ds, d) /\ fat' = Marked(h)
  <2>1. IsFiniteSet(dir[d])
    BY DEF Fits
  <2>2. Cardinality(dir[d]) < EntriesPerBlock * Cardinality(Chain(fat, d))
    BY <1>1, <1>2 DEF HasRoom
  <2>3. Fits(dir[d] \cup {e}, Chain(fat, d))
    BY <1>1, <2>1, <2>2, OneMoreFits
  <2>4. Chain(fat', d) = Chain(fat, d)
    BY <1>1, <1>2
  <2>. QED  BY <2>3, <2>4
<1>3. CASE \E b \in Lowest(FatFree(Marked(h))), t \in Tails(Marked(h), d) :
             fat' = Linked(Marked(h), t, b)
  <2>1. PICK b \in Lowest(FatFree(Marked(h))), t \in Tails(Marked(h), d) :
          fat' = Linked(Marked(h), t, b)
    BY <1>3
  <2>2. b \in DataBlock /\ Marked(h)[b] = FAT_FREE
    BY LowestIn DEF FatFree
  <2>3. /\ Marked(h) \in [Block -> FatValue] /\ Heads \cup {h} \in SUBSET DataBlock
        /\ Sound(Marked(h), Heads \cup {h})
    BY <1>1, SoundFacts, SoundClaim, BlockFacts DEF Marked, Fresh
  <2>4. Chain(fat', d) = Chain(Marked(h), d) \cup {b} /\ b \notin Chain(Marked(h), d)
    <3>1. d \in Heads \cup {h}
      OBVIOUS
    <3>. QED  BY <2>1, <2>2, <2>3, <3>1, ChainGrown
  <2>5. Fits(dir[d] \cup {e}, Chain(fat, d) \cup {b})
    BY <1>1, <2>4, GrownFits
  <2>. QED  BY <1>1, <2>4, <2>5
<1>. QED  BY <1>2, <1>3 DEF AddEntry

LEMMA CreateFits ==
  ASSUME TypeInv, TypeInv', DiskInv, AllFit, NEW n \in AnyName, Create(cur_block, n)
  PROVE  AllFit'
<1>1. DirInv /\ cur_block \in Directories /\ MovesSome
  BY CreateMoves DEF DiskInv, CwdIsDirectory
<1>2. cur_block \in DataBlock /\ cur_block \in Heads
  BY <1>1, DirectoryFacts
<1>3. PICK b \in FindFree(bitmap) :
        \/ AddEntry(Marked(b), bitmap \cup {b}, dir, cur_block, NewEntry(n, b, ATTR_FILE))
        \/ UNCHANGED dir
  BY DEF Create, Marked
<1>4. Fresh(b)
  BY BlockClaimed DEF Fresh
<1> DEFINE e == NewEntry(n, b, ATTR_FILE)
<1>5. CASE UNCHANGED dir
  BY <1>1, <1>5, FitKept DEF AllFit
<1>6. CASE AddEntry(Marked(b), bitmap \cup {b}, dir, cur_block, e)
  <2> HIDE DEF e
  <2>1. dir' = [dir EXCEPT ![cur_block] = @ \cup {e}]
    BY <1>6 DEF AddEntry
  <2>2. dir'[cur_block] = dir[cur_block] \cup {e}
    BY <1>2, <2>1, TypeFacts, BlockFacts
  <2>3. Fits(dir'[cur_block], Chain(fat', cur_block))
    BY <1>2, <1>4, <1>6, <2>2, AddedFits DEF AllFit
  <2>4. ASSUME NEW c \in DataBlock, c # cur_block
        PROVE  Fits(dir'[c], Chain(fat', c))
    <3>1. dir'[c] = dir[c]
      BY <2>1, <2>4, TypeFacts, BlockFacts
    <3>. QED  BY <1>1, <3>1, FitKept
  <2>. QED  BY <2>3, <2>4 DEF AllFit
<1>. QED  BY <1>3, <1>5, <1>6

LEMMA MkdirFits ==
  ASSUME TypeInv, TypeInv', DiskInv, AllFit, NEW n \in AnyName, Mkdir(n)
  PROVE  AllFit'
<1>1. DirInv /\ cur_block \in Directories /\ MovesSome
  BY MkdirMoves DEF DiskInv, CwdIsDirectory
<1>2. cur_block \in DataBlock /\ cur_block \in Heads
  BY <1>1, DirectoryFacts
<1>3. PICK b \in FindFree(bitmap) :
        LET u  == bitmap \cup {b}
            ds == [dir EXCEPT ![b] = InitDir(b, cur_block)]
        IN  \/ AddEntry(Marked(b), u, ds, cur_block, NewEntry(n, b, ATTR_DIR))
            \/ dir' = ds
  BY DEF Mkdir, Marked
<1> DEFINE u  == bitmap \cup {b}
           ds == [dir EXCEPT ![b] = InitDir(b, cur_block)]
           e  == NewEntry(n, b, ATTR_DIR)
<1>4. Fresh(b) /\ b \in DataBlock /\ b # cur_block
  BY <1>2, BlockClaimed DEF Fresh
<1>5. AddEntry(Marked(b), u, ds, cur_block, e) \/ dir' = ds
  BY <1>3
<1>6. ds[cur_block] = dir[cur_block] /\ ds[b] = InitDir(b, cur_block)
  BY <1>2, <1>4, TypeFacts, BlockFacts
<1>7. \A c \in DataBlock : c # b => ds[c] = dir[c]
  BY TypeFacts, BlockFacts
<1>8. ds \in [Block -> SUBSET Entry]
  BY <1>2, <1>4, TypeFacts, InitDirType, BlockFacts
<1> HIDE DEF u, ds, e
<1>9. dir' = [ds EXCEPT ![cur_block] = @ \cup {e}] \/ dir' = ds
  BY <1>5 DEF AddEntry
<1>10. Fits(dir'[b], Chain(fat', b))
  <2>1. dir'[b] = InitDir(b, cur_block)
    BY <1>4, <1>6, <1>8, <1>9, BlockFacts
  <2>2. IsFiniteSet(Chain(fat', b)) /\ b \in Chain(fat', b)
    BY <1>4, ChainFinite, ChainClosed
  <2>. QED  BY <2>1, <2>2, NewDirectoryFits
<1>11. Fits(dir'[cur_block], Chain(fat', cur_block))
  <2>1. CASE AddEntry(Marked(b), u, ds, cur_block, e)
    <3>1. dir' = [ds EXCEPT ![cur_block] = @ \cup {e}]
      BY <2>1 DEF AddEntry
    <3>2. dir'[cur_block] = dir[cur_block] \cup {e}
      BY <1>2, <1>6, <1>8, <3>1, BlockFacts
    <3>3. Fits(dir[cur_block], Chain(fat, cur_block))
      BY <1>2 DEF AllFit
    <3>. QED  BY <1>2, <1>4, <1>6, <2>1, <3>2, <3>3, AddedFits
  <2>2. CASE dir' = ds
    BY <1>1, <1>2, <1>6, <2>2, FitKept
  <2>. QED  BY <1>5, <2>1, <2>2
<1>12. ASSUME NEW c \in DataBlock, c # cur_block, c # b
       PROVE  Fits(dir'[c], Chain(fat', c))
  <2>1. dir'[c] = dir[c]
    BY <1>2, <1>7, <1>8, <1>9, <1>12, BlockFacts
  <2>. QED  BY <1>1, <2>1, FitKept
<1>. QED  BY <1>10, <1>11, <1>12 DEF AllFit

\* What takes an entry away.
LEMMA RemoveFits ==
  ASSUME TypeInv, TypeInv', DiskInv, AllFit, NEW n, Remove(cur_block, n) \/ Rmdir(n)
  PROVE  AllFit'
<1>1. MovesSome
  BY RemoveMoves, RmdirMoves
<1>2. \A c \in DataBlock : dir'[c] \subseteq dir[c]
  BY TypeFacts, BlockFacts DEF Remove, Rmdir
<1>. QED  BY <1>1, <1>2, FitKept DEF AllFit

\* One entry in the place of another, the FAT as it was.
LEMMA ReplaceFits ==
  ASSUME TypeInv, AllFit, fat' = fat, NEW d \in DataBlock, NEW e \in dir[d], NEW k,
         dir' = Replaced(dir, d, e, k)
  PROVE  AllFit'
<1>1. dir'[d] = (dir[d] \ {e}) \cup {k} /\ \A c \in DataBlock : c # d => dir'[c] = dir[c]
  BY TypeFacts, BlockFacts DEF Replaced
<1>2. Fits(dir[d], Chain(fat, d)) /\ IsFiniteSet(Chain(fat, d))
  BY ChainFinite DEF AllFit
<1>3. Fits((dir[d] \ {e}) \cup {k}, Chain(fat, d))
  BY <1>2, ReplacedFit
<1>4. \A c \in DataBlock : Chain(fat', c) = Chain(fat, c)
  OBVIOUS
<1>. QED  BY <1>1, <1>3, <1>4 DEF AllFit

LEMMA RenameFits ==
  ASSUME TypeInv, AllFit, NEW old, NEW new, Rename(old, new)
  PROVE  AllFit'
<1>1. PICK e \in Find(dir, cur_block, old) :
        dir' = Replaced(dir, cur_block, e, [e EXCEPT !.name = StoredName(new)])
  BY DEF Rename
<1>2. cur_block \in DataBlock /\ e \in dir[cur_block] /\ fat' = fat
  BY TypeFacts DEF Find, Rename
<1>. QED  BY <1>1, <1>2, ReplaceFits

LEMMA CloseFits ==
  ASSUME TypeInv, AllFit, NEW fd, Close(fd)
  PROVE  AllFit'
<1>1. PICK u \in user_fds : \/ UNCHANGED dir
                            \/ dir' \in WriteBack(sys_files[u.file])
  BY DEF Close
<1> DEFINE of == sys_files[u.file]
<1>2. of.dir \in DataBlock /\ fat' = fat
  BY TypeFacts, RecordType DEF Close
<1>3. CASE dir' \in WriteBack(of)
  <2>1. PICK e \in Find(dir, of.dir, of.name) :
          dir' = Replaced(dir, of.dir, e, [e EXCEPT !.size = of.size])
    BY <1>3 DEF WriteBack
  <2> HIDE DEF of
  <2>2. e \in dir[of.dir]
    BY <2>1 DEF Find
  <2>. QED  BY <1>2, <2>1, <2>2, ReplaceFits
<1>4. CASE UNCHANGED dir
  BY <1>2, <1>4 DEF AllFit
<1>. QED  BY <1>1, <1>3, <1>4

\* The formatted disk.
LEMMA FormattedFits == fat = FormatFat /\ dir = FormatDir => AllFit
<1> SUFFICES ASSUME fat = FormatFat, dir = FormatDir PROVE AllFit
  OBVIOUS
<1>1. \A d \in DataBlock : dir[d] = IF d = Root THEN InitDir(Root, Root) ELSE {}
  BY BlockFacts DEF FormatDir
<1>2. Fits(InitDir(Root, Root), Chain(fat, Root))
  BY FormattedOwned, BlockFacts, ChainFinite, NewDirectoryFits
<1>3. ASSUME NEW d \in DataBlock, d # Root
      PROVE  Fits(dir[d], Chain(fat, d))
  BY <1>1, <1>3, ChainFinite, NoneFit
<1>. QED  BY <1>1, <1>2, <1>3 DEF AllFit

LEMMA WriteBlockFits ==
  ASSUME TypeInv, TypeInv', DiskInv, AllFit, WriteBlock
  PROVE  AllFit'
<1>1. MovesSome /\ UNCHANGED dir
  BY WriteBlockMoves DEF WriteBlock
<1>. QED  BY <1>1, FitKept DEF AllFit

LEMMA NextFit ==
  UsedWithCare /\ CarefulInv /\ CarefulInv' /\ AllFit /\ [Next]_vars => AllFit'
<1> SUFFICES ASSUME UsedWithCare, CarefulInv, CarefulInv', AllFit, [Next]_vars PROVE AllFit'
  OBVIOUS
<1>1. TypeInv /\ TypeInv' /\ DiskInv
  BY DEF CarefulInv, TableInv
<1>2. UNCHANGED <<fat, dir>> => AllFit'
  BY DEF AllFit
<1>3. CASE FileCommand
  <2>1. ASSUME NEW n, Open(cur_block, n) PROVE AllFit'
    BY <1>2, <2>1 DEF Open, diskVars
  <2>2. ASSUME NEW fd, NEW n, Read(fd, n) \/ Write(fd, n) PROVE AllFit'
    BY <1>2, <2>2 DEF Read, Write, diskVars
  <2>. QED  BY <1>1, <1>3, <2>1, <2>2, CreateFits, RemoveFits, CloseFits DEF FileCommand
<1>4. CASE DirectoryCommand
  <2>1. ASSUME NEW start, NEW segs, Cd(start, segs) PROVE AllFit'
    BY <1>2, <2>1 DEF Cd, diskVars
  <2>. QED  BY <1>1, <1>4, <2>1, MkdirFits, RemoveFits, RenameFits DEF DirectoryCommand
<1>5. CASE Format
  <2>1. (fat = FormatFat /\ dir = FormatDir)'
    BY <1>5 DEF Format
  <2>. QED  BY <2>1, FormattedFits, PTL
<1>6. CASE Turn
  BY <1>1, <1>2, <1>6, WriteBlockFits
     DEF Turn, Loop, WriteEnd, CdUp, CdDown, CdFail, CdEnd, diskVars
<1>7. CASE UNCHANGED vars
  BY <1>2, <1>7 DEF vars, foVars, diskVars
<1>. QED  BY <1>3, <1>4, <1>5, <1>6, <1>7 DEF Next

\* With a user who takes care, a directory never has more entries than its blocks
\* have slots, however often it grows, and whatever is written, removed and created
\* around it (add_entry, alloc_block, free_chain).
THEOREM DirectoriesFitBlocks ==
  ASSUME UsedWithCare
  PROVE  Spec => []EntriesFit
<1>1. CarefulInv /\ [Next]_vars => CarefulInv'
  BY NextCareful
<1>2. CarefulInv /\ CarefulInv' /\ AllFit /\ [Next]_vars => AllFit'
  BY NextFit
<1>3. Init => AllFit
  BY FormattedFits DEF Init, FOInit
<1>4. AllFit => EntriesFit
  BY DEF AllFit, EntriesFit, Fits
<1>. QED  BY <1>1, <1>2, <1>3, <1>4, InitCareful, PTL DEF Spec
===========================================================================
