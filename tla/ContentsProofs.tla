--------------------------- MODULE ContentsProofs ---------------------------
(***************************************************************************)
(* The bytes of files, with a user who takes care: every file behaves as a *)
(* sequence of bytes of its own.  FileSystem works in a directory the user *)
(* chooses, Contents in the root; a working directory that stays the root  *)
(* makes of every step of Contents one of FileSystem, seek and cat apart,  *)
(* so that what the other modules prove holds here too.                    *)
(***************************************************************************)
EXTENDS Contents, SizeProofs, SequenceTheorems

---------------------------------------------------------------------------
(* Walks along chains that change elsewhere *)

LEMMA NthStep ==
  ASSUME NEW f, NEW b, NEW n \in Nat
  PROVE  NthBlock(f, b, n + 1) = Follow(f, NthBlock(f, b, n))
BY NthNext

\* nth_block looks at the links of the chain only.
LEMMA NthSame ==
  ASSUME NEW f \in [Block -> FatValue], NEW b \in DataBlock, NEW g,
         \A x \in Chain(f, b) : g[x] = f[x]
  PROVE  \A n \in Nat : NthBlock(g, b, n) = NthBlock(f, b, n)
<1> DEFINE S == {n \in Nat : NthBlock(g, b, n) = NthBlock(f, b, n)}
<1>1. 0 \in S
  BY NthNext
<1>2. ASSUME NEW n \in S PROVE n + 1 \in S
  <2> DEFINE x == NthBlock(f, b, n)
  <2>1. x \in Chain(f, b) \cup {NoBlock} /\ NthBlock(g, b, n) = x
    BY <1>2, NthInChain
  <2>2. NthBlock(f, b, n + 1) = Follow(f, x) /\ NthBlock(g, b, n + 1) = Follow(g, x)
    <3>1. n \in Nat
      OBVIOUS
    <3> HIDE DEF S
    <3>2. /\ NthBlock(f, b, n + 1) = Follow(f, NthBlock(f, b, n))
          /\ NthBlock(g, b, n + 1) = Follow(g, NthBlock(g, b, n))
      BY <3>1, NthStep
    <3>. QED  BY <2>1, <3>2
  <2>3. Follow(g, x) = Follow(f, x)
    BY <2>1 DEF Follow
  <2>. QED  BY <2>2, <2>3
<1>3. S = Nat
  <2> HIDE DEF S
  <2>1. S \in SUBSET Nat
    BY DEF S
  <2>. QED  BY <1>1, <1>2, <2>1, AllNaturals
<1>. QED  BY <1>3

\* When a chain grows, the walk comes to the same blocks as before, and then to the
\* new one.
LEMMA NthGrown ==
  ASSUME NEW f \in [Block -> FatValue], NEW H \in SUBSET DataBlock, Sound(f, H), NEW h \in H,
         NEW t \in Tails(f, h), NEW b \in DataBlock, f[b] = FAT_FREE,
         NEW c, c = Cardinality(Chain(f, h)), NEW g, g = Linked(f, t, b)
  PROVE  /\ c \in Nat
         /\ \A n \in Nat : n < c => NthBlock(g, h, n) = NthBlock(f, h, n)
         /\ NthBlock(g, h, c) = b
<1>0. h \in DataBlock /\ f[h] # FAT_FREE /\ c \in Nat
  BY ChainFinite DEF Sound
<1>1. t \in DataBlock /\ f[t] = FAT_EOF /\ t # b
  BY <1>0, TailsEnd, MarkFacts
<1>2. /\ g \in [Block -> FatValue] /\ Sound(g, H)
      /\ Chain(g, h) = Chain(f, h) \cup {b} /\ b \notin Chain(f, h)
  BY <1>1, LinkedType, SoundGrow, ChainGrown
<1>3. g[t] = b /\ \A x \in Block : x # t /\ x # b => g[x] = f[x]
  BY <1>1, BlockFacts DEF Linked
<1>4. Chain(f, h) \subseteq Block
  BY ChainIsData, BlockFacts
<1> DEFINE S == {n \in Nat : NthBlock(f, h, n) # NoBlock => NthBlock(g, h, n) = NthBlock(f, h, n)}
<1>5. 0 \in S
  BY NthNext
<1>6. ASSUME NEW n \in S PROVE n + 1 \in S
  <2> SUFFICES ASSUME NthBlock(f, h, n + 1) # NoBlock
               PROVE  NthBlock(g, h, n + 1) = NthBlock(f, h, n + 1)
    OBVIOUS
  <2> DEFINE x == NthBlock(f, h, n)
  <2>1. x \in Chain(f, h) /\ x # NoBlock /\ f[x] \in DataBlock
    BY <1>0, NthLinks
  <2>2. NthBlock(g, h, n) = x
    BY <1>6, <2>1
  <2>3. NthBlock(f, h, n + 1) = Follow(f, x) /\ NthBlock(g, h, n + 1) = Follow(g, x)
    <3>1. n \in Nat
      OBVIOUS
    <3> HIDE DEF S, x
    <3>2. /\ NthBlock(f, h, n + 1) = Follow(f, NthBlock(f, h, n))
          /\ NthBlock(g, h, n + 1) = Follow(g, NthBlock(g, h, n))
      BY <3>1, NthStep
    <3>. QED  BY <2>2, <3>2 DEF x
  <2> HIDE DEF x
  <2>4. g[x] = f[x]
    BY <1>1, <1>2, <1>3, <1>4, <2>1, MarkFacts
  <2>. QED  BY <2>3, <2>4 DEF Follow
<1>7. S = Nat
  <2> HIDE DEF S
  <2>1. S \in SUBSET Nat
    BY DEF S
  <2>. QED  BY <1>5, <1>6, <2>1, AllNaturals
<1>8. \A n \in Nat : n < c => NthBlock(g, h, n) = NthBlock(f, h, n)
  BY <1>7, NthFound
<1>9. NthBlock(g, h, c) = b
  <2>1. Cardinality(Chain(g, h)) = c + 1
    BY <1>2, ChainFinite, FS_AddElement
  <2>2. NthBlock(g, h, c) # NoBlock /\ NthBlock(f, h, c) = NoBlock
    <3>1. h \in DataBlock /\ ~ (c < c) /\ c < c + 1
      BY <1>0
    <3>2. NthBlock(g, h, c) # NoBlock
      BY <1>0, <1>2, <2>1, <3>1, NthFound
    <3>3. NthBlock(f, h, c) = NoBlock
      BY <1>0, <3>1, NthFound
    <3>. QED  BY <3>2, <3>3
  <2>3. c >= 1
    <3>1. NthBlock(f, h, 0) = h /\ h # NoBlock
      BY <1>0, NthNext, BlockFacts DEF NoBlock
    <3>. QED  BY <1>0, <2>2, <3>1
  <2> DEFINE m == c - 1
             x == NthBlock(f, h, m)
  <2>4. m \in Nat /\ m < c /\ c = m + 1
    BY <1>0, <2>3
  <2>5. x # NoBlock /\ x \in Chain(f, h)
    BY <1>0, <2>4, NthFound, NthInChain
  <2>6. NthBlock(g, h, m) = x
    BY <1>8, <2>4
  <2> HIDE DEF m
  <2>7. NthBlock(f, h, c) = Follow(f, x) /\ NthBlock(g, h, c) = Follow(g, x)
    <3>1. /\ NthBlock(f, h, m + 1) = Follow(f, NthBlock(f, h, m))
          /\ NthBlock(g, h, m + 1) = Follow(g, NthBlock(g, h, m))
      BY <2>4, NthStep
    <3>. QED  BY <2>4, <2>6, <3>1
  <2> HIDE DEF x
  <2>8. x = t
    <3> SUFFICES ASSUME x # t PROVE FALSE
      OBVIOUS
    <3>1. g[x] = f[x]
      BY <1>2, <1>3, <1>4, <2>5
    <3>. QED  BY <2>2, <2>7, <3>1 DEF Follow
  <2>9. Follow(g, x) = b
    BY <1>0, <1>2, <1>3, <2>5, <2>8, FollowInChain
  <2>. QED  BY <2>7, <2>9
<1>. QED  BY <1>0, <1>8, <1>9

---------------------------------------------------------------------------
(* Contents as FileSystem in the root directory *)

AtRoot == cur_block = Root /\ path_stack = <<>>

LEMMA SameState ==
  ASSUME AtRoot, AtRoot', UNCHANGED foVars
  PROVE  UNCHANGED vars
BY DEF AtRoot, vars, fsVars

\* The shell does not offer seek, and FileSystem does not have it.
LEMMA CommandIsNext ==
  ASSUME AtRoot, AtRoot', ContentsNext
  PROVE  \/ \E fd \in 0 .. MaxFds - 1 : \E n \in ReadSizes : Seek(fd, n)
         \/ [Next]_vars
<1>0. UNCHANGED fsVars /\ cur_block = Root
  BY DEF AtRoot, fsVars
<1>1. ASSUME NEW n \in AnyName,
             Create(Root, n) \/ Open(Root, n) \/ (CanRemove(Root, n) /\ Remove(Root, n))
      PROVE  Next
  BY <1>0, <1>1 DEF Next, FileCommand
<1>2. ASSUME NEW n, Cat(n) PROVE UNCHANGED vars
  BY <1>2, SameState DEF Cat
<1>3. ASSUME NEW fd \in 0 .. MaxFds - 1, Close(fd) PROVE Next
  BY <1>0, <1>3 DEF Next, FileCommand
<1>4. ASSUME NEW fd \in 0 .. MaxFds - 1, NEW n \in ReadSizes, CanAsk(fd, n), ReadBytes(fd, n)
      PROVE  Next
  BY <1>0, <1>4 DEF Next, FileCommand, ReadBytes
<1>5. ASSUME NEW fd \in 0 .. MaxFds - 1, NEW t \in Texts, WriteText(fd, t) PROVE Next
  <2>1. Len(t) \in WriteSizes /\ Write(fd, Len(t))
    BY <1>5, ContentsAssumption DEF WriteText
  <2>. QED  BY <1>0, <2>1 DEF Next, FileCommand
<1>6. ASSUME WriteBytes \/ WriteDone PROVE Next
  BY <1>0, <1>6 DEF Next, Turn, Loop, WriteBytes, WriteDone
<1>. QED  BY <1>1, <1>2, <1>3, <1>4, <1>5, <1>6 DEF ContentsNext

\* One record is replaced, and what ties it to its file stays.
RecordStep(i, r) ==
  /\ i \in DOMAIN sys_files /\ r \in OpenFile
  /\ sys_files' = [sys_files EXCEPT ![i] = r]
  /\ r.first = sys_files[i].first /\ r.dir = sys_files[i].dir
  /\ r.name = sys_files[i].name /\ r.ref = sys_files[i].ref
  /\ UNCHANGED <<fat, dir, user_fds, next_fd>>

LEMMA SeekStep ==
  ASSUME TypeInv, NEW fd, NEW n \in Nat, Seek(fd, n)
  PROVE  \E u \in user_fds : LET r == [sys_files[u.file] EXCEPT !.cursor = n] IN
           /\ u.fd = fd /\ RecordStep(u.file, r)
           /\ r.size = sys_files[u.file].size /\ r.cursor = n /\ n <= r.size
<1>1. PICK u \in user_fds :
        /\ u.fd = fd /\ n <= sys_files[u.file].size
        /\ sys_files' = [sys_files EXCEPT ![u.file].cursor = n]
  BY DEF Seek
<1> DEFINE of == sys_files[u.file]
           r  == [of EXCEPT !.cursor = n]
<1>2. u.file \in DOMAIN sys_files /\ of \in OpenFile
  BY TypeFacts
<1>3. /\ r \in OpenFile /\ r.first = of.first /\ r.dir = of.dir /\ r.name = of.name
      /\ r.ref = of.ref /\ r.size = of.size /\ r.cursor = n
  BY <1>2 DEF OpenFile
<1>4. sys_files' = [sys_files EXCEPT ![u.file] = r] /\ UNCHANGED <<fat, dir, user_fds, next_fd>>
  BY <1>1 DEF Seek, diskVars
<1> HIDE DEF r
<1>5. u.fd = fd /\ RecordStep(u.file, r) /\ r.size = of.size /\ r.cursor = n /\ n <= r.size
  BY <1>1, <1>2, <1>3, <1>4 DEF RecordStep
<1>. QED  BY <1>5 DEF r

LEMMA SeekOrderly ==
  ASSUME OrderlyInv, NEW fd, NEW n \in Nat, Seek(fd, n), UNCHANGED fsVars
  PROVE  OrderlyInv'
<1>0. TypeInv /\ TableInv /\ DiskInv /\ UniqueNames /\ SizeInv
  BY DEF OrderlyInv, CarefulInv, TableInv
<1>1. PICK u \in user_fds : LET r == [sys_files[u.file] EXCEPT !.cursor = n] IN
           /\ u.fd = fd /\ RecordStep(u.file, r)
           /\ r.size = sys_files[u.file].size /\ r.cursor = n /\ n <= r.size
  BY <1>0, SeekStep
<1> DEFINE r == [sys_files[u.file] EXCEPT !.cursor = n]
<1>2. RecordStep(u.file, r) /\ r.size = sys_files[u.file].size /\ r.cursor <= r.size
  BY <1>1
<1> HIDE DEF r
<1>3. /\ UNCHANGED <<diskVars, user_fds, next_fd, op>> /\ cur_block' = cur_block /\ op = Idle
      /\ path_stack' = path_stack /\ op'.cmd # "write" /\ op.cmd # "write" /\ op' = Idle
  BY DEF Seek, fsVars, Idle
<1>4. /\ DOMAIN sys_files' = DOMAIN sys_files /\ sys_files' \in Seq(OpenFile)
      /\ \A j \in DOMAIN sys_files : sys_files'[j] = IF j = u.file THEN r ELSE sys_files[j]
  BY <1>0, <1>2, TypeFacts, RecordUpdate DEF RecordStep
<1>5. TypeInv'
  BY <1>0, <1>3, <1>4, TypeFacts, TableStep DEF TypeInv, TypeOK, fsVars
<1>6. TableInv'
  BY <1>0, <1>2, <1>3, <1>5, CursorStep DEF RecordStep
<1>7. DiskInv'
  BY <1>0, <1>2, <1>3, RecordMoved DEF RecordStep
<1>8. UniqueNames'
  BY <1>0, <1>3 DEF UniqueNames, diskVars
<1>9. SizeInv'
  <2>1. \A j \in DOMAIN sys_files :
           /\ sys_files'[j].first = sys_files[j].first /\ sys_files'[j].dir = sys_files[j].dir
           /\ sys_files'[j].name = sys_files[j].name
           /\ sys_files'[j].ref > 0 <=> sys_files[j].ref > 0
           /\ sys_files'[j].size = sys_files[j].size
    BY <1>2, <1>4 DEF RecordStep
  <2>2. \A j \in DOMAIN sys_files : GrownSize(j)' = GrownSize(j)
    BY <1>3, <2>1, NotWriting
  <2>. QED  BY <1>0, <1>3, <1>4, <1>6, <2>1, <2>2, SameSizes DEF diskVars
<1>. QED  BY <1>6, <1>7, <1>8, <1>9 DEF OrderlyInv, CarefulInv

---------------------------------------------------------------------------
(* The invariant *)

\* All files are in the root directory, and there is nothing else.
FlatRoot ==
  /\ \A d \in DataBlock : Listed(dir, d) # {} => d = Root
  /\ \A e \in Listed(dir, Root) : e.attr = ATTR_FILE
  /\ \A i \in DOMAIN sys_files : sys_files[i].dir = Root

\* The entry of an open file may be behind its record, and is never ahead of it.
EntriesBehind ==
  \A i \in DOMAIN sys_files : InUse(i) =>
    \A e \in Listed(dir, Root) : e.first = sys_files[i].first => e.size <= sys_files[i].size

FdsApart == \A u, v \in user_fds : u.fd = v.fd => u = v

BytesTyped ==
  /\ data \in [DataBlock -> [Place -> Byte]]
  /\ typed \in Seq(Byte) /\ answer \in Seq(Byte)
  /\ op.cmd = "write" => Len(typed) = op.left

ContentsInv ==
  /\ AtRoot /\ OrderlyInv
  /\ op \in {Idle} \cup Writing
  /\ FlatRoot /\ EntriesBehind /\ FdsApart /\ BytesTyped

LEMMA InvFacts ==
  ASSUME ContentsInv
  PROVE  /\ TypeInv /\ TableInv /\ DiskInv /\ DirInv /\ UniqueNames /\ SizeInv
         /\ cur_block = Root /\ Root \in DataBlock /\ Root \in Heads /\ dir[Root] # {}
         /\ FlatRoot /\ EntriesBehind /\ FdsApart /\ BytesTyped
         /\ op \in {Idle} \cup Writing
         /\ op.cmd = "write" <=> op # Idle
<1>1. /\ TypeInv /\ TableInv /\ DiskInv /\ DirInv /\ UniqueNames /\ SizeInv
      /\ cur_block = Root
  BY DEF ContentsInv, OrderlyInv, CarefulInv, TableInv, DiskInv, AtRoot
<1>2. Root \in DataBlock /\ Root \in Heads /\ dir[Root] # {}
  <2>1. cur_block \in Directories
    BY <1>1 DEF DiskInv, CwdIsDirectory
  <2>. QED  BY <1>1, <2>1, DirectoryFacts
<1>3. op \in {Idle} \cup Writing /\ (op.cmd = "write" <=> op # Idle)
  BY DEF ContentsInv, Idle, Writing
<1>. QED  BY <1>1, <1>2, <1>3 DEF ContentsInv

\* What the entries of the root directory are.
LEMMA FileFacts ==
  ASSUME ContentsInv, NEW e \in Listed(dir, Root)
  PROVE  /\ e \in Entry /\ e.first \in DataBlock /\ e.first \in Heads /\ e.first # Root
         /\ e.name \in Name /\ e.name \notin Dots /\ e.size \in Nat /\ e.attr = ATTR_FILE
         /\ dir[e.first] = {}
<1>1. /\ e \in Entry /\ e.first \in DataBlock /\ e.name \notin Dots
  BY InvFacts, TypeFacts, ListedType
<1>2. e.first \in Heads
  BY <1>1, InvFacts, InHeads
<1>3. e.attr = ATTR_FILE /\ e.first # Root /\ dir[e.first] = {}
  BY <1>1, InvFacts, AttrsDiffer DEF FlatRoot, DirInv, KindsAgree
<1>. QED  BY <1>1, <1>2, <1>3 DEF Entry, AnyName

\* Entries are known by their first block, and by their name.
LEMMA EntriesKnown ==
  ASSUME ContentsInv, NEW e \in Listed(dir, Root), NEW k \in Listed(dir, Root)
  PROVE  /\ e.first = k.first => e = k
         /\ e.name = k.name => e = k
<1>1. e \in dir[Root] /\ k \in dir[Root]
  BY DEF Listed
<1>. QED  BY <1>1, InvFacts DEF DirInv, EntriesDistinct, UniqueNames

\* A name that is asked for is that of a listed file, or of the directory itself or
\* its parent.
LEMMA FoundFiles ==
  ASSUME ContentsInv, NEW n \in AnyName
  PROVE  /\ n \in Name => Find(dir, Root, n) = {e \in Listed(dir, Root) : e.name = n}
         /\ n \notin Name => Find(dir, Root, n) # {} /\ \A e \in Find(dir, Root, n) : e.attr = ATTR_DIR
<1>1. n \in Name => n \notin Dots
  BY DirectoryAssumption DEF Dots
<1>2. ASSUME n \notin Name
      PROVE  Find(dir, Root, n) # {} /\ \A e \in Find(dir, Root, n) : e.attr = ATTR_DIR
  <2>1. n \in Dots
    BY <1>2 DEF AnyName
  <2>. QED  BY <2>1, InvFacts DEF DirInv, DotsKept, Find, Dots
<1>. QED  BY <1>1, <1>2 DEF Find, Listed

\* A record in use is that of a listed file.
LEMMA RecordFacts ==
  ASSUME ContentsInv, NEW i, InUse(i)
  PROVE  /\ i \in DOMAIN sys_files /\ sys_files[i] \in OpenFile
         /\ sys_files[i].size \in Nat /\ sys_files[i].cursor \in Nat
         /\ sys_files[i].cursor <= sys_files[i].size
         /\ sys_files[i].first \in DataBlock /\ sys_files[i].dir = Root
         /\ \E e \in Listed(dir, Root) : e.first = sys_files[i].first
<1>1. i \in DOMAIN sys_files /\ sys_files[i].dir = Root
  BY InvFacts DEF InUse, FlatRoot
<1>2. sys_files[i] \in OpenFile
  BY <1>1, InvFacts, RecordType
<1>3. sys_files[i].cursor <= sys_files[i].size
  BY <1>1, InvFacts DEF TableInv, CursorInFile
<1>4. \E e \in Listed(dir, Root) : e.first = sys_files[i].first
  BY <1>1, InvFacts DEF DiskInv, OpenFilesListed
<1>. QED  BY <1>1, <1>2, <1>3, <1>4 DEF OpenFile

LEMMA UserFacts ==
  ASSUME ContentsInv, NEW u \in user_fds
  PROVE  InUse(u.file) /\ u.fd \in Nat /\ u \in UserFd
BY InvFacts, UsedRecords, TypeFacts DEF UserFd

---------------------------------------------------------------------------
(* What the commands do to files *)

LinksKept(b) == \A x \in Chain(fat, b) : fat'[x] = fat[x]

\* The files are now those of S.
ListedAre(S) ==
  \A d \in DataBlock : Listed(dir', d) = IF d = Root THEN S ELSE Listed(dir, d)

\* A block is linked to the end of the chain of h, or to nothing: other chains keep
\* their links.
LEMMA GrowLinks ==
  ASSUME NEW f \in [Block -> FatValue], NEW H \in SUBSET DataBlock, Sound(f, H),
         NEW h \in H, NEW t \in Tails(f, h), NEW b \in DataBlock, f[b] = FAT_FREE,
         NEW g \in H, g # h
  PROVE  \A x \in Chain(f, g) : Linked(f, t, b)[x] = f[x]
<1> SUFFICES ASSUME NEW x \in Chain(f, g) PROVE Linked(f, t, b)[x] = f[x]
  OBVIOUS
<1>1. t \in Chain(f, h) /\ t \notin Chain(f, g)
  BY ChainsDisjoint DEF Tails
<1>2. b \notin Chain(f, g)
  BY ChainGrown
<1>3. x \in Block /\ x # t /\ x # b
  BY <1>1, <1>2, ChainIsData, BlockFacts
<1>. QED  BY <1>3 DEF Linked

LEMMA ClaimLinks ==
  ASSUME TypeInv, DiskInv, NEW b \in DataBlock, fat[b] = FAT_FREE, NEW g \in Heads
  PROVE  \A x \in Chain(fat, g) : Marked(b)[x] = fat[x]
<1>1. fat[g] # FAT_FREE /\ g \in DataBlock
  BY SoundFacts DEF Sound
<1>2. \A x \in Chain(fat, g) : fat[x] # FAT_FREE
  BY <1>1, SoundFacts, ChainUsed
<1>3. Chain(fat, g) \subseteq Block
  BY ChainIsData, BlockFacts
<1>. QED  BY <1>2, <1>3, SoundFacts DEF Marked

LEMMA CreateEffect ==
  ASSUME ContentsInv, NEW n \in AnyName, Create(Root, n), NothingCut
  PROVE  /\ op = Idle /\ UNCHANGED <<openVars, op>>
         /\ \/ UNCHANGED <<fat, dir>>
            \/ /\ n \in Name /\ Find(dir, Root, n) = {}
               /\ \E b \in DataBlock : \E e \in Entry :
                    /\ b \notin Heads /\ e.first = b /\ e.name = n /\ e.size = 0
                    /\ e.attr = ATTR_FILE
                    /\ ListedAre(Listed(dir, Root) \cup {e})
                    /\ \A k \in Listed(dir, Root) : LinksKept(k.first)
<1>1. PICK b \in FindFree(bitmap) :
        \/ AddEntry(Marked(b), bitmap \cup {b}, dir, Root, NewEntry(n, b, ATTR_FILE))
        \/ fat' = [Marked(b) EXCEPT ![b] = FAT_FREE] /\ UNCHANGED dir
  BY DEF Create, Marked
<1>2. b \in DataBlock /\ b \notin Heads /\ fat[b] = FAT_FREE
  BY InvFacts, BlockClaimed
<1>3. op = Idle /\ UNCHANGED <<openVars, op>> /\ Find(dir, Root, n) = {}
  BY DEF Create
<1>4. n \in Name
  BY <1>3, FoundFiles
<1>5. CASE AddEntry(Marked(b), bitmap \cup {b}, dir, Root, NewEntry(n, b, ATTR_FILE))
  <2> DEFINE e == NewEntry(n, b, ATTR_FILE)
  <2>1. e \in Entry /\ e.first = b /\ e.size = 0 /\ e.attr = ATTR_FILE /\ e.name = n
    <3>1. StoredName(n) = n
      BY StoredSame
    <3>. QED  BY <1>2, <3>1, NewEntryType DEF NewEntry
  <2>2. dir' = [dir EXCEPT ![Root] = @ \cup {e}]
    BY <1>5 DEF AddEntry
  <2> HIDE DEF e
  <2>3. ListedAre(Listed(dir, Root) \cup {e})
    <3>1. \A d \in DataBlock : dir'[d] = IF d = Root THEN dir[d] \cup {e} ELSE dir[d]
      BY <2>2, InvFacts, TypeFacts, BlockFacts
    <3>2. n \notin Dots
      BY <1>4, DirectoryAssumption DEF Dots
    <3>. QED  BY <2>1, <3>1, <3>2 DEF ListedAre, Listed
  <2>4. ASSUME NEW k \in Listed(dir, Root) PROVE LinksKept(k.first)
    <3> DEFINE h == k.first
    <3>1. h \in Heads /\ h # Root /\ h \in DataBlock
      BY FileFacts
    <3> HIDE DEF h
    <3>2. \A x \in Chain(fat, h) : Marked(b)[x] = fat[x]
      BY <1>2, <3>1, InvFacts, ClaimLinks
    <3>3. CASE fat' = Marked(b)
      BY <3>2, <3>3 DEF LinksKept, h
    <3>4. CASE \E c \in Lowest(FatFree(Marked(b))), t \in Tails(Marked(b), Root) :
                 fat' = Linked(Marked(b), t, c)
      <4>1. PICK c \in Lowest(FatFree(Marked(b))), t \in Tails(Marked(b), Root) :
              fat' = Linked(Marked(b), t, c)
        BY <3>4
      <4>2. c \in DataBlock /\ Marked(b)[c] = FAT_FREE
        BY LowestIn DEF FatFree
      <4>3. /\ Marked(b) \in [Block -> FatValue] /\ Heads \cup {b} \in SUBSET DataBlock
            /\ Sound(Marked(b), Heads \cup {b})
        BY <1>2, InvFacts, SoundFacts, BlockClaimed, BlockFacts DEF Marked
      <4>4. Root \in Heads \cup {b} /\ h \in Heads \cup {b}
        BY <3>1, InvFacts
      <4> HIDE DEF e
      <4>5. \A x \in Chain(Marked(b), h) : fat'[x] = Marked(b)[x]
        BY <3>1, <4>1, <4>2, <4>3, <4>4, GrowLinks
      <4>6. Chain(Marked(b), h) = Chain(fat, h)
        BY <3>1, <3>2, ChainSame
      <4>. QED  BY <3>2, <4>5, <4>6 DEF LinksKept, h
    <3>. QED  BY <1>5, <3>3, <3>4 DEF AddEntry
  <2>. QED  BY <1>2, <1>3, <1>4, <2>1, <2>3, <2>4
<1>6. CASE fat' = [Marked(b) EXCEPT ![b] = FAT_FREE] /\ UNCHANGED dir
  <2>1. fat' = fat
    BY <1>2, <1>6, InvFacts, TypeFacts, BlockFacts DEF Marked
  <2>. QED  BY <1>3, <1>6, <2>1
<1>. QED  BY <1>1, <1>5, <1>6

LEMMA RemoveEffect ==
  ASSUME ContentsInv, NEW n \in AnyName, Remove(Root, n), NotOpen(Root, n)
  PROVE  /\ op = Idle /\ UNCHANGED <<openVars, op>> /\ n \in Name
         /\ \E e \in Listed(dir, Root) :
              /\ e.name = n /\ ~IsOpen(e.first)
              /\ ListedAre(Listed(dir, Root) \ {e})
              /\ \A k \in Listed(dir, Root) : k # e => LinksKept(k.first)
<1>1. PICK e \in Find(dir, Root, n) :
        /\ e.attr = ATTR_FILE
        /\ fat' = FreeChain(fat, e.first)
        /\ dir' = [dir EXCEPT ![Root] = @ \ {e}]
  BY DEF Remove
<1>2. n \in Name /\ e \in Listed(dir, Root) /\ e.name = n
  BY <1>1, FoundFiles, AttrsDiffer
<1>3. ~IsOpen(e.first) /\ op = Idle /\ UNCHANGED <<openVars, op>>
  BY DEF NotOpen, Remove
<1>4. ListedAre(Listed(dir, Root) \ {e})
  <2>1. \A d \in DataBlock : dir'[d] = IF d = Root THEN dir[d] \ {e} ELSE dir[d]
    BY <1>1, InvFacts, TypeFacts, BlockFacts
  <2>. QED  BY <2>1 DEF ListedAre, Listed
<1>5. ASSUME NEW k \in Listed(dir, Root), k # e PROVE LinksKept(k.first)
  <2>1. /\ e.first \in Heads /\ k.first \in Heads /\ k.first # e.first
    BY <1>2, <1>5, FileFacts, EntriesKnown
  <2>2. Chain(fat, k.first) \cap Chain(fat, e.first) = {}
    BY <2>1, InvFacts, SoundFacts, ChainsDisjoint
  <2>3. Chain(fat, k.first) \subseteq Block
    BY ChainIsData, BlockFacts
  <2>. QED  BY <1>1, <2>2, <2>3 DEF LinksKept, FreeChain
<1>. QED  BY <1>2, <1>3, <1>4, <1>5

\* The records stay those of the same files, with the same sizes and cursors.
RecordsAlike ==
  \A j \in DOMAIN sys_files :
    /\ sys_files'[j].first = sys_files[j].first /\ sys_files'[j].dir = sys_files[j].dir
    /\ sys_files'[j].size = sys_files[j].size /\ sys_files'[j].cursor = sys_files[j].cursor

\* The record i is that of the file of e: the one in use, or a new one.
Serves(i, e) ==
  /\ sys_files'[i].first = e.first
  /\ \/ InUse(i)
     \/ /\ i \notin DOMAIN sys_files /\ ~IsOpen(e.first)
        /\ sys_files'[i].size = e.size /\ sys_files'[i].cursor = 0 /\ sys_files'[i].dir = Root

LEMMA OpenEffect ==
  ASSUME ContentsInv, NEW n \in AnyName, Open(Root, n)
  PROVE  /\ op = Idle /\ UNCHANGED <<fat, dir, op>> /\ next_fd < MaxFds /\ n \in Name
         /\ \E e \in Listed(dir, Root) : \E i :
              /\ e.name = n
              /\ user_fds' = user_fds \cup {[fd |-> next_fd, file |-> i]}
              /\ DOMAIN sys_files' = DOMAIN sys_files \cup {i}
              /\ RecordsAlike /\ Serves(i, e)
<1>1. PICK e \in Find(dir, Root, n) :
        /\ e.attr = ATTR_FILE
        /\ \/ \E i \in Lowest(Shared(e.first)) :
                /\ sys_files' = [sys_files EXCEPT ![i].ref = @ + 1]
                /\ user_fds' = user_fds \cup {[fd |-> next_fd, file |-> i]}
           \/ /\ Shared(e.first) = {}
              /\ sys_files' = Append(sys_files, NewOpenFile(e, Root, n))
              /\ user_fds' = user_fds \cup {[fd |-> next_fd, file |-> Len(sys_files) + 1]}
  BY DEF Open
<1>2. n \in Name /\ e \in Listed(dir, Root) /\ e.name = n
  BY <1>1, FoundFiles, AttrsDiffer
<1>3. op = Idle /\ UNCHANGED <<fat, dir, op>> /\ next_fd < MaxFds
  BY DEF Open, diskVars
<1>4. sys_files \in Seq(OpenFile)
  BY InvFacts, TypeFacts
<1>5. CASE \E i \in Lowest(Shared(e.first)) :
             /\ sys_files' = [sys_files EXCEPT ![i].ref = @ + 1]
             /\ user_fds' = user_fds \cup {[fd |-> next_fd, file |-> i]}
  <2>1. PICK i \in Lowest(Shared(e.first)) :
             /\ sys_files' = [sys_files EXCEPT ![i].ref = @ + 1]
             /\ user_fds' = user_fds \cup {[fd |-> next_fd, file |-> i]}
    BY <1>5
  <2>2. i \in DOMAIN sys_files /\ InUse(i) /\ sys_files[i].first = e.first
    BY <2>1, LowestIn DEF Shared, InUse
  <2> DEFINE r == [sys_files[i] EXCEPT !.ref = @ + 1]
  <2>3. sys_files[i] \in OpenFile
    BY <1>4, <2>2
  <2>4. /\ r \in OpenFile /\ r.first = sys_files[i].first /\ r.dir = sys_files[i].dir
        /\ r.size = sys_files[i].size /\ r.cursor = sys_files[i].cursor
    BY <2>3 DEF OpenFile
  <2>5. sys_files' = [sys_files EXCEPT ![i] = r]
    BY <2>1
  <2> HIDE DEF r
  <2>6. /\ DOMAIN sys_files' = DOMAIN sys_files
        /\ \A j \in DOMAIN sys_files : sys_files'[j] = IF j = i THEN r ELSE sys_files[j]
    BY <1>4, <2>2, <2>4, <2>5, RecordUpdate
  <2>7. RecordsAlike /\ Serves(i, e)
    BY <2>2, <2>4, <2>6 DEF RecordsAlike, Serves
  <2>. QED  BY <1>2, <1>3, <2>1, <2>2, <2>6, <2>7
<1>6. CASE /\ Shared(e.first) = {}
           /\ sys_files' = Append(sys_files, NewOpenFile(e, Root, n))
           /\ user_fds' = user_fds \cup {[fd |-> next_fd, file |-> Len(sys_files) + 1]}
  <2> DEFINE i == Len(sys_files) + 1
             r == NewOpenFile(e, Root, n)
  <2>1. r.first = e.first /\ r.size = e.size /\ r.cursor = 0 /\ r.dir = Root
    BY DEF NewOpenFile
  <2> HIDE DEF r
  <2>2. /\ DOMAIN sys_files' = DOMAIN sys_files \cup {i}
        /\ sys_files'[i] = r /\ i \notin DOMAIN sys_files
        /\ \A j \in DOMAIN sys_files : sys_files'[j] = sys_files[j]
    BY <1>4, <1>6 DEF r
  <2>3. user_fds' = user_fds \cup {[fd |-> next_fd, file |-> i]}
    BY <1>6
  <2> HIDE DEF i
  <2>4. ~IsOpen(e.first)
    BY <1>6, InvFacts, UsedIsOpen DEF Shared, InUse
  <2>5. RecordsAlike /\ Serves(i, e)
    BY <2>1, <2>2, <2>4 DEF RecordsAlike, Serves
  <2>. QED  BY <1>2, <1>3, <2>2, <2>3, <2>5
<1>. QED  BY <1>1, <1>5, <1>6

LEMMA CloseEffect ==
  ASSUME ContentsInv, NEW fd, Close(fd)
  PROVE  /\ op = Idle /\ UNCHANGED <<fat, op>>
         /\ DOMAIN sys_files' = DOMAIN sys_files /\ RecordsAlike
         /\ \E u \in user_fds : \E e \in Listed(dir, Root), k \in Entry :
              /\ u.fd = fd /\ user_fds' = user_fds \ {u}
              /\ e.first = sys_files[u.file].first
              /\ k.first = e.first /\ k.name = e.name /\ k.attr = e.attr
              /\ k.size = sys_files[u.file].size
              /\ ListedAre((Listed(dir, Root) \ {e}) \cup {k})
<1>1. PICK u \in user_fds :
        /\ u.fd = fd
        /\ sys_files' = [sys_files EXCEPT ![u.file] = Released(sys_files[u.file])]
        /\ user_fds' = user_fds \ {u}
        /\ \/ WriteBack(sys_files[u.file]) = {} /\ UNCHANGED dir
           \/ dir' \in WriteBack(sys_files[u.file])
  BY DEF Close
<1> DEFINE of == sys_files[u.file]
           r  == Released(of)
<1>2. op = Idle /\ UNCHANGED <<fat, op>>
  BY InvFacts, CloseStaysDefined DEF Close
<1>3. /\ u.file \in DOMAIN sys_files /\ of \in OpenFile /\ of.dir = Root /\ of.size \in Nat
      /\ sys_files \in Seq(OpenFile)
  BY UserFacts, RecordFacts, InvFacts, TypeFacts
<1>4. /\ r \in OpenFile /\ r.first = of.first /\ r.dir = of.dir
      /\ r.size = of.size /\ r.cursor = of.cursor
  <2>1. of \in OpenFile
    BY <1>3
  <2> HIDE DEF of
  <2>. QED  BY <2>1 DEF Released, OpenFile
<1>5. sys_files' = [sys_files EXCEPT ![u.file] = r]
  BY <1>1
<1>6. PICK e \in Listed(dir, of.dir) :
        /\ e.first = of.first /\ e.attr = ATTR_FILE /\ e.name = of.name
        /\ dir' = Replaced(dir, of.dir, e, [e EXCEPT !.size = of.size])
  BY <1>1, InvFacts, CloseWritesBack
<1> HIDE DEF r
<1>7. /\ DOMAIN sys_files' = DOMAIN sys_files
      /\ \A j \in DOMAIN sys_files : sys_files'[j] = IF j = u.file THEN r ELSE sys_files[j]
  BY <1>3, <1>4, <1>5, RecordUpdate
<1>8. RecordsAlike
  BY <1>4, <1>7 DEF RecordsAlike
<1> DEFINE k == [e EXCEPT !.size = of.size]
<1>9. e \in Entry /\ e \in Listed(dir, Root)
  BY <1>3, <1>6, FileFacts
<1>10. /\ k \in Entry /\ k.first = e.first /\ k.name = e.name /\ k.attr = e.attr
       /\ k.size = of.size
  BY <1>3, <1>9 DEF Entry
<1>11. dir' = Replaced(dir, Root, e, k)
  BY <1>3, <1>6
<1> HIDE DEF k
<1>12. ListedAre((Listed(dir, Root) \ {e}) \cup {k})
  <2>1. \A d \in DataBlock : dir'[d] = IF d = Root THEN (dir[d] \ {e}) \cup {k} ELSE dir[d]
    BY <1>11, InvFacts, TypeFacts, BlockFacts DEF Replaced
  <2>2. k.name \notin Dots
    BY <1>9, <1>10, FileFacts
  <2>. QED  BY <2>1, <2>2 DEF ListedAre, Listed
<1>. QED  BY <1>1, <1>2, <1>6, <1>7, <1>8, <1>9, <1>10, <1>12

LEMMA WriteEffect ==
  ASSUME ContentsInv, NEW fd, NEW n \in Nat \ {0}, Write(fd, n)
  PROVE  /\ op = Idle /\ UNCHANGED <<fat, dir, openVars>>
         /\ \E u \in user_fds :
              /\ u.fd = fd /\ op' \in Writing /\ op'.cmd = "write" /\ op'.file = u.file
              /\ op'.pos = sys_files[u.file].cursor /\ op'.left = n
<1>1. PICK u \in user_fds :
        u.fd = fd /\ op' = [cmd |-> "write", file |-> u.file,
                            pos |-> sys_files[u.file].cursor, left |-> n]
  BY DEF Write
<1>2. u.file \in Nat \ {0} /\ sys_files[u.file].cursor \in Nat
  BY UserFacts, RecordFacts DEF UserFd
<1>. QED  BY <1>1, <1>2 DEF Write, diskVars, Writing

\* Every byte up to the size of an open file has its block.
LEMMA InsideFound ==
  ASSUME ContentsInv, NEW h \in Heads, NEW x \in Nat,
         Cardinality(Chain(fat, h)) = BlocksFor(x), NEW p \in Nat, p < x
  PROVE  NthBlock(fat, h, p \div BlockSize) # NoBlock
<1> DEFINE c == BlocksFor(x)
           q == p \div BlockSize
<1>1. c \in Nat /\ c >= 1 /\ x <= BlockSize * c /\ BlockSize * c \in Int
  <2>1. BlocksFor(x) \in Nat /\ BlocksFor(x) >= 1 /\ x <= BlockSize * BlocksFor(x)
    BY BlocksForLeast
  <2>. QED  BY <2>1, Products
<1>2. q \in Nat /\ p >= BlockSize * q /\ BlockSize * q \in Int
  <2>1. q \in Nat /\ p % BlockSize \in Nat /\ p = BlockSize * q + (p % BlockSize)
    BY Division
  <2>2. BlockSize * q \in Int
    BY <2>1, Products
  <2> HIDE DEF q
  <2>. QED  BY <2>1, <2>2
<1> HIDE DEF c, q
<1>3. q < c
  <2> SUFFICES ASSUME c <= q PROVE FALSE
    BY <1>1, <1>2
  <2>1. BlockSize * c <= BlockSize * q
    BY <1>1, <1>2, Products
  <2>. QED  BY <1>1, <1>2, <2>1
<1>4. q < Cardinality(Chain(fat, h))
  BY <1>3 DEF c
<1>. QED  BY <1>2, <1>4, InvFacts, SoundFacts, NthFound DEF q

\* How much of its file a record stands for, and that its chain is long enough.
LEMMA GrownFacts ==
  ASSUME ContentsInv, NEW i, InUse(i)
  PROVE  /\ sys_files[i].first \in Heads /\ GrownSize(i) \in Nat
         /\ Cardinality(Chain(fat, sys_files[i].first)) = BlocksFor(GrownSize(i))
         /\ op = Idle => GrownSize(i) = sys_files[i].size
<1>1. i \in DOMAIN sys_files /\ sys_files[i].size \in Nat
  BY RecordFacts
<1>2. sys_files[i].first \in Heads
  BY InvFacts, OpenFileIsFile
<1>3. GrownSize(i) \in Nat
  BY <1>1, InvFacts DEF GrownSize, LargerOf, Writing, Idle
<1>4. op = Idle => GrownSize(i) = sys_files[i].size
  BY DEF GrownSize, Idle
<1>. QED  BY <1>1, <1>2, <1>3, <1>4, InvFacts DEF SizeInv, OpenSizes

LEMMA ReadEffect ==
  ASSUME ContentsInv, NEW fd, NEW n \in Nat, InRange(fd, n), Read(fd, n)
  PROVE  /\ op = Idle /\ op' = Idle
         /\ \E u \in user_fds :
              LET of == sys_files[u.file]
                  r  == [of EXCEPT !.cursor = SmallerOf(of.cursor + n, of.size)]
              IN  /\ u.fd = fd /\ RecordStep(u.file, r) /\ r.size = of.size
                  /\ r.cursor = SmallerOf(of.cursor + n, of.size)
<1>1. op = Idle /\ op' = Idle /\ op' # Lost
  <2>1. op' = Idle
    BY InvFacts, ReadStaysDefined DEF TableInv
  <2>. QED  BY <2>1 DEF Read, Idle, Lost
<1>2. PICK u \in user_fds :
        /\ u.fd = fd
        /\ \E got \in 0 .. n :
             /\ CanRead(sys_files[u.file], n, got)
             /\ sys_files' = [sys_files EXCEPT ![u.file].cursor = @ + got]
  BY <1>1 DEF Read
<1>3. PICK got \in 0 .. n :
        /\ CanRead(sys_files[u.file], n, got)
        /\ sys_files' = [sys_files EXCEPT ![u.file].cursor = @ + got]
  BY <1>2
<1> DEFINE of == sys_files[u.file]
           at == SmallerOf(of.cursor + n, of.size)
           r  == [of EXCEPT !.cursor = at]
<1>4. /\ u.file \in DOMAIN sys_files /\ of \in OpenFile /\ of.size \in Nat
      /\ of.cursor \in Nat /\ of.cursor <= of.size /\ InUse(u.file)
  BY UserFacts, RecordFacts
<1>5. Cut(of, n) = IF of.cursor + n > of.size THEN of.size - of.cursor ELSE n
  <2>1. of.cursor + n < WordSize
    BY <1>2 DEF InRange
  <2>2. (of.cursor + n) % WordSize = of.cursor + n
    BY <1>4, <2>1, SmallMod
  <2>. QED  BY <2>2 DEF Cut
<1>6. \A p \in Nat : p < of.size => NthBlock(fat, of.first, p \div BlockSize) # NoBlock
  <2>1. of.first \in Heads /\ Cardinality(Chain(fat, of.first)) = BlocksFor(of.size)
    BY <1>1, <1>4, GrownFacts
  <2>. QED  BY <1>4, <2>1, InsideFound
<1>7. got \in 0 .. Cut(of, n)
      /\ (got = Cut(of, n) \/ NthBlock(fat, of.first, (of.cursor + got) \div BlockSize) = NoBlock)
  BY <1>3 DEF CanRead
<1>8. of.cursor + got = at
  <2>1. Cut(of, n) \in Nat /\ of.cursor + Cut(of, n) = at /\ at <= of.size
    BY <1>4, <1>5 DEF SmallerOf
  <2> HIDE DEF at
  <2>2. CASE got # Cut(of, n)
    <3>1. got < Cut(of, n) /\ of.cursor + got \in Nat /\ of.cursor + got < of.size
      BY <1>4, <1>7, <2>1, <2>2
    <3>. QED  BY <1>6, <1>7, <2>2, <3>1
  <2>. QED  BY <2>1, <2>2
<1>9. at \in Nat
  BY <1>4 DEF SmallerOf
<1> HIDE DEF at
<1>10. /\ r \in OpenFile /\ r.first = of.first /\ r.dir = of.dir /\ r.name = of.name
       /\ r.ref = of.ref /\ r.size = of.size /\ r.cursor = at
  <2>1. of \in OpenFile
    BY <1>4
  <2> HIDE DEF of
  <2>. QED  BY <1>9, <2>1 DEF OpenFile
<1>11. sys_files' = [sys_files EXCEPT ![u.file] = r]
  BY <1>3, <1>8
<1>12. UNCHANGED <<fat, dir, user_fds, next_fd>>
  BY DEF Read, diskVars
<1>13. RecordStep(u.file, r)
  <2> HIDE DEF r
  <2>. QED  BY <1>4, <1>10, <1>11, <1>12 DEF RecordStep
<1>. QED  BY <1>1, <1>2, <1>10, <1>13 DEF at

LEMMA WriteEndEffect ==
  ASSUME ContentsInv, WriteEnd
  PROVE  /\ op \in Writing /\ op' = Idle
         /\ op.left = 0 \/ FatFree(fat) = {}
         /\ LET of == sys_files[op.file]
                r  == Written(of, op.pos)
            IN  /\ RecordStep(op.file, r) /\ InUse(op.file)
                /\ r.size = LargerOf(op.pos, of.size) /\ r.cursor = op.pos
<1> DEFINE of == sys_files[op.file]
           r  == Written(of, op.pos)
<1>1. op \in Writing /\ InUse(op.file) /\ op.pos \in Nat
  BY InvFacts, TargetFacts DEF WriteEnd, Writing
<1>2. op.file \in DOMAIN sys_files /\ of \in OpenFile
  BY <1>1, RecordFacts
<1>3. /\ r \in OpenFile /\ r.first = of.first /\ r.dir = of.dir /\ r.name = of.name
      /\ r.ref = of.ref /\ r.size = LargerOf(op.pos, of.size) /\ r.cursor = op.pos
  BY <1>1, <1>2 DEF Written, OpenFile, LargerOf
<1>4. /\ sys_files' = [sys_files EXCEPT ![op.file] = r] /\ op' = Idle
      /\ op.left = 0 \/ FatFree(fat) = {}
      /\ UNCHANGED <<fat, dir, user_fds, next_fd>>
  BY DEF WriteEnd, diskVars
<1> HIDE DEF r
<1>5. RecordStep(op.file, r)
  BY <1>2, <1>3, <1>4 DEF RecordStep
<1>. QED  BY <1>1, <1>3, <1>4, <1>5 DEF r

LEMMA LowestOne ==
  ASSUME NEW S \in SUBSET DataBlock, NEW b \in Lowest(S)
  PROVE  (CHOOSE c \in Lowest(S) : TRUE) = b
<1>1. \A c \in Lowest(S) : c = b
  BY BlockFacts DEF Lowest
<1>. QED  BY <1>1

\* The file a turn of write is about, and how much it puts down.
LEMMA TurnFacts ==
  ASSUME ContentsInv, WriteBlock
  PROVE  /\ op \in Writing /\ op.cmd = "write" /\ InUse(op.file) /\ op.pos \in Nat
         /\ sys_files[op.file].first \in Heads /\ sys_files[op.file].first \in DataBlock
         /\ Part \in Nat /\ Part >= 1 /\ Part <= op.left /\ op.left \in Nat
         /\ (op.pos % BlockSize) + Part <= BlockSize
         /\ op' \in Writing /\ op'.cmd = "write" /\ op'.file = op.file
         /\ op'.pos = op.pos + Part /\ op'.left = op.left - Part
         /\ UNCHANGED <<dir, openVars>>
<1>1. op.cmd = "write" /\ op.left > 0 /\ UNCHANGED <<dir, openVars>>
  BY DEF WriteBlock
<1>2. /\ op \in Writing /\ InUse(op.file)
      /\ sys_files[op.file].first \in Heads /\ sys_files[op.file].first \in DataBlock
  BY <1>1, InvFacts, TargetFacts
<1>3. op.pos \in Nat /\ op.left \in Nat /\ op.file \in Nat \ {0}
  BY <1>2 DEF Writing
<1>4. Part \in Nat /\ Part >= 1 /\ Part <= op.left /\ (op.pos % BlockSize) + Part <= BlockSize
  <2> DEFINE r == op.pos % BlockSize
  <2>1. r \in Nat /\ r < BlockSize /\ BlockSize \in Nat
    BY <1>3, Division, Products
  <2>2. Part = IF BlockSize - r <= op.left THEN BlockSize - r ELSE op.left
    BY DEF Part, SmallerOf
  <2> HIDE DEF r
  <2>3. Part \in Nat /\ Part >= 1 /\ Part <= op.left /\ r + Part <= BlockSize
    BY <1>1, <1>3, <2>1, <2>2
  <2>. QED  BY <2>3 DEF r
<1>5. op' = [op EXCEPT !.pos = @ + Part, !.left = @ - Part]
  BY InvFacts, WriteBlockSteps
<1>6. /\ op'.cmd = "write" /\ op'.file = op.file
      /\ op'.pos = op.pos + Part /\ op'.left = op.left - Part
      /\ op' = [cmd |-> "write", file |-> op.file, pos |-> op.pos + Part, left |-> op.left - Part]
  BY <1>1, <1>2, <1>5 DEF Writing
<1>7. op' \in Writing
  BY <1>3, <1>4, <1>6 DEF Writing
<1>. QED  BY <1>1, <1>2, <1>3, <1>4, <1>6, <1>7

\* In which blocks a file has its bytes once a turn of write has found or claimed the
\* one it puts the next part into.
WalkKept(h, x) ==
  \A p \in Nat : p < x =>
    NthBlock(fat', h, p \div BlockSize) = NthBlock(fat, h, p \div BlockSize)

LEMMA TurnBlocks ==
  ASSUME ContentsInv, WriteBlock, NEW h, h = sys_files[op.file].first
  PROVE  /\ Destination \in DataBlock
         /\ Sound(fat', Heads) /\ fat' \in [Block -> FatValue]
         /\ NthBlock(fat', h, op.pos \div BlockSize) = Destination
         /\ WalkKept(h, GrownSize(op.file))
         /\ \A g \in Heads : g # h => LinksKept(g) /\ Destination \notin Chain(fat, g)
<1> DEFINE q == op.pos \div BlockSize
           c == Cardinality(Chain(fat, h))
           x == GrownSize(op.file)
<1>1. /\ op.cmd = "write" /\ InUse(op.file) /\ op.pos \in Nat /\ h \in Heads /\ h \in DataBlock
  BY TurnFacts
<1>2. /\ Heads \in SUBSET DataBlock /\ Sound(fat, Heads) /\ fat \in [Block -> FatValue]
  BY InvFacts, SoundFacts
<1>3. /\ q \in Nat /\ Target \in Chain(fat, h) \cup {NoBlock}
      /\ Target # NoBlock <=> q < c
  BY <1>1, InvFacts, TargetFacts
<1>4. Target = NthBlock(fat, h, q)
  BY DEF Target
<1>5. c = BlocksFor(x) /\ x \in Nat /\ op.pos <= x
  <2>1. c = BlocksFor(x) /\ x \in Nat
    BY <1>1, GrownFacts
  <2>2. op.pos <= x
    <3>1. sys_files[op.file].size \in Nat
      BY <1>1, RecordFacts
    <3>. QED  BY <1>1, <3>1 DEF GrownSize, LargerOf
  <2>. QED  BY <2>1, <2>2
<1> HIDE DEF q, x
<1>6. CASE Target # NoBlock
  <2>1. fat' = fat /\ Destination = Target
    BY <1>6 DEF WriteBlock, Destination
  <2>2. Target \in Chain(fat, h) /\ Target \in DataBlock
    BY <1>3, <1>6, ChainIsData
  <2>3. ASSUME NEW g \in Heads, g # h PROVE LinksKept(g) /\ Destination \notin Chain(fat, g)
    <3>1. Chain(fat, h) \cap Chain(fat, g) = {}
      BY <1>1, <1>2, <2>3, ChainsDisjoint
    <3>. QED  BY <2>1, <2>2, <3>1 DEF LinksKept
  <2>4. WalkKept(h, x)
    BY <2>1 DEF WalkKept
  <2>. QED  BY <1>2, <1>4, <2>1, <2>2, <2>3, <2>4 DEF q, x
<1>7. CASE Target = NoBlock
  <2>1. PICK b \in Lowest(FatFree(fat)), t \in Tails(fat, h) : fat' = Linked(fat, t, b)
    BY <1>7 DEF WriteBlock
  <2>2. FatFree(fat) \in SUBSET DataBlock
    BY DEF FatFree
  <2>3. Destination = b
    BY <1>7, <2>1, <2>2, LowestOne DEF Destination
  <2>4. b \in DataBlock /\ fat[b] = FAT_FREE
    BY <2>1, LowestIn DEF FatFree
  <2>5. t \in DataBlock /\ fat[t] = FAT_EOF
    BY <1>1, <1>2, <2>1, TailsEnd DEF Sound
  <2>6. Sound(fat', Heads) /\ fat' \in [Block -> FatValue]
    BY <1>2, <2>1, <2>4, <2>5, SoundGrow, LinkedType
  <2>7. /\ c \in Nat /\ NthBlock(fat', h, c) = b
        /\ \A n \in Nat : n < c => NthBlock(fat', h, n) = NthBlock(fat, h, n)
    BY <1>1, <1>2, <2>1, <2>4, NthGrown
  <2>8. ASSUME NEW g \in Heads, g # h PROVE LinksKept(g) /\ Destination \notin Chain(fat, g)
    <3>1. \A y \in Chain(fat, g) : fat'[y] = fat[y]
      BY <1>1, <1>2, <2>1, <2>4, <2>8, GrowLinks
    <3>2. b \notin Chain(fat, g)
      BY <1>1, <1>2, <2>1, <2>4, ChainGrown
    <3>. QED  BY <2>3, <3>1, <3>2 DEF LinksKept
  <2> HIDE DEF c
  <2>9. c >= 1 /\ x <= BlockSize * c /\ BlockSize * c \in Int
    <3>1. BlocksFor(x) \in Nat /\ BlocksFor(x) >= 1 /\ x <= BlockSize * BlocksFor(x)
      BY <1>5, BlocksForLeast
    <3>. QED  BY <1>5, <3>1, Products
  <2>10. q = c
    <3> SUFFICES ASSUME q > c PROVE FALSE
      BY <1>3, <1>7, <2>7
    <3>1. BlockSize * (c + 1) <= BlockSize * q /\ BlockSize * (c + 1) = BlockSize * c + BlockSize
      BY <1>3, <2>7, Products
    <3>2. op.pos >= BlockSize * q /\ BlockSize * q \in Int
      <4>1. op.pos = BlockSize * q + (op.pos % BlockSize) /\ op.pos % BlockSize \in Nat
        BY <1>1, Division DEF q
      <4>. QED  BY <1>3, <4>1, Products
    <3>. QED  BY <1>1, <1>5, <2>9, <3>1, <3>2, Products
  <2>11. WalkKept(h, x)
    <3> SUFFICES ASSUME NEW p \in Nat, p < x PROVE p \div BlockSize \in Nat /\ p \div BlockSize < c
      BY <2>7 DEF WalkKept
    <3> DEFINE m == p \div BlockSize
    <3>1. m \in Nat /\ p >= BlockSize * m /\ BlockSize * m \in Int
      <4>1. p = BlockSize * m + (p % BlockSize) /\ p % BlockSize \in Nat /\ m \in Nat
        BY Division
      <4>2. BlockSize * m \in Int
        BY <4>1, Products
      <4> HIDE DEF m
      <4>. QED  BY <4>1, <4>2
    <3> HIDE DEF m
    <3>2. m < c
      <4> SUFFICES ASSUME c <= m PROVE FALSE
        BY <2>7, <3>1
      <4>1. BlockSize * c <= BlockSize * m
        BY <2>7, <3>1, Products
      <4>. QED  BY <1>5, <2>9, <3>1, <4>1
    <3>. QED  BY <3>1, <3>2 DEF m
  <2>. QED  BY <2>3, <2>4, <2>6, <2>7, <2>8, <2>10, <2>11 DEF q, x
<1>. QED  BY <1>6, <1>7

---------------------------------------------------------------------------
(* The invariant is kept *)

\* A record is in use exactly if a descriptor leads to it.
UsersServed == \A i : InUse(i) <=> \E u \in user_fds : u.file = i

LEMMA InUseNow == TableInv => UsersServed
BY UsedRecords DEF UsersServed

LEMMA InUseNext ==
  ASSUME TableInv'
  PROVE  \A i : InUse(i)' <=> \E u \in user_fds' : u.file = i
<1>1. TableInv' => UsersServed'
  BY InUseNow, PTL
<1>. QED  BY <1>1 DEF UsersServed

\* The parts of the invariant that have nothing to do with bytes.
FilesInv ==
  /\ op \in {Idle} \cup Writing
  /\ FlatRoot /\ EntriesBehind /\ FdsApart

LEMMA CreateKeepsFiles ==
  ASSUME ContentsInv, NEW n \in AnyName, Create(Root, n), NothingCut
  PROVE  FilesInv'
<1>1. op' = op /\ UNCHANGED openVars
  BY CreateEffect
<1>2. CASE UNCHANGED <<fat, dir>>
  BY <1>1, <1>2, InvFacts
     DEF FilesInv, FlatRoot, EntriesBehind, FdsApart, openVars, InUse
<1>3. ASSUME NEW e \in Entry, e.first \notin Heads, e.attr = ATTR_FILE,
             ListedAre(Listed(dir, Root) \cup {e})
      PROVE  FilesInv'
  <2>1. FlatRoot'
    BY <1>1, <1>3, InvFacts DEF FlatRoot, ListedAre, openVars
  <2>2. EntriesBehind'
    <3> SUFFICES ASSUME NEW i \in DOMAIN sys_files, InUse(i), NEW k \in Listed(dir', Root),
                        k.first = sys_files[i].first
                 PROVE  k.size <= sys_files[i].size
      BY <1>1 DEF EntriesBehind, openVars, InUse
    <3>1. k # e
      BY <1>3, GrownFacts
    <3>2. k \in Listed(dir, Root)
      BY <1>3, <3>1, InvFacts DEF ListedAre
    <3>. QED  BY <3>2, InvFacts DEF EntriesBehind
  <2>. QED  BY <1>1, <2>1, <2>2, InvFacts DEF FilesInv, FdsApart, openVars
<1>4. CASE ~UNCHANGED <<fat, dir>>
  <2>1. PICK e \in Entry : /\ e.first \notin Heads /\ e.attr = ATTR_FILE
                           /\ ListedAre(Listed(dir, Root) \cup {e})
    BY <1>4, CreateEffect
  <2>. QED  BY <1>3, <2>1
<1>. QED  BY <1>2, <1>4

LEMMA RemoveKeepsFiles ==
  ASSUME ContentsInv, NEW n \in AnyName, Remove(Root, n), NotOpen(Root, n)
  PROVE  FilesInv'
<1>1. op' = op /\ UNCHANGED openVars
  BY RemoveEffect
<1>2. \A d \in DataBlock : Listed(dir', d) \subseteq Listed(dir, d)
  BY RemoveEffect, InvFacts DEF ListedAre
<1>3. FlatRoot'
  BY <1>1, <1>2, InvFacts DEF FlatRoot, openVars
<1>4. EntriesBehind'
  BY <1>1, <1>2, InvFacts DEF EntriesBehind, openVars, InUse
<1>5. FdsApart'
  BY <1>1, InvFacts DEF FdsApart, openVars
<1>. QED  BY <1>1, <1>3, <1>4, <1>5, InvFacts DEF FilesInv

LEMMA OpenUses ==
  ASSUME ContentsInv, TableInv', NEW i,
         user_fds' = user_fds \cup {[fd |-> next_fd, file |-> i]}
  PROVE  \A j : InUse(j)' <=> InUse(j) \/ j = i
<1>1. \A j : InUse(j) <=> \E u \in user_fds : u.file = j
  BY InvFacts, InUseNow DEF UsersServed
<1>2. \A j : InUse(j)' <=> \E u \in user_fds' : u.file = j
  BY InUseNext
<1> DEFINE v == [fd |-> next_fd, file |-> i]
<1>3. user_fds' = user_fds \cup {v} /\ v.file = i
  OBVIOUS
<1> HIDE DEF v
<1>4. ASSUME NEW j PROVE InUse(j)' <=> InUse(j) \/ j = i
  <2>1. (\E u \in user_fds' : u.file = j) <=> (\E u \in user_fds : u.file = j) \/ v.file = j
    BY <1>3
  <2>2. InUse(j) <=> \E u \in user_fds : u.file = j
    BY <1>1
  <2>3. InUse(j)' <=> \E u \in user_fds' : u.file = j
    BY <1>2
  <2>. QED  BY <1>3, <2>1, <2>2, <2>3
<1>. QED  BY <1>4

LEMMA OpenKeepsFiles ==
  ASSUME ContentsInv, TableInv', NEW n \in AnyName, Open(Root, n)
  PROVE  FilesInv'
<1>1. PICK e, i :
         /\ e \in Listed(dir, Root)
         /\ user_fds' = user_fds \cup {[fd |-> next_fd, file |-> i]}
         /\ DOMAIN sys_files' = DOMAIN sys_files \cup {i}
         /\ RecordsAlike /\ Serves(i, e)
  BY OpenEffect
<1>2. UNCHANGED <<dir, op>>
  BY OpenEffect
<1>3. \A j : InUse(j)' <=> InUse(j) \/ j = i
  BY <1>1, OpenUses
<1>4. FlatRoot'
  <2>1. \A j \in DOMAIN sys_files' : sys_files'[j].dir = Root
    BY <1>1, InvFacts DEF FlatRoot, RecordsAlike, Serves, InUse
  <2>. QED  BY <1>2, <2>1, InvFacts DEF FlatRoot
<1>5. EntriesBehind'
  <2> SUFFICES ASSUME NEW j \in DOMAIN sys_files', InUse(j)', NEW k \in Listed(dir, Root),
                      k.first = sys_files'[j].first
               PROVE  k.size <= sys_files'[j].size
    BY <1>2 DEF EntriesBehind
  <2>1. CASE InUse(j)
    <3>1. j \in DOMAIN sys_files
      BY <2>1 DEF InUse
    <3>. QED  BY <1>1, <2>1, <3>1, InvFacts DEF EntriesBehind, RecordsAlike
  <2>2. CASE ~InUse(j)
    <3>1. /\ j = i /\ e \in Listed(dir, Root)
          /\ sys_files'[j].first = e.first /\ sys_files'[j].size = e.size
      BY <1>1, <1>3, <2>2 DEF Serves
    <3>2. k = e /\ e.size \in Nat
      BY <3>1, EntriesKnown, FileFacts
    <3>. QED  BY <3>1, <3>2
  <2>. QED  BY <2>1, <2>2
<1>6. FdsApart'
  <2>1. \A u \in user_fds : u.fd # next_fd
    BY UserFacts, InvFacts DEF TableInv, FdsFresh
  <2>. QED  BY <1>1, <2>1, InvFacts DEF FdsApart
<1>. QED  BY <1>2, <1>4, <1>5, <1>6, InvFacts DEF FilesInv

LEMMA CloseKeepsFiles ==
  ASSUME ContentsInv, TableInv', NEW fd, Close(fd)
  PROVE  FilesInv'
<1>1. DOMAIN sys_files' = DOMAIN sys_files /\ RecordsAlike /\ op' = op
  BY CloseEffect
<1>2. PICK u \in user_fds, e \in Listed(dir, Root), k \in Entry :
        /\ user_fds' = user_fds \ {u}
        /\ e.first = sys_files[u.file].first
        /\ k.first = e.first /\ k.attr = e.attr /\ k.size = sys_files[u.file].size
        /\ ListedAre((Listed(dir, Root) \ {e}) \cup {k})
  BY CloseEffect
<1>3. \A j : InUse(j)' => InUse(j)
  BY <1>2, InvFacts, InUseNow, InUseNext DEF UsersServed
<1>4. FlatRoot'
  BY <1>1, <1>2, InvFacts DEF FlatRoot, ListedAre, RecordsAlike
<1>5. EntriesBehind'
  <2> SUFFICES ASSUME NEW j \in DOMAIN sys_files', InUse(j)', NEW x \in Listed(dir', Root),
                      x.first = sys_files'[j].first
               PROVE  x.size <= sys_files'[j].size
    BY DEF EntriesBehind
  <2>1. /\ InUse(j) /\ j \in DOMAIN sys_files /\ sys_files'[j].first = sys_files[j].first
        /\ sys_files'[j].size = sys_files[j].size
    BY <1>1, <1>3 DEF RecordsAlike
  <2>2. CASE x = k
    <3>1. j = u.file
      BY <1>2, <2>1, <2>2, InvFacts, UserFacts DEF TableInv, OneRecordPerFile, InUse
    <3>2. sys_files[j].size \in Nat
      BY <2>1, RecordFacts
    <3>. QED  BY <1>2, <2>1, <2>2, <3>1, <3>2
  <2>3. CASE x # k
    <3>1. x \in Listed(dir, Root)
      BY <1>2, <2>3, InvFacts DEF ListedAre
    <3>. QED  BY <2>1, <3>1, InvFacts DEF EntriesBehind
  <2>. QED  BY <2>2, <2>3
<1>6. FdsApart'
  BY <1>2, InvFacts DEF FdsApart
<1>. QED  BY <1>1, <1>4, <1>5, <1>6, InvFacts DEF FilesInv

\* read, seek and the end of write.
LEMMA RecordKeepsFiles ==
  ASSUME ContentsInv, NEW i, NEW r, RecordStep(i, r), r.size >= sys_files[i].size,
         op' \in {Idle} \cup Writing
  PROVE  FilesInv'
<1>1. /\ DOMAIN sys_files' = DOMAIN sys_files
      /\ \A j \in DOMAIN sys_files : sys_files'[j] = IF j = i THEN r ELSE sys_files[j]
  BY InvFacts, TypeFacts, RecordUpdate DEF RecordStep
<1>2. \A j \in DOMAIN sys_files :
        /\ sys_files'[j].first = sys_files[j].first /\ sys_files'[j].dir = sys_files[j].dir
        /\ sys_files'[j].ref = sys_files[j].ref /\ sys_files'[j].size >= sys_files[j].size
        /\ sys_files'[j].size \in Nat /\ sys_files[j].size \in Nat
  <2>1. \A j \in DOMAIN sys_files : sys_files[j] \in OpenFile
    BY InvFacts, RecordType
  <2>2. r \in OpenFile
    BY DEF RecordStep
  <2>. QED  BY <1>1, <2>1, <2>2 DEF RecordStep, OpenFile
<1>3. FlatRoot'
  BY <1>1, <1>2, InvFacts DEF FlatRoot, RecordStep
<1>4. EntriesBehind'
  <2> SUFFICES ASSUME NEW j \in DOMAIN sys_files, InUse(j), NEW k \in Listed(dir, Root),
                      k.first = sys_files[j].first
               PROVE  k.size <= sys_files'[j].size
    BY <1>1, <1>2 DEF EntriesBehind, InUse, RecordStep
  <2>1. k.size <= sys_files[j].size /\ k.size \in Nat
    BY InvFacts, FileFacts DEF EntriesBehind
  <2>. QED  BY <1>2, <2>1
<1>. QED  BY <1>3, <1>4, InvFacts DEF FilesInv, FdsApart, RecordStep

\* A step that leaves directories and tables alone.
LEMMA OthersKeepFiles ==
  ASSUME ContentsInv, UNCHANGED <<dir, openVars>>, op' \in {Idle} \cup Writing
  PROVE  FilesInv'
BY InvFacts DEF FilesInv, FlatRoot, EntriesBehind, FdsApart, openVars, InUse

---------------------------------------------------------------------------
(* The types of bytes *)

LEMMA TextsTyped ==
  ASSUME NEW t \in Texts
  PROVE  t \in Seq(Byte) /\ Len(t) \in Nat \ {0}
<1> DEFINE S == {t[k] : k \in DOMAIN t}
<1>1. t \in Seq(S) /\ Len(t) \in Nat \ {0}
  BY ContentsAssumption, FileOpsAssumption
<1>2. S \subseteq Byte
  BY DEF Byte
<1> HIDE DEF S
<1>. QED  BY <1>1, <1>2

LEMMA PlaceFacts ==
  \A p \in Nat : p \div BlockSize \in Nat /\ p % BlockSize \in Place
BY Division, Products DEF Place

LEMMA ByteTyped ==
  ASSUME TypeInv, BytesTyped, NEW b \in DataBlock, NEW p \in Nat
  PROVE  ByteAt(b, p) \in Byte
<1> DEFINE block == NthBlock(fat, b, p \div BlockSize)
<1>1. block \in Chain(fat, b) \cup {NoBlock}
  BY PlaceFacts, TypeFacts, NthInChain
<1>2. ByteAt(b, p) = IF block = NoBlock THEN Zero ELSE data[block][p % BlockSize]
  BY DEF ByteAt
<1> HIDE DEF block
<1>3. block # NoBlock => data[block][p % BlockSize] \in Byte
  BY <1>1, ChainIsData, PlaceFacts DEF BytesTyped
<1>. QED  BY <1>2, <1>3 DEF Byte

LEMMA AllBytes ==
  ASSUME TypeInv, BytesTyped, NEW b \in DataBlock, NEW from \in Nat, NEW to \in Nat, from <= to
  PROVE  /\ Bytes(b, from, to) \in Seq(Byte) /\ Len(Bytes(b, from, to)) = to - from
         /\ DOMAIN Bytes(b, from, to) = 1 .. to - from
<1>1. \A k \in 1 .. to - from : ByteAt(b, from + k - 1) \in Byte
  BY ByteTyped
<1>. QED  BY <1>1 DEF Bytes

LEMMA FilledTyped ==
  ASSUME ContentsInv, WriteBlock, NEW block \in [Place -> Byte]
  PROVE  Filled(block) \in [Place -> Byte]
<1> DEFINE off == op.pos % BlockSize
<1>1. Len(typed) = op.left /\ Part <= Len(typed) /\ Part \in Nat /\ off \in Nat
  <2>1. Part \in Nat /\ Part <= op.left /\ op.pos \in Nat /\ op.cmd = "write"
    BY TurnFacts
  <2>2. Len(typed) = op.left
    BY <2>1, InvFacts DEF BytesTyped
  <2>3. off \in Nat
    BY <2>1, Division
  <2>. QED  BY <2>1, <2>2, <2>3
<1>2. typed \in Seq(Byte)
  BY InvFacts DEF BytesTyped
<1>3. \A k \in Place : k \in off .. off + Part - 1 => typed[k - off + 1] \in Byte
  <2> HIDE DEF off
  <2>. QED  BY <1>1, <1>2 DEF Place
<1>. QED  BY <1>3 DEF Filled

\* What is left of a text is behind the part that was written.
LEMMA RestFacts ==
  ASSUME NEW s \in Seq(Byte), NEW k \in 0 .. Len(s)
  PROVE  /\ SubSeq(s, k + 1, Len(s)) \in Seq(Byte)
         /\ Len(SubSeq(s, k + 1, Len(s))) = Len(s) - k
<1>1. Len(s) \in Nat /\ \A i \in k + 1 .. Len(s) : s[i] \in Byte
  OBVIOUS
<1>. QED  BY <1>1, SubSeqProperties

---------------------------------------------------------------------------
(* Every step keeps the invariant *)

\* The user is careful, and asks for no count that wraps around.
OrderlyReads == Orderly /\ "counts in range" \in Habits

LEMMA KeptTyped ==
  ASSUME ContentsInv, Kept, Answered, op' = op
  PROVE  BytesTyped'
BY InvFacts DEF BytesTyped, Kept, Answered

LEMMA ReadTyped ==
  ASSUME ContentsInv, NEW fd, NEW n \in Nat, InRange(fd, n), ReadBytes(fd, n)
  PROVE  BytesTyped'
<1>1. Read(fd, n) /\ Kept
  BY DEF ReadBytes
<1>2. op' = op
  BY <1>1, ReadEffect
<1>3. PICK u \in user_fds :
        /\ u.fd = fd
        /\ answer' = Bytes(sys_files[u.file].first, sys_files[u.file].cursor,
                           sys_files'[u.file].cursor)
  BY DEF ReadBytes
<1> DEFINE of == sys_files[u.file]
<1>4. of.first \in DataBlock /\ of.cursor \in Nat /\ of.cursor <= of.size /\ of.size \in Nat
  BY UserFacts, RecordFacts
<1>5. sys_files'[u.file].cursor = SmallerOf(of.cursor + n, of.size)
  <2>1. PICK v \in user_fds :
          /\ v.fd = fd
          /\ RecordStep(v.file, [sys_files[v.file] EXCEPT
                          !.cursor = SmallerOf(sys_files[v.file].cursor + n, sys_files[v.file].size)])
    BY <1>1, ReadEffect
  <2>2. v = u
    BY <1>3, <2>1, InvFacts DEF FdsApart
  <2> DEFINE r == [of EXCEPT !.cursor = SmallerOf(of.cursor + n, of.size)]
  <2>3. RecordStep(u.file, r)
    BY <2>1, <2>2
  <2>4. r.cursor = SmallerOf(of.cursor + n, of.size)
    <3>1. of \in OpenFile
      BY UserFacts, RecordFacts
    <3> HIDE DEF of
    <3>. QED  BY <3>1 DEF OpenFile
  <2> HIDE DEF r
  <2>5. sys_files'[u.file] = r
    BY <2>3, InvFacts, TypeFacts, RecordUpdate DEF RecordStep
  <2>. QED  BY <2>4, <2>5
<1> DEFINE to == SmallerOf(of.cursor + n, of.size)
<1>6. to \in Nat /\ of.cursor <= to
  BY <1>4 DEF SmallerOf
<1>7. answer' = Bytes(of.first, of.cursor, to)
  BY <1>3, <1>5
<1> HIDE DEF to, of
<1>8. answer' \in Seq(Byte)
  BY <1>4, <1>6, <1>7, InvFacts, AllBytes
<1>. QED  BY <1>1, <1>2, <1>8, InvFacts DEF BytesTyped, Kept

LEMMA CatTyped ==
  ASSUME ContentsInv, NEW n \in AnyName, Cat(n)
  PROVE  BytesTyped'
<1>1. op' = op /\ Kept
  BY DEF Cat, foVars
<1>2. answer' \in Seq(Byte)
  <2>1. CASE Answered
    BY <2>1 DEF Answered
  <2>2. ASSUME NEW e \in Find(dir, Root, n),
               answer' = IF e.attr = ATTR_FILE THEN Bytes(e.first, 0, e.size) ELSE <<>>
        PROVE  answer' \in Seq(Byte)
    <3>1. CASE e.attr = ATTR_FILE
      <4>1. e \in Listed(dir, Root)
        BY <3>1, FoundFiles, AttrsDiffer
      <4>2. e.first \in DataBlock /\ e.size \in Nat /\ 0 <= e.size
        BY <4>1, FileFacts
      <4>. QED  BY <2>2, <3>1, <4>2, InvFacts, AllBytes
    <3>2. CASE e.attr # ATTR_FILE
      BY <2>2, <3>2
    <3>. QED  BY <3>1, <3>2
  <2>. QED  BY <2>1, <2>2 DEF Cat
<1>. QED  BY <1>1, <1>2, InvFacts DEF BytesTyped, Kept

LEMMA WriteTextTyped ==
  ASSUME ContentsInv, NEW fd, NEW t \in Texts, WriteText(fd, t)
  PROVE  BytesTyped'
<1>1. Write(fd, Len(t)) /\ typed' = t /\ data' = data /\ answer' = <<>>
  BY DEF WriteText, Answered
<1>2. op'.cmd = "write" /\ op'.left = Len(t)
  BY <1>1, TextsTyped, WriteEffect
<1>. QED  BY <1>1, <1>2, TextsTyped, InvFacts DEF BytesTyped

LEMMA WriteBytesTyped ==
  ASSUME ContentsInv, WriteBytes
  PROVE  BytesTyped'
<1>1. /\ WriteBlock /\ answer' = <<>>
      /\ data' = [data EXCEPT ![Destination] = Filled(data[Destination])]
      /\ typed' = SubSeq(typed, Part + 1, Len(typed))
  BY DEF WriteBytes, Answered
<1>2. Destination \in DataBlock
  BY <1>1, TurnBlocks
<1>3. data \in [DataBlock -> [Place -> Byte]] /\ typed \in Seq(Byte) /\ Len(typed) = op.left
  BY <1>1, InvFacts, TurnFacts DEF BytesTyped
<1>4. Filled(data[Destination]) \in [Place -> Byte]
  BY <1>1, <1>2, <1>3, FilledTyped
<1>5. data' \in [DataBlock -> [Place -> Byte]]
  BY <1>1, <1>2, <1>3, <1>4
<1>6. Part \in 0 .. Len(typed) /\ op'.left = op.left - Part
  BY <1>1, <1>3, TurnFacts
<1>7. typed' \in Seq(Byte) /\ Len(typed') = op.left - Part
  BY <1>1, <1>3, <1>6, RestFacts
<1>. QED  BY <1>1, <1>5, <1>6, <1>7 DEF BytesTyped

LEMMA WriteDoneTyped ==
  ASSUME ContentsInv, WriteDone
  PROVE  BytesTyped'
BY WriteEndEffect, InvFacts DEF BytesTyped, WriteDone, Answered, Idle

LEMMA KeptInv ==
  ASSUME ContentsInv, AtRoot', OrderlyInv', FilesInv', BytesTyped'
  PROVE  ContentsInv'
BY DEF ContentsInv, FilesInv

LEMMA OrderlyTables == OrderlyInv => TableInv
BY DEF OrderlyInv, CarefulInv

LEMMA StepKeeps ==
  ASSUME OrderlyReads, ContentsInv, AtRoot', ContentsNext, OrderlyInv'
  PROVE  ContentsInv'
<1>0. TableInv'
  <2>1. OrderlyInv' => TableInv'
    BY OrderlyTables, PTL
  <2>. QED  BY <2>1
<1>1. ASSUME NEW n \in AnyName, Create(Root, n), Kept, Answered PROVE ContentsInv'
  <2>1. FilesInv'
    BY <1>1, CreateKeepsFiles DEF OrderlyReads, Orderly
  <2>2. BytesTyped'
    BY <1>1, KeptTyped DEF Create
  <2>. QED  BY <2>1, <2>2, KeptInv
<1>2. ASSUME NEW n \in AnyName, Open(Root, n), Kept, Answered PROVE ContentsInv'
  <2>1. FilesInv'
    BY <1>0, <1>2, OpenKeepsFiles
  <2>2. BytesTyped'
    BY <1>2, KeptTyped DEF Open
  <2>. QED  BY <2>1, <2>2, KeptInv
<1>3. ASSUME NEW n \in AnyName, CanRemove(Root, n), Remove(Root, n), Kept, Answered
      PROVE  ContentsInv'
  <2>1. NotOpen(Root, n)
    BY <1>3 DEF CanRemove, Allows, OrderlyReads, Orderly, UsedWithCare
  <2>2. FilesInv'
    BY <1>3, <2>1, RemoveKeepsFiles
  <2>3. BytesTyped'
    BY <1>3, KeptTyped DEF Remove
  <2>. QED  BY <2>2, <2>3, KeptInv
<1>4. ASSUME NEW n \in AnyName, Cat(n) PROVE ContentsInv'
  <2>1. FilesInv'
    BY <1>4, OthersKeepFiles, InvFacts DEF Cat, foVars, diskVars
  <2>2. BytesTyped'
    BY <1>4, CatTyped
  <2>. QED  BY <2>1, <2>2, KeptInv
<1>5. ASSUME NEW fd, Close(fd), Kept, Answered PROVE ContentsInv'
  <2>1. FilesInv'
    BY <1>0, <1>5, CloseKeepsFiles
  <2>2. BytesTyped'
    BY <1>5, CloseEffect, KeptTyped
  <2>. QED  BY <2>1, <2>2, KeptInv
<1>6. ASSUME NEW fd, NEW n \in ReadSizes, Seek(fd, n), Kept, Answered PROVE ContentsInv'
  <2>0. n \in Nat /\ op' = Idle
    BY <1>6, FileOpsAssumption DEF Seek
  <2>1. PICK u \in user_fds : LET r == [sys_files[u.file] EXCEPT !.cursor = n] IN
           /\ u.fd = fd /\ RecordStep(u.file, r)
           /\ r.size = sys_files[u.file].size /\ r.cursor = n /\ n <= r.size
    BY <1>6, <2>0, InvFacts, SeekStep
  <2> DEFINE r == [sys_files[u.file] EXCEPT !.cursor = n]
  <2>2. RecordStep(u.file, r) /\ r.size = sys_files[u.file].size
    BY <2>1
  <2> HIDE DEF r
  <2>3. sys_files[u.file].size \in Nat
    BY UserFacts, RecordFacts
  <2>4. FilesInv'
    <3>1. r.size >= sys_files[u.file].size
      BY <2>2, <2>3
    <3>2. op' \in {Idle} \cup Writing /\ RecordStep(u.file, r)
      BY <2>0, <2>2
    <3>. QED  BY <3>1, <3>2, RecordKeepsFiles
  <2>5. BytesTyped'
    BY <1>6, KeptTyped DEF Seek
  <2>. QED  BY <2>4, <2>5, KeptInv
<1>7. ASSUME NEW fd, NEW n \in ReadSizes, CanAsk(fd, n), ReadBytes(fd, n) PROVE ContentsInv'
  <2>0. n \in Nat /\ InRange(fd, n) /\ Read(fd, n)
    BY <1>7, FileOpsAssumption DEF CanAsk, Allows, ReadBytes, OrderlyReads
  <2>1. op' = Idle
    BY <2>0, ReadEffect
  <2>2. PICK i, r : RecordStep(i, r) /\ r.size = sys_files[i].size /\ InUse(i)
    BY <2>0, ReadEffect, UserFacts
  <2>3. sys_files[i].size \in Nat
    BY <2>2, RecordFacts
  <2>4. FilesInv'
    <3>1. r.size >= sys_files[i].size
      BY <2>2, <2>3
    <3>2. op' \in {Idle} \cup Writing
      BY <2>1
    <3>. QED  BY <2>2, <3>1, <3>2, RecordKeepsFiles
  <2>5. BytesTyped'
    BY <1>7, <2>0, ReadTyped
  <2>. QED  BY <2>4, <2>5, KeptInv
<1>8. ASSUME NEW fd, NEW t \in Texts, WriteText(fd, t) PROVE ContentsInv'
  <2>0. Write(fd, Len(t)) /\ Len(t) \in Nat \ {0}
    BY <1>8, TextsTyped DEF WriteText
  <2>1. UNCHANGED <<dir, openVars>> /\ op' \in Writing
    BY <2>0, WriteEffect
  <2>3. FilesInv'
    BY <2>1, OthersKeepFiles
  <2>2. BytesTyped'
    BY <1>8, WriteTextTyped
  <2>. QED  BY <2>2, <2>3, KeptInv
<1>9. ASSUME WriteBytes PROVE ContentsInv'
  <2>0. UNCHANGED <<dir, openVars>> /\ op' \in Writing
    BY <1>9, TurnFacts DEF WriteBytes
  <2>1. FilesInv'
    BY <2>0, OthersKeepFiles
  <2>2. BytesTyped'
    BY <1>9, WriteBytesTyped
  <2>. QED  BY <2>1, <2>2, KeptInv
<1>10. ASSUME WriteDone PROVE ContentsInv'
  <2>0. WriteEnd
    BY <1>10 DEF WriteDone
  <2>1. PICK i, r : RecordStep(i, r) /\ r.size = LargerOf(op.pos, sys_files[i].size) /\ InUse(i)
    BY <2>0, WriteEndEffect
  <2>2. sys_files[i].size \in Nat /\ op.pos \in Nat /\ op' = Idle
    BY <2>0, <2>1, RecordFacts, WriteEndEffect DEF Writing
  <2>5. r.size >= sys_files[i].size
    <3>1. \A a, b \in Nat : LargerOf(a, b) >= b
      BY DEF LargerOf
    <3>2. LargerOf(op.pos, sys_files[i].size) >= sys_files[i].size
      BY <2>2, <3>1
    <3>. QED  BY <2>1, <3>2
  <2>3. FilesInv'
    BY <2>1, <2>2, <2>5, RecordKeepsFiles
  <2>4. BytesTyped'
    BY <1>10, WriteDoneTyped
  <2>. QED  BY <2>3, <2>4, KeptInv
<1>. QED  BY <1>1, <1>2, <1>3, <1>4, <1>5, <1>6, <1>7, <1>8, <1>9, <1>10 DEF ContentsNext

LEMMA NextContents ==
  ASSUME OrderlyReads
  PROVE  ContentsInv /\ AtRoot' /\ [ContentsNext]_contentsVars => ContentsInv'
<1> SUFFICES ASSUME ContentsInv, AtRoot', [ContentsNext]_contentsVars PROVE ContentsInv'
  OBVIOUS
<1>0. AtRoot /\ OrderlyInv /\ UNCHANGED fsVars
  BY DEF ContentsInv, AtRoot, fsVars
<1>1. CASE UNCHANGED contentsVars
  <2>1. UNCHANGED foVars /\ Kept /\ answer' = answer
    BY <1>1 DEF contentsVars, Kept
  <2>2. OrderlyInv'
    BY <1>0, <2>1, SameState, NextOrderly DEF OrderlyReads
  <2>3. FilesInv'
    BY <2>1, OthersKeepFiles, InvFacts DEF foVars, diskVars
  <2>4. BytesTyped'
    BY <2>1, InvFacts DEF BytesTyped, Kept, foVars
  <2>. QED  BY <2>2, <2>3, <2>4, KeptInv
<1>2. CASE ContentsNext
  <2>1. ASSUME NEW fd, NEW n \in ReadSizes, Seek(fd, n) PROVE OrderlyInv'
    BY <1>0, <2>1, FileOpsAssumption, SeekOrderly
  <2>2. OrderlyInv'
    BY <1>0, <1>2, <2>1, CommandIsNext, NextOrderly DEF OrderlyReads
  <2>. QED  BY <1>2, <2>2, StepKeeps
<1>. QED  BY <1>1, <1>2

LEMMA InitContents == ContentsInit /\ AtRoot => ContentsInv
<1> SUFFICES ASSUME ContentsInit, AtRoot PROVE ContentsInv
  OBVIOUS
<1>1. OrderlyInv
  BY InitOrderly DEF Init, ContentsInit, AtRoot
<1>2. sys_files = <<>> /\ user_fds = {} /\ op = Idle /\ dir = FormatDir
  BY DEF ContentsInit, FOInit
<1>3. \A d \in DataBlock : Listed(dir, d) = {}
  BY <1>2, BlockFacts DEF FormatDir, InitDir, NewEntry, StoredName, Listed, Dots
<1>4. FlatRoot /\ EntriesBehind /\ FdsApart
  BY <1>2, <1>3, BlockFacts DEF FlatRoot, EntriesBehind, FdsApart
<1>5. BytesTyped
  BY <1>2 DEF BytesTyped, ContentsInit, Byte, Idle
<1>. QED  BY <1>1, <1>2, <1>4, <1>5 DEF ContentsInv

\* The text that is still to be written keeps pace with the count of what is left, and
\* all that is stored and shown are bytes that were written, or those of a fresh disk
\* (write, read, cat).
THEOREM BytesWellTyped ==
  ASSUME OrderlyReads
  PROVE  ContentsSpec /\ []AtRoot => []ContentsTypeOK
<1>1. ContentsInv => ContentsTypeOK
  <2> SUFFICES ASSUME ContentsInv PROVE ContentsTypeOK
    OBVIOUS
  <2>1. FileOpsTypeOK
    BY InvFacts DEF TypeInv, TypeOK, FileOpsTypeOK, Idle
  <2>. QED  BY <2>1, InvFacts DEF ContentsTypeOK, BytesTyped
<1>2. ContentsInv /\ AtRoot' /\ [ContentsNext]_contentsVars => ContentsInv'
  BY NextContents
<1>. QED  BY <1>1, <1>2, InitContents, PTL DEF ContentsSpec

---------------------------------------------------------------------------
(* What stands for the promised state *)

\* The entries of the root directory give the names, the texts and what is known of
\* their lengths.
FilesShown ==
  /\ \A e \in Listed(dir, Root) :
       /\ TheText(e.first) = Bytes(e.first, 0, Extent(e))
       /\ AllKept[e.first] = e.size /\ AllNamed[e.name] = e.first
  /\ \A b \in DataBlock :
       (\A e \in Listed(dir, Root) : e.first # b) => TheText(b) = <<>> /\ AllKept[b] = 0
  /\ \A n \in Name :
       (\A e \in Listed(dir, Root) : e.name # n) => AllNamed[n] = NoBlock

\* The records in use give the cursors, and the lengths of the files that are open.
RecordsShown ==
  /\ \A i : InUse(i) => TheCursor(sys_files[i].first) = sys_files[i].cursor
  /\ \A b : ~IsOpen(b) => TheCursor(b) = 0
  /\ \A e \in Listed(dir, Root) :
       /\ \A i : InUse(i) /\ sys_files[i].first = e.first => Extent(e) = GrownSize(i)
       /\ ~IsOpen(e.first) => Extent(e) = e.size
       /\ Extent(e) \in Nat /\ e.size <= Extent(e)

LEMMA FilesMapped == ContentsInv => FilesShown
<1> SUFFICES ASSUME ContentsInv PROVE FilesShown
  OBVIOUS
<1>1. ASSUME NEW e \in Listed(dir, Root)
      PROVE  /\ TheText(e.first) = Bytes(e.first, 0, Extent(e))
             /\ AllKept[e.first] = e.size /\ AllNamed[e.name] = e.first
  <2>1. FilesAt(e.first) = {e}
    BY EntriesKnown DEF FilesAt
  <2>2. TheFile(e.first) = e
    BY <2>1 DEF TheFile
  <2>3. e.first \in DataBlock /\ e.name \in Name /\ e.name \in AnyName
    BY FileFacts DEF AnyName
  <2>4. Find(dir, Root, e.name) = {e}
    BY <2>3, FoundFiles, EntriesKnown
  <2>5. TheNamed(e.name) = e.first
    BY <2>4 DEF TheNamed
  <2>. QED  BY <2>1, <2>2, <2>3, <2>5 DEF TheText, AllKept, AllNamed
<1>2. ASSUME NEW b \in DataBlock, \A e \in Listed(dir, Root) : e.first # b
      PROVE  TheText(b) = <<>> /\ AllKept[b] = 0
  BY <1>2 DEF FilesAt, TheText, AllKept
<1>3. ASSUME NEW n \in Name, \A e \in Listed(dir, Root) : e.name # n
      PROVE  AllNamed[n] = NoBlock
  <2>1. Find(dir, Root, n) = {}
    BY <1>3, FoundFiles DEF AnyName
  <2>. QED  BY <2>1 DEF AllNamed, TheNamed
<1>. QED  BY <1>1, <1>2, <1>3 DEF FilesShown

LEMMA RecordsMapped == ContentsInv => RecordsShown
<1> SUFFICES ASSUME ContentsInv PROVE RecordsShown
  OBVIOUS
<1> DEFINE S == {sys_files[u.file] : u \in user_fds}
<1>0. UsersServed
  BY InvFacts, InUseNow
<1>1. ASSUME NEW i, InUse(i)
      PROVE  /\ IsOpen(sys_files[i].first)
             /\ (CHOOSE of \in S : of.first = sys_files[i].first) = sys_files[i]
  <2>1. sys_files[i] \in S
    BY <1>0, <1>1 DEF UsersServed
  <2>2. \A of \in S : of.first = sys_files[i].first => of = sys_files[i]
    <3> SUFFICES ASSUME NEW u \in user_fds, sys_files[u.file].first = sys_files[i].first
                 PROVE  u.file = i
      OBVIOUS
    <3>1. InUse(u.file)
      BY UserFacts
    <3>. QED  BY <1>1, <3>1, InvFacts DEF TableInv, OneRecordPerFile, InUse
  <2>3. IsOpen(sys_files[i].first)
    BY <1>0, <1>1 DEF UsersServed, IsOpen
  <2> HIDE DEF S
  <2>. QED  BY <2>1, <2>2, <2>3
<1>2. ASSUME NEW i, InUse(i) PROVE TheCursor(sys_files[i].first) = sys_files[i].cursor
  <2> DEFINE b == sys_files[i].first
  <2>1. IsOpen(b) /\ (CHOOSE of \in S : of.first = b) = sys_files[i]
    BY <1>1, <1>2
  <2> HIDE DEF b
  <2>2. TheCursor(b) = sys_files[i].cursor
    BY <2>1 DEF TheCursor
  <2>. QED  BY <2>2 DEF b
<1>3. \A b : ~IsOpen(b) => TheCursor(b) = 0
  BY DEF TheCursor
<1>4. \A i : InUse(i) => sys_files[i].size \in Nat /\ sys_files[i].first \in DataBlock
  BY RecordFacts
<1>5. op.cmd = "write" => InUse(op.file) /\ op.pos \in Nat
  BY InvFacts, TargetFacts DEF Writing
<1>6. \A a, b \in Nat : LargerOf(a, b) = LargerOf(b, a) /\ LargerOf(a, b) \in Nat
                        /\ a <= LargerOf(a, b) /\ b <= LargerOf(a, b)
  BY DEF LargerOf
<1>7. ASSUME NEW e \in Listed(dir, Root), NEW i, InUse(i), sys_files[i].first = e.first
      PROVE  Extent(e) = GrownSize(i) /\ Extent(e) \in Nat /\ e.size <= Extent(e)
  <2>1. SizeOf(e) = sys_files[i].size
    BY <1>1, <1>7 DEF SizeOf
  <2>2. op.cmd = "write" => (sys_files[op.file].first = e.first <=> op.file = i)
    BY <1>5, <1>7, InvFacts DEF TableInv, OneRecordPerFile, InUse
  <2>3. e.size <= sys_files[i].size /\ e.size \in Nat /\ sys_files[i].size \in Nat
    BY <1>4, <1>7, InvFacts, FileFacts DEF EntriesBehind, InUse
  <2>4. CASE op.cmd = "write" /\ op.file = i
    <3>1. Extent(e) = LargerOf(sys_files[i].size, op.pos) /\ GrownSize(i) = LargerOf(op.pos, sys_files[i].size)
      BY <2>1, <2>2, <2>4 DEF Extent, GrownSize
    <3>2. /\ LargerOf(sys_files[i].size, op.pos) = LargerOf(op.pos, sys_files[i].size)
          /\ LargerOf(sys_files[i].size, op.pos) \in Nat
          /\ sys_files[i].size <= LargerOf(sys_files[i].size, op.pos)
      BY <1>5, <1>6, <2>3, <2>4
    <3>. QED  BY <2>3, <3>1, <3>2
  <2>5. CASE ~(op.cmd = "write" /\ op.file = i)
    <3>1. Extent(e) = sys_files[i].size /\ GrownSize(i) = sys_files[i].size
      BY <2>1, <2>2, <2>5 DEF Extent, GrownSize
    <3>. QED  BY <2>3, <3>1
  <2>. QED  BY <2>4, <2>5
<1>8. ASSUME NEW e \in Listed(dir, Root), ~IsOpen(e.first)
      PROVE  Extent(e) = e.size /\ Extent(e) \in Nat /\ e.size <= Extent(e)
  <2>1. ~(op.cmd = "write" /\ sys_files[op.file].first = e.first)
    BY <1>1, <1>5, <1>8
  <2>2. Extent(e) = e.size
    BY <1>8, <2>1 DEF Extent, SizeOf
  <2>. QED  BY <2>2, FileFacts
<1>9. ASSUME NEW e \in Listed(dir, Root), IsOpen(e.first)
      PROVE  \E i : InUse(i) /\ sys_files[i].first = e.first
  BY <1>9, UserFacts DEF IsOpen
<1>10. \A e \in Listed(dir, Root) : Extent(e) \in Nat /\ e.size <= Extent(e)
  BY <1>7, <1>8, <1>9
<1>11. \A e \in Listed(dir, Root) : \A i :
          InUse(i) /\ sys_files[i].first = e.first => Extent(e) = GrownSize(i)
  BY <1>7
<1>12. \A e \in Listed(dir, Root) : ~IsOpen(e.first) => Extent(e) = e.size
  BY <1>8
<1>. QED  BY <1>2, <1>3, <1>10, <1>11, <1>12 DEF RecordsShown

LEMMA ShownNext == ContentsInv' => FilesShown' /\ RecordsShown' /\ UsersServed'
<1>1. ContentsInv => UsersServed
  BY InvFacts, InUseNow
<1>. QED  BY <1>1, FilesMapped, RecordsMapped, PTL

LEMMA TablesNext == ContentsInv' => TableInv'
<1>1. ContentsInv => TableInv
  BY InvFacts
<1>. QED  BY <1>1, PTL

LEMMA QuietWriter ==
  /\ op = Idle => TheWriter = Promise!NoWriter
  /\ op' = Idle => TheWriter' = Promise!NoWriter
BY DEF TheWriter, Promise!NoWriter, Idle

\* The block of a file, and its bytes, stay.
DataKept(b) == \A x \in Chain(fat, b) : data'[x] = data[x]

LEMMA SameBytes ==
  ASSUME TypeInv, NEW b \in DataBlock, LinksKept(b), DataKept(b), NEW from \in Nat, NEW to \in Nat
  PROVE  Bytes(b, from, to)' = Bytes(b, from, to)
<1>1. \A q \in Nat : NthBlock(fat', b, q) = NthBlock(fat, b, q)
  BY TypeFacts, NthSame DEF LinksKept
<1>2. \A q \in Nat : NthBlock(fat, b, q) \in Chain(fat, b) \cup {NoBlock}
  BY TypeFacts, NthInChain
<1>3. ASSUME NEW p \in Nat PROVE ByteAt(b, p)' = ByteAt(b, p)
  <2> DEFINE x == NthBlock(fat, b, p \div BlockSize)
  <2>1. NthBlock(fat', b, p \div BlockSize) = x /\ x \in Chain(fat, b) \cup {NoBlock}
    BY <1>1, <1>2, PlaceFacts
  <2>2. ByteAt(b, p)' = IF x = NoBlock THEN Zero ELSE data'[x][p % BlockSize]
    BY <2>1 DEF ByteAt
  <2>3. ByteAt(b, p) = IF x = NoBlock THEN Zero ELSE data[x][p % BlockSize]
    BY DEF ByteAt
  <2> HIDE DEF x
  <2>. QED  BY <2>1, <2>2, <2>3 DEF DataKept
<1>4. \A k \in 1 .. to - from : ByteAt(b, from + k - 1)' = ByteAt(b, from + k - 1)
  BY <1>3
<1>5. Bytes(b, from, to)' = [k \in 1 .. to - from |-> ByteAt(b, from + k - 1)']
  BY DEF Bytes
<1>. QED  BY <1>4, <1>5 DEF Bytes

\* A text is as long as its file.
LEMMA TextFacts ==
  ASSUME ContentsInv, NEW e \in Listed(dir, Root)
  PROVE  /\ AllTexts[e.first] = Bytes(e.first, 0, Extent(e))
         /\ AllTexts[e.first] \in Seq(Byte) /\ Len(AllTexts[e.first]) = Extent(e)
         /\ Extent(e) \in Nat /\ e.first \in DataBlock /\ e.size \in Nat /\ e.size <= Extent(e)
<1>1. e.first \in DataBlock /\ e.size \in Nat
  BY FileFacts
<1>2. Extent(e) \in Nat /\ e.size <= Extent(e)
  BY RecordsMapped DEF RecordsShown
<1>3. TheText(e.first) = Bytes(e.first, 0, Extent(e))
  BY FilesMapped DEF FilesShown
<1>4. AllTexts[e.first] = TheText(e.first)
  BY <1>1 DEF AllTexts
<1>5. Bytes(e.first, 0, Extent(e)) \in Seq(Byte) /\ Len(Bytes(e.first, 0, Extent(e))) = Extent(e)
  BY <1>1, <1>2, InvFacts, AllBytes
<1>. QED  BY <1>1, <1>2, <1>3, <1>4, <1>5

LEMMA TextKept ==
  ASSUME ContentsInv, ContentsInv', NEW e \in Listed(dir, Root), NEW k \in Listed(dir', Root),
         k.first = e.first, Extent(k)' = Extent(e), LinksKept(e.first), DataKept(e.first)
  PROVE  TheText(e.first)' = TheText(e.first)
<1>1. e.first \in DataBlock /\ Extent(e) \in Nat
  BY TextFacts
<1>2. TheText(e.first) = Bytes(e.first, 0, Extent(e))
  BY FilesMapped DEF FilesShown
<1>3. PICK m \in Nat, b \in DataBlock : m = Extent(e) /\ b = e.first
  BY <1>1
<1>4. TheText(b)' = [p \in 1 .. m |-> ByteAt(b, 0 + p - 1)']
  <2>1. TheText(k.first)' = Bytes(k.first, 0, Extent(k))'
    BY ShownNext DEF FilesShown
  <2>. QED  BY <1>3, <2>1 DEF Bytes
<1>5. Bytes(b, 0, m)' = Bytes(b, 0, m)
  BY <1>3, InvFacts, SameBytes
<1>6. Bytes(b, 0, m)' = [p \in 1 .. m |-> ByteAt(b, 0 + p - 1)']
  BY DEF Bytes
<1>. QED  BY <1>2, <1>3, <1>4, <1>5, <1>6

\* Commands that leave the tables alone.
LEMMA SameTables ==
  ASSUME UNCHANGED <<openVars, op, typed>>
  PROVE  /\ UNCHANGED <<AllUsers, AllCursors, TheWriter>>
         /\ \A e : Extent(e)' = Extent(e)
         /\ \A b : IsOpen(b)' = IsOpen(b)
BY DEF openVars, AllUsers, AllCursors, TheCursor, TheWriter, Extent, SizeOf, IsOpen

\* Commands that leave the disk alone.
LEMMA SameFiles ==
  ASSUME ContentsInv, ContentsInv', UNCHANGED <<fat, dir, data>>,
         \A e \in Listed(dir, Root) : Extent(e)' = Extent(e)
  PROVE  UNCHANGED <<AllNamed, AllTexts, AllKept>>
<1>1. UNCHANGED <<AllNamed, AllKept>>
  BY DEF AllNamed, AllKept, TheNamed, TheFile, FilesAt
<1>2. ASSUME NEW b \in DataBlock PROVE TheText(b)' = TheText(b)
  <2>1. CASE \E e \in Listed(dir, Root) : e.first = b
    <3>1. PICK e \in Listed(dir, Root) : e.first = b
      BY <2>1
    <3>2. LinksKept(b) /\ DataKept(b)
      BY DEF LinksKept, DataKept
    <3>. QED  BY <3>1, <3>2, TextKept
  <2>2. CASE \A e \in Listed(dir, Root) : e.first # b
    BY <2>2, FilesMapped, ShownNext DEF FilesShown
  <2>. QED  BY <2>1, <2>2
<1>3. AllTexts' = [b \in DataBlock |-> TheText(b)']
  BY DEF AllTexts
<1>. QED  BY <1>1, <1>2, <1>3 DEF AllTexts

---------------------------------------------------------------------------
(* Every step is one that is promised *)

\* Nothing that counts has changed.
LEMMA Refused ==
  ASSUME ContentsInv, ContentsInv', op = Idle, op' = Idle, Answered,
         UNCHANGED <<fat, dir, openVars, data, typed>>
  PROVE  Promise!Refuse
<1>1. UNCHANGED <<AllUsers, AllCursors, TheWriter>> /\ \A e : Extent(e)' = Extent(e)
  BY SameTables
<1>2. UNCHANGED <<AllNamed, AllTexts, AllKept>>
  BY <1>1, SameFiles
<1>. QED  BY <1>1, <1>2, QuietWriter DEF Promise!Refuse, Promise!Quiet, Promise!Silent, Answered

LEMMA CreatePromised ==
  ASSUME ContentsInv, ContentsInv', NEW n \in AnyName, Create(Root, n), NothingCut,
         Kept, Answered
  PROVE  Promise!Refuse \/ (n \in Name /\ Promise!Create(n))
<1>1. op = Idle /\ op' = Idle /\ UNCHANGED openVars
  BY CreateEffect
<1>2. CASE UNCHANGED <<fat, dir>>
  BY <1>1, <1>2, Refused DEF Kept
<1>3. CASE ~UNCHANGED <<fat, dir>>
  <2>1. n \in Name /\ Find(dir, Root, n) = {}
    BY <1>3, CreateEffect
  <2>2. PICK b \in DataBlock, e \in Entry :
          /\ b \notin Heads /\ e.first = b /\ e.name = n /\ e.size = 0
          /\ ListedAre(Listed(dir, Root) \cup {e})
          /\ \A k \in Listed(dir, Root) : LinksKept(k.first)
    BY <1>3, CreateEffect
  <2>3. Listed(dir', Root) = Listed(dir, Root) \cup {e}
    BY <2>2, InvFacts DEF ListedAre
  <2>4. \A k \in Listed(dir, Root) : k.first # b /\ k.name # n /\ k.first # NoBlock
    <3>1. \A k \in Listed(dir, Root) : k.first \in Heads /\ k.first \in DataBlock
      BY FileFacts
    <3>2. \A k \in Listed(dir, Root) : k.name # n
      BY <2>1, FoundFiles
    <3>. QED  BY <2>2, <3>1, <3>2, BlockFacts DEF NoBlock
  <2>5. /\ UNCHANGED <<AllUsers, AllCursors, TheWriter>> /\ \A k : Extent(k)' = Extent(k)
        /\ \A k : IsOpen(k)' = IsOpen(k)
    BY <1>1, SameTables DEF Kept
  <2>6. FilesShown /\ FilesShown' /\ RecordsShown'
    BY FilesMapped, ShownNext
  <2>7. AllNamed[n] = NoBlock
    BY <2>1, <2>4, <2>6 DEF FilesShown
  <2>8. \A m \in Name : AllNamed[m] # b
    <3> SUFFICES ASSUME NEW m \in Name PROVE AllNamed[m] # b
      OBVIOUS
    <3>1. CASE \E k \in Listed(dir, Root) : k.name = m
      BY <2>4, <2>6, <3>1 DEF FilesShown
    <3>2. CASE \A k \in Listed(dir, Root) : k.name # m
      BY <2>2, <2>6, <3>2, BlockFacts DEF FilesShown, NoBlock
    <3>. QED  BY <3>1, <3>2
  <2>9. AllNamed' = [AllNamed EXCEPT ![n] = b]
    <3>1. AllNamed' = [m \in Name |-> AllNamed'[m]] /\ AllNamed = [m \in Name |-> AllNamed[m]]
      BY DEF AllNamed
    <3>2. AllNamed'[n] = b
      BY <2>2, <2>3, <2>6 DEF FilesShown
    <3>3. ASSUME NEW m \in Name, m # n PROVE AllNamed'[m] = AllNamed[m]
      <4>1. CASE \E k \in Listed(dir, Root) : k.name = m
        BY <2>3, <2>6, <4>1 DEF FilesShown
      <4>2. CASE \A k \in Listed(dir, Root) : k.name # m
        <5>1. \A k \in Listed(dir', Root) : k.name # m
          BY <2>2, <2>3, <3>3, <4>2
        <5>. QED  BY <2>6, <4>2, <5>1 DEF FilesShown
      <4>. QED  BY <4>1, <4>2
    <3>. QED  BY <3>1, <3>2, <3>3
  <2>10. ASSUME NEW x \in DataBlock
         PROVE  TheText(x)' = TheText(x) /\ AllKept'[x] = AllKept[x]
    <3>1. CASE x = b
      <4>1. TheText(x) = <<>> /\ AllKept[x] = 0
        BY <2>4, <2>6, <3>1 DEF FilesShown
      <4>2. e \in Listed(dir', Root) /\ AllKept'[x] = 0
        BY <2>2, <2>3, <2>6, <3>1 DEF FilesShown
      <4>3. ~IsOpen(b)
        <5>1. \A u \in user_fds : sys_files[u.file].first \in Heads
          BY UserFacts, GrownFacts
        <5>. QED  BY <2>2, <5>1 DEF IsOpen
      <4>4. Extent(e)' = 0
        BY <2>2, <2>5, <2>6, <4>2, <4>3 DEF RecordsShown
      <4>5. TheText(e.first)' = Bytes(e.first, 0, Extent(e))'
        BY <2>6, <4>2 DEF FilesShown
      <4>6. TheText(e.first)' = <<>>
        BY <4>4, <4>5 DEF Bytes
      <4>. QED  BY <2>2, <3>1, <4>1, <4>2, <4>6
    <3>2. CASE x # b /\ \E k \in Listed(dir, Root) : k.first = x
      <4>1. PICK k \in Listed(dir, Root) : k.first = x
        BY <3>2
      <4>2. k \in Listed(dir', Root) /\ LinksKept(k.first) /\ DataKept(k.first)
        BY <2>2, <2>3 DEF DataKept, Kept
      <4>3. TheText(k.first)' = TheText(k.first)
        BY <2>5, <4>2, TextKept
      <4>4. AllKept'[k.first] = AllKept[k.first]
        BY <2>6, <4>2 DEF FilesShown
      <4>. QED  BY <4>1, <4>3, <4>4
    <3>3. CASE x # b /\ \A k \in Listed(dir, Root) : k.first # x
      <4>1. \A k \in Listed(dir', Root) : k.first # x
        BY <2>2, <2>3, <3>3
      <4>. QED  BY <2>6, <3>3, <4>1 DEF FilesShown
    <3>. QED  BY <3>1, <3>2, <3>3
  <2>11. UNCHANGED <<AllTexts, AllKept>>
    <3>1. AllTexts' = [x \in DataBlock |-> TheText(x)']
      BY DEF AllTexts
    <3>2. AllKept' = [x \in DataBlock |-> AllKept'[x]] /\ AllKept = [x \in DataBlock |-> AllKept[x]]
      BY DEF AllKept
    <3>. QED  BY <2>10, <3>1, <3>2 DEF AllTexts
  <2>. QED  BY <1>1, <2>1, <2>2, <2>5, <2>7, <2>8, <2>9, <2>11, QuietWriter
            DEF Promise!Create, Promise!Quiet, Promise!Silent, Answered
<1>. QED  BY <1>2, <1>3

\* The functions of the mapping, place by place.
LEMMA MapsAt ==
  /\ AllNamed = [n \in Name |-> AllNamed[n]] /\ AllNamed' = [n \in Name |-> AllNamed'[n]]
  /\ AllTexts = [b \in DataBlock |-> TheText(b)] /\ AllTexts' = [b \in DataBlock |-> TheText(b)']
  /\ AllKept = [b \in DataBlock |-> AllKept[b]] /\ AllKept' = [b \in DataBlock |-> AllKept'[b]]
  /\ AllCursors = [b \in DataBlock |-> TheCursor(b)]
  /\ AllCursors' = [b \in DataBlock |-> TheCursor(b)']
<1>1. AllNamed = [n \in Name |-> AllNamed[n]] /\ AllNamed' = [n \in Name |-> AllNamed'[n]]
  BY DEF AllNamed
<1>2. AllTexts = [b \in DataBlock |-> TheText(b)] /\ AllTexts' = [b \in DataBlock |-> TheText(b)']
  BY DEF AllTexts
<1>3. AllKept = [b \in DataBlock |-> AllKept[b]] /\ AllKept' = [b \in DataBlock |-> AllKept'[b]]
  BY DEF AllKept
<1>4. /\ AllCursors = [b \in DataBlock |-> TheCursor(b)]
      /\ AllCursors' = [b \in DataBlock |-> TheCursor(b)']
  BY DEF AllCursors
<1>. QED  BY <1>1, <1>2, <1>3, <1>4

LEMMA RemovePromised ==
  ASSUME ContentsInv, ContentsInv', NEW n \in AnyName, Remove(Root, n), NotOpen(Root, n),
         Kept, Answered
  PROVE  n \in Name /\ Promise!Delete(n)
<1>1. op = Idle /\ op' = Idle /\ UNCHANGED openVars /\ n \in Name
  BY RemoveEffect
<1>2. PICK e \in Listed(dir, Root) :
        /\ e.name = n /\ ~IsOpen(e.first)
        /\ ListedAre(Listed(dir, Root) \ {e})
        /\ \A k \in Listed(dir, Root) : k # e => LinksKept(k.first)
  BY RemoveEffect
<1>3. Listed(dir', Root) = Listed(dir, Root) \ {e}
  BY <1>2, InvFacts DEF ListedAre
<1>4. e.first \in DataBlock /\ e.first # NoBlock
  BY FileFacts, BlockFacts DEF NoBlock
<1>5. \A k \in Listed(dir', Root) : k.first # e.first /\ k.name # n
  BY <1>2, <1>3, EntriesKnown
<1>6. /\ UNCHANGED <<AllUsers, AllCursors, TheWriter>> /\ \A k : Extent(k)' = Extent(k)
  BY <1>1, SameTables DEF Kept
<1>7. FilesShown /\ FilesShown'
  BY FilesMapped, ShownNext
<1>8. AllNamed[n] = e.first
  BY <1>2, <1>7 DEF FilesShown
<1>9. Promise!UsedBy(AllNamed[n]) = {}
  <2>1. \A u \in user_fds : sys_files[u.file].first # e.first
    BY <1>2 DEF IsOpen
  <2>. QED  BY <1>8, <2>1 DEF Promise!UsedBy, AllUsers
<1>10. ASSUME NEW m \in Name
       PROVE  AllNamed'[m] = IF m = n THEN NoBlock ELSE AllNamed[m]
  <2>1. CASE m = n
    BY <1>5, <1>7, <2>1 DEF FilesShown
  <2>2. CASE m # n /\ \E k \in Listed(dir, Root) : k.name = m
    <3>1. PICK k \in Listed(dir, Root) : k.name = m
      BY <2>2
    <3>2. k \in Listed(dir', Root)
      BY <1>2, <1>3, <2>2, <3>1
    <3>. QED  BY <1>7, <2>2, <3>1, <3>2 DEF FilesShown
  <2>3. CASE m # n /\ \A k \in Listed(dir, Root) : k.name # m
    <3>1. \A k \in Listed(dir', Root) : k.name # m
      BY <1>3, <2>3
    <3>. QED  BY <1>7, <2>3, <3>1 DEF FilesShown
  <2>. QED  BY <2>1, <2>2, <2>3
<1>11. ASSUME NEW x \in DataBlock
       PROVE  /\ TheText(x)' = IF x = e.first THEN <<>> ELSE TheText(x)
              /\ AllKept'[x] = IF x = e.first THEN 0 ELSE AllKept[x]
  <2>1. CASE x = e.first
    BY <1>5, <1>7, <2>1 DEF FilesShown
  <2>2. CASE x # e.first /\ \E k \in Listed(dir, Root) : k.first = x
    <3>1. PICK k \in Listed(dir, Root) : k.first = x
      BY <2>2
    <3>2. k \in Listed(dir', Root) /\ LinksKept(k.first) /\ DataKept(k.first)
      BY <1>2, <1>3, <2>2, <3>1 DEF DataKept, Kept
    <3>3. TheText(k.first)' = TheText(k.first)
      BY <1>6, <3>2, TextKept
    <3>4. AllKept'[k.first] = AllKept[k.first]
      BY <1>7, <3>2 DEF FilesShown
    <3>. QED  BY <2>2, <3>1, <3>3, <3>4
  <2>3. CASE x # e.first /\ \A k \in Listed(dir, Root) : k.first # x
    <3>1. \A k \in Listed(dir', Root) : k.first # x
      BY <1>3, <2>3
    <3>. QED  BY <1>7, <2>3, <3>1 DEF FilesShown
  <2>. QED  BY <2>1, <2>2, <2>3
<1>12. AllNamed' = [AllNamed EXCEPT ![n] = NoBlock]
  BY <1>10, MapsAt
<1>13. AllTexts' = [AllTexts EXCEPT ![e.first] = <<>>]
  BY <1>11, MapsAt
<1>14. AllKept' = [AllKept EXCEPT ![e.first] = 0]
  BY <1>11, MapsAt
<1>. QED  BY <1>1, <1>4, <1>6, <1>8, <1>9, <1>12, <1>13, <1>14, QuietWriter
          DEF Promise!Delete, Promise!Quiet, Promise!Silent, Answered

\* open gives a new descriptor; a file that is open already keeps its cursor.
LEMMA OpenPromised ==
  ASSUME ContentsInv, ContentsInv', NEW n \in AnyName, Open(Root, n), Kept, Answered
  PROVE  n \in Name /\ next_fd \in 0 .. MaxFds - 1 /\ Promise!Open(n, next_fd)
<1>1. /\ op = Idle /\ op' = Idle /\ UNCHANGED <<fat, dir>> /\ next_fd < MaxFds /\ n \in Name
  BY OpenEffect
<1>2. PICK e, i :
        /\ e \in Listed(dir, Root)
        /\ e.name = n
        /\ user_fds' = user_fds \cup {[fd |-> next_fd, file |-> i]}
        /\ DOMAIN sys_files' = DOMAIN sys_files \cup {i}
        /\ RecordsAlike /\ Serves(i, e)
  BY OpenEffect
<1>3. TableInv /\ TableInv'
  BY InvFacts, TablesNext
<1>4. \A j : InUse(j)' <=> InUse(j) \/ j = i
  BY <1>2, <1>3, OpenUses
<1>5. \A j : InUse(j) => /\ sys_files'[j].first = sys_files[j].first
                         /\ sys_files'[j].size = sys_files[j].size
                         /\ sys_files'[j].cursor = sys_files[j].cursor
  BY <1>2 DEF RecordsAlike, InUse
<1>6. /\ \A b : IsOpen(b) <=> \E j : InUse(j) /\ sys_files[j].first = b
      /\ \A b : IsOpen(b)' <=> \E j : InUse(j)' /\ sys_files'[j].first = b
  BY <1>3, UsedIsOpen, UsedIsOpenNext
<1>7. \A j : GrownSize(j) = sys_files[j].size /\ GrownSize(j)' = sys_files'[j].size
  BY <1>1 DEF GrownSize, Idle
<1>8. FilesShown /\ RecordsShown /\ RecordsShown'
  BY FilesMapped, RecordsMapped, ShownNext
<1>9. ASSUME NEW k \in Listed(dir, Root) PROVE Extent(k)' = Extent(k)
  <2>1. CASE IsOpen(k.first)
    <3>1. PICK j : InUse(j) /\ sys_files[j].first = k.first
      BY <1>6, <2>1
    <3>. QED  BY <1>1, <1>4, <1>5, <1>7, <1>8, <3>1 DEF RecordsShown
  <2>2. CASE ~IsOpen(k.first) /\ ~IsOpen(k.first)'
    BY <1>1, <1>8, <2>2 DEF RecordsShown
  <2>3. CASE ~IsOpen(k.first) /\ IsOpen(k.first)'
    <3>1. sys_files'[i].first = k.first /\ ~InUse(i)
      BY <1>4, <1>5, <1>6, <2>3
    <3>2. k = e /\ sys_files'[i].size = e.size
      BY <1>2, <3>1, EntriesKnown DEF Serves
    <3>. QED  BY <1>1, <1>4, <1>7, <1>8, <2>3, <3>1, <3>2 DEF RecordsShown
  <2>. QED  BY <2>1, <2>2, <2>3
<1>10. ASSUME NEW b \in DataBlock PROVE TheCursor(b)' = TheCursor(b)
  <2>1. CASE IsOpen(b)
    <3>1. PICK j : InUse(j) /\ sys_files[j].first = b
      BY <1>6, <2>1
    <3>. QED  BY <1>4, <1>5, <1>8, <3>1 DEF RecordsShown
  <2>2. CASE ~IsOpen(b) /\ ~IsOpen(b)'
    BY <1>8, <2>2 DEF RecordsShown
  <2>3. CASE ~IsOpen(b) /\ IsOpen(b)'
    <3>1. sys_files'[i].first = b /\ ~InUse(i)
      BY <1>4, <1>5, <1>6, <2>3
    <3>2. sys_files'[i].cursor = 0
      BY <1>2, <3>1 DEF Serves
    <3>. QED  BY <1>4, <1>8, <2>3, <3>1, <3>2 DEF RecordsShown
  <2>. QED  BY <2>1, <2>2, <2>3
<1>11. UNCHANGED <<AllNamed, AllTexts, AllKept>>
  BY <1>1, <1>9, SameFiles DEF Kept
<1>12. UNCHANGED AllCursors
  BY <1>10, MapsAt
<1>13. AllNamed[n] = e.first /\ e.first # NoBlock
  BY <1>2, <1>8, FileFacts, BlockFacts DEF FilesShown, NoBlock
<1>14. AllUsers' = AllUsers \cup {<<next_fd, AllNamed[n]>>}
  <2> DEFINE v == [fd |-> next_fd, file |-> i]
  <2>1. user_fds' = user_fds \cup {v} /\ v.fd = next_fd /\ v.file = i
    BY <1>2
  <2> HIDE DEF v
  <2>2. \A u \in user_fds : sys_files'[u.file].first = sys_files[u.file].first
    BY <1>5, UserFacts
  <2>3. sys_files'[v.file].first = AllNamed[n]
    BY <1>2, <1>13, <2>1 DEF Serves
  <2>4. AllUsers' = {<<u.fd, sys_files'[u.file].first>> : u \in user_fds \cup {v}}
    BY <2>1 DEF AllUsers
  <2>. QED  BY <2>1, <2>2, <2>3, <2>4 DEF AllUsers
<1>15. \A u \in AllUsers : u[1] # next_fd
  <2>1. \A u \in user_fds : u.fd # next_fd
    BY <1>3, UserFacts DEF TableInv, FdsFresh
  <2>. QED  BY <2>1 DEF AllUsers
<1>16. next_fd \in 0 .. MaxFds - 1
  <2>1. next_fd \in Nat
    BY InvFacts DEF TypeInv, TypeOK
  <2>2. MaxFds \in Nat
    BY FileOpsAssumption
  <2>. QED  BY <1>1, <2>1, <2>2
<1>. QED  BY <1>1, <1>11, <1>12, <1>13, <1>14, <1>15, <1>16, QuietWriter
          DEF Promise!Open, Promise!Quiet, Promise!Silent, Answered

\* A command that works on one record moves its cursor, and may make its size that of
\* the file.
LEMMA RecordPromised ==
  ASSUME ContentsInv, ContentsInv', NEW i, NEW r, RecordStep(i, r), InUse(i),
         r.size = GrownSize(i), op' = Idle, op = Idle \/ op.file = i
  PROVE  /\ UNCHANGED AllUsers /\ \A e \in Listed(dir, Root) : Extent(e)' = Extent(e)
         /\ AllCursors' = [AllCursors EXCEPT ![sys_files[i].first] = r.cursor]
<1>1. /\ DOMAIN sys_files' = DOMAIN sys_files
      /\ \A j \in DOMAIN sys_files : sys_files'[j] = IF j = i THEN r ELSE sys_files[j]
  BY InvFacts, TypeFacts, RecordUpdate DEF RecordStep
<1>2. UNCHANGED <<dir, user_fds>>
  BY DEF RecordStep
<1>3. \A j : InUse(j) => /\ InUse(j)' /\ sys_files'[j].first = sys_files[j].first
                         /\ sys_files'[j].cursor = IF j = i THEN r.cursor ELSE sys_files[j].cursor
                         /\ GrownSize(j)' = GrownSize(j)
  <2> SUFFICES ASSUME NEW j, InUse(j)
               PROVE  /\ InUse(j)' /\ sys_files'[j].first = sys_files[j].first
                      /\ sys_files'[j].cursor = IF j = i THEN r.cursor ELSE sys_files[j].cursor
                      /\ GrownSize(j)' = GrownSize(j)
    OBVIOUS
  <2>1. j \in DOMAIN sys_files /\ sys_files'[j] = IF j = i THEN r ELSE sys_files[j]
    BY <1>1 DEF InUse
  <2>2. InUse(j)' /\ sys_files'[j].first = sys_files[j].first
    BY <1>1, <2>1 DEF InUse, RecordStep
  <2>3. GrownSize(j)' = sys_files'[j].size
    BY DEF GrownSize, Idle
  <2>4. j # i => GrownSize(j) = sys_files[j].size
    BY DEF GrownSize, Idle
  <2>5. CASE j = i
    BY <2>1, <2>2, <2>3, <2>5
  <2>6. CASE j # i
    BY <2>1, <2>2, <2>3, <2>4, <2>6
  <2>. QED  BY <2>5, <2>6
<1>4. UNCHANGED AllUsers
  <2>1. \A u \in user_fds : sys_files'[u.file].first = sys_files[u.file].first
    BY <1>3, UserFacts
  <2>. QED  BY <1>2, <2>1 DEF AllUsers
<1>5. \A b : IsOpen(b)' <=> IsOpen(b)
  <2>1. \A u \in user_fds : sys_files'[u.file].first = sys_files[u.file].first
    BY <1>3, UserFacts
  <2>. QED  BY <1>2, <2>1 DEF IsOpen
<1>6. \A b : IsOpen(b) <=> \E j : InUse(j) /\ sys_files[j].first = b
  BY InvFacts, UsedIsOpen
<1>7. RecordsShown /\ RecordsShown'
  BY RecordsMapped, ShownNext
<1>8. ASSUME NEW e \in Listed(dir, Root) PROVE Extent(e)' = Extent(e)
  <2>1. CASE IsOpen(e.first)
    <3>1. PICK j : InUse(j) /\ sys_files[j].first = e.first
      BY <1>6, <2>1
    <3>2. InUse(j)' /\ sys_files'[j].first = e.first /\ GrownSize(j)' = GrownSize(j)
      BY <1>3, <3>1
    <3>3. Extent(e) = GrownSize(j)
      BY <1>7, <3>1 DEF RecordsShown
    <3>4. e \in Listed(dir', Root)
      BY <1>2
    <3>5. Extent(e)' = GrownSize(j)'
      BY <1>7, <3>2, <3>4 DEF RecordsShown
    <3>. QED  BY <3>2, <3>3, <3>5
  <2>2. CASE ~IsOpen(e.first)
    BY <1>2, <1>5, <1>7, <2>2 DEF RecordsShown
  <2>. QED  BY <2>1, <2>2
<1>9. ASSUME NEW b \in DataBlock
      PROVE  TheCursor(b)' = IF b = sys_files[i].first THEN r.cursor ELSE TheCursor(b)
  <2>1. CASE IsOpen(b)
    <3>1. PICK j : InUse(j) /\ sys_files[j].first = b
      BY <1>6, <2>1
    <3>2. j = i <=> b = sys_files[i].first
      BY <3>1, InvFacts DEF TableInv, OneRecordPerFile, InUse
    <3>3. /\ InUse(j)' /\ sys_files'[j].first = b
          /\ sys_files'[j].cursor = IF j = i THEN r.cursor ELSE sys_files[j].cursor
      BY <1>3, <3>1
    <3>4. TheCursor(b) = sys_files[j].cursor
      BY <1>7, <3>1 DEF RecordsShown
    <3>5. TheCursor(b)' = sys_files'[j].cursor
      BY <1>7, <3>3 DEF RecordsShown
    <3>. QED  BY <3>2, <3>3, <3>4, <3>5
  <2>2. CASE ~IsOpen(b)
    <3>1. b # sys_files[i].first
      BY <1>6, <2>2
    <3>. QED  BY <1>5, <1>7, <2>2, <3>1 DEF RecordsShown
  <2>. QED  BY <2>1, <2>2
<1>10. AllCursors' = [AllCursors EXCEPT ![sys_files[i].first] = r.cursor]
  <2>1. sys_files[i].first \in DataBlock
    BY RecordFacts
  <2>. QED  BY <1>9, <2>1, MapsAt
<1>. QED  BY <1>4, <1>8, <1>10

\* What a descriptor is promised about: its file, the place in it and its text.
LEMMA UserShown ==
  ASSUME ContentsInv, NEW u \in user_fds
  PROVE  LET of == sys_files[u.file] IN
         /\ <<u.fd, of.first>> \in AllUsers /\ of.first \in DataBlock
         /\ AllCursors[of.first] = of.cursor
         /\ AllTexts[of.first] = Bytes(of.first, 0, GrownSize(u.file))
         /\ Len(AllTexts[of.first]) = GrownSize(u.file)
         /\ op = Idle => GrownSize(u.file) = of.size
<1> DEFINE of == sys_files[u.file]
<1>1. InUse(u.file) /\ <<u.fd, of.first>> \in AllUsers
  BY UserFacts DEF AllUsers
<1>2. of.first \in DataBlock /\ \E e \in Listed(dir, Root) : e.first = of.first
  BY <1>1, RecordFacts
<1>3. PICK e \in Listed(dir, Root) : e.first = of.first
  BY <1>2
<1>4. TheCursor(of.first) = of.cursor /\ Extent(e) = GrownSize(u.file)
  BY <1>1, <1>3, RecordsMapped DEF RecordsShown
<1>5. /\ AllTexts[e.first] = Bytes(e.first, 0, Extent(e))
      /\ Len(AllTexts[e.first]) = Extent(e)
  BY TextFacts
<1>6. op = Idle => GrownSize(u.file) = of.size
  BY <1>1, GrownFacts
<1>7. AllCursors[of.first] = TheCursor(of.first)
  BY <1>2 DEF AllCursors
<1>. QED  BY <1>1, <1>2, <1>3, <1>4, <1>5, <1>6, <1>7

\* A part of a text.
LEMMA BytesPart ==
  ASSUME ContentsInv, NEW b \in DataBlock, NEW m \in Nat, NEW from \in Nat, NEW to \in Nat,
         from <= to, to <= m
  PROVE  SubSeq(Bytes(b, 0, m), from + 1, to) = Bytes(b, from, to)
<1> DEFINE s == Bytes(b, 0, m)
           t == SubSeq(s, from + 1, to)
<1>1. s \in Seq(Byte) /\ Len(s) = m
  BY InvFacts, AllBytes
<1>2. \A k \in 1 .. m : s[k] = ByteAt(b, k - 1)
  BY DEF Bytes
<1> HIDE DEF s
<1>3. \A k \in from + 1 .. to : s[k] \in Byte
  BY <1>1
<1>4. /\ t \in Seq(Byte) /\ Len(t) = to - from
      /\ \A k \in 1 .. to - from : t[k] = s[from + k]
  <2>1. /\ t \in Seq(Byte) /\ Len(t) = IF from + 1 <= to THEN to - (from + 1) + 1 ELSE 0
        /\ \A k \in 1 .. to - (from + 1) + 1 : t[k] = s[from + 1 + k - 1]
    BY <1>3, SubSeqProperties
  <2> HIDE DEF t
  <2>. QED  BY <2>1
<1> HIDE DEF t
<1>5. t = [k \in 1 .. to - from |-> t[k]]
  BY <1>4
<1>6. \A k \in 1 .. to - from : t[k] = ByteAt(b, from + k - 1)
  BY <1>2, <1>4
<1>7. t = Bytes(b, from, to)
  BY <1>5, <1>6 DEF Bytes
<1>. QED  BY <1>7 DEF t, s

LEMMA SeekPromised ==
  ASSUME ContentsInv, ContentsInv', NEW fd, NEW n \in Nat, Seek(fd, n), Kept, Answered
  PROVE  Promise!Seek(fd)
<1>1. op = Idle /\ op' = Idle
  BY DEF Seek
<1>2. PICK u \in user_fds : LET r == [sys_files[u.file] EXCEPT !.cursor = n] IN
           /\ u.fd = fd /\ RecordStep(u.file, r)
           /\ r.size = sys_files[u.file].size /\ r.cursor = n /\ n <= r.size
  BY InvFacts, SeekStep
<1> DEFINE r == [sys_files[u.file] EXCEPT !.cursor = n]
           h == sys_files[u.file].first
<1>3. u.fd = fd /\ RecordStep(u.file, r) /\ r.size = sys_files[u.file].size /\ r.cursor = n
      /\ n <= sys_files[u.file].size
  BY <1>2
<1> HIDE DEF r
<1>4. /\ <<u.fd, h>> \in AllUsers /\ Len(AllTexts[h]) = sys_files[u.file].size
      /\ r.size = GrownSize(u.file) /\ InUse(u.file)
  BY <1>1, <1>3, UserShown, UserFacts
<1>5. /\ UNCHANGED AllUsers /\ \A e \in Listed(dir, Root) : Extent(e)' = Extent(e)
      /\ AllCursors' = [AllCursors EXCEPT ![h] = n]
  BY <1>1, <1>3, <1>4, RecordPromised
<1>6. UNCHANGED <<AllNamed, AllTexts, AllKept>>
  BY <1>3, <1>5, SameFiles DEF RecordStep, Kept
<1>7. n \in 0 .. Len(AllTexts[h])
  <2>1. sys_files[u.file].size \in Nat
    BY UserFacts, RecordFacts
  <2>. QED  BY <1>3, <1>4, <2>1
<1> DEFINE v == <<u.fd, h>>
<1>8. v \in AllUsers /\ v[1] = fd /\ v[2] = h
  BY <1>3, <1>4
<1> HIDE DEF v, h
<1>9. \E w \in AllUsers : \E to \in 0 .. Len(AllTexts[w[2]]) :
        w[1] = fd /\ AllCursors' = [AllCursors EXCEPT ![w[2]] = to]
  BY <1>5, <1>7, <1>8
<1>. QED  BY <1>1, <1>5, <1>6, <1>9, QuietWriter
          DEF Promise!Seek, Promise!Quiet, Promise!Silent, Answered

\* read shows what comes next in the text, all that was asked for or all there is.
LEMMA ReadPromised ==
  ASSUME ContentsInv, ContentsInv', NEW fd, NEW n \in Nat, InRange(fd, n), ReadBytes(fd, n)
  PROVE  Promise!Read(fd, n)
<1>1. Read(fd, n) /\ Kept /\ op = Idle /\ op' = Idle
  BY ReadEffect DEF ReadBytes
<1>2. PICK u \in user_fds :
        /\ u.fd = fd
        /\ RecordStep(u.file, [sys_files[u.file] EXCEPT
                        !.cursor = SmallerOf(sys_files[u.file].cursor + n, sys_files[u.file].size)])
  BY <1>1, ReadEffect
<1> DEFINE of == sys_files[u.file]
           h  == of.first
           to == SmallerOf(of.cursor + n, of.size)
           r  == [of EXCEPT !.cursor = to]
<1>3. u.fd = fd /\ RecordStep(u.file, r) /\ r.size = of.size /\ r.cursor = to
  <2>1. of \in OpenFile
    BY UserFacts, RecordFacts
  <2>2. r.size = of.size /\ r.cursor = to
    <3> HIDE DEF of, to
    <3>. QED  BY <2>1 DEF OpenFile
  <2>. QED  BY <1>2, <2>2
<1> HIDE DEF r
<1>4. /\ <<u.fd, h>> \in AllUsers /\ h \in DataBlock /\ AllCursors[h] = of.cursor
      /\ AllTexts[h] = Bytes(h, 0, of.size) /\ Len(AllTexts[h]) = of.size
      /\ r.size = GrownSize(u.file) /\ InUse(u.file)
      /\ of.cursor \in Nat /\ of.size \in Nat /\ of.cursor <= of.size
  BY <1>1, <1>3, UserShown, UserFacts, RecordFacts
<1>5. to \in Nat /\ of.cursor <= to /\ to <= of.size
  BY <1>4 DEF SmallerOf
<1>6. answer' = Bytes(h, of.cursor, to)
  <2>1. PICK v \in user_fds :
          /\ v.fd = fd
          /\ answer' = Bytes(sys_files[v.file].first, sys_files[v.file].cursor,
                             sys_files'[v.file].cursor)
    BY DEF ReadBytes
  <2>2. v = u
    BY <1>3, <2>1, InvFacts DEF FdsApart
  <2>3. sys_files'[u.file] = r
    BY <1>3, InvFacts, TypeFacts, RecordUpdate DEF RecordStep
  <2> HIDE DEF to
  <2>. QED  BY <1>3, <2>1, <2>2, <2>3
<1>7. /\ UNCHANGED AllUsers /\ \A e \in Listed(dir, Root) : Extent(e)' = Extent(e)
      /\ AllCursors' = [AllCursors EXCEPT ![h] = to]
  <2> HIDE DEF to
  <2>. QED  BY <1>1, <1>3, <1>4, RecordPromised
<1>8. UNCHANGED <<AllNamed, AllTexts, AllKept>>
  BY <1>1, <1>3, <1>7, SameFiles DEF RecordStep, Kept
<1>9. UNCHANGED TheWriter
  BY <1>1, QuietWriter
<1>10. answer' = SubSeq(AllTexts[h], AllCursors[h] + 1, to)
  <2> HIDE DEF to, of, h
  <2>. QED  BY <1>4, <1>5, <1>6, BytesPart
<1>11. to = Promise!Shorter(AllCursors[h] + n, Len(AllTexts[h]))
  BY <1>4 DEF Promise!Shorter, SmallerOf
<1> DEFINE v == <<u.fd, h>>
<1>12. v \in AllUsers /\ v[1] = fd /\ v[2] = h
  BY <1>3, <1>4
<1> HIDE DEF v, h, to, of
<1>13. \E w \in AllUsers :
        LET t == Promise!Shorter(AllCursors[w[2]] + n, Len(AllTexts[w[2]])) IN
        /\ w[1] = fd
        /\ answer' = SubSeq(AllTexts[w[2]], AllCursors[w[2]] + 1, t)
        /\ AllCursors' = [AllCursors EXCEPT ![w[2]] = t]
  BY <1>7, <1>10, <1>11, <1>12
<1>. QED  BY <1>1, <1>7, <1>8, <1>9, <1>13, QuietWriter DEF Promise!Read, Promise!Quiet

\* cat shows as much of the text as the directory knows of.
LEMMA CatPromised ==
  ASSUME ContentsInv, ContentsInv', NEW n \in AnyName, Cat(n)
  PROVE  Promise!Refuse \/ (n \in Name /\ Promise!Cat(n))
<1>1. op = Idle /\ op' = Idle /\ UNCHANGED <<fat, dir, openVars, op, data, typed>>
  BY DEF Cat, foVars, diskVars, Kept
<1>2. CASE Answered
  BY <1>1, <1>2, Refused
<1>3. CASE ~Answered
  <2>1. PICK e \in Find(dir, Root, n) : e.attr = ATTR_FILE /\ answer' = Bytes(e.first, 0, e.size)
    BY <1>3 DEF Cat, Answered
  <2>2. n \in Name /\ e \in Listed(dir, Root) /\ e.name = n
    BY <2>1, FoundFiles, AttrsDiffer
  <2>3. FilesShown
    BY FilesMapped
  <2>4. AllNamed[n] = e.first /\ AllKept[e.first] = e.size /\ e.first # NoBlock
    BY <2>2, <2>3, FileFacts, BlockFacts DEF FilesShown, NoBlock
  <2>5. /\ AllTexts[e.first] = Bytes(e.first, 0, Extent(e))
        /\ Extent(e) \in Nat /\ e.first \in DataBlock /\ e.size \in Nat /\ e.size <= Extent(e)
    BY <2>2, TextFacts
  <2>6. SubSeq(Bytes(e.first, 0, Extent(e)), 1, e.size) = Bytes(e.first, 0, e.size)
    <3>1. PICK b \in DataBlock, m \in Nat, from \in Nat, to \in Nat :
            b = e.first /\ m = Extent(e) /\ from = 0 /\ to = e.size /\ from <= to /\ to <= m
      BY <2>5
    <3>2. SubSeq(Bytes(b, 0, m), from + 1, to) = Bytes(b, from, to)
      <4>1. from <= to /\ to <= m
        BY <3>1
      <4>. QED  BY <4>1, BytesPart
    <3>3. from + 1 = 1
      BY <3>1
    <3>. QED  BY <3>1, <3>2, <3>3
  <2>7. UNCHANGED <<AllUsers, AllCursors, TheWriter>> /\ \A x : Extent(x)' = Extent(x)
    BY <1>1, SameTables
  <2>8. UNCHANGED <<AllNamed, AllTexts, AllKept>>
    BY <1>1, <2>7, SameFiles
  <2>. QED  BY <1>1, <2>1, <2>2, <2>4, <2>5, <2>6, <2>7, <2>8, QuietWriter
            DEF Promise!Cat, Promise!Quiet
<1>. QED  BY <1>2, <1>3

LEMMA WriteTextPromised ==
  ASSUME ContentsInv, ContentsInv', NEW fd, NEW t \in Texts, WriteText(fd, t)
  PROVE  Promise!Write(fd, t)
<1>1. /\ Write(fd, Len(t)) /\ typed' = t /\ data' = data /\ answer' = <<>>
      /\ Len(t) \in Nat \ {0}
  BY TextsTyped DEF WriteText, Answered
<1>2. op = Idle /\ UNCHANGED <<fat, dir, openVars>>
  BY <1>1, WriteEffect
<1>3. PICK u \in user_fds :
        /\ u.fd = fd /\ op'.cmd = "write" /\ op'.file = u.file
        /\ op'.pos = sys_files[u.file].cursor
  BY <1>1, WriteEffect
<1> DEFINE h == sys_files[u.file].first
<1>4. <<u.fd, h>> \in AllUsers /\ AllCursors[h] = sys_files[u.file].cursor
  BY UserShown
<1>5. TheWriter' = [id |-> h, pos |-> AllCursors[h], rest |-> t]
  <2>1. TheWriter' = [id |-> sys_files'[op'.file].first, pos |-> op'.pos, rest |-> typed']
    BY <1>3 DEF TheWriter
  <2>2. sys_files' = sys_files
    BY <1>2 DEF openVars
  <2>. QED  BY <1>1, <1>3, <1>4, <2>1, <2>2
<1>6. UNCHANGED <<AllUsers, AllCursors>>
  BY <1>2 DEF openVars, AllUsers, AllCursors, TheCursor, IsOpen
<1>7. ASSUME NEW e \in Listed(dir, Root) PROVE Extent(e)' = Extent(e)
  <2>1. RecordsShown /\ RecordsShown'
    BY RecordsMapped, ShownNext
  <2>2. e \in Listed(dir', Root) /\ \A i : InUse(i)' <=> InUse(i)
    BY <1>2 DEF openVars, InUse
  <2>3. CASE IsOpen(e.first)
    <3>1. PICK j : InUse(j) /\ sys_files[j].first = e.first
      BY <2>3, InvFacts, UsedIsOpen
    <3>2. Extent(e) = GrownSize(j)
      BY <2>1, <3>1 DEF RecordsShown
    <3>3. Extent(e)' = GrownSize(j)'
      <4>1. InUse(j)' /\ sys_files'[j].first = e.first
        BY <1>2, <2>2, <3>1 DEF openVars
      <4>. QED  BY <2>1, <2>2, <4>1 DEF RecordsShown
    <3>4. GrownSize(j) = sys_files[j].size
      BY <1>2 DEF GrownSize, Idle
    <3>5. GrownSize(j)' = sys_files[j].size
      <4>1. /\ sys_files[j].size \in Nat /\ sys_files[j].cursor \in Nat
            /\ sys_files[j].cursor <= sys_files[j].size
        BY <3>1, RecordFacts
      <4>2. \A a, b \in Nat : a <= b => LargerOf(a, b) = b
        BY DEF LargerOf
      <4>3. sys_files' = sys_files
        BY <1>2 DEF openVars
      <4>4. GrownSize(j)' = IF j = u.file THEN LargerOf(sys_files[j].cursor, sys_files[j].size)
                            ELSE sys_files[j].size
        BY <1>3, <4>3 DEF GrownSize
      <4>. QED  BY <4>1, <4>2, <4>4
    <3>. QED  BY <3>2, <3>3, <3>4, <3>5
  <2>4. CASE ~IsOpen(e.first)
    <3>1. ~IsOpen(e.first)'
      BY <1>2, <2>4 DEF openVars, IsOpen
    <3>. QED  BY <2>1, <2>2, <2>4, <3>1 DEF RecordsShown
  <2>. QED  BY <2>3, <2>4
<1>8. UNCHANGED <<AllNamed, AllTexts, AllKept>>
  BY <1>1, <1>2, <1>7, SameFiles
<1> DEFINE v == <<u.fd, h>>
<1>9. v \in AllUsers /\ v[1] = fd /\ v[2] = h
  BY <1>3, <1>4
<1> HIDE DEF v, h
<1>10. \E w \in AllUsers :
         w[1] = fd /\ TheWriter' = [id |-> w[2], pos |-> AllCursors[w[2]], rest |-> t]
  BY <1>5, <1>9
<1>. QED  BY <1>1, <1>2, <1>6, <1>8, <1>10, QuietWriter
          DEF Promise!Write, Promise!Quiet, Promise!Silent

\* The writer while a text is written.
LEMMA WriterShown ==
  ASSUME ContentsInv, op.cmd = "write"
  PROVE  /\ TheWriter = [id |-> sys_files[op.file].first, pos |-> op.pos, rest |-> typed]
         /\ TheWriter # Promise!NoWriter
         /\ typed \in Seq(Byte) /\ Len(typed) = op.left
<1>1. TheWriter = [id |-> sys_files[op.file].first, pos |-> op.pos, rest |-> typed]
  BY DEF TheWriter
<1>2. "id" \in DOMAIN TheWriter
  BY <1>1
<1>3. DOMAIN Promise!NoWriter = {"pos", "rest"}
  BY DEF Promise!NoWriter
<1>4. TheWriter # Promise!NoWriter
  <2>1. "id" \notin DOMAIN Promise!NoWriter
    BY <1>3
  <2>. QED  BY <1>2, <2>1
<1>5. typed \in Seq(Byte) /\ Len(typed) = op.left
  BY InvFacts DEF BytesTyped
<1>. QED  BY <1>1, <1>4, <1>5

LEMMA WriteDonePromised ==
  ASSUME ContentsInv, ContentsInv', WriteDone
  PROVE  Promise!WriteEnd
<1>1. WriteEnd /\ typed' = <<>> /\ data' = data /\ answer' = <<>>
  BY DEF WriteDone, Answered
<1>2. op.cmd = "write" /\ op' = Idle /\ (op.left = 0 \/ FatFree(fat) = {})
  BY <1>1, WriteEndEffect DEF Writing
<1> DEFINE i == op.file
           h == sys_files[i].first
           r == Written(sys_files[i], op.pos)
<1>3. /\ RecordStep(i, r) /\ InUse(i)
      /\ r.size = LargerOf(op.pos, sys_files[i].size) /\ r.cursor = op.pos
  BY <1>1, WriteEndEffect
<1>4. r.size = GrownSize(i)
  BY <1>2, <1>3 DEF GrownSize
<1> HIDE DEF r
<1>5. /\ UNCHANGED AllUsers /\ \A e \in Listed(dir, Root) : Extent(e)' = Extent(e)
      /\ AllCursors' = [AllCursors EXCEPT ![h] = op.pos]
  BY <1>2, <1>3, <1>4, RecordPromised
<1>6. UNCHANGED <<AllNamed, AllTexts, AllKept>>
  BY <1>1, <1>3, <1>5, SameFiles DEF RecordStep
<1>7. /\ TheWriter = [id |-> h, pos |-> op.pos, rest |-> typed] /\ TheWriter # Promise!NoWriter
      /\ typed \in Seq(Byte) /\ Len(typed) = op.left
  BY <1>2, WriterShown
<1>8. typed = <<>> \/ IsFull
  BY <1>2, <1>7 DEF IsFull
<1> HIDE DEF h
<1>9. TheWriter.id = h /\ TheWriter.pos = op.pos /\ TheWriter.rest = typed
  BY <1>7
<1>. QED  BY <1>1, <1>2, <1>5, <1>6, <1>7, <1>8, <1>9, QuietWriter
          DEF Promise!WriteEnd, Promise!Quiet, Promise!Silent

\* close lets the directory know of all bytes; the last close gives up the cursor.
LEMMA ClosePromised ==
  ASSUME ContentsInv, ContentsInv', NEW fd, Close(fd), Kept, Answered
  PROVE  Promise!Close(fd)
<1>1. /\ op = Idle /\ op' = Idle /\ UNCHANGED fat
      /\ DOMAIN sys_files' = DOMAIN sys_files /\ RecordsAlike
  BY CloseEffect
<1> PICK u \in user_fds : \E e \in Listed(dir, Root), k \in Entry :
      /\ u.fd = fd /\ user_fds' = user_fds \ {u}
      /\ e.first = sys_files[u.file].first
      /\ k.first = e.first /\ k.name = e.name /\ k.attr = e.attr
      /\ k.size = sys_files[u.file].size
      /\ ListedAre((Listed(dir, Root) \ {e}) \cup {k})
  BY CloseEffect
<1>2. PICK e \in Listed(dir, Root), k \in Entry :
        /\ u.fd = fd /\ user_fds' = user_fds \ {u}
        /\ e.first = sys_files[u.file].first
        /\ k.first = e.first /\ k.name = e.name
        /\ k.size = sys_files[u.file].size
        /\ ListedAre((Listed(dir, Root) \ {e}) \cup {k})
  OBVIOUS
<1> DEFINE h == e.first
           size == sys_files[u.file].size
<1>3. Listed(dir', Root) = (Listed(dir, Root) \ {e}) \cup {k}
  BY <1>2, InvFacts DEF ListedAre
<1>4. /\ FilesShown /\ FilesShown' /\ RecordsShown /\ RecordsShown'
      /\ UsersServed /\ UsersServed' /\ TableInv /\ TableInv'
  BY FilesMapped, RecordsMapped, ShownNext, TablesNext, InvFacts, InUseNow
<1>5. \A j : InUse(j) => /\ j \in DOMAIN sys_files /\ sys_files'[j].first = sys_files[j].first
                         /\ sys_files'[j].size = sys_files[j].size
                         /\ sys_files'[j].cursor = sys_files[j].cursor
                         /\ GrownSize(j) = sys_files[j].size
                         /\ GrownSize(j)' = sys_files[j].size
  BY <1>1 DEF RecordsAlike, InUse, GrownSize, Idle
<1>6. /\ \A j : InUse(j)' => InUse(j)
      /\ \A j : InUse(j) /\ j # u.file => InUse(j)'
  <2>1. /\ \A j : InUse(j) <=> \E v \in user_fds : v.file = j
        /\ \A j : InUse(j)' <=> \E v \in user_fds' : v.file = j
    BY <1>4 DEF UsersServed
  <2>2. \A j : InUse(j)' => InUse(j)
    BY <1>2, <2>1
  <2>3. ASSUME NEW j, InUse(j), j # u.file PROVE InUse(j)'
    BY <1>2, <2>1, <2>3
  <2>. QED  BY <2>2, <2>3
<1>7. /\ InUse(u.file) /\ sys_files[u.file].first = h /\ h \in DataBlock /\ size \in Nat
      /\ \A j : InUse(j) /\ sys_files[j].first = h => j = u.file
  <2>1. InUse(u.file) /\ sys_files[u.file].first \in DataBlock /\ size \in Nat
    BY UserFacts, RecordFacts
  <2>2. ASSUME NEW j, InUse(j), sys_files[j].first = h PROVE j = u.file
    BY <1>2, <1>4, <2>1, <2>2 DEF TableInv, OneRecordPerFile, InUse
  <2>. QED  BY <1>2, <2>1, <2>2
<1>8. /\ \A b : IsOpen(b) <=> \E j : InUse(j) /\ sys_files[j].first = b
      /\ \A b : IsOpen(b)' <=> \E j : InUse(j)' /\ sys_files'[j].first = b
  BY <1>4, UsedIsOpen, UsedIsOpenNext
<1>9. Extent(e) = size /\ Extent(k)' = size
  <2>1. Extent(e) = size
    BY <1>4, <1>5, <1>7 DEF RecordsShown
  <2>2. k \in Listed(dir', Root)
    BY <1>3
  <2>3. CASE IsOpen(h)'
    <3>1. PICK j : InUse(j)' /\ sys_files'[j].first = h
      BY <1>8, <2>3
    <3>2. j = u.file /\ GrownSize(j)' = size
      BY <1>5, <1>6, <1>7, <3>1
    <3>3. Extent(k)' = GrownSize(j)'
      BY <1>2, <1>4, <2>2, <3>1 DEF RecordsShown
    <3>. QED  BY <2>1, <3>2, <3>3
  <2>4. CASE ~IsOpen(h)'
    <3>1. Extent(k)' = k.size
      BY <1>2, <1>4, <2>2, <2>4 DEF RecordsShown
    <3>. QED  BY <1>2, <2>1, <3>1
  <2>. QED  BY <2>3, <2>4
<1>10. ASSUME NEW x \in Listed(dir, Root), x # e
       PROVE  x \in Listed(dir', Root) /\ Extent(x)' = Extent(x) /\ x.first # h
  <2>1. x \in Listed(dir', Root) /\ x.first # h
    BY <1>3, <1>10, EntriesKnown
  <2>2. CASE IsOpen(x.first)
    <3>1. PICK j : InUse(j) /\ sys_files[j].first = x.first
      BY <1>8, <2>2
    <3>2. j # u.file /\ InUse(j)' /\ sys_files'[j].first = x.first
          /\ GrownSize(j) = GrownSize(j)'
      BY <1>5, <1>6, <1>7, <2>1, <3>1
    <3>3. Extent(x) = GrownSize(j)
      BY <1>4, <3>1 DEF RecordsShown
    <3>4. Extent(x)' = GrownSize(j)'
      BY <1>4, <2>1, <3>2 DEF RecordsShown
    <3>. QED  BY <2>1, <3>2, <3>3, <3>4
  <2>3. CASE ~IsOpen(x.first)
    <3>1. ~IsOpen(x.first)'
      BY <1>5, <1>6, <1>8, <2>3
    <3>2. Extent(x) = x.size
      BY <1>4, <2>3 DEF RecordsShown
    <3>3. Extent(x)' = x.size
      BY <1>4, <2>1, <3>1 DEF RecordsShown
    <3>. QED  BY <2>1, <3>2, <3>3
  <2>. QED  BY <2>2, <2>3
<1>11. ASSUME NEW x \in Listed(dir, Root) PROVE LinksKept(x.first) /\ DataKept(x.first)
  BY <1>1 DEF LinksKept, DataKept, Kept
<1>12. AllNamed' = AllNamed
  <2>1. ASSUME NEW m \in Name PROVE AllNamed'[m] = AllNamed[m]
    <3>1. CASE \E x \in Listed(dir, Root) : x.name = m
      <4>1. PICK x \in Listed(dir, Root) : x.name = m
        BY <3>1
      <4>2. CASE x = e
        BY <1>2, <1>3, <1>4, <4>1, <4>2 DEF FilesShown
      <4>3. CASE x # e
        BY <1>3, <1>4, <4>1, <4>3 DEF FilesShown
      <4>. QED  BY <4>2, <4>3
    <3>2. CASE \A x \in Listed(dir, Root) : x.name # m
      <4>1. \A x \in Listed(dir', Root) : x.name # m
        BY <1>2, <1>3, <3>2
      <4>. QED  BY <1>4, <3>2, <4>1 DEF FilesShown
    <3>. QED  BY <3>1, <3>2
  <2>. QED  BY <2>1, MapsAt
<1>13. ASSUME NEW x \in DataBlock
       PROVE  /\ TheText(x)' = TheText(x)
              /\ AllKept'[x] = IF x = h THEN size ELSE AllKept[x]
  <2>1. CASE x = h
    <3>1. k \in Listed(dir', Root)
      BY <1>3
    <3>2. TheText(e.first)' = TheText(e.first)
      BY <1>2, <1>9, <1>11, <3>1, TextKept
    <3>3. AllKept'[k.first] = k.size
      BY <1>4, <3>1 DEF FilesShown
    <3>. QED  BY <1>2, <2>1, <3>2, <3>3
  <2>2. CASE x # h /\ \E y \in Listed(dir, Root) : y.first = x
    <3>1. PICK y \in Listed(dir, Root) : y.first = x
      BY <2>2
    <3>2. y # e /\ y \in Listed(dir', Root) /\ Extent(y)' = Extent(y)
      BY <1>10, <2>2, <3>1
    <3>3. TheText(y.first)' = TheText(y.first)
      BY <1>11, <3>2, TextKept
    <3>4. AllKept'[y.first] = AllKept[y.first]
      BY <1>4, <3>2 DEF FilesShown
    <3>. QED  BY <2>2, <3>1, <3>3, <3>4
  <2>3. CASE x # h /\ \A y \in Listed(dir, Root) : y.first # x
    <3>1. \A y \in Listed(dir', Root) : y.first # x
      BY <1>2, <1>3, <2>3
    <3>. QED  BY <1>4, <2>3, <3>1 DEF FilesShown
  <2>. QED  BY <2>1, <2>2, <2>3
<1> DEFINE w == <<u.fd, h>>
<1>14. AllUsers' = AllUsers \ {w}
  <2>1. \A v \in user_fds : sys_files'[v.file].first = sys_files[v.file].first
    BY <1>5, UserFacts
  <2>2. AllUsers' = {<<v.fd, sys_files[v.file].first>> : v \in user_fds \ {u}}
    BY <1>2, <2>1 DEF AllUsers
  <2>3. \A v \in user_fds : v.fd = u.fd => v = u
    BY InvFacts DEF FdsApart
  <2>4. sys_files[u.file].first = h
    BY <1>7
  <2>. QED  BY <2>2, <2>3, <2>4 DEF AllUsers
<1>15. w \in AllUsers /\ AllTexts[h] = TheText(h) /\ Len(AllTexts[h]) = size
  <2>1. w \in AllUsers
    BY <1>7 DEF AllUsers
  <2>2. Len(AllTexts[h]) = size
    BY <1>9, TextFacts
  <2>. QED  BY <1>7, <2>1, <2>2 DEF AllTexts
<1>16. Promise!UsedBy(h) = {w} <=> ~IsOpen(h)'
  <2>1. IsOpen(h)' <=> \E v \in user_fds \ {u} : sys_files[v.file].first = h
    <3>1. \A v \in user_fds : sys_files'[v.file].first = sys_files[v.file].first
      BY <1>5, UserFacts
    <3>. QED  BY <1>2, <3>1 DEF IsOpen
  <2>2. \A v \in user_fds : v.fd = u.fd => v = u
    BY InvFacts DEF FdsApart
  <2>3. ASSUME NEW v \in user_fds \ {u}, sys_files[v.file].first = h
        PROVE  Promise!UsedBy(h) # {w}
    <3>1. <<v.fd, h>> \in Promise!UsedBy(h)
      BY <2>3 DEF Promise!UsedBy, AllUsers
    <3>2. <<v.fd, h>> # w
      BY <2>2
    <3>. QED  BY <3>1, <3>2
  <2>4. ASSUME \A v \in user_fds \ {u} : sys_files[v.file].first # h
        PROVE  Promise!UsedBy(h) = {w}
    <3>1. ASSUME NEW x \in Promise!UsedBy(h) PROVE x = w
      <4>1. PICK v \in user_fds : x = <<v.fd, sys_files[v.file].first>>
        BY DEF Promise!UsedBy, AllUsers
      <4>2. x[2] = h
        BY DEF Promise!UsedBy
      <4>3. sys_files[v.file].first = h
        BY <4>1, <4>2
      <4>. QED  BY <2>4, <4>1, <4>3
    <3>2. w \in Promise!UsedBy(h)
      BY <1>15 DEF Promise!UsedBy
    <3>. QED  BY <3>1, <3>2
  <2>. QED  BY <2>1, <2>3, <2>4
<1>17. ASSUME NEW x \in DataBlock
       PROVE  TheCursor(x)' = IF x = h /\ ~IsOpen(h)' THEN 0 ELSE TheCursor(x)
  <2>1. CASE IsOpen(x)'
    <3>1. PICK j : InUse(j)' /\ sys_files'[j].first = x
      BY <1>8, <2>1
    <3>2. InUse(j) /\ sys_files[j].first = x /\ sys_files'[j].cursor = sys_files[j].cursor
      BY <1>5, <1>6, <3>1
    <3>3. TheCursor(x)' = sys_files'[j].cursor
      BY <1>4, <3>1 DEF RecordsShown
    <3>4. TheCursor(x) = sys_files[j].cursor
      BY <1>4, <3>2 DEF RecordsShown
    <3>. QED  BY <2>1, <3>2, <3>3, <3>4
  <2>2. CASE ~IsOpen(x)' /\ x = h
    BY <1>4, <2>2 DEF RecordsShown
  <2>3. CASE ~IsOpen(x)' /\ x # h
    <3>1. ~IsOpen(x)
      BY <1>5, <1>6, <1>7, <1>8, <2>3
    <3>. QED  BY <1>4, <2>3, <3>1 DEF RecordsShown
  <2>. QED  BY <2>1, <2>2, <2>3
<1>18. AllTexts' = AllTexts
  BY <1>13, MapsAt
<1>19. AllKept' = [AllKept EXCEPT ![h] = Len(AllTexts[h])]
  <2> HIDE DEF h, size
  <2>. QED  BY <1>7, <1>13, <1>15, MapsAt
<1>20. AllCursors' = [AllCursors EXCEPT ![h] =
                        IF Promise!UsedBy(h) = {w} THEN 0 ELSE AllCursors[h]]
  <2>1. AllCursors[h] = TheCursor(h)
    BY <1>7, MapsAt
  <2> HIDE DEF h, w
  <2>. QED  BY <1>7, <1>16, <1>17, <2>1, MapsAt
<1>21. w[1] = fd /\ w[2] = h
  BY <1>2
<1> HIDE DEF w, h
<1>22. \E v \in AllUsers :
         /\ v[1] = fd
         /\ AllUsers' = AllUsers \ {v}
         /\ AllKept' = [AllKept EXCEPT ![v[2]] = Len(AllTexts[v[2]])]
         /\ AllCursors' = [AllCursors EXCEPT ![v[2]] =
                             IF Promise!UsedBy(v[2]) = {v} THEN 0 ELSE @]
  BY <1>14, <1>15, <1>19, <1>20, <1>21
<1>. QED  BY <1>1, <1>12, <1>18, <1>22, QuietWriter
          DEF Promise!Close, Promise!Quiet, Promise!Silent, Answered

---------------------------------------------------------------------------
(* A turn of the loop of write *)

\* A part that does not go beyond the block of its first place, and the places in it.
LEMMA PartInBlock ==
  ASSUME NEW p \in Nat, NEW pos \in Nat, NEW part \in Nat,
         (pos % BlockSize) + part <= BlockSize
  PROVE  /\ p >= pos /\ p < pos + part => p \div BlockSize = pos \div BlockSize
         /\ p \div BlockSize = pos \div BlockSize =>
              (p % BlockSize) - (pos % BlockSize) = p - pos
<1> DEFINE q == pos \div BlockSize
           r == pos % BlockSize
           m == p \div BlockSize
           s == p % BlockSize
<1>1. /\ q \in Nat /\ r \in Nat /\ m \in Nat /\ s \in Nat /\ s < BlockSize /\ r < BlockSize
      /\ pos = BlockSize * q + r /\ p = BlockSize * m + s /\ r + part <= BlockSize
  BY Division
<1> HIDE DEF q, r, m, s
<1>2. BlockSize * q \in Int /\ BlockSize * m \in Int /\ BlockSize \in Nat
  BY <1>1, Products
<1>3. ASSUME p >= pos, p < pos + part PROVE m = q
  <2>1. CASE m < q
    <3>1. BlockSize * (m + 1) <= BlockSize * q /\ BlockSize * (m + 1) = BlockSize * m + BlockSize
      BY <1>1, <2>1, Products
    <3>. QED  BY <1>1, <1>2, <1>3, <3>1
  <2>2. CASE q < m
    <3>1. BlockSize * (q + 1) <= BlockSize * m /\ BlockSize * (q + 1) = BlockSize * q + BlockSize
      BY <1>1, <2>2, Products
    <3>. QED  BY <1>1, <1>2, <1>3, <3>1
  <2>. QED  BY <1>1, <2>1, <2>2
<1>4. m = q => s - r = p - pos
  BY <1>1, <1>2
<1>. QED  BY <1>3, <1>4 DEF q, r, m, s

\* The bytes of the file after the turn: those of the part, and the others as before.
LEMMA ByteWritten ==
  ASSUME ContentsInv, WriteBytes, NEW h, h = sys_files[op.file].first,
         NEW pos, pos = op.pos, NEW part, part = Part, NEW p \in Nat,
         p < GrownSize(op.file) \/ (p >= pos /\ p < pos + part)
  PROVE  ByteAt(h, p)' = IF p >= pos /\ p < pos + part THEN typed[p - pos + 1] ELSE ByteAt(h, p)
<1> DEFINE q == pos \div BlockSize
           m == p \div BlockSize
           s == p % BlockSize
           D == Destination
           B == NthBlock(fat, h, m)
<1>1. /\ WriteBlock
      /\ data' = [data EXCEPT ![D] = Filled(data[D])]
  BY DEF WriteBytes
<1>2. /\ pos \in Nat /\ h \in Heads /\ h \in DataBlock /\ part \in Nat
      /\ (pos % BlockSize) + part <= BlockSize
  BY <1>1, TurnFacts
<1>3. /\ D \in DataBlock /\ Sound(fat', Heads) /\ fat' \in [Block -> FatValue]
      /\ NthBlock(fat', h, q) = D /\ WalkKept(h, GrownSize(op.file))
  BY <1>1, TurnBlocks
<1>4. /\ p >= pos /\ p < pos + part => m = q
      /\ m = q => s - (pos % BlockSize) = p - pos
  BY <1>2, PartInBlock
<1>5. m \in Nat /\ q \in Nat /\ s \in Place /\ D # NoBlock /\ pos % BlockSize \in Nat /\ s \in Nat
  BY <1>2, <1>3, PlaceFacts, Division, BlockFacts DEF NoBlock
<1>6. p < GrownSize(op.file) => NthBlock(fat', h, m) = B
  BY <1>3 DEF WalkKept
<1>7. ByteAt(h, p)' = IF NthBlock(fat', h, m) = NoBlock THEN Zero ELSE data'[NthBlock(fat', h, m)][s]
  BY DEF ByteAt
<1>8. ByteAt(h, p) = IF B = NoBlock THEN Zero ELSE data[B][s]
  BY DEF ByteAt
<1>9. data \in [DataBlock -> [Place -> Byte]]
  BY InvFacts DEF BytesTyped
<1>10. Filled(data[D])[s] = IF s >= pos % BlockSize /\ s < (pos % BlockSize) + part
                            THEN typed[s - (pos % BlockSize) + 1] ELSE data[D][s]
  <2>1. Filled(data[D])[s] = IF s \in (pos % BlockSize) .. (pos % BlockSize) + part - 1
                             THEN typed[s - (pos % BlockSize) + 1] ELSE data[D][s]
    BY <1>5 DEF Filled
  <2> HIDE DEF D, s
  <2>2. s \in (pos % BlockSize) .. (pos % BlockSize) + part - 1
          <=> s >= pos % BlockSize /\ s < (pos % BlockSize) + part
    BY <1>2, <1>5
  <2>. QED  BY <2>1, <2>2
<1> HIDE DEF q, m, s, D, B
<1>11. CASE m = q
  <2>1. ByteAt(h, p)' = Filled(data[D])[s]
    BY <1>1, <1>3, <1>5, <1>7, <1>9, <1>11
  <2>2. s - (pos % BlockSize) = p - pos
    BY <1>4, <1>11
  <2>3. s >= pos % BlockSize /\ s < (pos % BlockSize) + part <=> p >= pos /\ p < pos + part
    BY <1>2, <1>5, <2>2
  <2>4. CASE p >= pos /\ p < pos + part
    BY <1>10, <2>1, <2>2, <2>3, <2>4
  <2>5. CASE ~(p >= pos /\ p < pos + part)
    <3>1. NthBlock(fat', h, m) = B /\ B = D
      BY <1>3, <1>6, <1>11, <2>5
    <3>2. ByteAt(h, p) = data[D][s]
      BY <1>5, <1>8, <3>1
    <3>3. ByteAt(h, p)' = data[D][s]
      BY <1>10, <2>1, <2>3, <2>5
    <3>. QED  BY <2>5, <3>2, <3>3
  <2>. QED  BY <2>4, <2>5
<1>12. CASE m # q
  <2>1. ~(p >= pos /\ p < pos + part) /\ NthBlock(fat', h, m) = B
    BY <1>4, <1>6, <1>12
  <2>2. B # D
    <3> SUFFICES ASSUME B = D PROVE FALSE
      OBVIOUS
    <3>1. Heads \in SUBSET DataBlock
      BY InvFacts, SoundFacts
    <3>2. CASE m < q
      <4>1. NthBlock(fat', h, m) # NthBlock(fat', h, q)
        BY <1>2, <1>3, <1>5, <3>1, <3>2, NthDistinct
      <4>. QED  BY <1>3, <2>1, <4>1
    <3>3. CASE q < m
      <4>1. NthBlock(fat', h, m) # NoBlock
        BY <1>5, <2>1
      <4>2. NthBlock(fat', h, q) # NthBlock(fat', h, m)
        BY <1>2, <1>3, <1>5, <3>1, <3>3, <4>1, NthDistinct
      <4>. QED  BY <1>3, <2>1, <4>2
    <3>. QED  BY <1>5, <1>12, <3>2, <3>3
  <2>3. B # NoBlock => B \in DataBlock
    <3>1. NthBlock(fat', h, m) \in Chain(fat', h) \cup {NoBlock}
      BY <1>2, <1>3, <1>5, NthInChain
    <3>. QED  BY <2>1, <3>1, ChainIsData
  <2>4. B # NoBlock => data'[B] = data[B]
    BY <1>1, <1>9, <2>2, <2>3
  <2>. QED  BY <1>7, <1>8, <2>1, <2>4
<1>. QED  BY <1>11, <1>12

\* Which files a turn of write changes, and how long they are afterwards.
LEMMA TurnExtents ==
  ASSUME ContentsInv, ContentsInv', WriteBytes, NEW e \in Listed(dir, Root)
  PROVE  /\ e.first = sys_files[op.file].first =>
              /\ Extent(e) = GrownSize(op.file)
              /\ Extent(e)' = LargerOf(Extent(e), op.pos + Part)
         /\ e.first # sys_files[op.file].first =>
              Extent(e)' = Extent(e) /\ LinksKept(e.first) /\ DataKept(e.first)
<1> DEFINE h == sys_files[op.file].first
<1>1. /\ WriteBlock
      /\ data' = [data EXCEPT ![Destination] = Filled(data[Destination])]
  BY DEF WriteBytes
<1>2. /\ op.cmd = "write" /\ InUse(op.file) /\ op.pos \in Nat /\ Part \in Nat
      /\ op'.cmd = "write" /\ op'.file = op.file /\ op'.pos = op.pos + Part
      /\ UNCHANGED <<dir, openVars>>
  BY <1>1, TurnFacts
<1>3. RecordsShown /\ RecordsShown' /\ e \in Listed(dir', Root)
  BY <1>2, RecordsMapped, ShownNext
<1>4. sys_files' = sys_files /\ (\A j : InUse(j)' <=> InUse(j)) /\ (\A b : IsOpen(b)' <=> IsOpen(b))
  BY <1>2 DEF openVars, InUse, IsOpen
<1>5. ASSUME e.first = h
      PROVE  Extent(e) = GrownSize(op.file) /\ Extent(e)' = LargerOf(Extent(e), op.pos + Part)
  <2>1. Extent(e) = GrownSize(op.file)
    BY <1>2, <1>3, <1>5 DEF RecordsShown
  <2>2. PICK i : i = op.file /\ InUse(i) /\ sys_files[i].first = e.first
    BY <1>2, <1>5
  <2>3. Extent(e)' = GrownSize(i)'
    BY <1>3, <1>4, <2>2 DEF RecordsShown
  <2>4. GrownSize(i)' = LargerOf(op.pos + Part, sys_files[i].size)
    BY <1>2, <1>4, <2>2 DEF GrownSize
  <2>5. GrownSize(i) = LargerOf(op.pos, sys_files[i].size)
    BY <1>2, <2>2 DEF GrownSize
  <2>6. sys_files[i].size \in Nat
    BY <2>2, RecordFacts
  <2>7. \A a, b, c \in Nat : LargerOf(a + c, b) = LargerOf(LargerOf(a, b), a + c)
    BY DEF LargerOf
  <2>. QED  BY <1>2, <2>1, <2>2, <2>3, <2>4, <2>5, <2>6, <2>7
<1>6. ASSUME e.first # h
      PROVE  Extent(e)' = Extent(e) /\ LinksKept(e.first) /\ DataKept(e.first)
  <2>1. Extent(e)' = Extent(e)
    <3>1. CASE IsOpen(e.first)
      <4>1. PICK j : InUse(j) /\ sys_files[j].first = e.first
        BY <3>1, InvFacts, UsedIsOpen
      <4>2. j # op.file
        BY <1>6, <4>1
      <4>3. GrownSize(j) = sys_files[j].size /\ GrownSize(j)' = sys_files[j].size
        BY <1>2, <1>4, <4>2 DEF GrownSize
      <4>4. Extent(e) = GrownSize(j)
        BY <1>3, <4>1 DEF RecordsShown
      <4>5. Extent(e)' = GrownSize(j)'
        BY <1>3, <1>4, <4>1 DEF RecordsShown
      <4>. QED  BY <4>3, <4>4, <4>5
    <3>2. CASE ~IsOpen(e.first)
      BY <1>3, <1>4, <3>2 DEF RecordsShown
    <3>. QED  BY <3>1, <3>2
  <2>2. e.first \in Heads
    BY FileFacts
  <2>3. LinksKept(e.first) /\ Destination \notin Chain(fat, e.first)
    BY <1>1, <1>6, <2>2, TurnBlocks
  <2>4. DataKept(e.first)
    <3>1. Chain(fat, e.first) \subseteq DataBlock /\ data \in [DataBlock -> [Place -> Byte]]
      BY ChainIsData, FileFacts, InvFacts DEF BytesTyped
    <3>. QED  BY <1>1, <2>3, <3>1 DEF DataKept
  <2>. QED  BY <2>1, <2>3, <2>4
<1>. QED  BY <1>5, <1>6

\* The text after the turn is the one before with the part put over it.
LEMMA TurnText ==
  ASSUME ContentsInv, ContentsInv', WriteBytes, NEW h, h = sys_files[op.file].first
  PROVE  TheText(h)' = Promise!Overlay(AllTexts[h], op.pos, SubSeq(typed, 1, Part))
<1>1. PICK pos, part, x : pos = op.pos /\ part = Part /\ x = GrownSize(op.file)
  OBVIOUS
<1>2. /\ op.cmd = "write" /\ InUse(op.file) /\ pos \in Nat /\ part \in Nat /\ part <= op.left
      /\ op.left \in Nat /\ UNCHANGED dir
  BY <1>1, TurnFacts DEF WriteBytes
<1>3. PICK e \in Listed(dir, Root) : e.first = h
  BY <1>2, RecordFacts
<1>4. /\ AllTexts[h] = Bytes(h, 0, x) /\ x \in Nat /\ Extent(e)' = LargerOf(x, pos + part)
  BY <1>1, <1>3, TurnExtents, TextFacts
<1>5. typed \in Seq(Byte) /\ Len(typed) = op.left
  BY <1>2, WriterShown
<1> DEFINE t == SubSeq(typed, 1, part)
           m == LargerOf(x, pos + part)
           s == AllTexts[h]
<1>6. Len(t) = part /\ \A k \in 1 .. part : t[k] = typed[k]
  <2>1. \A k \in 1 .. part : typed[k] \in Byte
    BY <1>2, <1>5
  <2>2. /\ Len(t) = IF 1 <= part THEN part - 1 + 1 ELSE 0
        /\ \A k \in 1 .. part - 1 + 1 : t[k] = typed[1 + k - 1]
    BY <1>2, <2>1, SubSeqProperties
  <2> HIDE DEF t
  <2>. QED  BY <1>2, <2>2
<1>7. Len(s) = x /\ \A k \in 1 .. x : s[k] = ByteAt(h, k - 1)
  BY <1>4 DEF Bytes
<1>8. m \in Nat /\ x <= m /\ pos + part <= m /\ (m = x \/ m = pos + part) /\ pos <= x
  <2>1. m \in Nat /\ x <= m /\ pos + part <= m /\ (m = x \/ m = pos + part)
    BY <1>2, <1>4 DEF LargerOf
  <2>2. pos <= x
    <3>1. sys_files[op.file].size \in Nat
      BY <1>2, RecordFacts
    <3>2. \A a, b \in Nat : a <= LargerOf(a, b)
      BY DEF LargerOf
    <3>. QED  BY <1>1, <1>2, <3>1, <3>2 DEF GrownSize
  <2>. QED  BY <2>1, <2>2
<1>9. TheText(h)' = [k \in 1 .. m |-> ByteAt(h, 0 + k - 1)']
  <2>1. e \in Listed(dir', Root)
    BY <1>2
  <2>2. TheText(e.first)' = Bytes(e.first, 0, Extent(e))'
    BY <2>1, ShownNext DEF FilesShown
  <2> HIDE DEF m
  <2>3. Extent(e)' = m /\ m - 0 = m
    BY <1>4, <1>8 DEF m
  <2>. QED  BY <1>3, <2>2, <2>3 DEF Bytes
<1>10. ASSUME NEW k \in 1 .. m
       PROVE  ByteAt(h, 0 + k - 1)' = IF k \in pos + 1 .. pos + part THEN t[k - pos] ELSE s[k]
  <2> HIDE DEF m, t, s
  <2>1. PICK p \in Nat : p = 0 + k - 1 /\ k = p + 1
    BY <1>8
  <2>2. k \in pos + 1 .. pos + part <=> p >= pos /\ p < pos + part
    BY <1>2, <2>1
  <2>3. p < x \/ (p >= pos /\ p < pos + part)
    BY <1>2, <1>4, <1>8, <2>1
  <2>4. ByteAt(h, p)' = IF p >= pos /\ p < pos + part THEN typed[p - pos + 1] ELSE ByteAt(h, p)
    BY <1>1, <2>3, ByteWritten
  <2>5. CASE p >= pos /\ p < pos + part
    <3>1. p - pos + 1 = k - pos /\ k - pos \in 1 .. part
      BY <1>2, <2>1, <2>5
    <3>2. t[k - pos] = typed[k - pos]
      BY <1>6, <3>1
    <3>. QED  BY <2>1, <2>2, <2>4, <2>5, <3>1, <3>2
  <2>6. CASE ~(p >= pos /\ p < pos + part)
    <3>1. k \in 1 .. x /\ k - 1 = p
      BY <1>4, <2>1, <2>3, <2>6
    <3>2. s[k] = ByteAt(h, p)
      BY <1>7, <3>1
    <3>. QED  BY <2>1, <2>2, <2>4, <2>6, <3>2
  <2>. QED  BY <2>5, <2>6
<1>11. m = Promise!Longer(Len(s), pos + Len(t))
  BY <1>2, <1>4, <1>6, <1>7 DEF Promise!Longer, LargerOf
<1>12. Promise!Overlay(s, pos, t) =
         [k \in 1 .. Promise!Longer(Len(s), pos + Len(t)) |->
            IF k \in pos + 1 .. pos + Len(t) THEN t[k - pos] ELSE s[k]]
  BY DEF Promise!Overlay
<1> HIDE DEF m, t, s
<1>13. TheText(h)' = Promise!Overlay(s, pos, t)
  BY <1>6, <1>9, <1>10, <1>11, <1>12
<1>. QED  BY <1>1, <1>13 DEF s, t

LEMMA WriterFields ==
  ASSUME NEW w, NEW i, NEW p, NEW s, w = [id |-> i, pos |-> p, rest |-> s]
  PROVE  /\ w.id = i /\ w.pos = p /\ w.rest = s
OBVIOUS

LEMMA WriteBytesPromised ==
  ASSUME ContentsInv, ContentsInv', WriteBytes
  PROVE  Promise!WritePiece
<1> DEFINE h == sys_files[op.file].first
<1>1. /\ WriteBlock /\ answer' = <<>> /\ typed' = SubSeq(typed, Part + 1, Len(typed))
  BY DEF WriteBytes, Answered
<1>2. /\ op.cmd = "write" /\ InUse(op.file) /\ h \in DataBlock
      /\ Part \in Nat /\ Part >= 1 /\ Part <= op.left /\ op.left \in Nat
      /\ op'.cmd = "write" /\ op'.file = op.file /\ op'.pos = op.pos + Part
      /\ UNCHANGED <<dir, openVars>>
  BY <1>1, TurnFacts
<1>3. /\ TheWriter = [id |-> h, pos |-> op.pos, rest |-> typed] /\ TheWriter # Promise!NoWriter
      /\ Len(typed) = op.left
  BY <1>2, WriterShown
<1>4. TheWriter' = [id |-> h, pos |-> op.pos + Part, rest |-> SubSeq(typed, Part + 1, Len(typed))]
  <2>1. TheWriter' = [id |-> sys_files'[op'.file].first, pos |-> op'.pos, rest |-> typed']
    BY <1>2 DEF TheWriter
  <2>2. sys_files' = sys_files
    BY <1>2 DEF openVars
  <2>. QED  BY <1>1, <1>2, <2>1, <2>2
<1>5. UNCHANGED <<AllUsers, AllCursors>>
  BY <1>2 DEF openVars, AllUsers, AllCursors, TheCursor, IsOpen
<1>6. UNCHANGED <<AllNamed, AllKept>>
  BY <1>2 DEF AllNamed, AllKept, TheNamed, TheFile, FilesAt
<1>7. ASSUME NEW b \in DataBlock
      PROVE  TheText(b)' = IF b = h
                           THEN Promise!Overlay(AllTexts[h], op.pos, SubSeq(typed, 1, Part))
                           ELSE TheText(b)
  <2>1. CASE b = h
    <3>1. PICK g : g = h
      OBVIOUS
    <3>2. TheText(g)' = Promise!Overlay(AllTexts[g], op.pos, SubSeq(typed, 1, Part))
      BY <3>1, TurnText
    <3>. QED  BY <2>1, <3>1, <3>2
  <2>2. CASE b # h /\ \E e \in Listed(dir, Root) : e.first = b
    <3>1. PICK e \in Listed(dir, Root) : e.first = b
      BY <2>2
    <3>2. Extent(e)' = Extent(e) /\ LinksKept(e.first) /\ DataKept(e.first)
      BY <2>2, <3>1, TurnExtents
    <3>3. e \in Listed(dir', Root)
      BY <1>2
    <3>4. TheText(e.first)' = TheText(e.first)
      BY <3>2, <3>3, TextKept
    <3>. QED  BY <2>2, <3>1, <3>4
  <2>3. CASE b # h /\ \A e \in Listed(dir, Root) : e.first # b
    <3>1. \A e \in Listed(dir', Root) : e.first # b
      BY <1>2, <2>3
    <3>. QED  BY <2>3, <3>1, FilesMapped, ShownNext DEF FilesShown
  <2>. QED  BY <2>1, <2>2, <2>3
<1> HIDE DEF h
<1>8. AllTexts' = [AllTexts EXCEPT ![h] =
                     Promise!Overlay(AllTexts[h], op.pos, SubSeq(typed, 1, Part))]
  BY <1>2, <1>7, MapsAt
<1>9. /\ TheWriter.id = h /\ TheWriter.pos = op.pos /\ TheWriter.rest = typed
  BY <1>3, WriterFields
<1>10. Part \in 1 .. Len(TheWriter.rest)
  BY <1>2, <1>3, <1>9
<1>11. PICK k \in 1 .. Len(TheWriter.rest) : k = Part
  BY <1>10
<1>12. /\ AllTexts' = [AllTexts EXCEPT ![TheWriter.id] =
                         Promise!Overlay(@, TheWriter.pos, SubSeq(TheWriter.rest, 1, k))]
       /\ TheWriter' = [id |-> TheWriter.id, pos |-> TheWriter.pos + k,
                        rest |-> SubSeq(TheWriter.rest, k + 1, Len(TheWriter.rest))]
  BY <1>4, <1>8, <1>9, <1>11
<1>. QED  BY <1>1, <1>3, <1>5, <1>6, <1>12
          DEF Promise!WritePiece, Promise!Quiet, Promise!Silent

---------------------------------------------------------------------------
(* The promise is kept *)

LEMMA InitPromised == ContentsInit /\ AtRoot => Promise!Init
<1> SUFFICES ASSUME ContentsInit, AtRoot PROVE Promise!Init
  OBVIOUS
<1>1. FilesShown
  BY InitContents, FilesMapped
<1>2. user_fds = {} /\ op = Idle /\ dir = FormatDir /\ answer = <<>>
  BY DEF ContentsInit, FOInit
<1>3. Listed(dir, Root) = {}
  BY <1>2, BlockFacts DEF FormatDir, InitDir, NewEntry, StoredName, Listed, Dots
<1>4. /\ \A n \in Name : AllNamed[n] = NoBlock
      /\ \A b \in DataBlock : TheText(b) = <<>> /\ AllKept[b] = 0
  BY <1>1, <1>3 DEF FilesShown
<1>5. \A b \in DataBlock : TheCursor(b) = 0
  BY <1>2 DEF TheCursor, IsOpen
<1>6. /\ AllNamed = [n \in Name |-> NoBlock] /\ AllTexts = [b \in DataBlock |-> <<>>]
      /\ AllKept = [b \in DataBlock |-> 0] /\ AllCursors = [b \in DataBlock |-> 0]
  BY <1>4, <1>5, MapsAt
<1>7. AllUsers = {} /\ IsFull \in BOOLEAN
  BY <1>2 DEF AllUsers, IsFull
<1>. QED  BY <1>2, <1>6, <1>7, QuietWriter DEF Promise!Init

LEMMA StepPromised ==
  ASSUME OrderlyReads, ContentsInv, ContentsInv', ContentsNext
  PROVE  Promise!Next
<1>0. IsFull' \in BOOLEAN
  BY DEF IsFull
<1>1. ASSUME NEW n \in AnyName, Create(Root, n), Kept, Answered PROVE Promise!Next
  BY <1>0, <1>1, CreatePromised DEF Promise!Next, OrderlyReads, Orderly
<1>2. ASSUME NEW n \in AnyName, Open(Root, n), Kept, Answered PROVE Promise!Next
  BY <1>0, <1>2, OpenPromised DEF Promise!Next
<1>3. ASSUME NEW n \in AnyName, CanRemove(Root, n), Remove(Root, n), Kept, Answered
      PROVE  Promise!Next
  <2>1. NotOpen(Root, n)
    BY <1>3 DEF CanRemove, Allows, OrderlyReads, Orderly, UsedWithCare
  <2>. QED  BY <1>0, <1>3, <2>1, RemovePromised DEF Promise!Next
<1>4. ASSUME NEW n \in AnyName, Cat(n) PROVE Promise!Next
  BY <1>0, <1>4, CatPromised DEF Promise!Next
<1>5. ASSUME NEW fd \in 0 .. MaxFds - 1, Close(fd), Kept, Answered PROVE Promise!Next
  BY <1>0, <1>5, ClosePromised DEF Promise!Next
<1>6. ASSUME NEW fd \in 0 .. MaxFds - 1, NEW n \in ReadSizes, Seek(fd, n), Kept, Answered
      PROVE  Promise!Next
  <2>1. n \in Nat
    BY FileOpsAssumption
  <2>. QED  BY <1>0, <1>6, <2>1, SeekPromised DEF Promise!Next
<1>7. ASSUME NEW fd \in 0 .. MaxFds - 1, NEW n \in ReadSizes, CanAsk(fd, n), ReadBytes(fd, n)
      PROVE  Promise!Next
  <2>1. n \in Nat
    BY FileOpsAssumption
  <2>2. InRange(fd, n)
    BY <1>7 DEF CanAsk, Allows, OrderlyReads
  <2>. QED  BY <1>0, <1>7, <2>1, <2>2, ReadPromised DEF Promise!Next
<1>8. ASSUME NEW fd \in 0 .. MaxFds - 1, NEW t \in Texts, WriteText(fd, t) PROVE Promise!Next
  BY <1>0, <1>8, WriteTextPromised DEF Promise!Next
<1>9. ASSUME WriteBytes PROVE Promise!Next
  BY <1>0, <1>9, WriteBytesPromised DEF Promise!Next
<1>10. ASSUME WriteDone PROVE Promise!Next
  BY <1>0, <1>10, WriteDonePromised DEF Promise!Next
<1>. QED  BY <1>1, <1>2, <1>3, <1>4, <1>5, <1>6, <1>7, <1>8, <1>9, <1>10 DEF ContentsNext

\* Files behave as sequences of bytes of their own, whatever the size of blocks and
\* disk: what is written through a descriptor is what read of that file shows at once,
\* and cat as far as close has written the size back; nothing else changes it.  The
\* working directory does not occur in ContentsSpec; AtRoot says that it is the one
\* Contents works in (create, open, close, read, write, remove, seek, cat).
THEOREM FilesHoldTheirBytes ==
  ASSUME OrderlyReads
  PROVE  ContentsSpec /\ []AtRoot => FilesAreByteSequences
<1>1. ContentsInv /\ AtRoot' /\ [ContentsNext]_contentsVars => ContentsInv'
  BY NextContents
<1>2. ContentsInv /\ ContentsInv' /\ [ContentsNext]_contentsVars => [Promise!Next]_(Promise!vars)
  <2> SUFFICES ASSUME ContentsInv, ContentsInv', [ContentsNext]_contentsVars
               PROVE  Promise!Next \/ UNCHANGED Promise!vars
    OBVIOUS
  <2>1. CASE UNCHANGED contentsVars
    <3>1. UNCHANGED <<fat, dir, openVars, op, data, typed, answer>>
      BY <2>1 DEF contentsVars, foVars, diskVars
    <3>2. UNCHANGED <<AllUsers, AllCursors, TheWriter>> /\ \A e : Extent(e)' = Extent(e)
      BY <3>1, SameTables
    <3>3. UNCHANGED <<AllNamed, AllTexts, AllKept>>
      BY <3>1, <3>2, SameFiles
    <3>4. IsFull' = IsFull
      BY <3>1 DEF IsFull
    <3>. QED  BY <3>1, <3>2, <3>3, <3>4 DEF Promise!vars
  <2>2. CASE ContentsNext
    BY <2>2, StepPromised
  <2>. QED  BY <2>1, <2>2
<1>. QED  BY <1>1, <1>2, InitContents, InitPromised, PTL
          DEF ContentsSpec, FilesAreByteSequences, Promise!Spec
===========================================================================
