--------------------------- MODULE CarefulProofs ---------------------------
(***************************************************************************)
(* For a user who takes care the disk stays sound, on a disk of any size,  *)
(* with any names, and for any number of files and directories: DiskInv is *)
(* kept by every command, and the properties of blocks and directories     *)
(* that the runs check follow from it.  There is one group of lemmas for   *)
(* what commands do to directories, one for what they do to blocks, and    *)
(* one lemma per command that puts the two together.                       *)
(***************************************************************************)
EXTENDS CarefulUse, FileSystemProofs

---------------------------------------------------------------------------
(* Heads, directories and parents, entry by entry *)

LEMMA InHeads ==
  /\ \A x \in DataBlock :
       x \in Heads <=> dir[x] # {} \/ \E d \in DataBlock : \E e \in Listed(dir, d) : e.first = x
  /\ \A x \in DataBlock :
       x \in Heads' <=> dir'[x] # {} \/ \E d \in DataBlock : \E e \in Listed(dir', d) : e.first = x
BY DEF Heads

LEMMA InDirectories ==
  /\ \A x : x \in Directories <=>
       x = Root \/ \E d \in DataBlock : \E e \in Listed(dir, d) : e.attr = ATTR_DIR /\ e.first = x
  /\ \A x : x \in Directories' <=>
       x = Root \/ \E d \in DataBlock : \E e \in Listed(dir', d) : e.attr = ATTR_DIR /\ e.first = x
BY DEF Directories

LEMMA ListedType ==
  ASSUME NEW ds \in [Block -> SUBSET Entry], NEW d \in DataBlock
  PROVE  \A e \in Listed(ds, d) : /\ e \in Entry /\ e \in ds[d] /\ e.name \notin Dots
                                  /\ e.first \in DataBlock
                                  /\ e.attr = ATTR_FILE \/ e.attr = ATTR_DIR
BY BlockFacts DEF Listed, Entry

LEMMA HeadsType ==
  ASSUME TypeInv
  PROVE  Heads \in SUBSET DataBlock
BY TypeFacts, ListedType DEF Heads

LEMMA HeadsTypeNext ==
  ASSUME TypeInv'
  PROVE  Heads' \in SUBSET DataBlock
<1>1. dir' \in [Block -> SUBSET Entry]
  BY DEF TypeInv, TypeOK, DirectoryTypeOK
<1>. QED  BY <1>1, ListedType DEF Heads

LEMMA SameParent ==
  ASSUME NEW ds, NEW es, NEW d, Find(ds, d, DotDot) = Find(es, d, DotDot)
  PROVE  ParentBlock(ds, d) = ParentBlock(es, d)
BY DEF ParentBlock

\* A directory of the tree has entries, "." and ".." at least.
LEMMA DirectoryFacts ==
  ASSUME TypeInv, DirInv, NEW d \in Directories
  PROVE  /\ d \in DataBlock /\ d \in Heads
         /\ dir[d] # {} /\ Find(dir, d, Dot) # {} /\ Find(dir, d, DotDot) # {}
<1>1. d \in DataBlock
  BY InDirectories, BlockFacts, TypeFacts, ListedType
<1>2. dir[d] # {}
  BY InDirectories DEF DirInv, DotsKept, KindsAgree
<1>. QED  BY <1>1, <1>2, InHeads DEF DirInv, DotsKept

\* A block that is no head is not the first block of anything.
LEMMA NotHead ==
  ASSUME NEW b \in DataBlock, b \notin Heads
  PROVE  dir[b] = {} /\ \A d \in DataBlock : \A e \in Listed(dir, d) : e.first # b
BY InHeads

LEMMA AttrsDiffer == ATTR_FILE # ATTR_DIR
BY DEF ATTR_FILE, ATTR_DIR

---------------------------------------------------------------------------
(* What commands do to directories *)

\* create enters a file whose first block b was nothing's before.
LEMMA FileAdded ==
  ASSUME TypeInv, TypeInv', DirInv,
         NEW d \in Directories, NEW b \in DataBlock, b \notin Heads,
         NEW e \in Entry, e.first = b, e.attr = ATTR_FILE, e.name \notin Dots,
         dir' = [dir EXCEPT ![d] = @ \cup {e}]
  PROVE  DirInv' /\ Heads' = Heads \cup {b} /\ Directories' = Directories
<1>1. /\ d \in DataBlock /\ dir[d] # {} /\ dir[b] = {} /\ b # d
      /\ \A c \in DataBlock : \A k \in Listed(dir, c) : k.first # b
  BY DirectoryFacts, NotHead
<1>2. \A c \in DataBlock : dir'[c] = IF c = d THEN dir[d] \cup {e} ELSE dir[c]
  BY TypeFacts, BlockFacts, <1>1
<1>3. \A c \in DataBlock :
        Listed(dir', c) = IF c = d THEN Listed(dir, d) \cup {e} ELSE Listed(dir, c)
  BY <1>2 DEF Listed
<1>4. \A c \in DataBlock, n \in Dots : Find(dir', c, n) = Find(dir, c, n)
  BY <1>2 DEF Find
<1>5. \A c \in DataBlock : ParentBlock(dir', c) = ParentBlock(dir, c)
  BY <1>4, SameParent DEF Dots
<1>6. \A c \in DataBlock : dir'[c] = {} <=> dir[c] = {}
  BY <1>1, <1>2
<1>7. Directories' = Directories
  <2>1. \A c \in DataBlock : \A k : k.attr = ATTR_DIR =>
          (k \in Listed(dir', c) <=> k \in Listed(dir, c))
    BY <1>3, AttrsDiffer
  <2>. QED  BY <2>1, InDirectories
<1>8. Heads' = Heads \cup {b}
  <2>1. \A x \in DataBlock : x \in Heads => x \in Heads'
    BY <1>3, <1>6, InHeads
  <2>2. b \in Heads'
    BY <1>1, <1>3, InHeads
  <2>3. ASSUME NEW x \in DataBlock, x \in Heads' PROVE x \in Heads \/ x = b
    <3>1. CASE dir'[x] # {}
      BY <1>6, <3>1, InHeads
    <3>2. CASE \E c \in DataBlock : \E k \in Listed(dir', c) : k.first = x
      <4>1. PICK c, k : c \in DataBlock /\ k \in Listed(dir', c) /\ k.first = x
        BY <3>2
      <4>2. k = e \/ k \in Listed(dir, c)
        BY <1>3, <4>1
      <4>. QED  BY <4>1, <4>2, InHeads
    <3>. QED  BY <2>3, <3>1, <3>2, InHeads
  <2>. QED  BY <2>1, <2>2, <2>3, HeadsType, HeadsTypeNext
<1>9. EntriesDistinct'
  BY <1>1, <1>3 DEF DirInv, EntriesDistinct
<1>10. KindsAgree'
  <2>1. b # Root
    BY <1>1 DEF DirInv, DotsKept
  <2>2. \A c \in DataBlock : \A k \in Listed(dir, c) : k.first \in DataBlock
    BY TypeFacts, ListedType
  <2>. QED  BY <1>1, <1>3, <1>6, <2>1, <2>2, AttrsDiffer DEF DirInv, KindsAgree
<1>11. DotsKept'
  <2>1. \A c \in DataBlock : \A k \in dir'[c] : k.name \in Dots => k \in dir[c]
    BY <1>2
  <2>. QED  BY <1>4, <1>6, <2>1, BlockFacts DEF DirInv, DotsKept, Dots
<1>12. TreeHoldsAll'
  BY <1>3, <1>7 DEF DirInv, TreeHoldsAll
<1>13. ParentLinks'
  <2>1. \A c \in DataBlock : \A k \in Listed(dir, c) : k.first \in DataBlock
    BY TypeFacts, ListedType
  <2>. QED  BY <1>1, <1>3, <1>5, <2>1, BlockFacts, AttrsDiffer DEF DirInv, ParentLinks
<1>14. TreeIsFinite'
  <2>1. \A c \in Directories : c \in DataBlock
    BY DirectoryFacts
  <2>2. ASSUME NEW S \in SUBSET Directories, S # {}
        PROVE  \E c \in S : \A k \in Listed(dir', c) : k.attr = ATTR_DIR => k.first \notin S
    <3>1. PICK c \in S : \A k \in Listed(dir, c) : k.attr = ATTR_DIR => k.first \notin S
      BY <2>2 DEF DirInv, TreeIsFinite
    <3>. QED  BY <1>3, <2>1, <3>1, AttrsDiffer
  <2>. QED  BY <1>7, <2>2 DEF TreeIsFinite
<1>. QED  BY <1>7, <1>8, <1>9, <1>10, <1>11, <1>12, <1>13, <1>14 DEF DirInv

\* mkdir makes b a directory below d, and enters it there if there is room; else
\* nothing leads to b.
LEMMA DirectoryAdded ==
  ASSUME TypeInv, TypeInv', DirInv,
         NEW d \in Directories, NEW b \in DataBlock, b \notin Heads,
         NEW e \in Entry, e.first = b, e.attr = ATTR_DIR, e.name \notin Dots,
         dir'[b] = InitDir(b, d), dir'[d] = dir[d] \cup {e} \/ dir'[d] = dir[d],
         \A c \in DataBlock : c # b /\ c # d => dir'[c] = dir[c]
  PROVE  DirInv' /\ Heads' = Heads \cup {b} /\ Directories \subseteq Directories'
<1>1. /\ d \in DataBlock /\ dir[d] # {} /\ dir[b] = {} /\ b # d
      /\ \A c \in DataBlock : \A k \in Listed(dir, c) : k.first # b /\ k.first \in DataBlock
  BY DirectoryFacts, NotHead, TypeFacts, ListedType
<1>0. PICK es \in {{}, {e}} : \A c \in DataBlock : dir'[c] =
        IF c = b THEN InitDir(b, d) ELSE IF c = d THEN dir[d] \cup es ELSE dir[c]
  BY <1>1
<1>2. /\ InitDir(b, d) = {NewEntry(Dot, b, ATTR_DIR), NewEntry(DotDot, d, ATTR_DIR)}
      /\ NewEntry(Dot, b, ATTR_DIR).name = Dot /\ NewEntry(DotDot, d, ATTR_DIR).name = DotDot
      /\ NewEntry(DotDot, d, ATTR_DIR).first = d
      /\ \A k \in InitDir(b, d) : k.attr = ATTR_DIR
  BY DEF InitDir, NewEntry, StoredName, Dots
<1>3. /\ Find(dir', b, Dot) # {} /\ Find(dir', b, DotDot) = {NewEntry(DotDot, d, ATTR_DIR)}
      /\ Listed(dir', b) = {} /\ dir'[b] # {}
  BY <1>0, <1>2, DirectoryAssumption DEF Find, Listed, Dots
<1>4. ParentBlock(dir', b) = d
  <2>1. (CHOOSE k \in Find(dir', b, DotDot) : TRUE) = NewEntry(DotDot, d, ATTR_DIR)
    BY <1>3
  <2>. QED  BY <1>2, <1>3, <2>1 DEF ParentBlock
<1>5. Listed(dir, b) = {}
  BY <1>1 DEF Listed
<1>6. \A c \in DataBlock :
        Listed(dir', c) = IF c = d THEN Listed(dir, d) \cup es ELSE Listed(dir, c)
  <2>1. ASSUME NEW c \in DataBlock, c # b
        PROVE  Listed(dir', c) = IF c = d THEN Listed(dir, d) \cup es ELSE Listed(dir, c)
    BY <1>0, <2>1 DEF Listed
  <2>. QED  BY <1>1, <1>3, <1>5, <2>1
<1>7. \A c \in DataBlock, n \in Dots : c # b => Find(dir', c, n) = Find(dir, c, n)
  BY <1>0 DEF Find
<1>8. \A c \in DataBlock : c # b => ParentBlock(dir', c) = ParentBlock(dir, c)
  BY <1>7, SameParent DEF Dots
<1>9. \A c \in DataBlock : c # b => (dir'[c] = {} <=> dir[c] = {})
  BY <1>0, <1>1
<1>10. b # Root
  BY <1>1 DEF DirInv, DotsKept
<1>11. Directories' \subseteq Directories \cup {b} /\ Directories \subseteq Directories'
  <2>1. \A c \in DataBlock : \A k \in Listed(dir', c) : k = e \/ k \in Listed(dir, c)
    BY <1>6
  <2>2. \A c \in DataBlock : Listed(dir, c) \subseteq Listed(dir', c)
    BY <1>6
  <2>. QED  BY <2>1, <2>2, InDirectories
<1>12. Heads' = Heads \cup {b}
  <2>1. \A x \in DataBlock : x \in Heads => x \in Heads'
    BY <1>1, <1>6, <1>9, InHeads
  <2>2. b \in Heads'
    BY <1>3, InHeads
  <2>3. ASSUME NEW x \in DataBlock, x \in Heads' PROVE x \in Heads \/ x = b
    <3>1. CASE dir'[x] # {}
      BY <1>9, <3>1, InHeads
    <3>2. CASE \E c \in DataBlock : \E k \in Listed(dir', c) : k.first = x
      <4>1. PICK c, k : c \in DataBlock /\ k \in Listed(dir', c) /\ k.first = x
        BY <3>2
      <4>2. k = e \/ k \in Listed(dir, c)
        BY <1>6, <4>1
      <4>. QED  BY <4>1, <4>2, InHeads
    <3>. QED  BY <2>3, <3>1, <3>2, InHeads
  <2>. QED  BY <2>1, <2>2, <2>3, HeadsType, HeadsTypeNext
<1>13. EntriesDistinct'
  BY <1>1, <1>6 DEF DirInv, EntriesDistinct
<1>14. KindsAgree'
  BY <1>1, <1>3, <1>6, <1>9, <1>10 DEF DirInv, KindsAgree
<1>15. DotsKept'
  <2>1. dir'[Root] # {}
    BY <1>9, <1>10, BlockFacts DEF DirInv, DotsKept
  <2>2. ASSUME NEW c \in DataBlock, dir'[c] # {}
        PROVE  Find(dir', c, Dot) # {} /\ Find(dir', c, DotDot) # {}
    BY <1>3, <1>7, <1>9, <2>2 DEF DirInv, DotsKept, Dots
  <2>3. ASSUME NEW c \in DataBlock, NEW k \in dir'[c], k.name \in Dots
        PROVE  k.attr = ATTR_DIR
    <3>1. k \in dir[c] \/ k = e \/ k \in InitDir(b, d)
      BY <1>0
    <3>. QED  BY <1>2, <2>3, <3>1 DEF DirInv, DotsKept
  <2>. QED  BY <2>1, <2>2, <2>3 DEF DotsKept
<1>16. TreeHoldsAll'
  BY <1>6, <1>11 DEF DirInv, TreeHoldsAll
<1>17. ParentLinks'
  <2>1. ParentBlock(dir', Root) = Root
    BY <1>8, <1>10, BlockFacts DEF DirInv, ParentLinks
  <2>2. ASSUME NEW c \in DataBlock, NEW k \in Listed(dir', c), k.attr = ATTR_DIR
        PROVE  ParentBlock(dir', k.first) = c
    <3>1. CASE k \in Listed(dir, c)
      BY <1>1, <1>8, <2>2, <3>1 DEF DirInv, ParentLinks
    <3>2. CASE k \notin Listed(dir, c)
      <4>1. k = e /\ c = d
        BY <1>6, <3>2
      <4>. QED  BY <1>4, <4>1
    <3>. QED  BY <3>1, <3>2
  <2>. QED  BY <2>1, <2>2 DEF ParentLinks
<1>18. TreeIsFinite'
  <2>1. \A c \in Directories : c \in DataBlock
    BY DirectoryFacts
  <2>2. ASSUME NEW S \in SUBSET Directories', S # {}
        PROVE  \E c \in S : \A k \in Listed(dir', c) : k.attr = ATTR_DIR => k.first \notin S
    <3>1. CASE b \in S
      BY <1>3, <3>1
    <3>2. CASE b \notin S
      <4>1. S \in SUBSET Directories
        BY <1>11, <3>2
      <4>2. PICK c \in S : \A k \in Listed(dir, c) : k.attr = ATTR_DIR => k.first \notin S
        BY <2>2, <4>1 DEF DirInv, TreeIsFinite
      <4>3. \A k \in Listed(dir', c) : k = e \/ k \in Listed(dir, c)
        BY <1>6, <2>1, <4>1, <4>2
      <4>. QED  BY <3>2, <4>2, <4>3
    <3>. QED  BY <3>1, <3>2
  <2>. QED  BY <2>2 DEF TreeIsFinite
<1>. QED
  BY <1>11, <1>12, <1>13, <1>14, <1>15, <1>16, <1>17, <1>18 DEF DirInv

\* remove and rmdir take the entry e out of directory d, rmdir also what e led to.
LEMMA EntryRemoved ==
  ASSUME TypeInv, TypeInv', DirInv, NEW d \in DataBlock, NEW e \in Listed(dir, d),
         e.attr = ATTR_DIR => Listed(dir, e.first) = {},
         \A c \in DataBlock : dir'[c] = IF c = e.first THEN {}
                                        ELSE IF c = d THEN dir[d] \ {e} ELSE dir[c]
  PROVE  DirInv' /\ Heads' \subseteq Heads \ {e.first} /\ e.first \in Heads
         /\ Directories' = Directories \ {e.first}
<1> DEFINE h == e.first
<1>1. /\ h \in DataBlock /\ h # Root /\ e.name \notin Dots
      /\ e \in dir[d] /\ d \in Directories /\ dir[d] # {}
  BY TypeFacts, ListedType, DirectoryFacts DEF DirInv, KindsAgree, TreeHoldsAll
<1>2. Listed(dir, h) = {}
  BY <1>1 DEF DirInv, KindsAgree, Listed
<1>3. h # d
  BY <1>2
<1>4. \A c \in DataBlock : \A k \in Listed(dir, c) :
        k.first \in DataBlock /\ (k.first = h => c = d /\ k = e)
  BY TypeFacts, ListedType DEF DirInv, EntriesDistinct
<1> HIDE DEF h
<1>5. \A c \in DataBlock : dir'[c] = IF c = h THEN {}
                                     ELSE IF c = d THEN dir[d] \ {e} ELSE dir[c]
  BY DEF h
<1>6. \A c \in DataBlock :
        Listed(dir', c) = IF c = d THEN Listed(dir, d) \ {e} ELSE Listed(dir, c)
  <2>1. ASSUME NEW c \in DataBlock, c # h
        PROVE  Listed(dir', c) = IF c = d THEN Listed(dir, d) \ {e} ELSE Listed(dir, c)
    BY <1>5, <2>1 DEF Listed
  <2>2. Listed(dir', h) = {}
    BY <1>1, <1>5 DEF Listed
  <2>. QED  BY <1>2, <1>3, <2>1, <2>2
<1>7. \A c \in DataBlock, n \in Dots : c # h => Find(dir', c, n) = Find(dir, c, n)
  BY <1>1, <1>5 DEF Find
<1>8. \A c \in DataBlock : c # h => ParentBlock(dir', c) = ParentBlock(dir, c)
  BY <1>7, SameParent DEF Dots
<1>9. \A c \in DataBlock : c # h => (dir'[c] = {} <=> dir[c] = {})
  <2>1. dir[d] \ {e} # {}
    <3>1. Find(dir, d, Dot) # {}
      BY <1>1, DirectoryFacts
    <3>. QED  BY <1>1, <3>1 DEF Find, Dots
  <2>. QED  BY <1>1, <1>5, <2>1
<1>10. \A c \in DataBlock : \A k \in Listed(dir', c) :
         k \in Listed(dir, c) /\ k.first # h
  BY <1>4, <1>6
<1>11. Directories' = Directories \ {h}
  <2>1. \A x \in Directories' : x \in Directories /\ x # h
    BY <1>1, <1>10, InDirectories
  <2>2. \A c \in DataBlock : \A k \in Listed(dir, c) : k.first # h => k \in Listed(dir', c)
    BY <1>6 DEF h
  <2>3. \A x \in Directories : x # h => x \in Directories'
    BY <2>2, InDirectories
  <2>. QED  BY <2>1, <2>3
<1>12. Heads' \subseteq Heads \ {h}
  <2>1. ASSUME NEW x \in DataBlock, x \in Heads' PROVE x \in Heads /\ x # h
    <3>1. CASE dir'[x] # {}
      <4>1. x # h
        BY <1>5, <3>1
      <4>. QED  BY <1>9, <3>1, <4>1, InHeads
    <3>2. CASE \E c \in DataBlock : \E k \in Listed(dir', c) : k.first = x
      BY <1>10, <3>2, InHeads
    <3>. QED  BY <2>1, <3>1, <3>2, InHeads
  <2>. QED  BY <2>1, HeadsTypeNext
<1>13. h \in Heads
  BY <1>1, InHeads DEF h
<1>14. EntriesDistinct'
  BY <1>10 DEF DirInv, EntriesDistinct
<1>15. KindsAgree'
  BY <1>4, <1>9, <1>10 DEF DirInv, KindsAgree
<1>16. DotsKept'
  <2>1. \A c \in DataBlock : dir'[c] \subseteq dir[c] /\ (dir'[c] # {} => c # h)
    BY <1>5
  <2>. QED  BY <1>1, <1>7, <1>9, <2>1, BlockFacts DEF DirInv, DotsKept, Dots
<1>17. TreeHoldsAll'
  <2>1. \A c \in DataBlock : Listed(dir', c) # {} => Listed(dir, c) # {} /\ c # h
    BY <1>2, <1>3, <1>6, <1>10
  <2>. QED  BY <1>11, <2>1 DEF DirInv, TreeHoldsAll
<1>18. ParentLinks'
  <2>1. ParentBlock(dir', Root) = Root
    BY <1>1, <1>8, BlockFacts DEF DirInv, ParentLinks, h
  <2>2. ASSUME NEW c \in DataBlock, NEW k \in Listed(dir', c), k.attr = ATTR_DIR
        PROVE  ParentBlock(dir', k.first) = c
    BY <1>4, <1>8, <1>10, <2>2 DEF DirInv, ParentLinks
  <2>. QED  BY <2>1, <2>2 DEF ParentLinks
<1>19. TreeIsFinite'
  <2>1. \A c \in Directories : c \in DataBlock
    BY DirectoryFacts
  <2>2. ASSUME NEW S \in SUBSET Directories', S # {}
        PROVE  \E c \in S : \A k \in Listed(dir', c) : k.attr = ATTR_DIR => k.first \notin S
    <3>1. S \in SUBSET Directories
      BY <1>11
    <3>2. PICK c \in S : \A k \in Listed(dir, c) : k.attr = ATTR_DIR => k.first \notin S
      BY <2>2, <3>1 DEF DirInv, TreeIsFinite
    <3>. QED  BY <1>10, <2>1, <3>1, <3>2
  <2>. QED  BY <2>2 DEF TreeIsFinite
<1>. QED
  BY <1>11, <1>12, <1>13, <1>14, <1>15, <1>16, <1>17, <1>18, <1>19 DEF DirInv, h

\* rename and close put k in the place of e: what it stands for stays the same.
LEMMA EntryReplaced ==
  ASSUME TypeInv, TypeInv', DirInv, NEW d \in DataBlock, NEW e \in Listed(dir, d),
         NEW k \in Entry, k.first = e.first, k.attr = e.attr, k.name \notin Dots,
         dir' = Replaced(dir, d, e, k)
  PROVE  /\ DirInv' /\ Heads' = Heads /\ Directories' = Directories
         /\ \A c \in DataBlock : \A x \in Listed(dir, c) :
              \E y \in Listed(dir', c) : y.first = x.first /\ y.attr = x.attr
<1>1. d \in Block /\ e \in dir[d] /\ e.name \notin Dots /\ e.attr \in {ATTR_FILE, ATTR_DIR}
  BY BlockFacts, TypeFacts, ListedType
<1>2. \A c \in DataBlock : dir'[c] = IF c = d THEN (dir[d] \ {e}) \cup {k} ELSE dir[c]
  BY TypeFacts, BlockFacts DEF Replaced
<1>3. \A c \in DataBlock :
        Listed(dir', c) = IF c = d THEN (Listed(dir, d) \ {e}) \cup {k} ELSE Listed(dir, c)
  BY <1>2 DEF Listed
<1>4. \A c \in DataBlock, n \in Dots : Find(dir', c, n) = Find(dir, c, n)
  BY <1>1, <1>2 DEF Find
<1>5. \A c \in DataBlock : ParentBlock(dir', c) = ParentBlock(dir, c)
  BY <1>4, SameParent DEF Dots
<1>6. \A c \in DataBlock : dir'[c] = {} <=> dir[c] = {}
  BY <1>1, <1>2
\* The entries before and after stand for the same things.
<1>7. \A c \in DataBlock : \A x \in Listed(dir, c) :
        \E y \in Listed(dir', c) : y.first = x.first /\ y.attr = x.attr
  BY <1>3
<1>8. \A c \in DataBlock : \A y \in Listed(dir', c) :
        \E x \in Listed(dir, c) : /\ y.first = x.first /\ y.attr = x.attr
                                  /\ y = IF c = d /\ x = e THEN k ELSE x
  <2>1. k \in Listed(dir, d) => k = e
    BY DEF DirInv, EntriesDistinct
  <2>. QED  BY <1>3, <2>1
<1>9. Directories' = Directories
  <2>1. \A x \in Directories : x \in Directories'
    BY <1>7, InDirectories
  <2>2. \A x \in Directories' : x \in Directories
    BY <1>8, InDirectories
  <2>. QED  BY <2>1, <2>2
<1>10. Heads' = Heads
  <2>1. \A x \in DataBlock : x \in Heads' <=> x \in Heads
    BY <1>6, <1>7, <1>8, InHeads
  <2>. QED  BY <2>1, HeadsType, HeadsTypeNext
<1>11. EntriesDistinct'
  <2>1. ASSUME NEW b \in DataBlock, NEW c \in DataBlock,
               NEW x \in Listed(dir', b), NEW y \in Listed(dir', c), x.first = y.first
        PROVE  b = c /\ x = y
    <3>1. PICK v \in Listed(dir, b) : x.first = v.first /\ x = IF b = d /\ v = e THEN k ELSE v
      BY <1>8
    <3>2. PICK w \in Listed(dir, c) : y.first = w.first /\ y = IF c = d /\ w = e THEN k ELSE w
      BY <1>8
    <3>3. b = c /\ v = w
      BY <2>1, <3>1, <3>2 DEF DirInv, EntriesDistinct
    <3>. QED  BY <3>1, <3>2, <3>3
  <2>. QED  BY <2>1 DEF EntriesDistinct
<1>12. KindsAgree'
  <2>1. \A c \in DataBlock : \A x \in Listed(dir, c) : x.first \in DataBlock
    BY TypeFacts, ListedType
  <2>. QED  BY <1>6, <1>8, <2>1 DEF DirInv, KindsAgree
<1>13. DotsKept'
  <2>1. \A c \in DataBlock : \A x \in dir'[c] : x.name \in Dots => x \in dir[c]
    BY <1>2
  <2>. QED  BY <1>4, <1>6, <2>1, BlockFacts DEF DirInv, DotsKept, Dots
<1>14. TreeHoldsAll'
  BY <1>8, <1>9 DEF DirInv, TreeHoldsAll
<1>15. ParentLinks'
  <2>1. \A c \in DataBlock : \A x \in Listed(dir, c) : x.first \in DataBlock
    BY TypeFacts, ListedType
  <2>. QED  BY <1>5, <1>8, <2>1, BlockFacts DEF DirInv, ParentLinks
<1>16. TreeIsFinite'
  <2>1. \A c \in Directories : c \in DataBlock
    BY DirectoryFacts
  <2>2. ASSUME NEW S \in SUBSET Directories, S # {}
        PROVE  \E c \in S : \A y \in Listed(dir', c) : y.attr = ATTR_DIR => y.first \notin S
    <3>1. PICK c \in S : \A x \in Listed(dir, c) : x.attr = ATTR_DIR => x.first \notin S
      BY <2>2 DEF DirInv, TreeIsFinite
    <3>. QED  BY <1>8, <2>1, <3>1
  <2>. QED  BY <1>9, <2>2 DEF TreeIsFinite
<1>. QED
  BY <1>7, <1>9, <1>10, <1>11, <1>12, <1>13, <1>14, <1>15, <1>16 DEF DirInv

---------------------------------------------------------------------------
(* What commands do to blocks *)

LEMMA SoundFacts ==
  ASSUME TypeInv, DiskInv
  PROVE  /\ fat \in [Block -> FatValue] /\ Heads \in SUBSET DataBlock /\ Sound(fat, Heads)
         /\ \A x \in Block : fat[x] # FAT_FREE => x \in bitmap
BY TypeFacts, HeadsType DEF DiskInv, BitmapCoversFat

\* create and mkdir take a block the bitmap calls free: it is nothing's.
LEMMA BlockClaimed ==
  ASSUME TypeInv, DiskInv, NEW b \in FindFree(bitmap)
  PROVE  /\ b \in DataBlock /\ b \notin Heads /\ fat[b] = FAT_FREE /\ b \notin bitmap
         /\ Sound([fat EXCEPT ![b] = FAT_EOF], Heads \cup {b})
         /\ \A x \in Block : [fat EXCEPT ![b] = FAT_EOF][x] # FAT_FREE => x \in bitmap \cup {b}
<1>1. b \in DataBlock /\ b \notin bitmap
  BY LowestIn DEF FindFree
<1>2. fat[b] = FAT_FREE
  BY <1>1, SoundFacts, BlockFacts
<1>3. b \notin Heads
  BY <1>2, SoundFacts DEF Sound
<1>4. Sound([fat EXCEPT ![b] = FAT_EOF], Heads \cup {b})
  BY <1>1, <1>2, SoundFacts, SoundClaim
<1>5. \A x \in Block : [fat EXCEPT ![b] = FAT_EOF][x] # FAT_FREE => x \in bitmap \cup {b}
  BY SoundFacts
<1>. QED  BY <1>1, <1>2, <1>3, <1>4, <1>5

\* The block a chain grows by is marked in both places.
LEMMA Grown ==
  ASSUME NEW f \in [Block -> FatValue], NEW u, NEW H \in SUBSET DataBlock, Sound(f, H),
         \A x \in Block : f[x] # FAT_FREE => x \in u,
         NEW t \in DataBlock, f[t] = FAT_EOF, NEW b \in Lowest(FatFree(f)),
         fat' = Linked(f, t, b), bitmap' = u \cup {b}
  PROVE  Sound(fat', H) /\ BitmapCoversFat'
<1>1. b \in DataBlock /\ f[b] = FAT_FREE
  BY LowestIn DEF FatFree
<1>2. Sound(fat', H)
  BY <1>1, SoundGrow
<1>3. \A x \in Block : fat'[x] # FAT_FREE => x \in u \cup {b}
  BY MarkFacts DEF Linked
<1>. QED  BY <1>2, <1>3 DEF BitmapCoversFat

LEMMA EntryAdded ==
  ASSUME NEW f \in [Block -> FatValue], NEW u, NEW H \in SUBSET DataBlock, Sound(f, H),
         \A x \in Block : f[x] # FAT_FREE => x \in u,
         NEW ds, NEW d, NEW e, AddEntry(f, u, ds, d, e)
  PROVE  Sound(fat', H) /\ BitmapCoversFat'
<1>1. CASE HasRoom(f, ds, d)
  BY <1>1 DEF AddEntry, BitmapCoversFat
<1>2. CASE ~HasRoom(f, ds, d)
  <2>1. PICK b \in Lowest(FatFree(f)), t \in Tails(f, d) :
          f[t] = FAT_EOF /\ fat' = Linked(f, t, b) /\ bitmap' = u \cup {b}
    BY <1>2 DEF AddEntry
  <2>2. t \in DataBlock
    BY ChainIsData
  <2>. QED  BY <2>1, <2>2, Grown
<1>. QED  BY <1>1, <1>2

\* free_chain gives the blocks of h back; the bitmap may lose the bit of h.
LEMMA ChainFreed ==
  ASSUME TypeInv, DiskInv, NEW h \in Heads,
         fat' = FreeChain(fat, h), bitmap \ {h} \subseteq bitmap'
  PROVE  Sound(fat', Heads \ {h}) /\ BitmapCoversFat'
<1>1. Sound(fat', Heads \ {h}) /\ fat'[h] = FAT_FREE
  BY SoundFacts, SoundFree
<1>2. \A x \in Block : fat'[x] # FAT_FREE => fat[x] # FAT_FREE
  BY DEF FreeChain
<1>3. \A x \in Block : fat'[x] # FAT_FREE => x \in bitmap'
  BY <1>1, <1>2, SoundFacts
<1>. QED  BY <1>1, <1>3 DEF BitmapCoversFat

\* remove clears the bit of the first block only: the FAT it walks is the one
\* free_chain has left behind.
LEMMA OneBitReleased ==
  ASSUME NEW h \in DataBlock
  PROVE  ReleasedBits(fat, h) = {h}
<1>1. FreeChain(fat, h)[h] = FAT_FREE
  BY ChainClosed, BlockFacts DEF FreeChain
<1>2. \A x \in {h} : FreeChain(fat, h)[x] \in DataBlock => FreeChain(fat, h)[x] \in {h}
  BY <1>1, MarkFacts
<1>3. Chain(FreeChain(fat, h), h) \subseteq {h}
  BY <1>2, ChainLeast
<1>4. h \in Chain(FreeChain(fat, h), h)
  BY ChainClosed
<1>. QED  BY <1>3, <1>4 DEF ReleasedBits

---------------------------------------------------------------------------
(* The commands *)

\* Records in use are those that descriptors lead to.
LEMMA UsedRecords ==
  ASSUME TableInv
  PROVE  /\ \A i : InUse(i) => \E u \in user_fds : u.file = i
         /\ \A u \in user_fds : InUse(u.file)
<1>1. ASSUME NEW i \in DOMAIN sys_files
      PROVE  sys_files[i].ref > 0 <=> Users(user_fds, i) # {}
  <2>1. IsFiniteSet(Users(user_fds, i))
    BY UsersFinite DEF TableInv, FdsFresh
  <2>2. sys_files[i].ref = Cardinality(Users(user_fds, i))
    BY CountedBy DEF TableInv
  <2>3. Cardinality(Users(user_fds, i)) \in Nat
    BY <2>1, FS_CardinalityType
  <2>4. Cardinality(Users(user_fds, i)) = 0 <=> Users(user_fds, i) = {}
    BY <2>1, FS_EmptySet
  <2>. QED  BY <2>2, <2>3, <2>4
<1>2. \A u \in user_fds : u.file \in DOMAIN sys_files
  BY TypeFacts DEF TableInv
<1>. QED  BY <1>1, <1>2 DEF InUse, Users

\* The file of a running write is listed, so its first block is a head.
LEMMA OpenFileIsHead ==
  ASSUME TypeInv, OpenFilesListed, NEW i, InUse(i)
  PROVE  sys_files[i].first \in Heads
<1>1. i \in DOMAIN sys_files /\ sys_files[i] \in OpenFile
  BY TypeFacts DEF InUse
<1>2. PICK e \in Listed(dir, sys_files[i].dir) : e.first = sys_files[i].first
  BY <1>1 DEF OpenFilesListed
<1>. QED  BY <1>1, <1>2, InHeads DEF OpenFile

\* Names the user gives in a directory of the tree and that are not in it are
\* not "." or "..".
LEMMA NewName ==
  ASSUME TypeInv, DirInv, NEW d \in Directories, NEW n \in AnyName, Find(dir, d, n) = {}
  PROVE  StoredName(n) \in AnyName /\ StoredName(n) \notin Dots
<1>1. n \notin Dots
  BY DirectoryFacts DEF Dots
<1>. QED  BY <1>1, DirectoryAssumption DEF AnyName, StoredName, Dots

\* The name of a file is not "." or "..".
LEMMA FileIsListed ==
  ASSUME TypeInv, DirInv, NEW d \in DataBlock, NEW n, NEW e \in Find(dir, d, n),
         e.attr = ATTR_FILE
  PROVE  e \in Listed(dir, d) /\ n \notin Dots /\ e.name = n
BY AttrsDiffer DEF DirInv, DotsKept, Find, Listed

LEMMA RecordType ==
  ASSUME TypeInv
  PROVE  \A i \in DOMAIN sys_files :
           /\ sys_files[i] \in OpenFile /\ sys_files[i].name \in AnyName
           /\ sys_files[i].dir \in DataBlock /\ sys_files[i].first \in DataBlock
<1>1. \A i \in DOMAIN sys_files : sys_files[i] \in OpenFile
  BY TypeFacts
<1>. QED  BY <1>1 DEF OpenFile

LEMMA DirKept ==
  ASSUME UNCHANGED dir
  PROVE  (DirInv => DirInv') /\ Heads' = Heads /\ Directories' = Directories
<1>1. Heads' = Heads /\ Directories' = Directories
  BY DEF Heads, Directories
<1>2. DirInv => DirInv'
  BY <1>1 DEF DirInv, EntriesDistinct, KindsAgree, DotsKept, TreeHoldsAll,
              ParentLinks, TreeIsFinite
<1>. QED  BY <1>1, <1>2

\* What a command leaves alone that changes neither the tables nor the running
\* command nor the working directory.
LEMMA DiskCommand ==
  ASSUME DiskInv, UNCHANGED <<openVars, op, cur_block>>, op = Idle,
         Sound(fat', Heads'), BitmapCoversFat', DirInv', OpenFilesListed',
         cur_block \in Directories'
  PROVE  DiskInv'
<1>1. op'.cmd # "cd" /\ op'.cmd # "write"
  BY DEF Idle
<1>. QED  BY <1>1 DEF DiskInv, CwdIsDirectory, RecordsInv, openVars

LEMMA CreateDisk ==
  ASSUME TypeInv, TypeInv', DiskInv, NEW n \in AnyName, Create(cur_block, n), UNCHANGED fsVars
  PROVE  DiskInv'
<1> USE DEF DiskInv
<1>1. cur_block \in Directories /\ op = Idle /\ UNCHANGED <<openVars, op, cur_block>>
  BY DEF CwdIsDirectory, Create, fsVars
<1>2. PICK b \in FindFree(bitmap) :
        LET f == [fat EXCEPT ![b] = FAT_EOF]
            u == bitmap \cup {b}
        IN  \/ AddEntry(f, u, dir, cur_block, NewEntry(n, b, ATTR_FILE))
            \/ /\ AddFails(f, dir, cur_block)
               /\ fat' = [f EXCEPT ![b] = FAT_FREE]
               /\ bitmap' = u \ {b}
               /\ UNCHANGED dir
  BY DEF Create
<1> DEFINE f == [fat EXCEPT ![b] = FAT_EOF]
           u == bitmap \cup {b}
           e == NewEntry(n, b, ATTR_FILE)
<1>3. /\ b \in DataBlock /\ b \notin Heads /\ fat[b] = FAT_FREE /\ b \notin bitmap
      /\ Sound(f, Heads \cup {b})
      /\ \A x \in Block : f[x] # FAT_FREE => x \in u
  BY BlockClaimed
<1>4. CASE AddEntry(f, u, dir, cur_block, e)
  <2>1. e \in Entry /\ e.first = b /\ e.attr = ATTR_FILE
    BY <1>3, NewEntryType DEF NewEntry
  <2>2. e.name \notin Dots
    BY <1>1, NewName DEF NewEntry, Create
  <2>3. dir' = [dir EXCEPT ![cur_block] = @ \cup {e}]
    BY <1>4 DEF AddEntry
  <2>4. f \in [Block -> FatValue] /\ Heads \cup {b} \in SUBSET DataBlock
    BY <1>3, TypeFacts, HeadsType, BlockFacts
  <2> HIDE DEF e, f, u
  <2>5. DirInv' /\ Heads' = Heads \cup {b} /\ Directories' = Directories
    BY <1>1, <1>3, <2>1, <2>2, <2>3, FileAdded
  <2>6. Sound(fat', Heads') /\ BitmapCoversFat'
    BY <1>3, <1>4, <2>4, <2>5, EntryAdded
  <2>7. OpenFilesListed'
    <3>1. \A c \in DataBlock : Listed(dir, c) \subseteq Listed(dir', c)
      BY <2>3, TypeFacts, BlockFacts DEF Listed
    <3>. QED  BY <1>1, <3>1, RecordType DEF OpenFilesListed, InUse, openVars
  <2>. QED  BY <1>1, <2>5, <2>6, <2>7, DiskCommand
<1>5. CASE /\ fat' = [f EXCEPT ![b] = FAT_FREE]
           /\ bitmap' = u \ {b}
           /\ UNCHANGED dir
  <2>1. fat' = fat /\ bitmap' = bitmap
    BY <1>3, <1>5, TypeFacts, BlockFacts
  <2>2. OpenFilesListed'
    BY <1>1, <1>5 DEF openVars, OpenFilesListed, InUse
  <2>3. BitmapCoversFat'
    BY <2>1 DEF BitmapCoversFat
  <2>. QED  BY <1>1, <1>5, <2>1, <2>2, <2>3, DirKept, DiskCommand
<1>. QED  BY <1>2, <1>4, <1>5

LEMMA MkdirDisk ==
  ASSUME TypeInv, TypeInv', DiskInv, NEW n \in AnyName, Mkdir(n)
  PROVE  DiskInv'
<1> USE DEF DiskInv
<1>1. cur_block \in Directories /\ op = Idle /\ UNCHANGED <<openVars, op, cur_block>>
  BY DEF CwdIsDirectory, Mkdir, fsVars
<1>2. PICK b \in FindFree(bitmap) :
        LET f  == [fat EXCEPT ![b] = FAT_EOF]
            u  == bitmap \cup {b}
            ds == [dir EXCEPT ![b] = InitDir(b, cur_block)]
        IN  \/ AddEntry(f, u, ds, cur_block, NewEntry(n, b, ATTR_DIR))
            \/ AddFails(f, ds, cur_block) /\ fat' = f /\ bitmap' = u /\ dir' = ds
  BY DEF Mkdir
<1> DEFINE f  == [fat EXCEPT ![b] = FAT_EOF]
           u  == bitmap \cup {b}
           ds == [dir EXCEPT ![b] = InitDir(b, cur_block)]
           e  == NewEntry(n, b, ATTR_DIR)
<1>3. /\ b \in DataBlock /\ b \notin Heads
      /\ Sound(f, Heads \cup {b})
      /\ \A x \in Block : f[x] # FAT_FREE => x \in u
  BY BlockClaimed
<1>4. e \in Entry /\ e.first = b /\ e.attr = ATTR_DIR /\ e.name \notin Dots
  BY <1>1, <1>3, NewEntryType, NewName DEF NewEntry, Mkdir
<1>5. f \in [Block -> FatValue] /\ Heads \cup {b} \in SUBSET DataBlock
  BY <1>3, TypeFacts, HeadsType, BlockFacts
<1>6. cur_block \in DataBlock /\ cur_block # b
  BY <1>1, <1>3, DirectoryFacts
<1>7. /\ dir'[b] = InitDir(b, cur_block)
      /\ dir'[cur_block] = dir[cur_block] \cup {e} \/ dir'[cur_block] = dir[cur_block]
      /\ \A c \in DataBlock : c # b /\ c # cur_block => dir'[c] = dir[c]
  <2>1. CASE AddEntry(f, u, ds, cur_block, e)
    <3>1. dir' = [ds EXCEPT ![cur_block] = @ \cup {e}]
      BY <2>1 DEF AddEntry
    <3> HIDE DEF e
    <3>. QED  BY <1>3, <1>6, <3>1, TypeFacts, BlockFacts
  <2>2. CASE dir' = ds
    <3> HIDE DEF e
    <3>. QED  BY <1>3, <1>6, <2>2, TypeFacts, BlockFacts
  <2>. QED  BY <1>2, <2>1, <2>2
<1>8. Sound(fat', Heads \cup {b}) /\ BitmapCoversFat'
  <2>1. CASE AddEntry(f, u, ds, cur_block, e)
    <3> HIDE DEF f, u, ds, e
    <3>. QED  BY <1>3, <1>5, <2>1, EntryAdded
  <2>2. CASE fat' = f /\ bitmap' = u
    BY <1>3, <2>2 DEF BitmapCoversFat
  <2>. QED  BY <1>2, <2>1, <2>2
<1> HIDE DEF e, f, u, ds
<1>9. DirInv' /\ Heads' = Heads \cup {b} /\ Directories \subseteq Directories'
  BY <1>1, <1>3, <1>4, <1>7, DirectoryAdded
<1>10. OpenFilesListed'
  <2>1. \A c \in DataBlock : c # b => Listed(dir, c) \subseteq Listed(dir', c)
    BY <1>7 DEF Listed
  <2>2. Listed(dir, b) = {}
    BY <1>3, NotHead DEF Listed
  <2>. QED  BY <1>1, <2>1, <2>2, RecordType DEF OpenFilesListed, InUse, openVars
<1>. QED  BY <1>1, <1>8, <1>9, <1>10, DiskCommand

LEMMA RemoveDisk ==
  ASSUME TableInv, TypeInv', DiskInv, NEW n, Remove(cur_block, n),
         NotOpen(cur_block, n), UNCHANGED fsVars
  PROVE  DiskInv'
<1> USE DEF DiskInv
<1>1. /\ cur_block \in Directories /\ op = Idle /\ UNCHANGED <<openVars, op, cur_block>>
      /\ TypeInv
  BY DEF CwdIsDirectory, Remove, fsVars, TableInv
<1>2. PICK e \in Find(dir, cur_block, n) :
        /\ e.attr = ATTR_FILE
        /\ fat' = FreeChain(fat, e.first)
        /\ bitmap' = bitmap \ ReleasedBits(fat, e.first)
        /\ dir' = [dir EXCEPT ![cur_block] = @ \ {e}]
  BY DEF Remove
<1>3. cur_block \in DataBlock /\ e \in Listed(dir, cur_block)
  BY <1>1, <1>2, DirectoryFacts, FileIsListed
<1>4. e.first \in DataBlock /\ dir[e.first] = {}
  BY <1>1, <1>2, <1>3, TypeFacts, ListedType, AttrsDiffer DEF DirInv, KindsAgree
<1>5. \A c \in DataBlock : dir'[c] = IF c = e.first THEN {}
                                     ELSE IF c = cur_block THEN dir[cur_block] \ {e} ELSE dir[c]
  BY <1>1, <1>2, <1>3, <1>4, TypeFacts, BlockFacts
<1>6. /\ DirInv' /\ Heads' \subseteq Heads \ {e.first} /\ e.first \in Heads
      /\ Directories' = Directories \ {e.first}
  BY <1>1, <1>2, <1>3, <1>5, AttrsDiffer, EntryRemoved
<1>7. Sound(fat', Heads') /\ BitmapCoversFat'
  <2>1. Sound(fat', Heads \ {e.first}) /\ BitmapCoversFat'
    BY <1>1, <1>2, <1>4, <1>6, OneBitReleased, ChainFreed
  <2>. QED  BY <1>6, <2>1, SoundSubset
<1>8. cur_block \in Directories'
  BY <1>1, <1>4, <1>6, DirectoryFacts
<1>9. OpenFilesListed'
  <2>1. ASSUME NEW i \in DOMAIN sys_files, InUse(i)
        PROVE  \E k \in Listed(dir', sys_files[i].dir) :
                 k.first = sys_files[i].first /\ k.attr = ATTR_FILE
    <3>1. PICK k \in Listed(dir, sys_files[i].dir) :
            k.first = sys_files[i].first /\ k.attr = ATTR_FILE
      BY <2>1 DEF OpenFilesListed
    <3>2. PICK u \in user_fds : u.file = i
      BY <2>1, UsedRecords
    <3>3. k # e
      BY <1>2, <3>1, <3>2 DEF NotOpen, IsOpen
    <3>4. k \in Listed(dir', sys_files[i].dir)
      BY <1>2, <1>3, <3>3, RecordType, <1>1, TypeFacts, BlockFacts DEF Listed
    <3>. QED  BY <3>1, <3>4
  <2>. QED  BY <1>1, <2>1 DEF OpenFilesListed, InUse, openVars
<1>. QED  BY <1>1, <1>6, <1>7, <1>8, <1>9, DiskCommand

LEMMA RmdirDisk ==
  ASSUME TypeInv, TypeInv', DiskInv, NEW n, Rmdir(n)
  PROVE  DiskInv'
<1> USE DEF DiskInv
<1>1. cur_block \in Directories /\ op = Idle /\ UNCHANGED <<openVars, op, cur_block>>
  BY DEF CwdIsDirectory, Rmdir, fsVars
<1>2. PICK e \in Find(dir, cur_block, n) :
        /\ e.attr = ATTR_DIR
        /\ Listed(dir, e.first) = {}
        /\ fat' = FreeChain(fat, e.first)
        /\ bitmap' = bitmap \ {e.first}
        /\ dir' = [dir EXCEPT ![e.first] = {}, ![cur_block] = @ \ {e}]
  BY DEF Rmdir
<1>3. cur_block \in DataBlock /\ e \in Listed(dir, cur_block)
  BY <1>1, <1>2, DirectoryFacts DEF Rmdir, Find, Listed
<1>4. e.first \in DataBlock /\ e.first # cur_block
  BY <1>2, <1>3, TypeFacts, ListedType
<1>5. \A c \in DataBlock : dir'[c] = IF c = e.first THEN {}
                                     ELSE IF c = cur_block THEN dir[cur_block] \ {e} ELSE dir[c]
  BY <1>2, <1>3, <1>4, TypeFacts, BlockFacts
<1>6. /\ DirInv' /\ Heads' \subseteq Heads \ {e.first} /\ e.first \in Heads
      /\ Directories' = Directories \ {e.first}
  BY <1>2, <1>3, <1>5, EntryRemoved
<1>7. Sound(fat', Heads') /\ BitmapCoversFat'
  <2>1. Sound(fat', Heads \ {e.first}) /\ BitmapCoversFat'
    BY <1>2, <1>6, ChainFreed
  <2>. QED  BY <1>6, <2>1, SoundSubset
<1>8. cur_block \in Directories'
  BY <1>1, <1>4, <1>6
<1>9. OpenFilesListed'
  <2>1. \A c \in DataBlock : \A k \in Listed(dir, c) :
          k.attr = ATTR_FILE => k \in Listed(dir', c)
    <3> SUFFICES ASSUME NEW c \in DataBlock, NEW k \in Listed(dir, c), k.attr = ATTR_FILE
                 PROVE  k \in Listed(dir', c)
      OBVIOUS
    <3>1. c # e.first /\ k # e
      BY <1>2, AttrsDiffer
    <3>. QED  BY <1>5, <3>1 DEF Listed
  <2>. QED  BY <1>1, <2>1, RecordType DEF OpenFilesListed, InUse, openVars
<1>. QED  BY <1>1, <1>6, <1>7, <1>8, <1>9, DiskCommand

LEMMA RenameDisk ==
  ASSUME TypeInv, TypeInv', DiskInv, NEW old \in AnyName, NEW new \in AnyName,
         Rename(old, new), old \notin Dots
  PROVE  DiskInv'
<1> USE DEF DiskInv
<1>1. cur_block \in Directories /\ op = Idle /\ UNCHANGED <<fat, bitmap, openVars, op, cur_block>>
  BY DEF CwdIsDirectory, Rename, fsVars
<1>2. PICK e \in Find(dir, cur_block, old) :
        dir' = Replaced(dir, cur_block, e, [e EXCEPT !.name = StoredName(new)])
  BY DEF Rename
<1> DEFINE k == [e EXCEPT !.name = StoredName(new)]
<1>3. cur_block \in DataBlock /\ e \in Listed(dir, cur_block) /\ e \in Entry
  BY <1>1, DirectoryFacts, TypeFacts, FindType DEF Find, Listed
<1>4. k \in Entry /\ k.first = e.first /\ k.attr = e.attr /\ k.name \notin Dots
  BY <1>1, <1>3, NewName DEF Rename, Entry
<1> HIDE DEF k
<1>5. /\ DirInv' /\ Heads' = Heads /\ Directories' = Directories
      /\ \A c \in DataBlock : \A x \in Listed(dir, c) :
           \E y \in Listed(dir', c) : y.first = x.first /\ y.attr = x.attr
  BY <1>2, <1>3, <1>4, EntryReplaced DEF k
<1>6. OpenFilesListed'
  BY <1>1, <1>5, RecordType DEF OpenFilesListed, InUse, openVars
<1>7. BitmapCoversFat'
  BY <1>1 DEF BitmapCoversFat
<1>. QED  BY <1>1, <1>5, <1>6, <1>7, DiskCommand

\* What a step leaves alone that changes records only.
LEMMA RecordsStep ==
  ASSUME DiskInv, UNCHANGED <<diskVars, cur_block>>, OpenFilesListed', RecordsInv',
         op'.cmd = "cd" => op'.at \in Directories
  PROVE  DiskInv'
<1>1. Sound(fat', Heads') /\ BitmapCoversFat' /\ DirInv' /\ Directories' = Directories
  BY DirKept DEF DiskInv, BitmapCoversFat, diskVars
<1>. QED  BY <1>1 DEF DiskInv, CwdIsDirectory

LEMMA OpenDisk ==
  ASSUME TypeInv, TypeInv', DiskInv, NEW n \in AnyName, Open(cur_block, n), UNCHANGED fsVars
  PROVE  DiskInv'
<1> USE DEF DiskInv
<1>1. /\ cur_block \in Directories /\ op = Idle /\ op' = Idle
      /\ UNCHANGED <<diskVars, op, cur_block>> /\ UNCHANGED dir
  BY DEF CwdIsDirectory, Open, fsVars, diskVars
<1>2. PICK e \in Find(dir, cur_block, n) :
        /\ e.attr = ATTR_FILE
        /\ \/ \E i \in Lowest(Shared(e.first)) :
                sys_files' = [sys_files EXCEPT ![i].ref = @ + 1]
           \/ sys_files' = Append(sys_files, NewOpenFile(e, cur_block, n))
  BY DEF Open
<1>3. cur_block \in DataBlock /\ e \in Listed(dir, cur_block) /\ n \notin Dots
  BY <1>1, <1>2, DirectoryFacts, FileIsListed
<1>4. CASE \E i \in Lowest(Shared(e.first)) : sys_files' = [sys_files EXCEPT ![i].ref = @ + 1]
  <2>1. PICK i \in DOMAIN sys_files :
          sys_files[i].ref > 0 /\ sys_files' = [sys_files EXCEPT ![i].ref = @ + 1]
    BY <1>4, LowestIn DEF Shared
  <2>2. /\ DOMAIN sys_files' = DOMAIN sys_files
        /\ \A j \in DOMAIN sys_files :
             /\ sys_files'[j].first = sys_files[j].first /\ sys_files'[j].dir = sys_files[j].dir
             /\ sys_files'[j].name = sys_files[j].name
             /\ j # i => sys_files'[j].ref = sys_files[j].ref
    <3>1. [sys_files[i] EXCEPT !.ref = @ + 1] \in OpenFile
      BY <2>1, RecordType DEF OpenFile
    <3>. QED  BY <2>1, <3>1, TypeFacts, RecordType, RecordUpdate DEF OpenFile
  <2>3. OpenFilesListed'
    BY <1>1, <2>1, <2>2 DEF OpenFilesListed, InUse
  <2>4. RecordsInv'
    BY <1>1, <2>2 DEF RecordsInv, Idle
  <2>. QED  BY <1>1, <2>3, <2>4, RecordsStep DEF Idle
<1>5. CASE sys_files' = Append(sys_files, NewOpenFile(e, cur_block, n))
  <2> DEFINE m == Len(sys_files) + 1
             r == NewOpenFile(e, cur_block, n)
  <2>1. /\ r.first = e.first /\ r.dir = cur_block /\ r.name \notin Dots
    BY <1>3, DirectoryAssumption DEF NewOpenFile, StoredName, AnyName, Dots
  <2> HIDE DEF r
  <2>2. /\ DOMAIN sys_files' = DOMAIN sys_files \cup {m}
        /\ sys_files'[m] = r
        /\ \A j \in DOMAIN sys_files : sys_files'[j] = sys_files[j]
    BY <1>5, TypeFacts DEF r
  <2> HIDE DEF m
  <2>3. OpenFilesListed'
    BY <1>1, <1>2, <1>3, <2>1, <2>2 DEF OpenFilesListed, InUse
  <2>4. RecordsInv'
    BY <1>1, <2>1, <2>2 DEF RecordsInv, Idle
  <2>. QED  BY <1>1, <2>3, <2>4, RecordsStep DEF Idle
<1>. QED  BY <1>2, <1>4, <1>5

\* A record whose cursor or size changes stays in use, or out of use.
LEMMA RecordMoved ==
  ASSUME TypeInv, DiskInv, NEW i \in DOMAIN sys_files, NEW r \in OpenFile,
         sys_files' = [sys_files EXCEPT ![i] = r], r.first = sys_files[i].first,
         r.dir = sys_files[i].dir, r.name = sys_files[i].name, r.ref = sys_files[i].ref,
         UNCHANGED <<diskVars, cur_block>>, op' = Idle
  PROVE  DiskInv'
<1>1. /\ DOMAIN sys_files' = DOMAIN sys_files
      /\ \A j \in DOMAIN sys_files :
           /\ sys_files'[j].first = sys_files[j].first /\ sys_files'[j].dir = sys_files[j].dir
           /\ sys_files'[j].name = sys_files[j].name /\ sys_files'[j].ref = sys_files[j].ref
  BY TypeFacts, RecordUpdate
<1>2. OpenFilesListed' /\ RecordsInv'
  BY <1>1 DEF DiskInv, OpenFilesListed, RecordsInv, InUse, diskVars, Idle
<1>. QED  BY <1>2, RecordsStep DEF Idle

LEMMA ReadDisk ==
  ASSUME TypeInv, DiskInv, NEW fd, NEW n \in Nat, Read(fd, n), UNCHANGED fsVars
  PROVE  DiskInv'
<1>1. CASE op' = Lost /\ UNCHANGED sys_files
  <2>1. OpenFilesListed' /\ RecordsInv'
    BY <1>1 DEF Read, DiskInv, OpenFilesListed, RecordsInv, InUse, diskVars, Lost
  <2>. QED  BY <1>1, <2>1, RecordsStep DEF Read, fsVars, Lost
<1>2. ASSUME NEW u \in user_fds, NEW got \in 0 .. n, UNCHANGED op,
             sys_files' = [sys_files EXCEPT ![u.file].cursor = @ + got]
      PROVE  DiskInv'
  <2> DEFINE of == sys_files[u.file]
             r  == [of EXCEPT !.cursor = @ + got]
  <2>1. u.file \in DOMAIN sys_files /\ of \in OpenFile
    BY TypeFacts
  <2>2. /\ r \in OpenFile /\ r.first = of.first /\ r.dir = of.dir
        /\ r.name = of.name /\ r.ref = of.ref
    BY <2>1 DEF OpenFile
  <2>3. sys_files' = [sys_files EXCEPT ![u.file] = r]
    BY <1>2
  <2> HIDE DEF r
  <2>. QED  BY <1>2, <2>1, <2>2, <2>3, RecordMoved DEF Read, fsVars
<1>. QED  BY <1>1, <1>2 DEF Read

LEMMA WriteDisk ==
  ASSUME TableInv, DiskInv, NEW fd, NEW n, Write(fd, n), UNCHANGED fsVars
  PROVE  DiskInv'
<1>1. PICK u \in user_fds : op' = [cmd |-> "write", file |-> u.file,
                                  pos |-> sys_files[u.file].cursor, left |-> n]
  BY DEF Write
<1>2. UNCHANGED <<diskVars, openVars, cur_block, sys_files, dir>>
  BY DEF Write, fsVars, openVars, diskVars
<1>3. InUse(u.file)
  BY UsedRecords
<1>4. OpenFilesListed' /\ RecordsInv'
  BY <1>1, <1>2, <1>3 DEF DiskInv, OpenFilesListed, RecordsInv, InUse
<1>. QED  BY <1>1, <1>2, <1>4, RecordsStep

LEMMA WriteEndDisk ==
  ASSUME TypeInv, DiskInv, WriteEnd, UNCHANGED fsVars
  PROVE  DiskInv'
<1> DEFINE of == sys_files[op.file]
           r  == Written(of, op.pos)
<1>1. op \in Writing /\ op.file \in DOMAIN sys_files /\ of \in OpenFile
  BY WritingFacts DEF WriteEnd
<1>2. /\ r \in OpenFile /\ r.first = of.first /\ r.dir = of.dir
      /\ r.name = of.name /\ r.ref = of.ref
  BY <1>1 DEF Written, OpenFile, Writing, LargerOf
<1>3. sys_files' = [sys_files EXCEPT ![op.file] = r]
  BY DEF WriteEnd
<1> HIDE DEF r
<1>. QED  BY <1>1, <1>2, <1>3, RecordMoved DEF WriteEnd, fsVars

LEMMA WriteBlockDisk ==
  ASSUME TypeInv, DiskInv, WriteBlock, UNCHANGED fsVars
  PROVE  DiskInv'
<1>1. op.cmd = "write" /\ InUse(op.file)
  BY DEF WriteBlock, DiskInv, RecordsInv
<1>2. UNCHANGED <<dir, sys_files, cur_block>>
  BY DEF WriteBlock, openVars, fsVars
<1>3. Heads' = Heads /\ DirInv'
  BY <1>2, DirKept DEF DiskInv
<1>4. Sound(fat', Heads) /\ BitmapCoversFat'
  <2>1. CASE UNCHANGED <<fat, bitmap>>
    BY <2>1 DEF DiskInv, BitmapCoversFat
  <2>2. CASE \E b \in Lowest(FatFree(fat)), t \in Tails(fat, sys_files[op.file].first) :
               fat' = Linked(fat, t, b) /\ bitmap' = bitmap \cup {b}
    <3>1. PICK b \in Lowest(FatFree(fat)), t \in Tails(fat, sys_files[op.file].first) :
               fat' = Linked(fat, t, b) /\ bitmap' = bitmap \cup {b}
      BY <2>2
    <3>2. sys_files[op.file].first \in Heads
      BY <1>1, OpenFileIsHead DEF DiskInv
    <3>3. fat[sys_files[op.file].first] # FAT_FREE
      BY <3>2, SoundFacts DEF Sound
    <3>4. t \in DataBlock /\ fat[t] = FAT_EOF
      BY <3>2, <3>3, SoundFacts, TailsEnd
    <3>. QED  BY <3>1, <3>4, SoundFacts, Grown
  <2>. QED  BY <2>1, <2>2 DEF WriteBlock
<1>5. op'.cmd # "cd" /\ (op'.cmd = "write" => op'.file = op.file)
  <2>1. \E f, b : Put(f, b)
    BY DEF WriteBlock
  <2>. QED  BY <1>1, <2>1, PutType DEF Lost, Writing
<1>6. OpenFilesListed' /\ RecordsInv'
  BY <1>1, <1>2, <1>5 DEF DiskInv, OpenFilesListed, RecordsInv, InUse
<1>7. CwdIsDirectory'
  BY <1>2, <1>5, DirKept DEF DiskInv, CwdIsDirectory
<1>. QED  BY <1>3, <1>4, <1>6, <1>7 DEF DiskInv

LEMMA CloseDisk ==
  ASSUME TypeInv, TypeInv', DiskInv, NEW fd, Close(fd), UNCHANGED fsVars
  PROVE  DiskInv'
<1>1. PICK u \in user_fds :
        /\ sys_files' = [sys_files EXCEPT ![u.file] = Released(sys_files[u.file])]
        /\ \/ WriteBack(sys_files[u.file]) = {} /\ UNCHANGED dir
           \/ dir' \in WriteBack(sys_files[u.file])
        /\ op' = IF Recycled(sys_files[u.file]) THEN Lost ELSE op
  BY DEF Close
<1> DEFINE of == sys_files[u.file]
<1>2. /\ u.file \in DOMAIN sys_files /\ of \in OpenFile
      /\ of.dir \in DataBlock /\ of.size \in Nat /\ of.name \notin Dots
  <2>1. u.file \in DOMAIN sys_files
    BY TypeFacts
  <2>. QED  BY <2>1, RecordType DEF OpenFile, DiskInv, RecordsInv
<1>3. op = Idle /\ UNCHANGED <<fat, bitmap, cur_block>>
  BY DEF Close, fsVars
<1>4. /\ DirInv' /\ Heads' = Heads /\ Directories' = Directories
      /\ \A c \in DataBlock : \A x \in Listed(dir, c) :
           \E y \in Listed(dir', c) : y.first = x.first /\ y.attr = x.attr
  <2>1. CASE UNCHANGED dir
    BY <2>1, DirKept DEF DiskInv
  <2>2. CASE dir' \in WriteBack(of)
    <3>1. PICK e \in Find(dir, of.dir, of.name) :
            dir' = Replaced(dir, of.dir, e, [e EXCEPT !.size = of.size])
      BY <2>2 DEF WriteBack
    <3> DEFINE k == [e EXCEPT !.size = of.size]
    <3>2. e \in Entry /\ e \in Listed(dir, of.dir)
      BY <1>2, TypeFacts, FindType DEF Find, Listed
    <3>3. k \in Entry /\ k.first = e.first /\ k.attr = e.attr /\ k.name \notin Dots
      BY <1>2, <3>2 DEF Entry, Listed
    <3> HIDE DEF k, of
    <3>. QED  BY <1>2, <3>1, <3>2, <3>3, EntryReplaced DEF k, DiskInv
  <2>. QED  BY <1>1, <2>1, <2>2
<1>5. /\ DOMAIN sys_files' = DOMAIN sys_files
      /\ \A j \in DOMAIN sys_files :
           /\ sys_files'[j].first = sys_files[j].first /\ sys_files'[j].dir = sys_files[j].dir
           /\ sys_files'[j].name = sys_files[j].name
           /\ sys_files'[j].ref > 0 => sys_files[j].ref > 0
  <2> DEFINE r == Released(of)
  <2>1. /\ r \in OpenFile /\ r.first = of.first /\ r.dir = of.dir /\ r.name = of.name
        /\ r.ref > 0 => of.ref > 0
    BY <1>2 DEF Released, OpenFile
  <2>2. sys_files' = [sys_files EXCEPT ![u.file] = r]
    BY <1>1
  <2> HIDE DEF r
  <2>. QED  BY <1>2, <2>1, <2>2, TypeFacts, RecordUpdate
<1>6. op'.cmd # "cd" /\ op'.cmd # "write"
  BY <1>1, <1>3 DEF Idle, Lost
<1>7. OpenFilesListed'
  <2>1. \A j \in DOMAIN sys_files : InUse(j)' => InUse(j)
    BY <1>5 DEF InUse
  <2>. QED  BY <1>4, <1>5, <2>1, RecordType DEF DiskInv, OpenFilesListed
<1>8. RecordsInv'
  BY <1>5, <1>6 DEF DiskInv, RecordsInv
<1>9. BitmapCoversFat' /\ CwdIsDirectory' /\ Sound(fat', Heads')
  BY <1>3, <1>4, <1>6 DEF DiskInv, BitmapCoversFat, CwdIsDirectory
<1>. QED  BY <1>4, <1>7, <1>8, <1>9 DEF DiskInv

\* What a step of cd leaves alone.
LEMMA WalkStep ==
  ASSUME DiskInv, UNCHANGED <<diskVars, openVars>>, cur_block' \in Directories,
         op'.cmd # "write", op'.cmd = "cd" => op'.at \in Directories
  PROVE  DiskInv'
<1>1. Sound(fat', Heads') /\ BitmapCoversFat' /\ DirInv' /\ Directories' = Directories
  BY DirKept DEF DiskInv, BitmapCoversFat, diskVars
<1>2. OpenFilesListed' /\ RecordsInv'
  BY DEF DiskInv, OpenFilesListed, RecordsInv, InUse, openVars, diskVars
<1>. QED  BY <1>1, <1>2 DEF DiskInv, CwdIsDirectory

LEMMA CdDisk ==
  ASSUME TypeInv, DiskInv, NEW start, NEW segs, Cd(start, segs)
  PROVE  DiskInv'
<1>1. op'.cmd = "cd" /\ op'.at \in {cur_block, Root}
  BY DEF Cd, Walking
<1>2. cur_block \in Directories /\ Root \in Directories /\ cur_block' = cur_block
  BY InDirectories DEF DiskInv, CwdIsDirectory, Cd, fsVars
<1>. QED  BY <1>1, <1>2, WalkStep DEF Cd

\* ".." of a directory of the tree leads to a directory of the tree.
LEMMA ParentInTree ==
  ASSUME TypeInv, DirInv, NEW d \in Directories
  PROVE  ParentBlock(dir, d) \in Directories
<1>1. CASE d = Root
  BY <1>1 DEF DirInv, ParentLinks
<1>2. CASE d # Root
  <2>1. PICK c \in DataBlock : \E e \in Listed(dir, c) : e.attr = ATTR_DIR /\ e.first = d
    BY <1>2, InDirectories
  <2>. QED  BY <2>1 DEF DirInv, ParentLinks, TreeHoldsAll
<1>. QED  BY <1>1, <1>2

LEMMA CdUpDisk ==
  ASSUME TypeInv, DiskInv, CdUp
  PROVE  DiskInv'
<1>1. op'.cmd = "cd" /\ op'.at = ParentBlock(dir, op.at)
  BY DEF CdUp, Walking
<1>2. op.at \in Directories /\ cur_block' \in Directories
  BY DEF DiskInv, CwdIsDirectory, CdUp, fsVars
<1>3. op'.at \in Directories
  BY <1>1, <1>2, ParentInTree DEF DiskInv
<1>. QED  BY <1>1, <1>2, <1>3, WalkStep DEF CdUp

LEMMA CdDownDisk ==
  ASSUME TypeInv, DiskInv, CdDown
  PROVE  DiskInv'
<1>1. op \in CdWalks
  BY WalkingFacts DEF CdDown
<1>2. op.segs \in Seq(Name \cup {DotDot}) /\ op.segs # <<>> /\ Head(op.segs) # DotDot
  BY <1>1 DEF CdWalks, CdDown
<1>3. Head(op.segs) \notin Dots
  BY <1>2, DirectoryAssumption DEF Dots
<1>4. op.at \in Directories /\ op.at \in DataBlock /\ cur_block' \in Directories
  BY DirectoryFacts DEF DiskInv, CwdIsDirectory, CdDown, fsVars
<1>5. PICK e \in Subdir(op.at, Head(op.segs)) :
        op' = Walking(e.first, Tail(op.segs), Append(op.stack, Head(op.segs)))
  BY DEF CdDown
<1>6. e \in Listed(dir, op.at) /\ e.attr = ATTR_DIR
  BY <1>3, <1>5 DEF Subdir, Find, Listed
<1>7. e.first \in Directories
  BY <1>4, <1>6, InDirectories
<1>8. op'.cmd = "cd" /\ op'.at = e.first
  BY <1>5 DEF Walking
<1>. QED  BY <1>4, <1>7, <1>8, WalkStep DEF CdDown

LEMMA CdEndsDisk ==
  ASSUME TypeInv, DiskInv, CdFail \/ CdEnd
  PROVE  DiskInv'
<1>1. op'.cmd # "write" /\ op'.cmd # "cd"
  BY DEF CdFail, CdEnd, Idle
<1>2. cur_block' \in Directories
  BY DEF DiskInv, CwdIsDirectory, CdFail, CdEnd, fsVars
<1>. QED  BY <1>1, <1>2, WalkStep DEF CdFail, CdEnd

\* A formatted disk, with no file open.
Formatted ==
  /\ fat = FormatFat /\ bitmap = FormatBitmap /\ dir = FormatDir
  /\ cur_block = Root /\ op = Idle
  /\ \A i \in DOMAIN sys_files : sys_files[i].name \notin Dots /\ ~InUse(i)

LEMMA FormatDisk == Formatted => DiskInv
<1> SUFFICES ASSUME Formatted PROVE DiskInv
  OBVIOUS
<1> USE DEF Formatted
<1>1. /\ NewEntry(Dot, Root, ATTR_DIR).name = Dot
      /\ NewEntry(DotDot, Root, ATTR_DIR).name = DotDot
      /\ NewEntry(DotDot, Root, ATTR_DIR).first = Root
      /\ \A k \in InitDir(Root, Root) : k.attr = ATTR_DIR /\ k.name \in Dots
  BY DEF InitDir, NewEntry, StoredName, Dots
<1>2. /\ \A d \in DataBlock : dir[d] = IF d = Root THEN InitDir(Root, Root) ELSE {}
      /\ \A d \in DataBlock : Listed(dir, d) = {}
  BY <1>1, BlockFacts DEF FormatDir, Listed
<1>3. /\ Find(dir, Root, Dot) # {}
      /\ Find(dir, Root, DotDot) = {NewEntry(DotDot, Root, ATTR_DIR)}
  BY <1>1, <1>2, BlockFacts, DirectoryAssumption DEF Find, InitDir
<1>4. Directories = {Root}
  BY <1>2, InDirectories
<1>5. Heads = {Root}
  <2>1. dir[Root] # {}
    BY <1>3 DEF Find
  <2>. QED  BY <1>2, <2>1, BlockFacts DEF Heads
<1>6. DotsKept
  BY <1>1, <1>2, <1>3 DEF DotsKept, Find
<1>7. ParentLinks
  <2>1. (CHOOSE k \in Find(dir, Root, DotDot) : TRUE) = NewEntry(DotDot, Root, ATTR_DIR)
    BY <1>3
  <2>. QED  BY <1>1, <1>2, <1>3, <2>1 DEF ParentLinks, ParentBlock
<1>8. TreeIsFinite
  <2>1. \A S \in SUBSET {Root} : S # {} => Root \in S
    OBVIOUS
  <2>. QED  BY <1>2, <1>4, <2>1, BlockFacts DEF TreeIsFinite
<1>9. EntriesDistinct /\ KindsAgree /\ TreeHoldsAll
  BY <1>2 DEF EntriesDistinct, KindsAgree, TreeHoldsAll
<1>10. Sound(fat, Heads) /\ BitmapCoversFat
  BY <1>5, SoundFormat DEF BitmapCoversFat, FormatFat, FormatBitmap
<1>11. CwdIsDirectory /\ OpenFilesListed /\ RecordsInv
  BY <1>4 DEF CwdIsDirectory, OpenFilesListed, RecordsInv, Idle
<1>. QED  BY <1>6, <1>7, <1>8, <1>9, <1>10, <1>11 DEF DiskInv, DirInv

---------------------------------------------------------------------------
(* The invariant, and what follows from it *)

CarefulInv == TableInv /\ DiskInv

LEMMA InitCareful == Init => CarefulInv
<1> SUFFICES ASSUME Init PROVE CarefulInv
  OBVIOUS
<1>1. DOMAIN sys_files = {}
  BY DEF Init, FOInit
<1>2. DiskInv
  BY <1>1, FormatDisk DEF Init, FOInit, Formatted
<1>. QED  BY <1>2, InitTables DEF CarefulInv

LEMMA FormatKeeps ==
  ASSUME TableInv, DiskInv, user_fds = {}, Format
  PROVE  DiskInv'
<1>1. \A i \in DOMAIN sys_files' : sys_files'[i].name \notin Dots /\ ~InUse(i)'
  <2>1. sys_files' = sys_files
    BY DEF Format, openVars
  <2>2. \A i : ~InUse(i)
    BY UsedRecords
  <2>. QED  BY <2>1, <2>2 DEF DiskInv, RecordsInv, InUse
<1>2. Formatted'
  BY <1>1 DEF Format, Formatted
<1>. QED  BY <1>2, FormatDisk, PTL

LEMMA NextCareful == UsedWithCare /\ CarefulInv /\ [Next]_vars => CarefulInv'
<1> SUFFICES ASSUME UsedWithCare, CarefulInv, [Next]_vars PROVE CarefulInv'
  OBVIOUS
<1>1. TableInv /\ TableInv' /\ TypeInv /\ TypeInv' /\ DiskInv
  BY NextTables DEF CarefulInv, TableInv
<1> SUFFICES DiskInv'
  BY <1>1 DEF CarefulInv
<1>2. CASE FileCommand
  <2>1. ASSUME NEW n \in AnyName, Create(cur_block, n) PROVE DiskInv'
    BY <1>1, <1>2, <2>1, CreateDisk DEF FileCommand
  <2>2. ASSUME NEW n \in AnyName, Open(cur_block, n) PROVE DiskInv'
    BY <1>1, <1>2, <2>2, OpenDisk DEF FileCommand
  <2>3. ASSUME NEW n \in AnyName, CanRemove(cur_block, n), Remove(cur_block, n) PROVE DiskInv'
    BY <1>1, <1>2, <2>3, RemoveDisk DEF FileCommand, CanRemove, Allows, UsedWithCare
  <2>4. ASSUME NEW fd \in 0 .. MaxFds - 1, Close(fd) PROVE DiskInv'
    BY <1>1, <1>2, <2>4, CloseDisk DEF FileCommand
  <2>5. ASSUME NEW fd \in 0 .. MaxFds - 1, NEW n \in ReadSizes, Read(fd, n) PROVE DiskInv'
    BY <1>1, <1>2, <2>5, ReadDisk, FileOpsAssumption DEF FileCommand
  <2>6. ASSUME NEW fd \in 0 .. MaxFds - 1, NEW n \in WriteSizes, Write(fd, n) PROVE DiskInv'
    BY <1>1, <1>2, <2>6, WriteDisk DEF FileCommand
  <2>. QED  BY <1>2, <2>1, <2>2, <2>3, <2>4, <2>5, <2>6 DEF FileCommand
<1>3. CASE DirectoryCommand
  <2>1. ASSUME NEW n \in AnyName, Mkdir(n) \/ Rmdir(n) PROVE DiskInv'
    BY <1>1, <2>1, MkdirDisk, RmdirDisk
  <2>2. ASSUME NEW old \in AnyName, NEW new \in AnyName, CanRename(old, new), Rename(old, new)
        PROVE  DiskInv'
    BY <1>1, <2>2, RenameDisk DEF CanRename, Allows, UsedWithCare
  <2>3. ASSUME NEW start \in PathStart, NEW segs \in Paths, Cd(start, segs) PROVE DiskInv'
    BY <1>1, <2>3, CdDisk
  <2>. QED  BY <1>3, <2>1, <2>2, <2>3 DEF DirectoryCommand
<1>4. CASE CanFormat /\ Format
  BY <1>1, <1>4, FormatKeeps DEF CanFormat, Allows, UsedWithCare
<1>5. CASE Turn
  BY <1>1, <1>5, WriteBlockDisk, WriteEndDisk, CdUpDisk, CdDownDisk, CdEndsDisk DEF Turn, Loop
<1>6. CASE UNCHANGED vars
  <2>1. UNCHANGED <<diskVars, openVars, op, cur_block>>
    BY <1>6 DEF vars, foVars, fsVars
  <2>2. DirInv' /\ Heads' = Heads /\ Directories' = Directories
    BY <1>1, <2>1, DirKept DEF DiskInv, diskVars
  <2>3. OpenFilesListed' /\ RecordsInv' /\ BitmapCoversFat' /\ CwdIsDirectory'
    BY <1>1, <2>1, <2>2 DEF DiskInv, OpenFilesListed, RecordsInv, InUse, BitmapCoversFat,
                            CwdIsDirectory, diskVars, openVars
  <2>. QED  BY <1>1, <2>1, <2>2, <2>3 DEF DiskInv, diskVars
<1>. QED  BY <1>2, <1>3, <1>4, <1>5, <1>6 DEF Next

\* With a user who takes care, FAT, bitmap, directories, open files and working
\* directory agree after every step, on a disk of any size.
THEOREM DiskStaysSound ==
  ASSUME UsedWithCare
  PROVE  Spec => []DiskInv
<1>1. CarefulInv => DiskInv
  BY DEF CarefulInv
<1>2. CarefulInv /\ [Next]_vars => CarefulInv'
  BY NextCareful
<1>. QED  BY <1>1, <1>2, InitCareful, PTL DEF Spec

\* What the links say of chains.
LEMMA DiskImplies == TypeOK /\ DiskInv => NoSharedBlocks /\ ChainsIntact
<1> SUFFICES ASSUME TypeOK, DiskInv PROVE NoSharedBlocks /\ ChainsIntact
  OBVIOUS
<1>1. fat \in [Block -> FatValue] /\ dir \in [Block -> SUBSET Entry]
  BY DEF TypeOK, DirectoryTypeOK, BlocksTypeOK
<1>2. Heads \in SUBSET DataBlock
  BY <1>1, ListedType DEF Heads
<1>3. NoSharedBlocks
  <2>1. \A g, h \in Heads : g # h => Chain(fat, g) \cap Chain(fat, h) = {}
    BY <1>2, ChainsDisjoint DEF DiskInv
  <2>. QED  BY <2>1 DEF NoSharedBlocks, DiskInv, DirInv, EntriesDistinct
<1>4. ASSUME NEW h \in Heads
      PROVE  Tails(fat, h) # {} /\ \A x \in Chain(fat, h) : fat[x] # FAT_FREE
  <2>1. Sound(fat, Heads) /\ h \in DataBlock /\ fat[h] # FAT_FREE
    BY <1>2 DEF DiskInv, Sound
  <2>. QED  BY <1>1, <1>2, <2>1, ChainEnds, ChainUsed
<1>. QED  BY <1>3, <1>4 DEF ChainsIntact

\* No block ever belongs to two files or directories (alloc_block, find_free and
\* free_chain, as create, mkdir, write, remove and rmdir use them).
THEOREM BlocksNotShared ==
  ASSUME UsedWithCare
  PROVE  Spec => []NoSharedBlocks
BY DiskImplies, TypeCorrect, DiskStaysSound, PTL

\* No chain of a file or directory ever runs into a free block or into a cycle,
\* so the loops over chains end where the file or directory does.
THEOREM ChainsStayIntact ==
  ASSUME UsedWithCare
  PROVE  Spec => []ChainsIntact
BY DiskImplies, TypeCorrect, DiskStaysSound, PTL

\* create and mkdir never overwrite a FAT entry in use: what the bitmap calls free is
\* free in the FAT, although each is changed on its own.
THEOREM BitmapKeepsUp ==
  ASSUME UsedWithCare
  PROVE  Spec => []BitmapCoversFat
<1>1. DiskInv => BitmapCoversFat
  BY DEF DiskInv
<1>. QED  BY <1>1, DiskStaysSound, PTL

\* A file that is open is still listed where it was opened, and read and write
\* go to its blocks only (open, close, remove, rename).
THEOREM OpenFilesStayListed ==
  ASSUME UsedWithCare
  PROVE  Spec => []OpenFilesListed
<1>1. DiskInv => OpenFilesListed
  BY DEF DiskInv
<1>. QED  BY <1>1, DiskStaysSound, PTL

\* The user never stands, and cd never comes to stand, in a directory that is not
\* part of the tree (cd, rmdir, format).
THEOREM CwdStaysInTree ==
  ASSUME UsedWithCare
  PROVE  Spec => []CwdIsDirectory
<1>1. DiskInv => CwdIsDirectory
  BY DEF DiskInv
<1>. QED  BY <1>1, DiskStaysSound, PTL

\* The directories always form a tree: no directory is listed below itself, and
\* every walk down comes to an end (mkdir, rmdir, rename, print_tree).
THEOREM DirectoriesFormTree ==
  ASSUME UsedWithCare
  PROVE  Spec => []TreeIsFinite
<1>1. DiskInv => TreeIsFinite
  BY DEF DiskInv, DirInv
<1>. QED  BY <1>1, DiskStaysSound, PTL

\* ".." always leads to the directory a directory is listed in, so cd .. is the way
\* back and pwd can be trusted after it (init_dir, parent_block, rename).
THEOREM ParentsLeadBack ==
  ASSUME UsedWithCare
  PROVE  Spec => []ParentLinks
<1>1. DiskInv => ParentLinks
  BY DEF DiskInv, DirInv
<1>. QED  BY <1>1, DiskStaysSound, PTL

---------------------------------------------------------------------------
(* Names, when none is long enough to be cut *)

NothingCut == \A n \in Name : Stored[n] = n

LEMMA StoredSame ==
  ASSUME NothingCut
  PROVE  \A n \in AnyName : StoredName(n) = n
BY DEF NothingCut, StoredName, AnyName

LEMMA InitDirNames ==
  ASSUME NEW b, NEW p, NEW e \in InitDir(b, p), NEW k \in InitDir(b, p), e.name = k.name
  PROVE  e = k
BY DirectoryAssumption DEF InitDir, NewEntry, StoredName, Dots

\* At most one entry k is new in an old directory d, where it may take the place of
\* old, and no other entry of d has its name; a directory may be new as a whole.
OneNewEntry(d, old, k) ==
  /\ \A x \in dir[d] : x # old => x.name # k.name
  /\ \A c \in DataBlock : \/ dir'[c] \subseteq dir[c]
                          \/ \E p : dir'[c] = InitDir(c, p)
                          \/ c = d /\ dir'[c] \subseteq (dir[c] \ {old}) \cup {k}

LEMMA NamesStep ==
  ASSUME UniqueNames, NEW d, NEW old, NEW k, OneNewEntry(d, old, k)
  PROVE  UniqueNames'
<1> USE DEF OneNewEntry
<1> SUFFICES ASSUME NEW c \in DataBlock, NEW x \in dir'[c], NEW y \in dir'[c], x.name = y.name
             PROVE  x = y
  BY DEF UniqueNames
<1>1. CASE dir'[c] \subseteq dir[c]
  BY <1>1 DEF UniqueNames
<1>2. CASE \E p : dir'[c] = InitDir(c, p)
  BY <1>2, InitDirNames
<1>3. CASE c = d /\ dir'[c] \subseteq (dir[c] \ {old}) \cup {k}
  BY <1>3 DEF UniqueNames
<1>. QED  BY <1>1, <1>2, <1>3

LEMMA DiskNames ==
  ASSUME UniqueNames, UNCHANGED dir
  PROVE  UniqueNames'
BY DEF UniqueNames

LEMMA CreateNames ==
  ASSUME NothingCut, TypeInv, UniqueNames, NEW n \in AnyName, Create(cur_block, n)
  PROVE  UniqueNames'
<1>1. CASE UNCHANGED dir
  BY <1>1, DiskNames
<1>2. CASE \E b, f, u : AddEntry(f, u, dir, cur_block, NewEntry(n, b, ATTR_FILE))
  <2>1. PICK k : k.name = n /\ dir' = [dir EXCEPT ![cur_block] = @ \cup {k}]
    BY <1>2, StoredSame DEF AddEntry, NewEntry
  <2>2. \A x \in dir[cur_block] : x # k => x.name # k.name
    BY <2>1 DEF Create, Find
  <2>3. \A c \in DataBlock : \/ dir'[c] \subseteq dir[c]
                             \/ \E p : dir'[c] = InitDir(c, p)
                             \/ (c = cur_block /\ dir'[c] \subseteq (dir[c] \ {k}) \cup {k})
    BY <2>1, TypeFacts, BlockFacts
  <2>4. OneNewEntry(cur_block, k, k)
    BY <2>2, <2>3 DEF OneNewEntry
  <2>. QED  BY <2>4, NamesStep
<1>. QED  BY <1>1, <1>2 DEF Create

LEMMA MkdirNames ==
  ASSUME NothingCut, TypeInv, DiskInv, UniqueNames, NEW n \in AnyName, Mkdir(n)
  PROVE  UniqueNames'
<1>1. PICK b \in FindFree(bitmap) :
        LET ds == [dir EXCEPT ![b] = InitDir(b, cur_block)]
        IN  \/ \E f, u : AddEntry(f, u, ds, cur_block, NewEntry(n, b, ATTR_DIR))
            \/ dir' = ds
  BY DEF Mkdir
<1> DEFINE ds == [dir EXCEPT ![b] = InitDir(b, cur_block)]
           k  == NewEntry(n, b, ATTR_DIR)
<1>2. k.name = n /\ \A x \in dir[cur_block] : x.name # n
  BY StoredSame DEF NewEntry, Mkdir, Find
<1>3. b \in DataBlock /\ b # cur_block
  <2>1. b \in DataBlock /\ b \notin Heads
    BY BlockClaimed
  <2>2. cur_block \in Heads
    BY DirectoryFacts DEF DiskInv, CwdIsDirectory
  <2>. QED  BY <2>1, <2>2
<1>4. dir' = ds \/ dir' = [ds EXCEPT ![cur_block] = @ \cup {k}]
  BY <1>1 DEF AddEntry
<1> HIDE DEF k
<1>5. \A c \in DataBlock : \/ dir'[c] \subseteq dir[c]
                           \/ \E p : dir'[c] = InitDir(c, p)
                           \/ (c = cur_block /\ dir'[c] \subseteq (dir[c] \ {k}) \cup {k})
  <2>1. dir'[b] = InitDir(b, cur_block)
    BY <1>3, <1>4, TypeFacts, BlockFacts
  <2>2. \A c \in DataBlock : c # b =>
          dir'[c] = dir[c] \/ (c = cur_block /\ dir'[c] = dir[c] \cup {k})
    BY <1>3, <1>4, TypeFacts, BlockFacts
  <2>. QED  BY <2>1, <2>2
<1>6. OneNewEntry(cur_block, k, k)
  BY <1>2, <1>5 DEF OneNewEntry
<1>. QED  BY <1>6, NamesStep

LEMMA ReplaceNames ==
  ASSUME TypeInv, UniqueNames, NEW d \in DataBlock, NEW e \in dir[d], NEW k,
         dir' = Replaced(dir, d, e, k), k.name = e.name \/ Find(dir, d, k.name) = {}
  PROVE  UniqueNames'
<1>1. \A x \in dir[d] : x # e => x.name # k.name
  BY DEF UniqueNames, Find
<1>2. \A c \in DataBlock : \/ dir'[c] \subseteq dir[c]
                           \/ \E p : dir'[c] = InitDir(c, p)
                           \/ (c = d /\ dir'[c] \subseteq (dir[c] \ {e}) \cup {k})
  <2>1. dir'[d] = (dir[d] \ {e}) \cup {k}
    BY TypeFacts, BlockFacts DEF Replaced
  <2>2. \A c \in DataBlock : c # d => dir'[c] = dir[c]
    BY TypeFacts, BlockFacts DEF Replaced
  <2>. QED  BY <2>1, <2>2
<1>3. OneNewEntry(d, e, k)
  BY <1>1, <1>2 DEF OneNewEntry
<1>. QED  BY <1>3, NamesStep

LEMMA RenameNames ==
  ASSUME NothingCut, TypeInv, UniqueNames, NEW old \in AnyName, NEW new \in AnyName,
         Rename(old, new)
  PROVE  UniqueNames'
<1>1. PICK e \in Find(dir, cur_block, old) :
        dir' = Replaced(dir, cur_block, e, [e EXCEPT !.name = StoredName(new)])
  BY DEF Rename
<1> DEFINE k == [e EXCEPT !.name = StoredName(new)]
<1>2. e \in Entry /\ e \in dir[cur_block] /\ cur_block \in DataBlock
  BY TypeFacts, FindType DEF Find
<1>3. k.name = new
  BY <1>2, StoredSame DEF Entry
<1> HIDE DEF k
<1>. QED  BY <1>1, <1>2, <1>3, ReplaceNames DEF Rename, k

LEMMA CloseNames ==
  ASSUME TypeInv, UniqueNames, NEW fd, Close(fd)
  PROVE  UniqueNames'
<1>1. PICK u \in user_fds : \/ UNCHANGED dir
                            \/ dir' \in WriteBack(sys_files[u.file])
  BY DEF Close
<1> DEFINE of == sys_files[u.file]
<1>2. of.dir \in DataBlock
  BY TypeFacts, RecordType
<1>3. CASE dir' \in WriteBack(of)
  <2>1. PICK e \in Find(dir, of.dir, of.name) :
          dir' = Replaced(dir, of.dir, e, [e EXCEPT !.size = of.size])
    BY <1>3 DEF WriteBack
  <2> DEFINE k == [e EXCEPT !.size = of.size]
  <2>2. e \in Entry /\ e \in dir[of.dir]
    BY <1>2, TypeFacts, FindType DEF Find
  <2>3. k.name = e.name
    BY <2>2 DEF Entry
  <2> HIDE DEF k, of
  <2>. QED  BY <1>2, <2>1, <2>2, <2>3, ReplaceNames DEF k
<1>. QED  BY <1>1, <1>3, DiskNames

\* What takes entries away, or starts afresh.
LEMMA RemoveNames ==
  ASSUME TypeInv, UniqueNames, (\E n : Remove(cur_block, n) \/ Rmdir(n)) \/ Format
  PROVE  UniqueNames'
<1>1. CASE \E n : Remove(cur_block, n)
  <2>1. \A c \in DataBlock : dir'[c] \subseteq dir[c]
    BY <1>1, TypeFacts, BlockFacts DEF Remove
  <2>. QED  BY <2>1 DEF UniqueNames
<1>2. CASE \E n : Rmdir(n)
  <2>1. \A c \in DataBlock : dir'[c] \subseteq dir[c]
    BY <1>2, TypeFacts, BlockFacts DEF Rmdir
  <2>. QED  BY <2>1 DEF UniqueNames
<1>3. CASE Format
  <2>1. \A c \in DataBlock : dir'[c] = {} \/ dir'[c] = InitDir(c, Root)
    BY <1>3, BlockFacts DEF Format, FormatDir
  <2>. QED  BY <2>1, InitDirNames DEF UniqueNames
<1>. QED  BY <1>1, <1>2, <1>3

LEMMA InitNames == Init => UniqueNames
<1> SUFFICES ASSUME Init PROVE UniqueNames
  OBVIOUS
<1>1. \A c \in DataBlock : dir[c] = {} \/ dir[c] = InitDir(c, Root)
  BY BlockFacts DEF Init, FOInit, FormatDir
<1>. QED  BY <1>1, InitDirNames DEF UniqueNames

LEMMA NextNames ==
  NothingCut /\ TypeInv /\ DiskInv /\ UniqueNames /\ [Next]_vars => UniqueNames'
<1> SUFFICES ASSUME NothingCut, TypeInv, DiskInv, UniqueNames, [Next]_vars PROVE UniqueNames'
  OBVIOUS
<1>1. CASE UNCHANGED dir
  BY <1>1, DiskNames
<1>2. CASE FileCommand
  <2>1. ASSUME NEW n \in AnyName, Open(cur_block, n) PROVE UniqueNames'
    BY <1>1, <2>1 DEF Open, diskVars
  <2>2. ASSUME NEW fd, NEW n, Read(fd, n) \/ Write(fd, n) PROVE UniqueNames'
    BY <1>1, <2>2 DEF Read, Write, diskVars
  <2>. QED  BY <1>2, <2>1, <2>2, CreateNames, RemoveNames, CloseNames DEF FileCommand
<1>3. CASE DirectoryCommand
  <2>1. ASSUME NEW start, NEW segs, Cd(start, segs) PROVE UniqueNames'
    BY <1>1, <2>1 DEF Cd, diskVars
  <2>. QED  BY <1>3, <2>1, MkdirNames, RemoveNames, RenameNames DEF DirectoryCommand
<1>4. CASE Format
  BY <1>4, RemoveNames
<1>5. CASE Turn
  BY <1>1, <1>5 DEF Turn, Loop, WriteBlock, WriteEnd, CdUp, CdDown, CdFail, CdEnd, diskVars
<1>6. CASE UNCHANGED vars
  BY <1>1, <1>6 DEF vars, foVars, diskVars
<1>. QED  BY <1>2, <1>3, <1>4, <1>5, <1>6 DEF Next

\* As long as no name is too long for its slot, a directory never has two entries
\* of one name (create, mkdir, rename, and the names close writes back to).
THEOREM NamesStayUnique ==
  ASSUME UsedWithCare, NothingCut
  PROVE  Spec => []UniqueNames
<1>1. TypeInv /\ DiskInv /\ UniqueNames /\ [Next]_vars => UniqueNames'
  BY NextNames
<1>. QED  BY <1>1, InitNames, InitType, NextType, DiskStaysSound, PTL DEF Spec
===========================================================================
