-------------------------- MODULE FileSystemProofs --------------------------
(***************************************************************************)
(* Proofs about FileSystem that hold for every value of the constants, and *)
(* in particular whatever the user's habits are: type correctness, and     *)
(* what keeps the tables of open files consistent.                         *)
(*                                                                         *)
(* The first half is about the block layer: what its operators return, and *)
(* what the single-link invariant Sound says of whole chains.  Every fact  *)
(* about a chain is proved in the same way, by showing some set closed     *)
(* under the links of the FAT: the chain, the least such set, then lies    *)
(* within it.                                                              *)
(***************************************************************************)
EXTENDS FileSystem, FiniteSetTheorems, WellFoundedInduction, TLAPS

---------------------------------------------------------------------------
(* Types *)

LEMMA BlockFacts ==
  /\ Root \in DataBlock /\ DataBlock \subseteq Block /\ MetaBlock \subseteq Block
  /\ \A b \in Block : b \in Nat
  /\ FAT_EOF \in FatValue /\ FAT_FREE \in FatValue /\ DataBlock \subseteq FatValue
BY BlockAssumption DEF Root, DataBlock, Block, MetaBlock, FatValue

\* The two marks are not the numbers of data blocks.
LEMMA MarkFacts ==
  /\ FAT_EOF \notin DataBlock /\ FAT_FREE \notin DataBlock /\ FAT_EOF # FAT_FREE
  /\ DataBlock \cap MetaBlock = {}
  /\ \A b \in Block : b \in DataBlock \/ b \in MetaBlock
BY BlockAssumption DEF DataBlock, MetaBlock, Block, FAT_EOF, FAT_FREE

LEMMA ChainIsData ==
  ASSUME NEW f, NEW b
  PROVE  Chain(f, b) \subseteq DataBlock /\ Tails(f, b) \subseteq DataBlock
BY DEF Chain, Tails

LEMMA LowestIn ==
  ASSUME NEW S
  PROVE  Lowest(S) \subseteq S
BY DEF Lowest

LEMMA FreeChainType ==
  ASSUME NEW f \in [Block -> FatValue], NEW b
  PROVE  FreeChain(f, b) \in [Block -> FatValue]
BY BlockFacts DEF FreeChain

LEMMA LinkedType ==
  ASSUME NEW f \in [Block -> FatValue], NEW t, NEW b \in DataBlock
  PROVE  Linked(f, t, b) \in [Block -> FatValue]
BY BlockFacts DEF Linked

---------------------------------------------------------------------------
(* Chains *)

\* The chain of b is closed under links and holds b ...
LEMMA ChainClosed ==
  ASSUME NEW f, NEW b \in DataBlock
  PROVE  /\ b \in Chain(f, b)
         /\ \A x \in Chain(f, b) : f[x] \in DataBlock => f[x] \in Chain(f, b)
BY DEF Chain, ClosedSets

\* ... and is the least such set.
LEMMA ChainLeast ==
  ASSUME NEW f, NEW b, NEW S \in SUBSET DataBlock, b \in S,
         \A x \in S : f[x] \in DataBlock => f[x] \in S
  PROVE  Chain(f, b) \subseteq S
BY DEF Chain, ClosedSets

\* Every block of a chain but the first is linked to from within the chain.
LEMMA ChainPred ==
  ASSUME NEW f, NEW b \in DataBlock, NEW y \in Chain(f, b), y # b
  PROVE  \E z \in Chain(f, b) : f[z] = y
<1> SUFFICES ASSUME \A z \in Chain(f, b) : f[z] # y PROVE FALSE
  OBVIOUS
<1> DEFINE S == Chain(f, b) \ {y}
<1>1. S \in SUBSET DataBlock /\ b \in S
  BY ChainIsData, ChainClosed
<1>2. \A x \in S : f[x] \in DataBlock => f[x] \in S
  BY ChainClosed
<1>3. Chain(f, b) \subseteq S
  <2> HIDE DEF S
  <2>. QED  BY <1>1, <1>2, ChainLeast
<1>. QED  BY <1>3

\* The chain of a used block has no free block.
LEMMA ChainUsed ==
  ASSUME NEW f, NEW H, Sound(f, H), NEW b \in DataBlock, f[b] # FAT_FREE
  PROVE  \A x \in Chain(f, b) : f[x] # FAT_FREE
<1> DEFINE S == {x \in DataBlock : f[x] # FAT_FREE}
<1>1. \A x \in S : f[x] \in DataBlock => f[x] \in S
  BY BlockFacts DEF Sound
<1>2. Chain(f, b) \subseteq S
  BY <1>1, ChainLeast
<1>. QED  BY <1>2

\* A block of H lies in no chain but its own.
LEMMA HeadsApart ==
  ASSUME NEW f, NEW H, Sound(f, H), NEW g \in DataBlock, NEW h \in H, g # h
  PROVE  h \notin Chain(f, g)
BY ChainPred, ChainIsData, BlockFacts DEF Sound

\* The chains of two blocks of H have no block in common.
LEMMA ChainsDisjoint ==
  ASSUME NEW f, NEW H \in SUBSET DataBlock, Sound(f, H), NEW g \in H, NEW h \in H, g # h
  PROVE  Chain(f, g) \cap Chain(f, h) = {}
<1> DEFINE S == Chain(f, g) \ Chain(f, h)
<1>1. g \in DataBlock /\ h \in DataBlock
  OBVIOUS
<1>2. S \in SUBSET DataBlock /\ g \in S
  BY <1>1, ChainIsData, ChainClosed, HeadsApart
<1>3. ASSUME NEW x \in S, f[x] \in DataBlock
      PROVE  f[x] \in S
  <2>1. f[x] \in Chain(f, g)
    BY <1>1, <1>3, ChainClosed
  <2>2. SUFFICES ASSUME f[x] \in Chain(f, h) PROVE FALSE
    BY <2>1
  <2>3. x \in Block /\ f[x] # h
    BY ChainIsData, BlockFacts DEF Sound
  <2>4. PICK z \in Chain(f, h) : f[z] = f[x]
    BY <1>1, <2>2, <2>3, ChainPred
  <2>5. z = x
    BY <1>3, <2>3, <2>4, ChainIsData, BlockFacts DEF Sound
  <2>. QED  BY <2>4, <2>5
<1>4. Chain(f, g) \subseteq S
  <2> HIDE DEF S
  <2>. QED  BY <1>2, <1>3, ChainLeast
<1>. QED  BY <1>4

LEMMA ChainFinite ==
  ASSUME NEW f, NEW b
  PROVE  IsFiniteSet(Chain(f, b)) /\ Cardinality(Chain(f, b)) \in Nat
<1>1. IsFiniteSet(Block)
  BY FS_Interval, BlockAssumption DEF Block
<1>2. Chain(f, b) \in SUBSET Block
  BY ChainIsData, BlockFacts
<1>3. IsFiniteSet(Chain(f, b))
  BY <1>1, <1>2, FS_Subset
<1>. QED  BY <1>3, FS_CardinalityType

\* The chain of a block of H has an end: if each of its blocks had a link, the
\* links would map the chain one to one into the chain without its first block.
LEMMA ChainEnds ==
  ASSUME NEW f \in [Block -> FatValue], NEW H \in SUBSET DataBlock, Sound(f, H), NEW h \in H
  PROVE  Tails(f, h) # {}
<1> SUFFICES ASSUME Tails(f, h) = {} PROVE FALSE
  OBVIOUS
<1> DEFINE S == Chain(f, h)
           link == [x \in S |-> f[x]]
<1>1. h \in DataBlock /\ S \subseteq Block
  BY ChainIsData, BlockFacts
<1>2. \A x \in S : f[x] \in DataBlock
  BY <1>1 DEF Tails, FatValue
<1>3. \A x \in S : f[x] \in S \ {h}
  BY <1>1, <1>2, ChainClosed DEF Sound
<1>4. IsFiniteSet(S) /\ Cardinality(S) \in Nat /\ h \in S
  BY <1>1, ChainFinite, ChainClosed
<1> HIDE DEF S
<1>5. link \in [S -> S \ {h}]
  BY <1>3
<1>6. /\ IsFiniteSet(S \ {h})
      /\ Cardinality(S \ {h}) < Cardinality(S)
  <2>1. Cardinality(S \ {h}) = Cardinality(S) - 1
    BY <1>4, FS_RemoveElement
  <2>. QED  BY <1>4, <2>1, FS_RemoveElement
<1>7. PICK x, y \in S : x # y /\ link[x] = link[y]
  <2> HIDE DEF link
  <2>. QED  BY <1>4, <1>5, <1>6, FS_PigeonHole
<1>. QED  BY <1>1, <1>2, <1>7 DEF Sound

\* The end of the chain of a used block is marked as such.
LEMMA TailsEnd ==
  ASSUME NEW f, NEW H, Sound(f, H), NEW b \in DataBlock, f[b] # FAT_FREE,
         NEW t \in Tails(f, b)
  PROVE  t \in DataBlock /\ f[t] = FAT_EOF
BY ChainUsed, ChainIsData DEF Tails

---------------------------------------------------------------------------
(* The steps that change the FAT *)

LEMMA SoundSubset ==
  ASSUME NEW f, NEW H, NEW G \in SUBSET H, Sound(f, H)
  PROVE  Sound(f, G)
BY DEF Sound

\* A free block becomes the first and only block of something new.
LEMMA SoundClaim ==
  ASSUME NEW f \in [Block -> FatValue], NEW H \in SUBSET DataBlock, Sound(f, H),
         NEW b \in DataBlock, f[b] = FAT_FREE
  PROVE  Sound([f EXCEPT ![b] = FAT_EOF], H \cup {b})
<1> DEFINE g == [f EXCEPT ![b] = FAT_EOF]
<1>1. \A x \in Block : g[x] = IF x = b THEN FAT_EOF ELSE f[x]
  OBVIOUS
<1>2. \A x \in Block : f[x] # b
  BY MarkFacts DEF Sound
<1> HIDE DEF g
<1>. QED  BY <1>1, <1>2, MarkFacts, BlockFacts DEF Sound, g

\* A chain grows by a free block.
LEMMA SoundGrow ==
  ASSUME NEW f \in [Block -> FatValue], NEW H \in SUBSET DataBlock, Sound(f, H),
         NEW t \in DataBlock, f[t] = FAT_EOF, NEW b \in DataBlock, f[b] = FAT_FREE
  PROVE  Sound(Linked(f, t, b), H)
<1> DEFINE g == Linked(f, t, b)
<1>1. \A x \in Block : g[x] = IF x = t THEN b ELSE IF x = b THEN FAT_EOF ELSE f[x]
  BY DEF Linked
<1>2. b # t /\ \A x \in Block : f[x] # b
  BY MarkFacts DEF Sound
<1> HIDE DEF g
<1>3. \A x \in MetaBlock : g[x] = FAT_FREE
  BY <1>1, MarkFacts, BlockFacts DEF Sound
<1>4. \A x \in Block : g[x] \in DataBlock => g[g[x]] # FAT_FREE
  BY <1>1, <1>2, MarkFacts, BlockFacts DEF Sound
<1>5. \A x, y \in Block : g[x] \in DataBlock /\ g[x] = g[y] => x = y
  BY <1>1, <1>2, MarkFacts DEF Sound
<1>6. \A h \in H : g[h] # FAT_FREE /\ \A x \in Block : g[x] # h
  BY <1>1, <1>2, MarkFacts, BlockFacts DEF Sound
<1>. QED  BY <1>3, <1>4, <1>5, <1>6 DEF Sound, g

\* The chain of a block of H is freed, and the others are left alone.
LEMMA SoundFree ==
  ASSUME NEW f \in [Block -> FatValue], NEW H \in SUBSET DataBlock, Sound(f, H),
         NEW h \in H
  PROVE  Sound(FreeChain(f, h), H \ {h}) /\ FreeChain(f, h)[h] = FAT_FREE
<1> DEFINE g == FreeChain(f, h)
           S == Chain(f, h)
<1>1. \A x \in Block : g[x] = IF x \in S THEN FAT_FREE ELSE f[x]
  BY DEF FreeChain
<1>2. h \in DataBlock /\ h \in Block /\ h \in S
  BY ChainClosed, BlockFacts
<1>3. ASSUME NEW x \in Block, f[x] \in DataBlock, f[x] \in S
      PROVE  x \in S
  <2>1. f[x] # h
    BY DEF Sound
  <2>2. PICK z \in S : f[z] = f[x]
    BY <1>2, <1>3, <2>1, ChainPred
  <2>3. z = x
    BY <1>3, <2>2, ChainIsData, BlockFacts DEF Sound
  <2>. QED  BY <2>2, <2>3
<1>4. \A k \in H \ {h} : k \notin S
  BY <1>2, HeadsApart
<1> HIDE DEF g, S
<1>5. \A x \in MetaBlock : g[x] = FAT_FREE
  BY <1>1, BlockFacts DEF Sound
<1>6. \A x \in Block : g[x] \in DataBlock => g[g[x]] # FAT_FREE
  BY <1>1, <1>3, MarkFacts, BlockFacts DEF Sound
<1>7. \A x, y \in Block : g[x] \in DataBlock /\ g[x] = g[y] => x = y
  BY <1>1, MarkFacts DEF Sound
<1>8. \A k \in H \ {h} : g[k] # FAT_FREE /\ \A x \in Block : g[x] # k
  BY <1>1, <1>4, MarkFacts, BlockFacts DEF Sound
<1>. QED  BY <1>1, <1>2, <1>5, <1>6, <1>7, <1>8 DEF Sound, g

LEMMA SoundFormat == Sound(FormatFat, {Root})
BY MarkFacts, BlockFacts DEF Sound, FormatFat

---------------------------------------------------------------------------
(* What the steps that change the FAT do to chains *)

\* A chain is as long as its own links say.
LEMMA ChainSame ==
  ASSUME NEW f, NEW g, NEW h \in DataBlock, \A x \in Chain(f, h) : g[x] = f[x]
  PROVE  Chain(g, h) = Chain(f, h)
<1>1. Chain(g, h) \subseteq Chain(f, h)
  BY ChainIsData, ChainClosed, ChainLeast
<1>2. \A x \in Chain(g, h) : f[x] \in DataBlock => f[x] \in Chain(g, h)
  BY <1>1, ChainClosed
<1>3. Chain(f, h) \subseteq Chain(g, h)
  BY <1>2, ChainIsData, ChainClosed, ChainLeast
<1>. QED  BY <1>1, <1>3

\* A free block that becomes the first of something new is a chain of its own.
LEMMA ChainClaimed ==
  ASSUME NEW f \in [Block -> FatValue], NEW H \in SUBSET DataBlock, Sound(f, H),
         NEW b \in DataBlock, f[b] = FAT_FREE,
         NEW g, g[b] = FAT_EOF, \A x \in Block : x # b => g[x] = f[x]
  PROVE  /\ Chain(g, b) = {b}
         /\ \A h \in H : b \notin Chain(f, h) /\ Chain(g, h) = Chain(f, h)
<1>1. Chain(g, b) = {b}
  <2>1. Chain(g, b) \subseteq {b}
    <3>1. {b} \in SUBSET DataBlock /\ \A x \in {b} : g[x] \notin DataBlock
      BY MarkFacts
    <3>. QED  BY <3>1, ChainLeast
  <2>. QED  BY <2>1, ChainClosed
<1>2. ASSUME NEW h \in H
      PROVE  b \notin Chain(f, h) /\ Chain(g, h) = Chain(f, h)
  <2>1. h \in DataBlock /\ f[h] # FAT_FREE
    BY DEF Sound
  <2>2. b \notin Chain(f, h)
    BY <2>1, ChainUsed
  <2>3. \A x \in Chain(f, h) : g[x] = f[x]
    BY <2>2, ChainIsData, BlockFacts
  <2>. QED  BY <2>1, <2>2, <2>3, ChainSame
<1>. QED  BY <1>1, <1>2

\* A free block that is linked to the end of one chain comes to that chain only.
LEMMA ChainGrown ==
  ASSUME NEW f \in [Block -> FatValue], NEW H \in SUBSET DataBlock, Sound(f, H),
         NEW d \in H, NEW t \in Tails(f, d), NEW b \in DataBlock, f[b] = FAT_FREE
  PROVE  /\ Chain(Linked(f, t, b), d) = Chain(f, d) \cup {b}
         /\ \A h \in H : /\ b \notin Chain(f, h)
                         /\ h # d => Chain(Linked(f, t, b), h) = Chain(f, h)
<1> DEFINE g == Linked(f, t, b)
<1>1. /\ d \in DataBlock /\ t \in Chain(f, d) /\ t \in DataBlock /\ f[t] = FAT_EOF
  BY TailsEnd, ChainIsData DEF Tails, Sound
<1>2. g[t] = b /\ g[b] = FAT_EOF /\ \A x \in Block : x # b /\ x # t => g[x] = f[x]
  BY <1>1, BlockFacts, MarkFacts DEF Linked
<1> HIDE DEF g
<1>3. \A h \in H : h \in DataBlock /\ b \notin Chain(f, h)
  BY ChainUsed DEF Sound
<1>4. Chain(g, d) \subseteq Chain(f, d) \cup {b}
  <2> DEFINE S == Chain(f, d) \cup {b}
  <2>1. S \in SUBSET DataBlock /\ d \in S
    BY <1>1, ChainIsData, ChainClosed
  <2>2. \A x \in S : g[x] \in DataBlock => g[x] \in S
    BY <1>1, <1>2, MarkFacts, ChainClosed, ChainIsData, BlockFacts
  <2> HIDE DEF S
  <2>3. Chain(g, d) \subseteq S
    BY <2>1, <2>2, ChainLeast
  <2>. QED  BY <2>3 DEF S
<1>5. Chain(f, d) \subseteq Chain(g, d)
  <2>1. \A x \in Chain(f, d) \cap Chain(g, d) : f[x] \in DataBlock => f[x] \in Chain(f, d) \cap Chain(g, d)
    BY <1>1, <1>2, <1>3, MarkFacts, ChainClosed, ChainIsData, BlockFacts
  <2> DEFINE S == Chain(f, d) \cap Chain(g, d)
  <2>2. S \in SUBSET DataBlock /\ d \in S
    BY <1>1, ChainIsData, ChainClosed
  <2> HIDE DEF S
  <2>3. Chain(f, d) \subseteq S
    BY <2>1, <2>2, ChainLeast DEF S
  <2>. QED  BY <2>3 DEF S
<1>6. b \in Chain(g, d)
  BY <1>1, <1>2, <1>5, ChainClosed
<1>7. ASSUME NEW h \in H, h # d
      PROVE  Chain(g, h) = Chain(f, h)
  <2>1. t \notin Chain(f, h) /\ b \notin Chain(f, h)
    BY <1>1, <1>3, <1>7, ChainsDisjoint
  <2>2. \A x \in Chain(f, h) : g[x] = f[x]
    BY <1>2, <2>1, ChainIsData, BlockFacts
  <2>. QED  BY <1>3, <2>2, ChainSame
<1>. QED  BY <1>3, <1>4, <1>5, <1>6, <1>7 DEF g

\* Freeing one chain leaves the others as they are.
LEMMA OtherChainsStay ==
  ASSUME NEW f \in [Block -> FatValue], NEW H \in SUBSET DataBlock, Sound(f, H), NEW d \in H
  PROVE  \A h \in H \ {d} : Chain(FreeChain(f, d), h) = Chain(f, h)
<1> SUFFICES ASSUME NEW h \in H \ {d} PROVE Chain(FreeChain(f, d), h) = Chain(f, h)
  OBVIOUS
<1>1. \A x \in Chain(f, h) : FreeChain(f, d)[x] = f[x]
  BY ChainsDisjoint, ChainIsData, BlockFacts DEF FreeChain
<1>. QED  BY <1>1, ChainSame

---------------------------------------------------------------------------
(* Counting *)

\* A nonempty set of naturals has a least element.
LEMMA LeastNatural ==
  ASSUME NEW S \in SUBSET Nat, S # {}
  PROVE  \E m \in S : \A n \in S : m <= n
<1>1. PICK m \in S : \A n \in S : ~ (<<n, m>> \in OpToRel(<, Nat))
  BY NatLessThanWellFounded, WFMin
<1>2. \A n \in Nat : n < m => <<n, m>> \in OpToRel(<, Nat)
  BY DEF OpToRel
<1>3. \A n \in S : ~ (n < m)
  BY <1>1, <1>2, Zenon
<1>. QED  BY <1>3

\* Induction, for a set of naturals.
LEMMA AllNaturals ==
  ASSUME NEW S \in SUBSET Nat, 0 \in S, \A n \in S : n + 1 \in S
  PROVE  S = Nat
<1> SUFFICES ASSUME Nat \ S # {} PROVE FALSE
  OBVIOUS
<1>1. PICK m \in Nat \ S : \A n \in Nat \ S : m <= n
  BY LeastNatural
<1>2. m # 0 /\ m - 1 \in Nat /\ m - 1 \in S
  BY <1>1
<1>. QED  BY <1>1, <1>2

---------------------------------------------------------------------------
(* The walk of nth_block *)

\* One turn of its loop.
Follow(f, x) == IF x = NoBlock \/ f[x] <= 0 THEN NoBlock ELSE f[x]

\* The blocks it has come to after each of n turns.
IsWalk(f, b, n, g) == g = [k \in 0 .. n |-> IF k = 0 THEN b ELSE Follow(f, g[k-1])]

LEMMA WalkFacts ==
  ASSUME NEW f, NEW b, NEW n \in Nat, NEW g, IsWalk(f, b, n, g)
  PROVE  g[0] = b /\ \A k \in 0 .. n : k # 0 => g[k] = Follow(f, g[k-1])
<1> DEFINE h == [k \in 0 .. n |-> IF k = 0 THEN b ELSE Follow(f, g[k-1])]
<1>1. h[0] = b /\ \A k \in 0 .. n : k # 0 => h[k] = Follow(f, g[k-1])
  OBVIOUS
<1>2. g = h
  BY Zenon DEF IsWalk
<1>. QED  BY <1>1, <1>2, Zenon

LEMMA WalkUnique ==
  ASSUME NEW f, NEW b, NEW m \in Nat, NEW n \in Nat, NEW g, NEW h,
         IsWalk(f, b, m, g), IsWalk(f, b, n, h), NEW k \in Nat, k <= m, k <= n
  PROVE  g[k] = h[k]
<1> DEFINE S == {i \in Nat : i <= m /\ i <= n => g[i] = h[i]}
<1>0. /\ g[0] = b /\ \A j \in 0 .. m : j # 0 => g[j] = Follow(f, g[j-1])
      /\ h[0] = b /\ \A j \in 0 .. n : j # 0 => h[j] = Follow(f, h[j-1])
  BY WalkFacts
<1>1. 0 \in S
  BY <1>0
<1>2. ASSUME NEW i \in S PROVE i + 1 \in S
  <2> SUFFICES ASSUME i + 1 <= m, i + 1 <= n PROVE g[i+1] = h[i+1]
    OBVIOUS
  <2>1. g[i] = h[i]
    OBVIOUS
  <2>2. i + 1 \in 0 .. m /\ i + 1 \in 0 .. n /\ i + 1 # 0 /\ (i + 1) - 1 = i
    OBVIOUS
  <2>3. g[i+1] = Follow(f, g[(i+1)-1]) /\ h[i+1] = Follow(f, h[(i+1)-1])
    BY <1>0, <2>2
  <2>. QED  BY <2>1, <2>2, <2>3
<1>3. S = Nat
  <2>1. S \in SUBSET Nat
    OBVIOUS
  <2> HIDE DEF S
  <2>. QED  BY <1>1, <1>2, <2>1, AllNaturals
<1>. QED  BY <1>3

LEMMA WalkExists ==
  ASSUME NEW f, NEW b, NEW n \in Nat
  PROVE  \E g : IsWalk(f, b, n, g)
<1> DEFINE S == {m \in Nat : \E g : IsWalk(f, b, m, g)}
<1>1. 0 \in S
  <2> DEFINE g == [k \in 0 .. 0 |-> b]
  <2>1. IsWalk(f, b, 0, g)
    BY DEF IsWalk
  <2>. QED  BY <2>1
<1>2. ASSUME NEW m \in S PROVE m + 1 \in S
  <2>1. PICK g : IsWalk(f, b, m, g)
    OBVIOUS
  <2>4. g[0] = b /\ \A j \in 0 .. m : j # 0 => g[j] = Follow(f, g[j-1])
    BY <2>1, WalkFacts
  <2> DEFINE h == [k \in 0 .. m + 1 |-> IF k <= m THEN g[k] ELSE Follow(f, g[m])]
  <2>2. \A k \in 0 .. m + 1 : h[k] = IF k = 0 THEN b ELSE Follow(f, h[k-1])
    <3>1. h[0] = b
      BY <2>4
    <3>2. ASSUME NEW k \in 1 .. m PROVE h[k] = Follow(f, h[k-1])
      <4>1. k \in 0 .. m /\ k # 0 /\ k - 1 \in 0 .. m
        OBVIOUS
      <4>2. h[k] = g[k] /\ h[k-1] = g[k-1]
        BY <4>1
      <4>. QED  BY <2>4, <4>1, <4>2
    <3>3. h[m+1] = Follow(f, h[m])
      OBVIOUS
    <3>. QED  BY <3>1, <3>2, <3>3
  <2>3. IsWalk(f, b, m + 1, h)
    BY <2>2 DEF IsWalk
  <2>. QED  BY <2>3
<1>3. S = Nat
  <2>1. S \in SUBSET Nat
    OBVIOUS
  <2> HIDE DEF S
  <2>. QED  BY <1>1, <1>2, <2>1, AllNaturals
<1>. QED  BY <1>3

\* nth_block, turn by turn.
LEMMA NthIsWalk ==
  ASSUME NEW f, NEW b, NEW n \in Nat, NEW g, IsWalk(f, b, n, g)
  PROVE  \A k \in 0 .. n : NthBlock(f, b, k) = g[k]
<1> SUFFICES ASSUME NEW k \in 0 .. n PROVE NthBlock(f, b, k) = g[k]
  OBVIOUS
<1> DEFINE h == CHOOSE w : IsWalk(f, b, k, w)
<1>1. IsWalk(f, b, k, h)
  BY WalkExists
<1>2. NthBlock(f, b, k) = h[k]
  BY DEF NthBlock, IsWalk, Follow
<1> HIDE DEF h
<1>. QED  BY <1>1, <1>2, WalkUnique

LEMMA NthNext ==
  ASSUME NEW f, NEW b
  PROVE  /\ NthBlock(f, b, 0) = b
         /\ \A n \in Nat : NthBlock(f, b, n + 1) = Follow(f, NthBlock(f, b, n))
<1>1. ASSUME NEW n \in Nat
      PROVE  NthBlock(f, b, 0) = b /\ NthBlock(f, b, n + 1) = Follow(f, NthBlock(f, b, n))
  <2>0. PICK m \in Nat : m = n + 1
    OBVIOUS
  <2>1. PICK g : IsWalk(f, b, m, g)
    BY WalkExists
  <2>2. \A k \in 0 .. m : NthBlock(f, b, k) = g[k]
    BY <2>1, NthIsWalk
  <2>3. g[0] = b /\ \A k \in 0 .. m : k # 0 => g[k] = Follow(f, g[k-1])
    BY <2>1, WalkFacts
  <2>4. m \in 0 .. m /\ 0 \in 0 .. m /\ m # 0 /\ m - 1 = n /\ n \in 0 .. m
    BY <2>0
  <2>5. g[m] = Follow(f, g[n])
    BY <2>3, <2>4
  <2>. QED  BY <2>0, <2>2, <2>3, <2>4, <2>5
<1>. QED  BY <1>1

\* In a sound FAT, a block of the chain either links to another one, or ends it.
LEMMA FollowInChain ==
  ASSUME NEW f \in [Block -> FatValue], NEW b \in DataBlock, NEW x \in Chain(f, b)
  PROVE  /\ x # NoBlock
         /\ f[x] \in DataBlock => Follow(f, x) = f[x] /\ f[x] \in Chain(f, b)
         /\ f[x] \notin DataBlock => Follow(f, x) = NoBlock
<1>1. x \in DataBlock /\ x \in Block /\ f[x] \in FatValue
  BY ChainIsData, BlockFacts
<1>2. \A y \in DataBlock : y \in Nat /\ y > 0
  BY BlockAssumption DEF DataBlock
<1>3. x # NoBlock /\ \A v \in FatValue : v <= 0 <=> v \notin DataBlock
  BY <1>1, <1>2 DEF FatValue, FAT_EOF, FAT_FREE, NoBlock
<1>. QED  BY <1>1, <1>3, ChainClosed DEF Follow

\* nth_block stays in the chain, or has come to its end.
LEMMA NthInChain ==
  ASSUME NEW f \in [Block -> FatValue], NEW b \in DataBlock
  PROVE  \A n \in Nat : NthBlock(f, b, n) \in Chain(f, b) \cup {NoBlock}
<1> DEFINE S == {n \in Nat : NthBlock(f, b, n) \in Chain(f, b) \cup {NoBlock}}
<1>1. 0 \in S
  BY NthNext, ChainClosed
<1>2. ASSUME NEW n \in S PROVE n + 1 \in S
  <2>1. NthBlock(f, b, n + 1) = Follow(f, NthBlock(f, b, n))
    BY NthNext
  <2>2. CASE NthBlock(f, b, n) = NoBlock
    BY <2>1, <2>2 DEF Follow
  <2>3. CASE NthBlock(f, b, n) \in Chain(f, b)
    BY <2>1, <2>3, FollowInChain
  <2>. QED  BY <2>2, <2>3
<1>3. S = Nat
  <2>1. S \in SUBSET Nat
    OBVIOUS
  <2> HIDE DEF S
  <2>. QED  BY <1>1, <1>2, <2>1, AllNaturals
<1>. QED  BY <1>3

\* A walk that has not come to the end has followed a link in each turn.
LEMMA NthLinks ==
  ASSUME NEW f \in [Block -> FatValue], NEW b \in DataBlock, NEW n \in Nat,
         NthBlock(f, b, n + 1) # NoBlock
  PROVE  /\ NthBlock(f, b, n) \in Chain(f, b) /\ NthBlock(f, b, n) # NoBlock
         /\ f[NthBlock(f, b, n)] = NthBlock(f, b, n + 1)
         /\ NthBlock(f, b, n + 1) \in DataBlock
<1>1. NthBlock(f, b, n + 1) = Follow(f, NthBlock(f, b, n))
  BY NthNext
<1>2. NthBlock(f, b, n) # NoBlock
  BY <1>1 DEF Follow
<1>3. NthBlock(f, b, n) \in Chain(f, b)
  BY <1>2, NthInChain
<1>. QED  BY <1>1, <1>3, FollowInChain

\* Once at the end, the walk stays there.
LEMMA NthBefore ==
  ASSUME NEW f \in [Block -> FatValue], NEW b \in DataBlock, NEW m \in Nat, NEW n \in Nat,
         m <= n, NthBlock(f, b, n) # NoBlock
  PROVE  NthBlock(f, b, m) # NoBlock
<1> DEFINE S == {k \in Nat : NthBlock(f, b, m + k) # NoBlock => NthBlock(f, b, m) # NoBlock}
<1>1. 0 \in S
  OBVIOUS
<1>2. ASSUME NEW k \in S PROVE k + 1 \in S
  <2>1. m + k \in Nat /\ m + (k + 1) = (m + k) + 1
    OBVIOUS
  <2>2. NthBlock(f, b, (m + k) + 1) # NoBlock => NthBlock(f, b, m + k) # NoBlock
    BY <2>1, NthLinks
  <2>. QED  BY <2>1, <2>2
<1>3. S = Nat
  <2>1. S \in SUBSET Nat
    OBVIOUS
  <2> HIDE DEF S
  <2>. QED  BY <1>1, <1>2, <2>1, AllNaturals
<1>4. n - m \in Nat /\ m + (n - m) = n
  OBVIOUS
<1>. QED  BY <1>3, <1>4

\* The walk comes to no block twice: the second time it would have come from
\* another block, or have come back to the first.
LEMMA NthDistinct ==
  ASSUME NEW f \in [Block -> FatValue], NEW H \in SUBSET DataBlock, Sound(f, H), NEW b \in H,
         NEW m \in Nat, NEW n \in Nat, m < n, NthBlock(f, b, n) # NoBlock
  PROVE  NthBlock(f, b, m) # NthBlock(f, b, n)
<1> DEFINE S == {i \in Nat : \A j \in Nat : i < j /\ NthBlock(f, b, j) # NoBlock =>
                               NthBlock(f, b, i) # NthBlock(f, b, j)}
<1>0. b \in DataBlock
  OBVIOUS
<1>1. ASSUME NEW j \in Nat, NthBlock(f, b, j + 1) # NoBlock
      PROVE  /\ NthBlock(f, b, j) \in Block /\ NthBlock(f, b, j) # NoBlock
             /\ f[NthBlock(f, b, j)] = NthBlock(f, b, j + 1)
             /\ NthBlock(f, b, j + 1) \in DataBlock
  BY <1>0, <1>1, NthLinks, ChainIsData, BlockFacts
<1>2. 0 \in S
  <2> SUFFICES ASSUME NEW j \in Nat, 0 < j, NthBlock(f, b, j) # NoBlock
               PROVE  NthBlock(f, b, 0) # NthBlock(f, b, j)
    OBVIOUS
  <2>1. j - 1 \in Nat /\ (j - 1) + 1 = j
    OBVIOUS
  <2>2. NthBlock(f, b, j - 1) \in Block /\ f[NthBlock(f, b, j - 1)] = NthBlock(f, b, j)
    BY <1>1, <2>1
  <2>. QED  BY <2>2, NthNext DEF Sound
<1>3. ASSUME NEW i \in S PROVE i + 1 \in S
  <2> SUFFICES ASSUME NEW j \in Nat, i + 1 < j, NthBlock(f, b, j) # NoBlock,
                      NthBlock(f, b, i + 1) = NthBlock(f, b, j)
               PROVE  FALSE
    OBVIOUS
  <2>1. j - 1 \in Nat /\ (j - 1) + 1 = j /\ i < j - 1
    OBVIOUS
  <2>2. /\ NthBlock(f, b, j - 1) \in Block /\ NthBlock(f, b, j - 1) # NoBlock
        /\ f[NthBlock(f, b, j - 1)] = NthBlock(f, b, j)
    BY <1>1, <2>1
  <2>3. /\ NthBlock(f, b, i) \in Block /\ f[NthBlock(f, b, i)] = NthBlock(f, b, j)
        /\ NthBlock(f, b, j) \in DataBlock
    BY <1>1
  <2>4. NthBlock(f, b, i) = NthBlock(f, b, j - 1)
    BY <2>2, <2>3 DEF Sound
  <2>. QED  BY <2>1, <2>2, <2>4
<1>4. S = Nat
  <2>1. S \in SUBSET Nat
    OBVIOUS
  <2> HIDE DEF S
  <2>. QED  BY <1>2, <1>3, <2>1, AllNaturals
<1>. QED  BY <1>4

\* The blocks the walk has come to.
Visited(f, b, n) == {NthBlock(f, b, k) : k \in 0 .. n}

LEMMA VisitedCount ==
  ASSUME NEW f \in [Block -> FatValue], NEW H \in SUBSET DataBlock, Sound(f, H), NEW b \in H,
         NEW n \in Nat, NthBlock(f, b, n) # NoBlock
  PROVE  /\ IsFiniteSet(Visited(f, b, n)) /\ Cardinality(Visited(f, b, n)) = n + 1
         /\ Visited(f, b, n) \subseteq Chain(f, b)
<1> DEFINE S == {m \in Nat : NthBlock(f, b, m) # NoBlock =>
                   /\ IsFiniteSet(Visited(f, b, m)) /\ Cardinality(Visited(f, b, m)) = m + 1
                   /\ Visited(f, b, m) \subseteq Chain(f, b)}
<1>1. 0 \in S
  <2>1. Visited(f, b, 0) = {b}
    BY NthNext DEF Visited
  <2>2. b \in Chain(f, b)
    BY ChainClosed
  <2>. QED  BY <2>1, <2>2, FS_Singleton
<1>2. ASSUME NEW m \in S PROVE m + 1 \in S
  <2> SUFFICES ASSUME NthBlock(f, b, m + 1) # NoBlock
               PROVE  /\ IsFiniteSet(Visited(f, b, m + 1))
                      /\ Cardinality(Visited(f, b, m + 1)) = (m + 1) + 1
                      /\ Visited(f, b, m + 1) \subseteq Chain(f, b)
    OBVIOUS
  <2>1. m + 1 \in Nat /\ \A k \in 0 .. m : k \in Nat /\ k < m + 1
    OBVIOUS
  <2>2. NthBlock(f, b, m) # NoBlock
    BY NthLinks
  <2>3. Visited(f, b, m + 1) = Visited(f, b, m) \cup {NthBlock(f, b, m + 1)}
    <3>1. 0 .. m + 1 = (0 .. m) \cup {m + 1}
      OBVIOUS
    <3>. QED  BY <3>1 DEF Visited
  <2>4. NthBlock(f, b, m + 1) \notin Visited(f, b, m)
    BY <2>1, NthDistinct DEF Visited
  <2>5. NthBlock(f, b, m + 1) \in Chain(f, b)
    BY <2>1, NthInChain
  <2>. QED  BY <2>2, <2>3, <2>4, <2>5, FS_AddElement
<1>3. S = Nat
  <2>1. S \in SUBSET Nat
    OBVIOUS
  <2> HIDE DEF S
  <2>. QED  BY <1>1, <1>2, <2>1, AllNaturals
<1>. QED  BY <1>3

\* nth_block finds a block exactly if the chain is long enough.
LEMMA NthFound ==
  ASSUME NEW f \in [Block -> FatValue], NEW H \in SUBSET DataBlock, Sound(f, H), NEW b \in H,
         NEW n \in Nat
  PROVE  NthBlock(f, b, n) # NoBlock <=> n < Cardinality(Chain(f, b))
<1>1. ASSUME NthBlock(f, b, n) # NoBlock
      PROVE  n < Cardinality(Chain(f, b))
  BY <1>1, VisitedCount, ChainFinite, FS_Subset
<1>2. ASSUME NthBlock(f, b, n) = NoBlock
      PROVE  Cardinality(Chain(f, b)) <= n
  <2> DEFINE S == {k \in Nat : NthBlock(f, b, k) = NoBlock}
  <2>1. PICK m \in S : \A k \in S : m <= k
    BY <1>2, LeastNatural
  <2>2. m # 0
    <3>1. b \in Nat /\ NthBlock(f, b, 0) = b
      BY NthNext, BlockFacts
    <3>. QED  BY <2>1, <3>1 DEF NoBlock
  <2>3. m - 1 \in Nat /\ (m - 1) + 1 = m /\ m - 1 \notin S
    BY <2>1, <2>2
  <2>4. /\ IsFiniteSet(Visited(f, b, m - 1)) /\ Cardinality(Visited(f, b, m - 1)) = (m - 1) + 1
        /\ Visited(f, b, m - 1) \subseteq Chain(f, b)
    BY <2>3, VisitedCount
  <2>5. b \in Visited(f, b, m - 1)
    BY <2>3, NthNext DEF Visited
  <2>6. ASSUME NEW x \in Visited(f, b, m - 1), f[x] \in DataBlock
        PROVE  f[x] \in Visited(f, b, m - 1)
    <3>1. PICK k \in 0 .. m - 1 : x = NthBlock(f, b, k)
      BY DEF Visited
    <3>2. NthBlock(f, b, k + 1) = f[x]
      <4>1. NthBlock(f, b, k + 1) = Follow(f, x)
        <5>1. k \in Nat
          OBVIOUS
        <5>. QED  BY <3>1, <5>1, NthNext
      <4>. QED  BY <2>4, <2>6, <4>1, FollowInChain
    <3>3. f[x] # NoBlock
      BY <2>6, BlockFacts DEF NoBlock
    <3>4. k + 1 \in 0 .. m - 1
      BY <2>1, <2>3, <3>2, <3>3
    <3>. QED  BY <3>2, <3>4 DEF Visited
  <2>7. Chain(f, b) \subseteq Visited(f, b, m - 1)
    BY <2>4, <2>5, <2>6, ChainIsData, ChainLeast
  <2>8. Chain(f, b) = Visited(f, b, m - 1)
    BY <2>4, <2>7
  <2>. QED  BY <1>2, <2>1, <2>3, <2>4, <2>8
<1>. QED  BY <1>1, <1>2, ChainFinite

---------------------------------------------------------------------------
(* What the operators of Directory return *)

LEMMA StoredNameType ==
  ASSUME NEW n \in AnyName
  PROVE  StoredName(n) \in AnyName
BY DirectoryAssumption DEF StoredName, AnyName, Dots

LEMMA NewEntryType ==
  ASSUME NEW n \in AnyName, NEW b \in DataBlock, NEW a \in {ATTR_FILE, ATTR_DIR}
  PROVE  NewEntry(n, b, a) \in Entry
BY StoredNameType DEF NewEntry, Entry

LEMMA InitDirType ==
  ASSUME NEW b \in DataBlock, NEW p \in DataBlock
  PROVE  InitDir(b, p) \in SUBSET Entry
<1>1. Dot \in AnyName /\ DotDot \in AnyName
  BY DEF AnyName, Dots
<1>. QED  BY <1>1, NewEntryType DEF InitDir

LEMMA FormatTypes ==
  /\ FormatFat \in [Block -> FatValue]
  /\ FormatBitmap \in SUBSET Block
  /\ FormatDir \in [Block -> SUBSET Entry]
BY BlockFacts, InitDirType DEF FormatFat, FormatBitmap, FormatDir

LEMMA FindType ==
  ASSUME NEW ds \in [Block -> SUBSET Entry], NEW d \in DataBlock, NEW n
  PROVE  Find(ds, d, n) \subseteq Entry
BY BlockFacts DEF Find

LEMMA ParentBlockType ==
  ASSUME NEW ds \in [Block -> SUBSET Entry], NEW d \in DataBlock
  PROVE  ParentBlock(ds, d) \in DataBlock
<1>1. CASE Find(ds, d, DotDot) = {}
  BY <1>1 DEF ParentBlock
<1>2. CASE Find(ds, d, DotDot) # {}
  <2>1. (CHOOSE e \in Find(ds, d, DotDot) : TRUE) \in Find(ds, d, DotDot)
    BY <1>2
  <2>. QED  BY <1>2, <2>1, FindType DEF ParentBlock, Entry
<1>. QED  BY <1>1, <1>2

LEMMA AddEntryType ==
  ASSUME NEW f \in [Block -> FatValue], NEW u \in SUBSET Block,
         NEW ds \in [Block -> SUBSET Entry], NEW d \in DataBlock, NEW e \in Entry,
         AddEntry(f, u, ds, d, e)
  PROVE  DirectoryTypeOK'
<1>1. dir' \in [Block -> SUBSET Entry]
  BY BlockFacts DEF AddEntry
<1>2. CASE HasRoom(f, ds, d)
  BY <1>1, <1>2 DEF AddEntry, DirectoryTypeOK, BlocksTypeOK
<1>3. CASE ~HasRoom(f, ds, d)
  <2>1. PICK b \in Lowest(FatFree(f)), t \in Tails(f, d) :
          fat' = Linked(f, t, b) /\ bitmap' = u \cup {b}
    BY <1>3 DEF AddEntry
  <2>2. b \in DataBlock
    BY <2>1, LowestIn DEF FatFree
  <2>. QED  BY <1>1, <2>1, <2>2, LinkedType, BlockFacts DEF DirectoryTypeOK, BlocksTypeOK
<1>. QED  BY <1>2, <1>3

---------------------------------------------------------------------------
(* Type correctness *)

\* The inductive invariant: an index into the system table that a descriptor or
\* a running write holds is the index of a record, since no record is removed.
TypeInv ==
  /\ TypeOK
  /\ \A u \in user_fds : u.file \in DOMAIN sys_files
  /\ op.cmd = "write" => op.file \in DOMAIN sys_files

\* What an operation on directories leaves alone.
LEMMA DiskStep ==
  ASSUME TypeInv, DirectoryTypeOK', UNCHANGED <<openVars, op, fsVars>>
  PROVE  TypeInv'
BY DEF TypeInv, TypeOK, openVars, fsVars

\* What an operation on the tables of open files leaves alone.
LEMMA TableStep ==
  ASSUME TypeInv, UNCHANGED <<diskVars, op, fsVars>>,
         sys_files' \in Seq(OpenFile), DOMAIN sys_files \subseteq DOMAIN sys_files',
         next_fd' \in Nat,
         \A u \in user_fds' : u \in UserFd /\ u.file \in DOMAIN sys_files'
  PROVE  TypeInv'
BY DEF TypeInv, TypeOK, DirectoryTypeOK, BlocksTypeOK, diskVars, fsVars

LEMMA TypeFacts ==
  ASSUME TypeInv
  PROVE  /\ fat \in [Block -> FatValue] /\ bitmap \in SUBSET Block
         /\ dir \in [Block -> SUBSET Entry]
         /\ cur_block \in DataBlock
         /\ sys_files \in Seq(OpenFile)
         /\ \A u \in user_fds : u \in UserFd /\ u.file \in DOMAIN sys_files
BY DEF TypeInv, TypeOK, DirectoryTypeOK, BlocksTypeOK

LEMMA RecordUpdate ==
  ASSUME NEW s \in Seq(OpenFile), NEW i \in DOMAIN s, NEW r \in OpenFile
  PROVE  /\ [s EXCEPT ![i] = r] \in Seq(OpenFile)
         /\ DOMAIN [s EXCEPT ![i] = r] = DOMAIN s
         /\ \A j \in DOMAIN s : [s EXCEPT ![i] = r][j] = IF j = i THEN r ELSE s[j]
OBVIOUS

LEMMA CreateType ==
  ASSUME TypeInv, NEW d \in DataBlock, NEW n \in AnyName, Create(d, n), UNCHANGED fsVars
  PROVE  TypeInv'
<1>1. PICK b \in FindFree(bitmap) :
        LET f == [fat EXCEPT ![b] = FAT_EOF]
            u == bitmap \cup {b}
        IN  \/ AddEntry(f, u, dir, d, NewEntry(n, b, ATTR_FILE))
            \/ /\ AddFails(f, dir, d)
               /\ fat' = [f EXCEPT ![b] = FAT_FREE]
               /\ bitmap' = u \ {b}
               /\ UNCHANGED dir
  BY DEF Create
<1> DEFINE f == [fat EXCEPT ![b] = FAT_EOF]
           u == bitmap \cup {b}
<1>2. b \in DataBlock
  BY LowestIn DEF FindFree
<1>3. f \in [Block -> FatValue] /\ u \in SUBSET Block
  BY <1>2, TypeFacts, BlockFacts
<1>4. NewEntry(n, b, ATTR_FILE) \in Entry
  BY <1>2, NewEntryType
<1>5. DirectoryTypeOK'
  <2>1. CASE AddEntry(f, u, dir, d, NewEntry(n, b, ATTR_FILE))
    <3> HIDE DEF f, u
    <3>. QED  BY <1>3, <1>4, <2>1, TypeFacts, AddEntryType
  <2>2. CASE fat' = [f EXCEPT ![b] = FAT_FREE] /\ bitmap' = u \ {b} /\ UNCHANGED dir
    BY <1>3, <2>2, TypeFacts, BlockFacts DEF DirectoryTypeOK, BlocksTypeOK
  <2>. QED  BY <1>1, <2>1, <2>2
<1>. QED  BY <1>5, DiskStep DEF Create

LEMMA OpenType ==
  ASSUME TypeInv, NEW d \in DataBlock, NEW n \in AnyName, Open(d, n), UNCHANGED fsVars
  PROVE  TypeInv'
<1>1. PICK e \in Find(dir, d, n) :
        \/ \E i \in Lowest(Shared(e.first)) :
             /\ sys_files' = [sys_files EXCEPT ![i].ref = @ + 1]
             /\ user_fds' = user_fds \cup {[fd |-> next_fd, file |-> i]}
        \/ /\ sys_files' = Append(sys_files, NewOpenFile(e, d, n))
           /\ user_fds' = user_fds \cup {[fd |-> next_fd, file |-> Len(sys_files) + 1]}
  BY DEF Open
<1>2. e \in Entry
  BY TypeFacts, FindType
<1>3. next_fd \in Nat /\ next_fd' \in Nat
  BY DEF Open, TypeInv, TypeOK
<1>4. CASE \E i \in Lowest(Shared(e.first)) :
             /\ sys_files' = [sys_files EXCEPT ![i].ref = @ + 1]
             /\ user_fds' = user_fds \cup {[fd |-> next_fd, file |-> i]}
  <2>1. PICK i \in DOMAIN sys_files :
             /\ sys_files' = [sys_files EXCEPT ![i].ref = @ + 1]
             /\ user_fds' = user_fds \cup {[fd |-> next_fd, file |-> i]}
    BY <1>4, LowestIn DEF Shared
  <2>2. sys_files' \in Seq(OpenFile) /\ DOMAIN sys_files' = DOMAIN sys_files
    <3>1. sys_files[i] \in OpenFile
      BY TypeFacts
    <3>2. [sys_files[i] EXCEPT !.ref = @ + 1] \in OpenFile
      BY <3>1 DEF OpenFile
    <3>. QED  BY <2>1, <3>2, RecordUpdate, TypeFacts
  <2>3. [fd |-> next_fd, file |-> i] \in UserFd
    BY <2>1, <1>3, TypeFacts DEF UserFd
  <2>. QED  BY <1>3, <2>1, <2>2, <2>3, TypeFacts, TableStep DEF Open
<1>5. CASE /\ sys_files' = Append(sys_files, NewOpenFile(e, d, n))
           /\ user_fds' = user_fds \cup {[fd |-> next_fd, file |-> Len(sys_files) + 1]}
  <2>1. NewOpenFile(e, d, n) \in OpenFile
    BY <1>2, StoredNameType DEF NewOpenFile, OpenFile, Entry
  <2>2. /\ sys_files' \in Seq(OpenFile)
        /\ DOMAIN sys_files \subseteq DOMAIN sys_files'
        /\ Len(sys_files) + 1 \in DOMAIN sys_files'
    BY <1>5, <2>1, TypeFacts
  <2>3. [fd |-> next_fd, file |-> Len(sys_files) + 1] \in UserFd
    BY <1>3, TypeFacts DEF UserFd
  <2>. QED  BY <1>3, <1>5, <2>2, <2>3, TypeFacts, TableStep DEF Open
<1>. QED  BY <1>1, <1>4, <1>5

LEMMA RemoveType ==
  ASSUME TypeInv, NEW d \in DataBlock, NEW n, Remove(d, n), UNCHANGED fsVars
  PROVE  TypeInv'
<1>1. DirectoryTypeOK'
  BY TypeFacts, FreeChainType, BlockFacts DEF Remove, DirectoryTypeOK, BlocksTypeOK
<1>. QED  BY <1>1, DiskStep DEF Remove

LEMMA ReplacedType ==
  ASSUME NEW ds \in [Block -> SUBSET Entry], NEW d \in DataBlock, NEW e, NEW k \in Entry
  PROVE  Replaced(ds, d, e, k) \in [Block -> SUBSET Entry]
BY BlockFacts DEF Replaced

LEMMA CloseType ==
  ASSUME TypeInv, NEW fd, Close(fd), UNCHANGED fsVars
  PROVE  TypeInv'
<1>1. PICK u \in user_fds :
        /\ sys_files' = [sys_files EXCEPT ![u.file] = Released(sys_files[u.file])]
        /\ user_fds' = user_fds \ {u}
        /\ \/ WriteBack(sys_files[u.file]) = {} /\ UNCHANGED dir
           \/ dir' \in WriteBack(sys_files[u.file])
        /\ op' = IF Recycled(sys_files[u.file]) THEN Lost ELSE op
  BY DEF Close
<1> DEFINE of == sys_files[u.file]
<1>2. of \in OpenFile
  BY TypeFacts
<1>3. Released(of) \in OpenFile
  BY <1>2 DEF Released, OpenFile
<1>4. /\ sys_files' \in Seq(OpenFile)
      /\ DOMAIN sys_files' = DOMAIN sys_files
  BY <1>1, <1>3, RecordUpdate, TypeFacts
<1>5. dir' \in [Block -> SUBSET Entry]
  <2>1. ASSUME NEW e \in Find(dir, of.dir, of.name)
        PROVE  Replaced(dir, of.dir, e, [e EXCEPT !.size = of.size]) \in [Block -> SUBSET Entry]
    <3>1. of.dir \in DataBlock /\ of.size \in Nat
      BY <1>2 DEF OpenFile
    <3>2. e \in Entry
      BY <3>1, TypeFacts, FindType
    <3>3. [e EXCEPT !.size = of.size] \in Entry
      BY <3>1, <3>2 DEF Entry
    <3>. QED  BY <3>1, <3>3, TypeFacts, ReplacedType
  <2>. QED  BY <1>1, <2>1, TypeFacts DEF WriteBack
<1>6. op' = Lost \/ op' = op
  BY <1>1
<1>7. TypeOK'
  BY <1>1, <1>4, <1>5, <1>6
     DEF Close, TypeInv, TypeOK, DirectoryTypeOK, BlocksTypeOK, fsVars
<1>8. op'.cmd = "write" => op'.file \in DOMAIN sys_files'
  BY <1>4, <1>6 DEF TypeInv, Lost
<1>. QED  BY <1>1, <1>4, <1>7, <1>8 DEF TypeInv

LEMMA ReadType ==
  ASSUME TypeInv, NEW fd, NEW n \in Nat, Read(fd, n), UNCHANGED fsVars
  PROVE  TypeInv'
<1>1. CASE op' = Lost /\ UNCHANGED sys_files
  BY <1>1 DEF Read, TypeInv, TypeOK, DirectoryTypeOK, BlocksTypeOK, diskVars, fsVars, Lost
<1>2. ASSUME NEW u \in user_fds, NEW got \in 0 .. n, UNCHANGED op,
             sys_files' = [sys_files EXCEPT ![u.file].cursor = @ + got]
      PROVE  TypeInv'
  <2>1. sys_files[u.file] \in OpenFile
    BY TypeFacts
  <2>2. [sys_files[u.file] EXCEPT !.cursor = @ + got] \in OpenFile
    BY <2>1 DEF OpenFile
  <2>3. sys_files' \in Seq(OpenFile) /\ DOMAIN sys_files' = DOMAIN sys_files
    BY <1>2, <2>2, RecordUpdate, TypeFacts
  <2>4. next_fd' \in Nat /\ user_fds' = user_fds
    BY DEF Read, TypeInv, TypeOK
  <2>. QED  BY <1>2, <2>3, <2>4, TypeFacts, TableStep DEF Read
<1>. QED  BY <1>1, <1>2 DEF Read

LEMMA WriteType ==
  ASSUME TypeInv, NEW fd, NEW n \in Nat, Write(fd, n), UNCHANGED fsVars
  PROVE  TypeInv'
<1>1. PICK u \in user_fds :
        op' = [cmd |-> "write", file |-> u.file, pos |-> sys_files[u.file].cursor, left |-> n]
  BY DEF Write
<1>2. u \in UserFd /\ u.file \in DOMAIN sys_files /\ sys_files[u.file] \in OpenFile
  BY TypeFacts
<1>3. u.file \in Nat \ {0} /\ sys_files[u.file].cursor \in Nat
  BY <1>2 DEF UserFd, OpenFile
<1>4. op' \in Writing /\ op'.file \in DOMAIN sys_files
  BY <1>1, <1>2, <1>3 DEF Writing
<1>. QED
  BY <1>4 DEF Write, TypeInv, TypeOK, DirectoryTypeOK, BlocksTypeOK,
              diskVars, openVars, fsVars

\* While a write runs, op is a record of Writing.
LEMMA WritingFacts ==
  ASSUME TypeInv, op.cmd = "write"
  PROVE  /\ op \in Writing /\ op.file \in DOMAIN sys_files
         /\ sys_files[op.file] \in OpenFile
BY TypeFacts DEF TypeInv, TypeOK, Idle, Lost, CdWalks

LEMMA PutType ==
  ASSUME TypeInv, op.cmd = "write", NEW f, NEW b, Put(f, b)
  PROVE  /\ op' \in {Lost} \cup Writing
         /\ op'.cmd = "write" => op'.file = op.file
<1>1. op \in Writing
  BY WritingFacts
<1>2. op.pos \in Nat /\ op.left \in Nat /\ BlockSize \in Nat \ {0}
  BY <1>1, FileOpsAssumption DEF Writing
<1>3. op.pos % BlockSize \in 0 .. BlockSize - 1
  BY <1>2
<1>4. Part \in Nat /\ Part <= op.left
  BY <1>2, <1>3 DEF Part, SmallerOf
<1>5. [op EXCEPT !.pos = @ + Part, !.left = @ - Part] \in Writing
  <2>1. op.pos + Part \in Nat /\ op.left - Part \in Nat
    BY <1>2, <1>4
  <2>. QED  BY <1>1, <2>1 DEF Writing
<1>6. CASE b \in DirectoryBlocks(f)
  BY <1>6 DEF Put, Lost
<1>7. CASE b \notin DirectoryBlocks(f)
  BY <1>1, <1>5, <1>7 DEF Put, Writing
<1>. QED  BY <1>6, <1>7

LEMMA WriteBlockType ==
  ASSUME TypeInv, WriteBlock, UNCHANGED fsVars
  PROVE  TypeInv'
<1>1. op.cmd = "write"
  BY DEF WriteBlock
<1>2. fat' \in [Block -> FatValue] /\ bitmap' \in SUBSET Block
  <2>1. CASE UNCHANGED <<fat, bitmap>>
    BY <2>1, TypeFacts
  <2>2. CASE \E b \in Lowest(FatFree(fat)), t \in Tails(fat, sys_files[op.file].first) :
               fat' = Linked(fat, t, b) /\ bitmap' = bitmap \cup {b}
    <3>1. PICK b \in Lowest(FatFree(fat)), t \in Tails(fat, sys_files[op.file].first) :
               fat' = Linked(fat, t, b) /\ bitmap' = bitmap \cup {b}
      BY <2>2
    <3>2. b \in DataBlock
      BY <3>1, LowestIn DEF FatFree
    <3>. QED  BY <3>1, <3>2, LinkedType, BlockFacts, TypeFacts
  <2>. QED  BY <2>1, <2>2 DEF WriteBlock
<1>3. \E f, b : Put(f, b)
  BY DEF WriteBlock
<1>4. op' \in {Lost} \cup Writing /\ (op'.cmd = "write" => op'.file \in DOMAIN sys_files)
  BY <1>1, <1>3, PutType, WritingFacts
<1>. QED
  BY <1>2, <1>4 DEF WriteBlock, TypeInv, TypeOK, DirectoryTypeOK, BlocksTypeOK, openVars, fsVars

LEMMA WriteEndType ==
  ASSUME TypeInv, WriteEnd, UNCHANGED fsVars
  PROVE  TypeInv'
<1>1. op.cmd = "write"
  BY DEF WriteEnd
<1>2. Written(sys_files[op.file], op.pos) \in OpenFile
  BY <1>1, WritingFacts DEF Written, OpenFile, Writing, LargerOf
<1>3. sys_files' \in Seq(OpenFile) /\ DOMAIN sys_files' = DOMAIN sys_files
  BY <1>1, <1>2, WritingFacts, RecordUpdate, TypeFacts DEF WriteEnd
<1>. QED
  BY <1>3 DEF WriteEnd, TypeInv, TypeOK, DirectoryTypeOK, BlocksTypeOK,
              diskVars, fsVars, Idle

LEMMA MkdirType ==
  ASSUME TypeInv, NEW n \in AnyName, Mkdir(n)
  PROVE  TypeInv'
<1>1. PICK b \in FindFree(bitmap) :
        LET f  == [fat EXCEPT ![b] = FAT_EOF]
            u  == bitmap \cup {b}
            ds == [dir EXCEPT ![b] = InitDir(b, cur_block)]
        IN  \/ AddEntry(f, u, ds, cur_block, NewEntry(n, b, ATTR_DIR))
            \/ fat' = f /\ bitmap' = u /\ dir' = ds
  BY DEF Mkdir
<1> DEFINE f  == [fat EXCEPT ![b] = FAT_EOF]
           u  == bitmap \cup {b}
           ds == [dir EXCEPT ![b] = InitDir(b, cur_block)]
<1>2. b \in DataBlock
  BY LowestIn DEF FindFree
<1>3. f \in [Block -> FatValue] /\ u \in SUBSET Block /\ ds \in [Block -> SUBSET Entry]
  BY <1>2, TypeFacts, BlockFacts, InitDirType
<1>4. NewEntry(n, b, ATTR_DIR) \in Entry
  BY <1>2, NewEntryType
<1>5. DirectoryTypeOK'
  <2>1. CASE AddEntry(f, u, ds, cur_block, NewEntry(n, b, ATTR_DIR))
    <3> HIDE DEF f, u, ds
    <3>. QED  BY <1>3, <1>4, <2>1, TypeFacts, AddEntryType
  <2>2. CASE fat' = f /\ bitmap' = u /\ dir' = ds
    BY <1>3, <2>2 DEF DirectoryTypeOK, BlocksTypeOK
  <2>. QED  BY <1>1, <2>1, <2>2
<1>. QED  BY <1>5, DiskStep DEF Mkdir

LEMMA RmdirType ==
  ASSUME TypeInv, NEW n, Rmdir(n)
  PROVE  TypeInv'
<1>1. PICK e \in Find(dir, cur_block, n) :
        /\ fat' = FreeChain(fat, e.first)
        /\ bitmap' = bitmap \ {e.first}
        /\ dir' = [dir EXCEPT ![e.first] = {}, ![cur_block] = @ \ {e}]
  BY DEF Rmdir
<1>2. dir' \in [Block -> SUBSET Entry]
  BY <1>1, TypeFacts, BlockFacts
<1>3. DirectoryTypeOK'
  BY <1>1, <1>2, TypeFacts, FreeChainType DEF DirectoryTypeOK, BlocksTypeOK
<1>. QED  BY <1>3, DiskStep DEF Rmdir

LEMMA RenameType ==
  ASSUME TypeInv, NEW old \in AnyName, NEW new \in AnyName, Rename(old, new)
  PROVE  TypeInv'
<1>1. PICK e \in Find(dir, cur_block, old) :
        dir' = Replaced(dir, cur_block, e, [e EXCEPT !.name = StoredName(new)])
  BY DEF Rename
<1>2. [e EXCEPT !.name = StoredName(new)] \in Entry
  BY TypeFacts, FindType, StoredNameType DEF Entry
<1>3. dir' \in [Block -> SUBSET Entry]
  BY <1>1, <1>2, TypeFacts, ReplacedType
<1>. QED  BY <1>3, TypeFacts, DiskStep DEF Rename, DirectoryTypeOK, BlocksTypeOK

\* While cd runs, op is a record of CdWalks.
LEMMA WalkingFacts ==
  ASSUME TypeInv, op.cmd = "cd"
  PROVE  op \in CdWalks
BY DEF TypeInv, TypeOK, Idle, Lost, Writing

\* What a step of cd leaves alone.
LEMMA CdStep ==
  ASSUME TypeInv, UNCHANGED <<diskVars, openVars>>, op' \in {Idle} \cup CdWalks,
         cur_block' \in DataBlock, path_stack' \in Seq(Name)
  PROVE  TypeInv'
<1>1. op'.cmd # "write"
  BY DEF Idle, CdWalks
<1>. QED
  BY <1>1 DEF TypeInv, TypeOK, DirectoryTypeOK, BlocksTypeOK, diskVars, openVars

LEMMA WalkingType ==
  ASSUME NEW at \in DataBlock, NEW segs \in Seq(Name \cup {DotDot}), NEW stack \in Seq(Name)
  PROVE  Walking(at, segs, stack) \in CdWalks
BY DEF Walking, CdWalks

LEMMA CdType ==
  ASSUME TypeInv, NEW start, NEW segs \in Paths, Cd(start, segs)
  PROVE  TypeInv'
<1>1. segs \in Seq(Name \cup {DotDot}) /\ Root \in DataBlock
  BY FileSystemAssumption, BlockFacts
<1>2. cur_block \in DataBlock /\ path_stack \in Seq(Name) /\ <<>> \in Seq(Name)
  BY DEF TypeInv, TypeOK
<1> DEFINE at    == IF start = "relative" THEN cur_block ELSE Root
           stack == IF start = "slash" THEN <<>> ELSE path_stack
<1>3. at \in DataBlock /\ stack \in Seq(Name)
  BY <1>1, <1>2
<1>4. op' = Walking(at, segs, stack)
  BY DEF Cd
<1>5. op' \in CdWalks
  <2> HIDE DEF at, stack
  <2>. QED  BY <1>1, <1>3, <1>4, WalkingType
<1>. QED  BY <1>2, <1>5, CdStep DEF Cd, fsVars

LEMMA UpType ==
  ASSUME NEW stack \in Seq(Name)
  PROVE  Up(stack) \in Seq(Name)
BY DEF Up

LEMMA CdUpType ==
  ASSUME TypeInv, CdUp
  PROVE  TypeInv'
<1>1. op \in CdWalks
  BY WalkingFacts DEF CdUp
<1>2. /\ op.at \in DataBlock /\ op.segs \in Seq(Name \cup {DotDot})
      /\ op.segs # <<>> /\ op.stack \in Seq(Name)
  BY <1>1 DEF CdWalks, CdUp
<1>3. Tail(op.segs) \in Seq(Name \cup {DotDot})
  BY <1>2
<1>4. ParentBlock(dir, op.at) \in DataBlock
  BY <1>2, TypeFacts, ParentBlockType
<1>5. Up(op.stack) \in Seq(Name)
  BY <1>2, UpType
<1>6. op' \in CdWalks
  BY <1>3, <1>4, <1>5, WalkingType DEF CdUp
<1>. QED  BY <1>6, CdStep DEF CdUp, fsVars, TypeInv, TypeOK

LEMMA CdDownType ==
  ASSUME TypeInv, CdDown
  PROVE  TypeInv'
<1>1. op \in CdWalks
  BY WalkingFacts DEF CdDown
<1>2. /\ op.at \in DataBlock /\ op.segs \in Seq(Name \cup {DotDot})
      /\ op.segs # <<>> /\ op.stack \in Seq(Name)
  BY <1>1 DEF CdWalks, CdDown
<1>3. Tail(op.segs) \in Seq(Name \cup {DotDot}) /\ Head(op.segs) \in Name
  BY <1>2 DEF CdDown
<1>4. Append(op.stack, Head(op.segs)) \in Seq(Name)
  BY <1>2, <1>3
<1>5. PICK e \in Subdir(op.at, Head(op.segs)) :
        op' = Walking(e.first, Tail(op.segs), Append(op.stack, Head(op.segs)))
  BY DEF CdDown
<1>6. e \in Entry
  BY <1>2, <1>5, TypeFacts, FindType DEF Subdir
<1>7. op' \in CdWalks
  BY <1>3, <1>4, <1>5, <1>6, WalkingType DEF Entry
<1>. QED  BY <1>7, CdStep DEF CdDown, fsVars, TypeInv, TypeOK

LEMMA CdEndsType ==
  ASSUME TypeInv, CdFail \/ CdEnd
  PROVE  TypeInv'
<1>1. CASE CdFail
  BY <1>1, CdStep DEF CdFail, fsVars, TypeInv, TypeOK
<1>2. CASE CdEnd
  <2>1. op \in CdWalks
    BY <1>2, WalkingFacts DEF CdEnd
  <2>2. op.at \in DataBlock /\ op.stack \in Seq(Name)
    BY <2>1 DEF CdWalks
  <2>. QED  BY <1>2, <2>2, CdStep DEF CdEnd
<1>. QED  BY <1>1, <1>2

LEMMA FormatType ==
  ASSUME TypeInv, Format
  PROVE  TypeInv'
<1>1. path_stack' \in Seq(Name) /\ cur_block' \in DataBlock
  BY BlockFacts DEF Format
<1>2. DirectoryTypeOK'
  BY FormatTypes DEF Format, DirectoryTypeOK, BlocksTypeOK
<1>. QED  BY <1>1, <1>2 DEF Format, TypeInv, TypeOK, openVars

LEMMA InitType == Init => TypeInv
<1> SUFFICES ASSUME Init PROVE TypeInv
  OBVIOUS
<1>1. DirectoryTypeOK
  BY FormatTypes DEF Init, FOInit, DirectoryTypeOK, BlocksTypeOK
<1>2. op.cmd # "write" /\ sys_files \in Seq(OpenFile)
  BY DEF Init, FOInit, Idle
<1>. QED  BY <1>1, <1>2, BlockFacts DEF Init, FOInit, TypeInv, TypeOK

LEMMA NextType == TypeInv /\ [Next]_vars => TypeInv'
<1> SUFFICES ASSUME TypeInv, [Next]_vars PROVE TypeInv'
  OBVIOUS
<1>1. CASE FileCommand
  <2> USE TypeFacts
  <2>1. ASSUME NEW n \in AnyName, Create(cur_block, n) PROVE TypeInv'
    BY <1>1, <2>1, CreateType DEF FileCommand
  <2>2. ASSUME NEW n \in AnyName, Open(cur_block, n) PROVE TypeInv'
    BY <1>1, <2>2, OpenType DEF FileCommand
  <2>3. ASSUME NEW n \in AnyName, Remove(cur_block, n) PROVE TypeInv'
    BY <1>1, <2>3, RemoveType DEF FileCommand
  <2>4. ASSUME NEW fd \in 0 .. MaxFds - 1, Close(fd) PROVE TypeInv'
    BY <1>1, <2>4, CloseType DEF FileCommand
  <2>5. ASSUME NEW fd \in 0 .. MaxFds - 1, NEW n \in ReadSizes, Read(fd, n) PROVE TypeInv'
    BY <1>1, <2>5, ReadType, FileOpsAssumption DEF FileCommand
  <2>6. ASSUME NEW fd \in 0 .. MaxFds - 1, NEW n \in WriteSizes, Write(fd, n) PROVE TypeInv'
    BY <1>1, <2>6, WriteType, FileOpsAssumption DEF FileCommand
  <2>. QED  BY <1>1, <2>1, <2>2, <2>3, <2>4, <2>5, <2>6 DEF FileCommand
<1>2. CASE DirectoryCommand
  BY <1>2, MkdirType, RmdirType, RenameType, CdType DEF DirectoryCommand
<1>3. CASE Format
  BY <1>3, FormatType
<1>4. CASE Turn
  BY <1>4, WriteBlockType, WriteEndType, CdUpType, CdDownType, CdEndsType DEF Turn, Loop
<1>5. CASE UNCHANGED vars
  BY <1>5 DEF vars, foVars, diskVars, openVars, fsVars, TypeInv, TypeOK,
              DirectoryTypeOK, BlocksTypeOK
<1>. QED  BY <1>1, <1>2, <1>3, <1>4, <1>5 DEF Next

\* Every variable keeps its type, whatever the user does: no chain leaves the data
\* area, no record of an open file loses a field, and every descriptor leads to a
\* record (the code looks records up by their index).
THEOREM TypeCorrect == Spec => []TypeOK
<1>1. TypeInv => TypeOK
  BY DEF TypeInv
<1>. QED  BY InitType, NextType, <1>1, PTL DEF Spec

---------------------------------------------------------------------------
(* The tables of open files *)

\* No descriptor is given out twice, so a new one is not among those in use.
FdsFresh == IsFiniteSet(user_fds) /\ \A u \in user_fds : u.fd < next_fd

\* Three properties that lean on TypeInv only, and go through the same actions.
TableInv ==
  TypeInv /\ FdsFresh /\ DescriptorsCounted /\ OneRecordPerFile /\ CursorInFile

\* The descriptors that lead to record i.
Users(fds, i) == {u \in fds : u.file = i}

LEMMA UsersFinite ==
  ASSUME NEW fds, IsFiniteSet(fds), NEW i
  PROVE  IsFiniteSet(Users(fds, i))
BY FS_Subset DEF Users

LEMMA CountedBy ==
  DescriptorsCounted <=>
    \A i \in DOMAIN sys_files : sys_files[i].ref = Cardinality(Users(user_fds, i))
BY DEF DescriptorsCounted, Users

\* A step that leaves the tables alone.
LEMMA TablesKept ==
  ASSUME TableInv, TypeInv', UNCHANGED openVars
  PROVE  TableInv'
BY DEF TableInv, FdsFresh, DescriptorsCounted, OneRecordPerFile, CursorInFile,
       InUse, openVars

\* A step that moves the cursor of a record, or lets its file grow.
LEMMA CursorStep ==
  ASSUME TableInv, TypeInv', UNCHANGED <<user_fds, next_fd>>,
         NEW i \in DOMAIN sys_files, NEW r \in OpenFile,
         sys_files' = [sys_files EXCEPT ![i] = r],
         r.first = sys_files[i].first, r.ref = sys_files[i].ref, r.cursor <= r.size
  PROVE  TableInv'
<1>1. /\ sys_files \in Seq(OpenFile) /\ DOMAIN sys_files' = DOMAIN sys_files
      /\ \A j \in DOMAIN sys_files : sys_files'[j] = IF j = i THEN r ELSE sys_files[j]
  BY TypeFacts, RecordUpdate DEF TableInv
<1>2. DescriptorsCounted'
  BY <1>1 DEF TableInv, DescriptorsCounted
<1>3. OneRecordPerFile'
  BY <1>1 DEF TableInv, OneRecordPerFile, InUse
<1>4. CursorInFile'
  BY <1>1 DEF TableInv, CursorInFile
<1>. QED  BY <1>2, <1>3, <1>4 DEF TableInv, FdsFresh

LEMMA ReadTables ==
  ASSUME TableInv, TypeInv', NEW fd, NEW n \in Nat, Read(fd, n)
  PROVE  TableInv'
<1>1. CASE UNCHANGED sys_files
  BY <1>1, TablesKept DEF Read, openVars
<1>2. ASSUME NEW u \in user_fds, NEW got \in 0 .. n,
             ~Overruns(sys_files[u.file], n), CanRead(sys_files[u.file], n, got),
             sys_files' = [sys_files EXCEPT ![u.file].cursor = @ + got]
      PROVE  TableInv'
  <2> DEFINE of == sys_files[u.file]
             r  == [of EXCEPT !.cursor = @ + got]
  <2>1. u.file \in DOMAIN sys_files /\ of \in OpenFile
    BY TypeFacts DEF TableInv
  <2>2. r \in OpenFile
    BY <2>1 DEF OpenFile
  <2>3. of.cursor + got <= of.size
    <3>1. of.size \in Nat /\ of.cursor \in Nat /\ Cut(of, n) \in Int
      BY <2>1 DEF Cut, OpenFile
    <3>2. got <= Cut(of, n) /\ of.cursor + Cut(of, n) <= of.size
      BY <1>2, <3>1 DEF CanRead, Overruns
    <3>. QED  BY <3>1, <3>2
  <2>4. r.first = of.first /\ r.ref = of.ref /\ r.cursor <= r.size
    BY <2>1, <2>3 DEF OpenFile
  <2>5. sys_files' = [sys_files EXCEPT ![u.file] = r]
    BY <1>2
  <2> HIDE DEF r
  <2>. QED  BY <2>1, <2>2, <2>4, <2>5, CursorStep DEF Read
<1>. QED  BY <1>1, <1>2 DEF Read

LEMMA WriteEndTables ==
  ASSUME TableInv, TypeInv', WriteEnd
  PROVE  TableInv'
<1>1. TypeInv /\ op.cmd = "write"
  BY DEF WriteEnd, TableInv
<1> DEFINE of == sys_files[op.file]
           r  == Written(of, op.pos)
<1>2. op \in Writing /\ op.file \in DOMAIN sys_files /\ of \in OpenFile
  BY <1>1, WritingFacts
<1>3. r \in OpenFile
  BY <1>2 DEF Written, OpenFile, Writing, LargerOf
<1>4. r.first = of.first /\ r.ref = of.ref /\ r.cursor <= r.size
  BY <1>2 DEF Written, OpenFile, Writing, LargerOf
<1>5. sys_files' = [sys_files EXCEPT ![op.file] = r]
  BY DEF WriteEnd
<1> HIDE DEF r
<1>. QED  BY <1>2, <1>3, <1>4, <1>5, CursorStep DEF WriteEnd

LEMMA CloseTables ==
  ASSUME TableInv, TypeInv', NEW fd, Close(fd)
  PROVE  TableInv'
<1>1. PICK u \in user_fds :
        /\ sys_files' = [sys_files EXCEPT ![u.file] = Released(sys_files[u.file])]
        /\ user_fds' = user_fds \ {u}
  BY DEF Close
<1> DEFINE of == sys_files[u.file]
           r  == Released(of)
<1>2. u.file \in DOMAIN sys_files /\ of \in OpenFile
  BY TypeFacts DEF TableInv
<1>3. of.ref = Cardinality(Users(user_fds, u.file))
  BY <1>2, CountedBy DEF TableInv
<1>4. IsFiniteSet(Users(user_fds, u.file)) /\ u \in Users(user_fds, u.file)
  BY UsersFinite DEF TableInv, FdsFresh, Users
<1>5. /\ of.ref > 0
      /\ Cardinality(Users(user_fds, u.file) \ {u}) = of.ref - 1
  <2> DEFINE us == Users(user_fds, u.file)
  <2>1. Cardinality(us) \in Nat /\ Cardinality(us) # 0
    <3> HIDE DEF us
    <3>. QED  BY <1>4, FS_EmptySet, FS_CardinalityType DEF us
  <2>2. Cardinality(us \ {u}) = Cardinality(us) - 1
    <3> HIDE DEF us
    <3>. QED  BY <1>4, FS_RemoveElement DEF us
  <2> HIDE DEF us
  <2>. QED  BY <1>3, <2>1, <2>2 DEF us
<1>6. /\ r \in OpenFile /\ r.first = of.first /\ r.ref = of.ref - 1
      /\ r.cursor = of.cursor /\ r.size = of.size
  BY <1>2, <1>5 DEF Released, OpenFile
<1>7. /\ DOMAIN sys_files' = DOMAIN sys_files
      /\ \A j \in DOMAIN sys_files : sys_files'[j] = IF j = u.file THEN r ELSE sys_files[j]
  <2> HIDE DEF r
  <2>. QED  BY <1>1, <1>2, <1>6, TypeFacts, RecordUpdate DEF TableInv, r
<1> HIDE DEF r, of
<1>8. DescriptorsCounted'
  <2> SUFFICES ASSUME NEW j \in DOMAIN sys_files
               PROVE  sys_files'[j].ref = Cardinality(Users(user_fds', j))
    BY <1>7 DEF DescriptorsCounted, Users
  <2>1. CASE j = u.file
    <3>1. Users(user_fds', j) = Users(user_fds, u.file) \ {u}
      BY <1>1, <2>1 DEF Users
    <3>. QED  BY <1>5, <1>6, <1>7, <2>1, <3>1
  <2>2. CASE j # u.file
    <3>1. Users(user_fds', j) = Users(user_fds, j)
      BY <1>1, <2>2 DEF Users
    <3>. QED  BY <1>7, <2>2, <3>1, CountedBy DEF TableInv
  <2>. QED  BY <2>1, <2>2
<1>9. OneRecordPerFile'
  <2> SUFFICES ASSUME NEW i \in DOMAIN sys_files, NEW j \in DOMAIN sys_files,
                      sys_files'[i].ref > 0, sys_files'[j].ref > 0,
                      sys_files'[i].first = sys_files'[j].first
               PROVE  i = j
    BY <1>7 DEF OneRecordPerFile, InUse
  <2>1. \A k \in DOMAIN sys_files : /\ sys_files'[k].first = sys_files[k].first
                                    /\ sys_files'[k].ref > 0 => sys_files[k].ref > 0
    BY <1>5, <1>6, <1>7 DEF of
  <2>. QED  BY <2>1 DEF TableInv, OneRecordPerFile, InUse
<1>10. CursorInFile'
  BY <1>6, <1>7 DEF TableInv, CursorInFile, of
<1>11. FdsFresh'
  BY <1>1, FS_RemoveElement DEF Close, TableInv, FdsFresh
<1>. QED  BY <1>8, <1>9, <1>10, <1>11 DEF TableInv

\* A new descriptor adds one to the number of those that lead to its record.
LEMMA OneMoreUser ==
  ASSUME TypeInv, FdsFresh, NEW i,
         user_fds' = user_fds \cup {[fd |-> next_fd, file |-> i]}
  PROVE  /\ Cardinality(Users(user_fds', i)) = Cardinality(Users(user_fds, i)) + 1
         /\ \A j : j # i => Users(user_fds', j) = Users(user_fds, j)
<1> DEFINE u == [fd |-> next_fd, file |-> i]
<1>1. u \notin user_fds
  BY DEF FdsFresh, TypeInv, TypeOK
<1>2. Users(user_fds', i) = Users(user_fds, i) \cup {u} /\ u \notin Users(user_fds, i)
  BY <1>1 DEF Users
<1>3. IsFiniteSet(Users(user_fds, i))
  BY UsersFinite DEF FdsFresh
<1>4. \A j : j # i => Users(user_fds', j) = Users(user_fds, j)
  BY DEF Users
<1> HIDE DEF u
<1>. QED  BY <1>2, <1>3, <1>4, FS_AddElement

LEMMA OpenTables ==
  ASSUME TableInv, TypeInv', NEW d \in DataBlock, NEW n \in AnyName, Open(d, n)
  PROVE  TableInv'
<1>1. PICK e \in Find(dir, d, n) :
        \/ \E i \in Lowest(Shared(e.first)) :
             /\ sys_files' = [sys_files EXCEPT ![i].ref = @ + 1]
             /\ user_fds' = user_fds \cup {[fd |-> next_fd, file |-> i]}
        \/ /\ Shared(e.first) = {}
           /\ sys_files' = Append(sys_files, NewOpenFile(e, d, n))
           /\ user_fds' = user_fds \cup {[fd |-> next_fd, file |-> Len(sys_files) + 1]}
  BY DEF Open
<1>2. next_fd \in Nat /\ next_fd' = next_fd + 1 /\ TypeInv /\ FdsFresh
  BY DEF Open, TableInv, TypeInv, TypeOK
<1>3. ASSUME NEW i, user_fds' = user_fds \cup {[fd |-> next_fd, file |-> i]}
      PROVE  FdsFresh'
  <2>1. IsFiniteSet(user_fds')
    BY <1>2, <1>3, FS_AddElement DEF FdsFresh
  <2>2. \A u \in user_fds : u.fd \in Nat
    BY <1>2, TypeFacts DEF UserFd
  <2>. QED  BY <1>2, <1>3, <2>1, <2>2 DEF FdsFresh
<1>4. CASE \E i \in Lowest(Shared(e.first)) :
             /\ sys_files' = [sys_files EXCEPT ![i].ref = @ + 1]
             /\ user_fds' = user_fds \cup {[fd |-> next_fd, file |-> i]}
  <2>1. PICK i \in DOMAIN sys_files :
             /\ sys_files[i].ref > 0
             /\ sys_files' = [sys_files EXCEPT ![i].ref = @ + 1]
             /\ user_fds' = user_fds \cup {[fd |-> next_fd, file |-> i]}
    BY <1>4, LowestIn DEF Shared
  <2> DEFINE r == [sys_files[i] EXCEPT !.ref = @ + 1]
  <2>2. sys_files[i] \in OpenFile
    BY <1>2, TypeFacts
  <2>3. /\ r \in OpenFile /\ r.ref = sys_files[i].ref + 1 /\ r.first = sys_files[i].first
        /\ r.cursor = sys_files[i].cursor /\ r.size = sys_files[i].size
    BY <2>2 DEF OpenFile
  <2>4. sys_files' = [sys_files EXCEPT ![i] = r]
    BY <2>1
  <2> HIDE DEF r
  <2>5. /\ DOMAIN sys_files' = DOMAIN sys_files
        /\ \A j \in DOMAIN sys_files : sys_files'[j] = IF j = i THEN r ELSE sys_files[j]
    BY <1>2, <2>3, <2>4, TypeFacts, RecordUpdate
  <2>6. DescriptorsCounted'
    <3> SUFFICES ASSUME NEW j \in DOMAIN sys_files
                 PROVE  sys_files'[j].ref = Cardinality(Users(user_fds', j))
      BY <2>5 DEF DescriptorsCounted, Users
    <3>1. sys_files[j].ref = Cardinality(Users(user_fds, j))
      BY CountedBy DEF TableInv
    <3>2. CASE j = i
      <4>1. Cardinality(Users(user_fds', i)) = Cardinality(Users(user_fds, i)) + 1
        BY <1>2, <2>1, OneMoreUser
      <4>. QED  BY <2>3, <2>5, <3>1, <3>2, <4>1
    <3>3. CASE j # i
      <4>1. Users(user_fds', j) = Users(user_fds, j)
        BY <2>1, <3>3 DEF Users
      <4>. QED  BY <2>5, <3>1, <3>3, <4>1
    <3>. QED  BY <3>2, <3>3
  <2>7. OneRecordPerFile'
    <3> SUFFICES ASSUME NEW j \in DOMAIN sys_files, NEW k \in DOMAIN sys_files,
                        sys_files'[j].ref > 0, sys_files'[k].ref > 0,
                        sys_files'[j].first = sys_files'[k].first
                 PROVE  j = k
      BY <2>5 DEF OneRecordPerFile, InUse
    <3>. QED  BY <2>1, <2>3, <2>5 DEF TableInv, OneRecordPerFile, InUse
  <2>8. CursorInFile'
    BY <2>3, <2>5 DEF TableInv, CursorInFile
  <2>. QED  BY <1>3, <2>1, <2>6, <2>7, <2>8 DEF TableInv
<1>5. CASE /\ Shared(e.first) = {}
           /\ sys_files' = Append(sys_files, NewOpenFile(e, d, n))
           /\ user_fds' = user_fds \cup {[fd |-> next_fd, file |-> Len(sys_files) + 1]}
  <2> DEFINE m == Len(sys_files) + 1
             r == NewOpenFile(e, d, n)
  <2>1. e \in Entry
    BY <1>2, TypeFacts, FindType
  <2>2. /\ r \in OpenFile /\ r.first = e.first /\ r.ref = 1
        /\ r.cursor = 0 /\ r.size \in Nat
    BY <2>1, StoredNameType DEF NewOpenFile, OpenFile, Entry
  <2> HIDE DEF r
  <2>3. sys_files \in Seq(OpenFile)
    BY <1>2, TypeFacts
  <2>4. /\ m \notin DOMAIN sys_files /\ DOMAIN sys_files' = DOMAIN sys_files \cup {m}
        /\ sys_files'[m] = r
        /\ \A j \in DOMAIN sys_files : sys_files'[j] = sys_files[j]
    BY <1>5, <2>2, <2>3 DEF r
  <2>5. user_fds' = user_fds \cup {[fd |-> next_fd, file |-> m]}
    BY <1>5
  <2> HIDE DEF m
  <2>6. DescriptorsCounted'
    <3>1. Cardinality(Users(user_fds', m)) = 1
      <4>1. Users(user_fds, m) = {}
        BY <1>2, <2>4, TypeFacts DEF Users
      <4>2. Cardinality(Users(user_fds', m)) = Cardinality(Users(user_fds, m)) + 1
        BY <1>2, <2>5, OneMoreUser
      <4>. QED  BY <4>1, <4>2, FS_EmptySet
    <3>2. \A j \in DOMAIN sys_files : sys_files'[j].ref = Cardinality(Users(user_fds', j))
      BY <1>2, <2>4, <2>5, OneMoreUser, CountedBy DEF TableInv
    <3>. QED  BY <2>2, <2>4, <3>1, <3>2 DEF DescriptorsCounted, Users
  <2>7. OneRecordPerFile'
    <3>1. \A j \in DOMAIN sys_files : ~(sys_files[j].ref > 0 /\ sys_files[j].first = e.first)
      BY <1>5 DEF Shared
    <3>2. ASSUME NEW j \in DOMAIN sys_files', NEW k \in DOMAIN sys_files',
                 sys_files'[j].ref > 0, sys_files'[k].ref > 0,
                 sys_files'[j].first = sys_files'[k].first
          PROVE  j = k
      BY <2>2, <2>4, <3>1, <3>2 DEF TableInv, OneRecordPerFile, InUse
    <3>. QED  BY <3>2 DEF OneRecordPerFile, InUse
  <2>8. CursorInFile'
    BY <2>2, <2>4 DEF TableInv, CursorInFile
  <2>. QED  BY <1>3, <2>5, <2>6, <2>7, <2>8 DEF TableInv
<1>. QED  BY <1>1, <1>4, <1>5

LEMMA InitTables == Init => TableInv
<1> SUFFICES ASSUME Init PROVE TableInv
  OBVIOUS
<1>1. user_fds = {} /\ DOMAIN sys_files = {}
  BY DEF Init, FOInit
<1>. QED  BY <1>1, InitType, FS_EmptySet
          DEF TableInv, FdsFresh, DescriptorsCounted, OneRecordPerFile, CursorInFile

LEMMA NextTables == TableInv /\ [Next]_vars => TableInv'
<1> SUFFICES ASSUME TableInv, [Next]_vars PROVE TableInv'
  OBVIOUS
<1> USE NextType
<1>1. TypeInv /\ TypeInv'
  BY DEF TableInv
<1>2. CASE UNCHANGED openVars
  BY <1>1, <1>2, TablesKept
<1>3. CASE FileCommand
  <2>1. ASSUME NEW n \in AnyName, Open(cur_block, n) PROVE TableInv'
    BY <1>1, <2>1, TypeFacts, OpenTables
  <2>2. ASSUME NEW n \in AnyName, Create(cur_block, n) \/ Remove(cur_block, n)
        PROVE  TableInv'
    BY <1>2, <2>2 DEF Create, Remove
  <2>3. ASSUME NEW fd \in 0 .. MaxFds - 1, Close(fd) PROVE TableInv'
    BY <1>1, <2>3, CloseTables
  <2>4. ASSUME NEW fd \in 0 .. MaxFds - 1, NEW n \in ReadSizes, Read(fd, n) PROVE TableInv'
    BY <1>1, <2>4, ReadTables, FileOpsAssumption
  <2>5. ASSUME NEW fd \in 0 .. MaxFds - 1, NEW n \in WriteSizes, Write(fd, n) PROVE TableInv'
    BY <1>2, <2>5 DEF Write
  <2>. QED  BY <1>3, <2>1, <2>2, <2>3, <2>4, <2>5 DEF FileCommand
<1>4. CASE DirectoryCommand \/ Format
  BY <1>2, <1>4 DEF DirectoryCommand, Mkdir, Rmdir, Rename, Cd, Format
<1>5. CASE Turn
  BY <1>1, <1>2, <1>5, WriteEndTables
     DEF Turn, Loop, WriteBlock, CdUp, CdDown, CdFail, CdEnd
<1>6. CASE UNCHANGED vars
  BY <1>2, <1>6 DEF vars, foVars
<1>. QED  BY <1>3, <1>4, <1>5, <1>6 DEF Next

LEMMA TablesConsistent == Spec => []TableInv
BY InitTables, NextTables, PTL DEF Spec

\* ref_count is the number of descriptors that lead to the record, whatever the
\* user does with files meanwhile (open counts up, close counts down).
THEOREM CountsAreExact == Spec => []DescriptorsCounted
<1>1. TableInv => DescriptorsCounted
  BY DEF TableInv
<1>. QED  BY <1>1, TablesConsistent, PTL

\* Two records in use never have the same first block: however often a file is
\* opened, it has one cursor and one size (the search in open).
THEOREM RecordsAreShared == Spec => []OneRecordPerFile
<1>1. TableInv => OneRecordPerFile
  BY DEF TableInv
<1>. QED  BY <1>1, TablesConsistent, PTL

\* No cursor is ever behind the end of its file, so that size - cursor in read
\* does not wrap around (read stops at the end, write moves the end).
THEOREM CursorsInFiles == Spec => []CursorInFile
<1>1. TableInv => CursorInFile
  BY DEF TableInv
<1>. QED  BY <1>1, TablesConsistent, PTL

===========================================================================
