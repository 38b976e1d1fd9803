----------------------------- MODULE TreeProofs -----------------------------
(***************************************************************************)
(* The directories as a tree, with a user who takes care: a file or        *)
(* directory is at the end of exactly one sequence of entries that leads   *)
(* from the root down, its line.  tree shows each line once, and what df   *)
(* calls free is on none.                                                  *)
(***************************************************************************)
EXTENDS Queries, CarefulProofs, SequenceTheorems

---------------------------------------------------------------------------
(* Sequences *)

LEMMA LastApart ==
  ASSUME NEW S, NEW s \in Seq(S), s # <<>>
  PROVE  LET n == Len(s) t == SubSeq(s, 1, n - 1) IN
         /\ n \in Nat /\ n >= 1 /\ n \in 1 .. n /\ s[n] \in S
         /\ t \in Seq(S) /\ Len(t) = n - 1
         /\ \A k \in 1 .. n - 1 : t[k] = s[k]
         /\ s = Append(t, s[n])
<1> DEFINE n == Len(s)
           t == SubSeq(s, 1, n - 1)
<1>1. n \in Nat /\ n >= 1 /\ n \in 1 .. n /\ \A k \in 1 .. n : s[k] \in S
  OBVIOUS
<1>2. 1 .. n - 1 \subseteq 1 .. n /\ n - 1 \in Int /\ 1 \in Int /\ (n - 1) - 1 + 1 = n - 1
  BY <1>1
<1>3. \A k \in 1 .. n - 1 : s[k] \in S /\ 1 + k - 1 = k
  BY <1>1
<1>4. /\ t \in Seq(S) /\ Len(t) = IF 1 <= n - 1 THEN n - 1 - 1 + 1 ELSE 0
      /\ \A k \in 1 .. n - 1 - 1 + 1 : t[k] = s[1 + k - 1]
  BY <1>2, <1>3, SubSeqProperties
<1>5. Len(t) = n - 1 /\ \A k \in 1 .. n - 1 : t[k] = s[k]
  BY <1>1, <1>2, <1>3, <1>4
<1> HIDE DEF t
<1>6. s = Append(t, s[n])
  BY <1>1, <1>4, <1>5
<1>. QED  BY <1>1, <1>4, <1>5, <1>6 DEF t

---------------------------------------------------------------------------
(* Lines *)

\* The directory the k-th entry of p has to be listed in, and the one p leads to.
Above(p, k) == IF k = 1 THEN Root ELSE p[k-1].first
End(p)      == Above(p, Len(p) + 1)

\* Entries that lead from the root down, directories all of them but the last.
IsLine(ds, p) ==
  /\ p \in Seq(Entry) /\ p # <<>>
  /\ \A k \in 1 .. Len(p) :
       p[k] \in Listed(ds, Above(p, k)) /\ (k < Len(p) => p[k].attr = ATTR_DIR)

\* Directories only, none for the root.
IsTrail(ds, p) ==
  /\ p \in Seq(Entry)
  /\ \A k \in 1 .. Len(p) : p[k] \in Listed(ds, Above(p, k)) /\ p[k].attr = ATTR_DIR

LEMMA TrailLine ==
  ASSUME NEW ds, NEW p \in Seq(Entry)
  PROVE  /\ IsTrail(ds, p) <=> p = <<>> \/ (IsLine(ds, p) /\ p[Len(p)].attr = ATTR_DIR)
         /\ IsTrail(ds, p) => End(p) \in DataBlock
<1>1. p = <<>> => IsTrail(ds, p) /\ End(p) \in DataBlock
  BY BlockFacts DEF IsTrail, End, Above
<1>2. ASSUME p # <<>>
      PROVE  IsTrail(ds, p) <=> IsLine(ds, p) /\ p[Len(p)].attr = ATTR_DIR
  <2>1. Len(p) \in 1 .. Len(p) /\ Len(p) \in Nat /\ \A k \in 1 .. Len(p) : k < Len(p) \/ k = Len(p)
    BY <1>2
  <2>. QED  BY <1>2, <2>1 DEF IsTrail, IsLine
<1>3. ASSUME p # <<>>
      PROVE  End(p) \in DataBlock
  <2>1. Len(p) \in 1 .. Len(p) /\ Len(p) + 1 # 1 /\ (Len(p) + 1) - 1 = Len(p)
    BY <1>3
  <2>2. p[Len(p)] \in Entry
    BY <2>1
  <2>. QED  BY <2>1, <2>2 DEF End, Above, Entry
<1>. QED  BY <1>1, <1>2, <1>3

\* A line is a trail and one more entry.
LEMMA LineSplit ==
  ASSUME NEW ds, NEW p, IsLine(ds, p)
  PROVE  \E t \in Seq(Entry), e \in Entry :
           /\ p = Append(t, e) /\ IsTrail(ds, t) /\ e \in Listed(ds, End(t))
           /\ Len(p) = Len(t) + 1 /\ p[Len(p)] = e /\ \A k \in 1 .. Len(t) : p[k] = t[k]
<1> DEFINE n == Len(p)
           t == SubSeq(p, 1, n - 1)
           e == p[n]
<1>1. p \in Seq(Entry) /\ n \in Nat /\ n >= 1 /\ n \in 1 .. n
  BY DEF IsLine
<1>2. t \in Seq(Entry) /\ Len(t) = n - 1 /\ \A k \in 1 .. n - 1 : t[k] = p[k]
  BY LastApart DEF IsLine
<1>3. e \in Entry /\ p = Append(t, e)
  BY LastApart DEF IsLine
<1> HIDE DEF t
<1>4. \A k \in 1 .. n : Above(t, k) = Above(p, k)
  BY <1>1, <1>2 DEF Above
<1>5. IsTrail(ds, t)
  BY <1>1, <1>2, <1>4 DEF IsLine, IsTrail
<1>6. e \in Listed(ds, End(t))
  BY <1>1, <1>2, <1>4 DEF IsLine, End
<1>7. Len(p) = Len(t) + 1 /\ 1 .. Len(t) = 1 .. n - 1
  BY <1>1, <1>2
<1>. QED  BY <1>2, <1>3, <1>5, <1>6, <1>7

LEMMA LineJoin ==
  ASSUME NEW ds, NEW t, IsTrail(ds, t), NEW e \in Entry, e \in Listed(ds, End(t))
  PROVE  /\ IsLine(ds, Append(t, e)) /\ End(Append(t, e)) = e.first
         /\ e.attr = ATTR_DIR => IsTrail(ds, Append(t, e))
<1> DEFINE n == Len(t) + 1
           p == Append(t, e)
<1>1. t \in Seq(Entry) /\ n \in Nat /\ n >= 1
  BY DEF IsTrail
<1>2. p \in Seq(Entry) /\ Len(p) = n /\ p[n] = e /\ \A k \in 1 .. n - 1 : p[k] = t[k]
  BY <1>1
<1>3. \A k \in 1 .. n : Above(t, k) = Above(p, k)
  BY <1>1, <1>2 DEF Above
<1>4. End(p) = e.first
  BY <1>1, <1>2 DEF End, Above
<1> HIDE DEF p
<1>5. \A k \in 1 .. n - 1 : p[k] \in Listed(ds, Above(p, k)) /\ p[k].attr = ATTR_DIR
  BY <1>1, <1>2, <1>3 DEF IsTrail
<1>6. p[n] \in Listed(ds, Above(p, n))
  BY <1>1, <1>2, <1>3 DEF End
<1>7. \A k \in 1 .. n : k = n \/ (k \in 1 .. n - 1 /\ k < n)
  BY <1>1
<1>8. p # <<>>
  BY <1>1, <1>2
<1>9. IsLine(ds, p)
  BY <1>2, <1>5, <1>6, <1>7, <1>8 DEF IsLine
<1>10. e.attr = ATTR_DIR => IsTrail(ds, p)
  BY <1>2, <1>5, <1>6, <1>7 DEF IsTrail
<1>. QED  BY <1>4, <1>9, <1>10 DEF p

---------------------------------------------------------------------------
(* The lines of a sound disk *)

LEMMA LineFacts ==
  ASSUME TypeInv, NEW p, IsLine(dir, p)
  PROVE  /\ p \in Seq(Entry) /\ Len(p) \in Nat /\ Len(p) >= 1 /\ Len(p) \in 1 .. Len(p)
         /\ End(p) = p[Len(p)].first
         /\ \A k \in 1 .. Len(p) : /\ p[k] \in Entry /\ p[k].first \in DataBlock
                                   /\ Above(p, k) \in DataBlock
                                   /\ p[k] \in Listed(dir, Above(p, k))
                                   /\ k < Len(p) => p[k].attr = ATTR_DIR
<1>1. p \in Seq(Entry) /\ Len(p) \in Nat /\ Len(p) >= 1 /\ Len(p) \in 1 .. Len(p)
  BY DEF IsLine
<1>2. End(p) = p[Len(p)].first
  BY <1>1 DEF End, Above
<1>3. ASSUME NEW k \in 1 .. Len(p)
      PROVE  p[k] \in Entry /\ p[k].first \in DataBlock /\ Above(p, k) \in DataBlock
  <2>1. p[k] \in Entry /\ p[k].first \in DataBlock
    <3>1. p[k] \in Entry
      BY <1>1
    <3>. QED  BY <3>1 DEF Entry
  <2>2. CASE k = 1
    BY <2>1, <2>2, BlockFacts DEF Above
  <2>3. CASE k # 1
    <3>1. k - 1 \in 1 .. Len(p)
      BY <2>3
    <3>2. p[k-1] \in Entry
      BY <1>1, <3>1
    <3>. QED  BY <2>1, <2>3, <3>2 DEF Above, Entry
  <2>. QED  BY <2>2, <2>3
<1>. QED  BY <1>1, <1>2, <1>3 DEF IsLine

\* No line comes to the same place twice.
LEMMA LineWithoutCycle ==
  ASSUME TypeInv, DirInv, NEW p, IsLine(dir, p),
         NEW i \in 1 .. Len(p), NEW j \in 1 .. Len(p), i < j
  PROVE  p[i].first # p[j].first
<1> SUFFICES ASSUME p[i].first = p[j].first PROVE FALSE
  OBVIOUS
<1> DEFINE S == {p[m].first : m \in i .. j - 1}
<1>1. /\ \A k \in 1 .. Len(p) : /\ p[k] \in Entry /\ p[k].first \in DataBlock
                                /\ Above(p, k) \in DataBlock
                                /\ p[k] \in Listed(dir, Above(p, k))
                                /\ k < Len(p) => p[k].attr = ATTR_DIR
      /\ Len(p) \in Nat
  BY LineFacts
<1>2. p[i] = p[j]
  BY <1>1 DEF DirInv, EntriesDistinct
<1>3. ASSUME NEW m \in i .. j
      PROVE  m \in 1 .. Len(p) /\ p[m].attr = ATTR_DIR
  <2>1. m \in 1 .. Len(p) /\ i < Len(p) /\ (m < Len(p) \/ m = j)
    BY <1>1
  <2>. QED  BY <1>1, <1>2, <2>1
<1>4. S \subseteq Directories
  <2> SUFFICES ASSUME NEW m \in i .. j - 1 PROVE p[m].first \in Directories
    OBVIOUS
  <2>1. m \in i .. j
    BY <1>1
  <2>. QED  BY <1>1, <1>3, <2>1, InDirectories
<1>5. i \in i .. j - 1 /\ S # {}
  BY <1>1
<1>6. PICK d \in S : \A e \in Listed(dir, d) : e.attr = ATTR_DIR => e.first \notin S
  BY <1>4, <1>5 DEF DirInv, TreeIsFinite
<1>7. PICK m \in i .. j - 1 : d = p[m].first
  OBVIOUS
<1>8. m + 1 \in i .. j /\ m + 1 # 1 /\ (m + 1) - 1 = m /\ (m + 1 \in i .. j - 1 \/ m + 1 = j)
  BY <1>1, <1>7
<1>9. p[m+1] \in Listed(dir, d) /\ p[m+1].attr = ATTR_DIR
  BY <1>1, <1>3, <1>7, <1>8 DEF Above
<1>10. p[m+1].first \in S
  BY <1>5, <1>8
<1>. QED  BY <1>6, <1>9, <1>10

\* So there are fewer entries on it than blocks.
LEMMA LinesShort ==
  ASSUME TypeInv, DirInv, NEW p, IsLine(dir, p)
  PROVE  Len(p) < BlockCount
<1> DEFINE f == [k \in 1 .. Len(p) |-> p[k].first]
           T == DataBlock \ {Root}
<1>1. /\ Len(p) \in Nat
      /\ \A k \in 1 .. Len(p) : p[k].first \in DataBlock /\ Above(p, k) \in DataBlock
                                /\ p[k] \in Listed(dir, Above(p, k))
  BY LineFacts
<1>2. \A k \in 1 .. Len(p) : p[k].first # Root
  BY <1>1 DEF DirInv, KindsAgree
<1>3. f \in [1 .. Len(p) -> T]
  BY <1>1, <1>2
<1>4. \A i, j \in 1 .. Len(p) : f[i] = f[j] => i = j
  <2> SUFFICES ASSUME NEW i \in 1 .. Len(p), NEW j \in 1 .. Len(p), i < j PROVE f[i] # f[j]
    BY <1>1
  <2>. QED  BY LineWithoutCycle
<1>5. f \in Injection(1 .. Len(p), T)
  BY <1>3, <1>4 DEF Injection, IsInjective
<1>6. BlockCount \in Nat /\ DataStart \in Nat /\ DataStart >= 1 /\ DataStart <= BlockCount - 1
  BY BlockAssumption
<1>7. IsFiniteSet(DataBlock) /\ Cardinality(DataBlock) = BlockCount - DataStart
  <2>1. /\ IsFiniteSet(DataStart .. BlockCount - 1)
        /\ Cardinality(DataStart .. BlockCount - 1) = (BlockCount - 1) - DataStart + 1
    BY <1>6, FS_Interval
  <2>. QED  BY <1>6, <2>1 DEF DataBlock
<1>8. IsFiniteSet(T) /\ Cardinality(T) <= BlockCount - 2
  <2>1. IsFiniteSet(T) /\ Cardinality(T) = Cardinality(DataBlock) - 1
    BY <1>7, BlockFacts, FS_RemoveElement
  <2>. QED  BY <1>6, <1>7, <2>1
<1>9. Cardinality(1 .. Len(p)) = Len(p)
  <2>1. Cardinality(1 .. Len(p)) = IF 1 > Len(p) THEN 0 ELSE Len(p) - 1 + 1
    BY <1>1, FS_Interval
  <2>. QED  BY <1>1, <2>1
<1>10. Cardinality(1 .. Len(p)) <= Cardinality(T)
  BY <1>5, <1>8, FS_Injection
<1>11. Cardinality(T) \in Nat
  BY <1>8, FS_CardinalityType
<1>. QED  BY <1>1, <1>6, <1>8, <1>9, <1>10, <1>11

\* An entry is at the end of one line at most.
LEMMA LineUnique ==
  ASSUME TypeInv, DirInv, NEW p, NEW q, IsLine(dir, p), IsLine(dir, q),
         p[Len(p)] = q[Len(q)]
  PROVE  p = q
<1> DEFINE S == {n \in Nat : \A a, b :
                   IsLine(dir, a) /\ IsLine(dir, b) /\ Len(a) = n /\ a[Len(a)] = b[Len(b)]
                     => a = b}
<1>1. 0 \in S
  <2> SUFFICES ASSUME NEW a, NEW b, IsLine(dir, a), Len(a) = 0 PROVE a = b
    OBVIOUS
  <2>. QED  BY LineFacts
<1>2. ASSUME NEW n \in S PROVE n + 1 \in S
  <2> SUFFICES ASSUME NEW a, NEW b, IsLine(dir, a), IsLine(dir, b), Len(a) = n + 1,
                      a[Len(a)] = b[Len(b)]
               PROVE  a = b
    OBVIOUS
  <2>1. PICK s \in Seq(Entry), e \in Entry :
          /\ a = Append(s, e) /\ IsTrail(dir, s) /\ e \in Listed(dir, End(s))
          /\ Len(a) = Len(s) + 1 /\ a[Len(a)] = e
    BY LineSplit
  <2>2. PICK t \in Seq(Entry), k \in Entry :
          /\ b = Append(t, k) /\ IsTrail(dir, t) /\ k \in Listed(dir, End(t))
          /\ Len(b) = Len(t) + 1 /\ b[Len(b)] = k
    BY LineSplit
  <2>3. e = k
    BY <2>1, <2>2
  <2>4. End(s) \in DataBlock /\ End(t) \in DataBlock
    BY <2>1, <2>2, TrailLine
  <2>5. End(s) = End(t)
    BY <2>1, <2>2, <2>3, <2>4 DEF DirInv, EntriesDistinct
  <2>6. ASSUME NEW u, IsTrail(dir, u), u # <<>>
        PROVE  IsLine(dir, u) /\ End(u) # Root
    <3>1. u \in Seq(Entry) /\ IsLine(dir, u)
      BY <2>6, TrailLine DEF IsTrail
    <3>2. /\ Len(u) \in 1 .. Len(u) /\ End(u) = u[Len(u)].first
          /\ u[Len(u)] \in Listed(dir, Above(u, Len(u))) /\ Above(u, Len(u)) \in DataBlock
      BY <3>1, LineFacts
    <3>. QED  BY <3>1, <3>2 DEF DirInv, KindsAgree
  <2>7. End(<<>>) = Root
    BY DEF End, Above
  <2>8. CASE s = <<>>
    BY <2>1, <2>2, <2>3, <2>5, <2>6, <2>7, <2>8
  <2>9. CASE s # <<>>
    <3>1. t # <<>> /\ IsLine(dir, s) /\ IsLine(dir, t)
      BY <2>1, <2>2, <2>5, <2>6, <2>7, <2>9
    <3>2. Len(s) = n
      BY <2>1
    <3>3. s[Len(s)] = t[Len(t)]
      <4>1. /\ Len(s) \in 1 .. Len(s) /\ End(s) = s[Len(s)].first
            /\ s[Len(s)] \in Listed(dir, Above(s, Len(s))) /\ Above(s, Len(s)) \in DataBlock
        BY <3>1, LineFacts
      <4>2. /\ Len(t) \in 1 .. Len(t) /\ End(t) = t[Len(t)].first
            /\ t[Len(t)] \in Listed(dir, Above(t, Len(t))) /\ Above(t, Len(t)) \in DataBlock
        BY <3>1, LineFacts
      <4>3. \A c, d \in DataBlock : \A x \in Listed(dir, c), y \in Listed(dir, d) :
              x.first = y.first => x = y
        BY DEF DirInv, EntriesDistinct
      <4>. QED  BY <2>5, <4>1, <4>2, <4>3
    <3>4. s = t
      BY <3>1, <3>2, <3>3
    <3>. QED  BY <2>1, <2>2, <2>3, <3>4
  <2>. QED  BY <2>8, <2>9
<1>3. S = Nat
  <2>1. S \in SUBSET Nat
    OBVIOUS
  <2> HIDE DEF S
  <2>. QED  BY <1>1, <1>2, <2>1, AllNaturals
<1>4. Len(p) \in S
  BY <1>3, LineFacts
<1>. QED  BY <1>4

\* There are no directories below each other in a circle.
LEMMA NoOrphans ==
  ASSUME TypeInv, DirInv, NEW T \in SUBSET Directories,
         \A d \in T : \E c \in T : \E e \in Listed(dir, c) : e.attr = ATTR_DIR /\ e.first = d
  PROVE  T = {}
<1> DEFINE Closed(U) ==
             \A d \in U : \E c \in U : \E e \in Listed(dir, c) : e.attr = ATTR_DIR /\ e.first = d
           Sizes == {n \in Nat : \E U \in SUBSET Directories :
                       U # {} /\ Closed(U) /\ IsFiniteSet(U) /\ Cardinality(U) = n}
<1> SUFFICES ASSUME T # {} PROVE FALSE
  OBVIOUS
<1>1. \A U \in SUBSET Directories : IsFiniteSet(U) /\ Cardinality(U) \in Nat
  <2>1. Directories \subseteq DataBlock
    BY DirectoryFacts
  <2>2. IsFiniteSet(DataBlock)
    <3>1. BlockCount \in Int /\ DataStart \in Int
      BY BlockAssumption
    <3>. QED  BY <3>1, FS_Interval DEF DataBlock
  <2>. QED  BY <2>1, <2>2, FS_Subset, FS_CardinalityType
<1>2. Cardinality(T) \in Sizes
  BY <1>1
<1>3. PICK m \in Sizes : \A n \in Sizes : m <= n
  <2>1. Sizes \in SUBSET Nat /\ Sizes # {}
    BY <1>2
  <2> HIDE DEF Sizes
  <2>. QED  BY <2>1, LeastNatural
<1>4. PICK U \in SUBSET Directories : U # {} /\ Closed(U) /\ Cardinality(U) = m
  BY <1>3
<1>5. PICK d \in U : \A e \in Listed(dir, d) : e.attr = ATTR_DIR => e.first \notin U
  BY <1>4 DEF DirInv, TreeIsFinite
<1> DEFINE V == U \ {d}
<1>6. Closed(V)
  BY <1>4, <1>5
<1>7. V # {}
  BY <1>4, <1>5
<1>8. V \in SUBSET Directories /\ Cardinality(V) = m - 1 /\ IsFiniteSet(V)
  BY <1>1, <1>4, <1>5, FS_RemoveElement
<1>9. m - 1 \in Sizes
  BY <1>1, <1>6, <1>7, <1>8
<1>. QED  BY <1>3, <1>9

\* A trail leads to every directory of the tree, and to every entry a line.
LEMMA TrailExists ==
  ASSUME TypeInv, DirInv, NEW d \in Directories
  PROVE  \E t : IsTrail(dir, t) /\ End(t) = d
<1> DEFINE T == {x \in Directories : ~ \E t : IsTrail(dir, t) /\ End(t) = x}
<1>1. ASSUME NEW x \in T
      PROVE  \E c \in T : \E e \in Listed(dir, c) : e.attr = ATTR_DIR /\ e.first = x
  <2>1. x # Root
    <3>1. IsTrail(dir, <<>>) /\ End(<<>>) = Root
      BY DEF IsTrail, End, Above
    <3>. QED  BY <3>1
  <2>2. PICK c \in DataBlock : \E e \in Listed(dir, c) : e.attr = ATTR_DIR /\ e.first = x
    BY <2>1, InDirectories
  <2>3. PICK e \in Listed(dir, c) : e.attr = ATTR_DIR /\ e.first = x
    BY <2>2
  <2>4. c \in Directories /\ e \in Entry
    BY <2>3, TypeFacts, ListedType DEF DirInv, TreeHoldsAll
  <2>5. ASSUME NEW t, IsTrail(dir, t), End(t) = c PROVE FALSE
    <3>1. IsTrail(dir, Append(t, e)) /\ End(Append(t, e)) = x
      BY <2>3, <2>4, <2>5, LineJoin
    <3>. QED  BY <3>1
  <2>. QED  BY <2>3, <2>4, <2>5
<1>2. T = {}
  <2>1. T \in SUBSET Directories
    OBVIOUS
  <2> HIDE DEF T
  <2>. QED  BY <1>1, <2>1, NoOrphans
<1>. QED  BY <1>2

LEMMA LineExists ==
  ASSUME TypeInv, DirInv, NEW d \in DataBlock, NEW e \in Listed(dir, d)
  PROVE  \E p : IsLine(dir, p) /\ p[Len(p)] = e
<1>1. d \in Directories /\ e \in Entry
  BY TypeFacts, ListedType DEF DirInv, TreeHoldsAll
<1>2. PICK t : IsTrail(dir, t) /\ End(t) = d
  BY <1>1, TrailExists
<1>3. t \in Seq(Entry) /\ IsLine(dir, Append(t, e))
  BY <1>1, <1>2, LineJoin DEF IsTrail
<1>4. Append(t, e)[Len(Append(t, e))] = e
  BY <1>1, <1>3
<1>. QED  BY <1>3, <1>4

---------------------------------------------------------------------------
(* What tree shows *)

\* The levels of the tree, as Lines builds them ...
AreLevels(g) ==
  g = [k \in 0 .. BlockCount |-> IF k = 0 THEN {<<e>> : e \in Listed(dir, Root)}
                                 ELSE UNION {Below(path) : path \in g[k-1]}]

\* ... and what is on them.
OfLength(n) == {p \in Seq(Entry) : IsLine(dir, p) /\ Len(p) = n}

LEMMA FirstLevel ==
  ASSUME TypeInv
  PROVE  {<<e>> : e \in Listed(dir, Root)} = OfLength(1)
<1>1. ASSUME NEW e \in Listed(dir, Root)
      PROVE  <<e>> \in OfLength(1)
  <2>1. e \in Entry
    BY TypeFacts, ListedType, BlockFacts
  <2>2. IsTrail(dir, <<>>) /\ End(<<>>) = Root
    BY DEF IsTrail, End, Above
  <2>3. IsLine(dir, Append(<<>>, e))
    BY <2>1, <2>2, LineJoin
  <2>4. Append(<<>>, e) = <<e>> /\ <<e>> \in Seq(Entry) /\ Len(<<e>>) = 1
    BY <2>1
  <2>. QED  BY <2>3, <2>4 DEF OfLength
<1>2. ASSUME NEW p \in OfLength(1)
      PROVE  p \in {<<e>> : e \in Listed(dir, Root)}
  <2>1. p \in Seq(Entry) /\ IsLine(dir, p) /\ Len(p) = 1
    BY DEF OfLength
  <2>2. p[1] \in Listed(dir, Root)
    BY <2>1 DEF IsLine, Above
  <2>3. p = <<p[1]>>
    BY <2>1
  <2>. QED  BY <2>2, <2>3
<1>. QED  BY <1>1, <1>2

LEMMA NextLevel ==
  ASSUME TypeInv, NEW n \in Nat, n >= 1
  PROVE  UNION {Below(path) : path \in OfLength(n)} = OfLength(n + 1)
<1>1. ASSUME NEW t \in OfLength(n), NEW p \in Below(t)
      PROVE  p \in OfLength(n + 1)
  <2>1. t \in Seq(Entry) /\ IsLine(dir, t) /\ Len(t) = n
    BY DEF OfLength
  <2>2. t[Len(t)].attr = ATTR_DIR /\ \E k \in Listed(dir, t[Len(t)].first) : p = Append(t, k)
    BY DEF Below
  <2>3. PICK k \in Listed(dir, t[Len(t)].first) : p = Append(t, k)
    BY <2>2
  <2>4. IsTrail(dir, t) /\ End(t) = t[Len(t)].first /\ End(t) \in DataBlock
    BY <2>1, <2>2, TrailLine, LineFacts
  <2>5. k \in Entry
    BY <2>4, TypeFacts, ListedType
  <2>6. IsLine(dir, p)
    BY <2>3, <2>4, <2>5, LineJoin
  <2>7. p \in Seq(Entry) /\ Len(p) = n + 1
    BY <2>1, <2>3, <2>5
  <2>. QED  BY <2>6, <2>7 DEF OfLength
<1>2. ASSUME NEW p \in OfLength(n + 1)
      PROVE  \E t \in OfLength(n) : p \in Below(t)
  <2>1. p \in Seq(Entry) /\ IsLine(dir, p) /\ Len(p) = n + 1
    BY DEF OfLength
  <2>2. PICK t \in Seq(Entry), e \in Entry :
          /\ p = Append(t, e) /\ IsTrail(dir, t) /\ e \in Listed(dir, End(t))
          /\ Len(p) = Len(t) + 1
    BY <2>1, LineSplit
  <2>3. Len(t) = n /\ t # <<>>
    BY <2>1, <2>2
  <2>4. IsLine(dir, t) /\ t[Len(t)].attr = ATTR_DIR
    BY <2>2, <2>3, TrailLine
  <2>5. End(t) = t[Len(t)].first
    BY <2>4, LineFacts
  <2>6. t \in OfLength(n) /\ p \in Below(t)
    BY <2>2, <2>3, <2>4, <2>5 DEF OfLength, Below
  <2>. QED  BY <2>6
<1>. QED  BY <1>1, <1>2

LEMMA LevelsKnown ==
  ASSUME TypeInv, NEW g, AreLevels(g)
  PROVE  \A k \in 0 .. BlockCount : g[k] = OfLength(k + 1)
<1> DEFINE S == {k \in Nat : k <= BlockCount => g[k] = OfLength(k + 1)}
           w == [k \in 0 .. BlockCount |-> IF k = 0 THEN {<<e>> : e \in Listed(dir, Root)}
                                           ELSE UNION {Below(path) : path \in g[k-1]}]
<1>0. BlockCount \in Nat
  BY BlockAssumption
<1>1. /\ w[0] = {<<e>> : e \in Listed(dir, Root)}
      /\ \A k \in 0 .. BlockCount : k # 0 => w[k] = UNION {Below(path) : path \in g[k-1]}
  BY <1>0
<1>2. g = w
  BY Zenon DEF AreLevels
<1> HIDE DEF w
<1>3. 0 \in S
  BY <1>1, <1>2, FirstLevel
<1>4. ASSUME NEW n \in S PROVE n + 1 \in S
  <2> SUFFICES ASSUME n + 1 <= BlockCount PROVE g[n+1] = OfLength((n + 1) + 1)
    OBVIOUS
  <2>1. n + 1 \in 0 .. BlockCount /\ n + 1 # 0 /\ (n + 1) - 1 = n /\ n + 1 >= 1 /\ n + 1 \in Nat
    BY <1>0
  <2>2. g[n+1] = UNION {Below(path) : path \in g[n]}
    BY <1>1, <1>2, <2>1
  <2>3. g[n] = OfLength(n + 1)
    BY <1>0
  <2>. QED  BY <2>1, <2>2, <2>3, NextLevel
<1>5. S = Nat
  <2>1. S \in SUBSET Nat
    OBVIOUS
  <2> HIDE DEF S
  <2>. QED  BY <1>3, <1>4, <2>1, AllNaturals
<1>. QED  BY <1>0, <1>5

LEMMA LevelsExist ==
  ASSUME TypeInv
  PROVE  \E g : AreLevels(g)
<1> DEFINE w == [k \in 0 .. BlockCount |-> OfLength(k + 1)]
<1>0. BlockCount \in Nat
  BY BlockAssumption
<1>1. w[0] = {<<e>> : e \in Listed(dir, Root)}
  BY <1>0, FirstLevel
<1>2. ASSUME NEW k \in 0 .. BlockCount, k # 0
      PROVE  w[k] = UNION {Below(path) : path \in w[k-1]}
  <2>1. k - 1 \in 0 .. BlockCount /\ (k - 1) + 1 = k /\ k \in Nat /\ k >= 1
    BY <1>0, <1>2
  <2>2. w[k-1] = OfLength(k)
    BY <2>1
  <2>3. w[k] = OfLength(k + 1)
    OBVIOUS
  <2> HIDE DEF w
  <2>. QED  BY <2>1, <2>2, <2>3, NextLevel
<1>3. \A k \in 0 .. BlockCount :
        w[k] = IF k = 0 THEN {<<e>> : e \in Listed(dir, Root)}
               ELSE UNION {Below(path) : path \in w[k-1]}
  BY <1>1, <1>2
<1>4. w = [k \in 0 .. BlockCount |-> w[k]]
  OBVIOUS
<1> HIDE DEF w
<1>5. AreLevels(w)
  BY <1>3, <1>4 DEF AreLevels
<1>. QED  BY <1>5

\* tree shows the lines, all of them.
LEMMA LinesAre == TypeInv /\ DirInv => Lines = {p \in Seq(Entry) : IsLine(dir, p)}
<1> SUFFICES ASSUME TypeInv, DirInv PROVE Lines = {p \in Seq(Entry) : IsLine(dir, p)}
  OBVIOUS
<1> DEFINE g == CHOOSE h : AreLevels(h)
<1>1. AreLevels(g)
  BY LevelsExist
<1>2. Lines = UNION {g[k] : k \in 0 .. BlockCount}
  BY DEF Lines, AreLevels
<1> HIDE DEF g
<1>3. \A k \in 0 .. BlockCount : g[k] = OfLength(k + 1)
  BY <1>1, LevelsKnown
<1>4. ASSUME NEW p \in Lines
      PROVE  p \in Seq(Entry) /\ IsLine(dir, p)
  BY <1>2, <1>3 DEF OfLength
<1>5. ASSUME NEW p \in Seq(Entry), IsLine(dir, p)
      PROVE  p \in Lines
  <2>1. Len(p) \in Nat /\ Len(p) >= 1 /\ Len(p) < BlockCount /\ BlockCount \in Nat
    BY <1>5, LineFacts, LinesShort, BlockAssumption
  <2>2. Len(p) - 1 \in 0 .. BlockCount /\ (Len(p) - 1) + 1 = Len(p)
    BY <2>1
  <2>3. p \in g[Len(p) - 1]
    BY <1>3, <1>5, <2>2 DEF OfLength
  <2>. QED  BY <1>2, <2>2, <2>3
<1>. QED  BY <1>4, <1>5

LEMMA TreeShows == TypeInv /\ DirInv => TreeShowsEachOnce
<1> SUFFICES ASSUME TypeInv, DirInv
             PROVE  TreeShowsEachOnce
  OBVIOUS
<1>1. \A p \in Lines : Len(p) <= BlockCount
  <2> SUFFICES ASSUME NEW p \in Lines PROVE Len(p) <= BlockCount
    OBVIOUS
  <2>1. IsLine(dir, p)
    BY LinesAre
  <2>2. Len(p) \in Nat /\ Len(p) < BlockCount /\ BlockCount \in Nat
    BY <2>1, LineFacts, LinesShort, BlockAssumption
  <2>. QED  BY <2>2
<1>2. ASSUME NEW d \in DataBlock, NEW e \in Listed(dir, d)
      PROVE  Cardinality({path \in Lines : path[Len(path)] = e}) = 1
  <2>1. PICK p : IsLine(dir, p) /\ p[Len(p)] = e
    BY LineExists
  <2>2. {path \in Lines : path[Len(path)] = e} = {p}
    BY <2>1, LinesAre, LineUnique DEF IsLine
  <2>. QED  BY <2>2, FS_Singleton
<1>. QED  BY <1>1, <1>2 DEF TreeShowsEachOnce

\* With a user who takes care, tree comes to an end and shows every file and directory
\* there is exactly once, on a disk of any size (print_tree).
THEOREM TreeShowsAll ==
  ASSUME UsedWithCare
  PROVE  Spec => []TreeShowsEachOnce
<1>1. CarefulInv => TreeShowsEachOnce
  BY TreeShows DEF CarefulInv, TableInv, DiskInv
<1>2. CarefulInv /\ [Next]_vars => CarefulInv'
  BY NextCareful
<1>. QED  BY <1>1, <1>2, InitCareful, PTL DEF Spec

---------------------------------------------------------------------------
(* What df calls used *)

\* The reserved blocks are never free.
MetaMarked == MetaBlock \subseteq bitmap

LEMMA InitMeta == Init => MetaMarked
BY DEF Init, FOInit, MetaMarked, FormatBitmap

LEMMA AddKeepsBits ==
  ASSUME NEW f, NEW u, NEW ds, NEW d, NEW e, AddEntry(f, u, ds, d, e)
  PROVE  u \subseteq bitmap'
BY DEF AddEntry

LEMMA NextMeta == TypeInv /\ DiskInv /\ MetaMarked /\ [Next]_vars => MetaMarked'
<1> SUFFICES ASSUME TypeInv, DiskInv, MetaMarked, [Next]_vars PROVE MetaMarked'
  OBVIOUS
<1>0. ASSUME NEW b \in DataBlock, bitmap \ {b} \subseteq bitmap' PROVE MetaMarked'
  BY <1>0, MarkFacts DEF MetaMarked
<1>1. CASE FileCommand
  <2>1. ASSUME NEW n \in AnyName, Create(cur_block, n) PROVE MetaMarked'
    <3>1. PICK b \in FindFree(bitmap) :
            \/ AddEntry([fat EXCEPT ![b] = FAT_EOF], bitmap \cup {b}, dir, cur_block,
                        NewEntry(n, b, ATTR_FILE))
            \/ bitmap' = (bitmap \cup {b}) \ {b}
      BY <2>1 DEF Create
    <3>2. b \in DataBlock
      BY BlockClaimed
    <3>3. bitmap \ {b} \subseteq bitmap'
      BY <3>1, AddKeepsBits
    <3>. QED  BY <1>0, <3>2, <3>3
  <2>2. ASSUME NEW n, Remove(cur_block, n) PROVE MetaMarked'
    <3>1. PICK e \in Find(dir, cur_block, n) : bitmap' = bitmap \ ReleasedBits(fat, e.first)
      BY <2>2 DEF Remove
    <3>2. e.first \in DataBlock
      BY TypeFacts, FindType DEF Entry
    <3>. QED  BY <1>0, <3>1, <3>2, OneBitReleased
  <2>. QED  BY <1>1, <2>1, <2>2
            DEF FileCommand, Open, Close, Read, Write, diskVars, MetaMarked
<1>2. CASE DirectoryCommand
  <2>1. ASSUME NEW n \in AnyName, Mkdir(n) PROVE MetaMarked'
    <3>1. PICK b \in FindFree(bitmap) :
            \/ AddEntry([fat EXCEPT ![b] = FAT_EOF], bitmap \cup {b},
                        [dir EXCEPT ![b] = InitDir(b, cur_block)], cur_block,
                        NewEntry(n, b, ATTR_DIR))
            \/ bitmap' = bitmap \cup {b}
      BY <2>1 DEF Mkdir
    <3>2. b \in DataBlock
      BY BlockClaimed
    <3>3. bitmap \ {b} \subseteq bitmap'
      BY <3>1, AddKeepsBits
    <3>. QED  BY <1>0, <3>2, <3>3
  <2>2. ASSUME NEW n, Rmdir(n) PROVE MetaMarked'
    <3>1. PICK e \in Find(dir, cur_block, n) : bitmap' = bitmap \ {e.first}
      BY <2>2 DEF Rmdir
    <3>2. e.first \in DataBlock
      BY TypeFacts, FindType DEF Entry
    <3>. QED  BY <1>0, <3>1, <3>2
  <2>. QED  BY <1>2, <2>1, <2>2 DEF DirectoryCommand, Rename, Cd, diskVars, MetaMarked
<1>3. CASE Format
  BY <1>3 DEF Format, FormatBitmap, MetaMarked
<1>4. CASE Turn
  BY <1>4 DEF Turn, Loop, WriteBlock, WriteEnd, CdUp, CdDown, CdFail, CdEnd, diskVars, MetaMarked
<1>5. CASE UNCHANGED vars
  BY <1>5 DEF vars, foVars, diskVars, MetaMarked
<1>. QED  BY <1>1, <1>2, <1>3, <1>4, <1>5 DEF Next

\* The sum that DfCoversTree takes, for any set of lines ...
Last(p) == p[Len(p)]

AreSums(g) ==
  g = [s \in SUBSET Lines |->
         IF s = {} THEN 0
         ELSE LET p == CHOOSE q \in s : TRUE IN Occupied(Last(p)) + g[s \ {p}]]

\* ... and the blocks it counts.
BlocksOf(s) == UNION {Chain(fat, Last(p).first) : p \in s}

\* The end of a line is a file or directory other than the root.
LEMMA LineEnds ==
  ASSUME TypeInv, DiskInv, NEW p \in Lines
  PROVE  /\ Last(p) \in Entry /\ Last(p).first \in Heads \ {Root}
         /\ \E d \in DataBlock : Last(p) \in Listed(dir, d)
<1>1. IsLine(dir, p)
  BY LinesAre DEF DiskInv
<1>2. /\ Len(p) \in 1 .. Len(p) /\ Last(p) \in Entry /\ Last(p).first \in DataBlock
      /\ Above(p, Len(p)) \in DataBlock /\ Last(p) \in Listed(dir, Above(p, Len(p)))
  BY <1>1, LineFacts DEF Last
<1>3. Last(p).first # Root /\ Last(p).first \in Heads
  BY <1>2, InHeads DEF DiskInv, DirInv, KindsAgree
<1>. QED  BY <1>2, <1>3

LEMMA EndsDiffer ==
  ASSUME TypeInv, DiskInv, NEW p \in Lines, NEW q \in Lines, Last(p).first = Last(q).first
  PROVE  p = q
<1>1. IsLine(dir, p) /\ IsLine(dir, q)
  BY LinesAre DEF DiskInv
<1>2. PICK c \in DataBlock : Last(p) \in Listed(dir, c)
  BY LineEnds
<1>3. PICK d \in DataBlock : Last(q) \in Listed(dir, d)
  BY LineEnds
<1>4. Last(p) = Last(q)
  BY <1>2, <1>3 DEF DiskInv, DirInv, EntriesDistinct
<1>. QED  BY <1>1, <1>4, LineUnique DEF DiskInv, Last

LEMMA LinesFinite ==
  ASSUME TypeInv, DiskInv
  PROVE  IsFiniteSet(Lines)
<1> DEFINE f == [p \in Lines |-> Last(p).first]
<1>1. f \in [Lines -> Heads]
  BY LineEnds
<1>2. f \in Injection(Lines, Heads)
  BY <1>1, EndsDiffer DEF Injection, IsInjective
<1>3. IsFiniteSet(Heads)
  <2>1. BlockCount \in Int /\ DataStart \in Int
    BY BlockAssumption
  <2>2. IsFiniteSet(DataBlock)
    BY <2>1, FS_Interval DEF DataBlock
  <2>. QED  BY <2>2, HeadsType, FS_Subset
<1>. QED  BY <1>2, <1>3, FS_Injection

\* One line more, and the blocks of its end are counted, none of them twice.
LEMMA OneMoreLine ==
  ASSUME TypeInv, DiskInv, NEW s \in SUBSET Lines, NEW p \in s
  PROVE  /\ IsFiniteSet(BlocksOf(s)) /\ Cardinality(BlocksOf(s)) \in Nat
         /\ Cardinality(BlocksOf(s)) = Occupied(Last(p)) + Cardinality(BlocksOf(s \ {p}))
<1> DEFINE C == Chain(fat, Last(p).first)
           B == BlocksOf(s \ {p})
<1>1. BlocksOf(s) \subseteq DataBlock /\ B \subseteq DataBlock /\ C \subseteq DataBlock
  BY ChainIsData DEF BlocksOf
<1>2. IsFiniteSet(DataBlock)
  <2>1. BlockCount \in Int /\ DataStart \in Int
    BY BlockAssumption
  <2>. QED  BY <2>1, FS_Interval DEF DataBlock
<1>3. /\ IsFiniteSet(BlocksOf(s)) /\ Cardinality(BlocksOf(s)) \in Nat
      /\ IsFiniteSet(B) /\ Cardinality(B) \in Nat /\ IsFiniteSet(C) /\ Cardinality(C) \in Nat
  BY <1>1, <1>2, FS_Subset, FS_CardinalityType
<1>4. BlocksOf(s) = C \cup B
  BY DEF BlocksOf
<1>5. C \cap B = {}
  <2> SUFFICES ASSUME NEW q \in s \ {p} PROVE C \cap Chain(fat, Last(q).first) = {}
    BY DEF BlocksOf
  <2>1. Last(p).first # Last(q).first
    BY EndsDiffer
  <2>2. Last(p).first \in Heads /\ Last(q).first \in Heads
    BY LineEnds
  <2>. QED  BY <2>1, <2>2, SoundFacts, ChainsDisjoint
<1>6. Cardinality(C \cup B) = Cardinality(C) + Cardinality(B)
  <2>1. Cardinality(C \cap B) = 0
    BY <1>5, FS_EmptySet
  <2>2. Cardinality(C \cup B) = Cardinality(C) + Cardinality(B) - Cardinality(C \cap B)
    BY <1>3, FS_Union
  <2>. QED  BY <1>3, <2>1, <2>2
<1>. QED  BY <1>3, <1>4, <1>6 DEF Occupied

LEMMA SumsKnown ==
  ASSUME TypeInv, DiskInv, NEW g, AreSums(g)
  PROVE  \A s \in SUBSET Lines : g[s] = Cardinality(BlocksOf(s))
<1> DEFINE w == [s \in SUBSET Lines |->
                   IF s = {} THEN 0
                   ELSE LET p == CHOOSE q \in s : TRUE IN Occupied(Last(p)) + g[s \ {p}]]
           S == {n \in Nat : \A s \in SUBSET Lines :
                               Cardinality(s) = n => g[s] = Cardinality(BlocksOf(s))}
<1>1. \A s \in SUBSET Lines :
        w[s] = IF s = {} THEN 0
               ELSE LET p == CHOOSE q \in s : TRUE IN Occupied(Last(p)) + g[s \ {p}]
  OBVIOUS
<1>2. g = w
  BY Zenon DEF AreSums
<1> HIDE DEF w
<1>3. \A s \in SUBSET Lines : IsFiniteSet(s) /\ Cardinality(s) \in Nat
  BY LinesFinite, FS_Subset, FS_CardinalityType
<1>4. 0 \in S
  <2> SUFFICES ASSUME NEW s \in SUBSET Lines, Cardinality(s) = 0
               PROVE  g[s] = Cardinality(BlocksOf(s))
    OBVIOUS
  <2>1. s = {}
    BY <1>3, FS_EmptySet
  <2>2. BlocksOf(s) = {}
    BY <2>1 DEF BlocksOf
  <2>. QED  BY <1>1, <1>2, <2>1, <2>2, FS_EmptySet
<1>5. ASSUME NEW n \in S PROVE n + 1 \in S
  <2> SUFFICES ASSUME NEW s \in SUBSET Lines, Cardinality(s) = n + 1
               PROVE  g[s] = Cardinality(BlocksOf(s))
    OBVIOUS
  <2> DEFINE p == CHOOSE q \in s : TRUE
  <2>1. s # {}
    BY FS_EmptySet
  <2>2. p \in s
    BY <2>1
  <2>3. g[s] = Occupied(Last(p)) + g[s \ {p}]
    BY <1>1, <1>2, <2>1
  <2> HIDE DEF p
  <2>4. s \ {p} \in SUBSET Lines /\ Cardinality(s \ {p}) = n
    <3>1. Cardinality(s \ {p}) = Cardinality(s) - 1
      BY <1>3, <2>2, FS_RemoveElement
    <3>. QED  BY <3>1
  <2>5. g[s \ {p}] = Cardinality(BlocksOf(s \ {p}))
    BY <2>4
  <2>. QED  BY <2>2, <2>3, <2>5, OneMoreLine
<1>6. S = Nat
  <2>1. S \in SUBSET Nat
    OBVIOUS
  <2> HIDE DEF S
  <2>. QED  BY <1>4, <1>5, <2>1, AllNaturals
<1>. QED  BY <1>3, <1>6

LEMMA SumsExist ==
  ASSUME TypeInv, DiskInv
  PROVE  \E g : AreSums(g)
<1> DEFINE w == [s \in SUBSET Lines |-> Cardinality(BlocksOf(s))]
<1>1. w[{}] = 0
  <2>1. BlocksOf({}) = {}
    BY DEF BlocksOf
  <2>. QED  BY <2>1, FS_EmptySet
<1>2. ASSUME NEW s \in SUBSET Lines, s # {}
      PROVE  w[s] = LET p == CHOOSE q \in s : TRUE IN Occupied(Last(p)) + w[s \ {p}]
  <2> DEFINE p == CHOOSE q \in s : TRUE
  <2>1. p \in s
    BY <1>2
  <2> HIDE DEF p
  <2>2. Cardinality(BlocksOf(s)) = Occupied(Last(p)) + Cardinality(BlocksOf(s \ {p}))
    BY <2>1, OneMoreLine
  <2>3. w[s] = Occupied(Last(p)) + w[s \ {p}]
    BY <2>2
  <2>. QED  BY <2>3 DEF p
<1>3. \A s \in SUBSET Lines :
        w[s] = IF s = {} THEN 0
               ELSE LET p == CHOOSE q \in s : TRUE IN Occupied(Last(p)) + w[s \ {p}]
  BY <1>1, <1>2
<1>4. w = [s \in SUBSET Lines |-> w[s]]
  OBVIOUS
<1> HIDE DEF w
<1>5. AreSums(w)
  BY <1>3, <1>4 DEF AreSums
<1>. QED  BY <1>5

\* What the reserved blocks, the root and the lines take together is marked used.
LEMMA DfCovers ==
  ASSUME TypeInv, DiskInv, MetaMarked
  PROVE  DfCoversTree
<1> DEFINE g == CHOOSE h : AreSums(h)
           R == Chain(fat, Root)
           B == BlocksOf(Lines)
<1>1. AreSums(g)
  BY SumsExist
<1>2. MapThenSumSet(LAMBDA path : Occupied(path[Len(path)]), Lines) = g[Lines]
  BY DEF MapThenSumSet, MapThenFoldSet, AreSums, Last
<1> HIDE DEF g
<1>3. g[Lines] = Cardinality(B)
  BY <1>1, SumsKnown
<1>4. Root \in Heads
  BY BlockFacts, InHeads DEF DiskInv, DirInv, DotsKept
<1>5. /\ fat \in [Block -> FatValue] /\ Heads \in SUBSET DataBlock /\ Sound(fat, Heads)
      /\ \A x \in Block : fat[x] # FAT_FREE => x \in bitmap
  BY SoundFacts
<1>6. \A h \in Heads : Chain(fat, h) \subseteq bitmap /\ Chain(fat, h) \subseteq DataBlock
  <2> SUFFICES ASSUME NEW h \in Heads, NEW x \in Chain(fat, h) PROVE x \in bitmap /\ x \in DataBlock
    OBVIOUS
  <2>1. x \in DataBlock /\ x \in Block /\ h \in DataBlock
    BY <1>5, ChainIsData, BlockFacts
  <2>2. fat[h] # FAT_FREE
    BY <1>5 DEF Sound
  <2>3. fat[x] # FAT_FREE
    BY <1>5, <2>1, <2>2, ChainUsed
  <2>. QED  BY <1>5, <2>1, <2>3
<1>7. R \subseteq bitmap /\ R \subseteq DataBlock /\ B \subseteq bitmap /\ B \subseteq DataBlock
  BY <1>4, <1>6, LineEnds DEF BlocksOf
<1>8. R \cap B = {}
  <2> SUFFICES ASSUME NEW p \in Lines PROVE R \cap Chain(fat, Last(p).first) = {}
    BY DEF BlocksOf
  <2>. QED  BY <1>4, <1>5, LineEnds, ChainsDisjoint
<1>9. MetaBlock \cap (R \cup B) = {}
  BY <1>7, MarkFacts
<1>10. IsFiniteSet(MetaBlock) /\ Cardinality(MetaBlock) = DataStart /\ DataStart \in Nat
  <2>1. DataStart \in Nat /\ DataStart >= 1
    BY BlockAssumption
  <2>2. IsFiniteSet(0 .. DataStart - 1) /\ Cardinality(0 .. DataStart - 1) = DataStart
    BY <2>1, FS_Interval
  <2>. QED  BY <2>1, <2>2 DEF MetaBlock
<1>11. IsFiniteSet(bitmap)
  <2>1. IsFiniteSet(Block)
    <3>1. BlockCount \in Int
      BY BlockAssumption
    <3>. QED  BY <3>1, FS_Interval DEF Block
  <2>. QED  BY <2>1, TypeFacts, FS_Subset
<1>12. /\ IsFiniteSet(R) /\ Cardinality(R) \in Nat /\ IsFiniteSet(B) /\ Cardinality(B) \in Nat
       /\ Cardinality(bitmap) \in Nat
  BY <1>7, <1>11, FS_Subset, FS_CardinalityType
<1>13. IsFiniteSet(R \cup B) /\ Cardinality(R \cup B) = Cardinality(R) + Cardinality(B)
  <2>1. Cardinality(R \cap B) = 0
    BY <1>8, FS_EmptySet
  <2>2. /\ IsFiniteSet(R \cup B)
        /\ Cardinality(R \cup B) = Cardinality(R) + Cardinality(B) - Cardinality(R \cap B)
    BY <1>12, FS_Union
  <2>. QED  BY <1>12, <2>1, <2>2
<1>14. Cardinality(MetaBlock \cup (R \cup B)) = DataStart + Cardinality(R \cup B)
  <2>1. Cardinality(MetaBlock \cap (R \cup B)) = 0
    BY <1>9, FS_EmptySet
  <2>2. Cardinality(MetaBlock \cup (R \cup B))
          = Cardinality(MetaBlock) + Cardinality(R \cup B) - Cardinality(MetaBlock \cap (R \cup B))
    BY <1>10, <1>13, FS_Union
  <2>. QED  BY <1>10, <1>12, <1>13, <2>1, <2>2
<1>15. Cardinality(MetaBlock \cup (R \cup B)) <= Cardinality(bitmap)
  <2>1. MetaBlock \cup (R \cup B) \subseteq bitmap
    BY <1>7 DEF MetaMarked
  <2>. QED  BY <1>11, <2>1, FS_Subset
<1>16. Cardinality(bitmap) >= DataStart + Cardinality(R) + Cardinality(B)
  BY <1>10, <1>12, <1>13, <1>14, <1>15
<1>. QED  BY <1>2, <1>3, <1>16 DEF DfCoversTree, UsedCount

\* With a user who takes care, the space that df calls free is taken by nothing that
\* tree shows, on a disk of any size (df, du, against the bitmap, the FAT and the
\* entries).
THEOREM DfCountsAll ==
  ASSUME UsedWithCare
  PROVE  Spec => []DfCoversTree
<1>1. CarefulInv /\ MetaMarked => DfCoversTree
  BY DfCovers DEF CarefulInv, TableInv
<1>2. CarefulInv /\ MetaMarked /\ [Next]_vars => (CarefulInv /\ MetaMarked)'
  BY NextCareful, NextMeta DEF CarefulInv, TableInv
<1>. QED  BY <1>1, <1>2, InitCareful, InitMeta, PTL DEF Spec
===========================================================================
