----------------------------- MODULE NameProofs -----------------------------
(***************************************************************************)
(* The tree as its users see it, by names: with a user who takes care and  *)
(* names that are not cut short, a path leads to one place at most, the    *)
(* prompt shows the path of the working directory, and the commands on     *)
(* directories implement NameTree.                                         *)
(***************************************************************************)
EXTENDS TreeProofs

---------------------------------------------------------------------------
(* Names and lines *)

LEMMA NamesFacts ==
  ASSUME NEW p \in Seq(Entry)
  PROVE  /\ NamesOf(p) \in Seq(AnyName) /\ Len(NamesOf(p)) = Len(p)
         /\ DOMAIN NamesOf(p) = 1 .. Len(p)
         /\ \A k \in 1 .. Len(p) : NamesOf(p)[k] = p[k].name
<1>1. Len(p) \in Nat /\ DOMAIN p = 1 .. Len(p) /\ \A k \in 1 .. Len(p) : p[k] \in Entry
  OBVIOUS
<1>2. \A k \in 1 .. Len(p) : p[k].name \in AnyName
  BY <1>1 DEF Entry
<1>3. NamesOf(p) = [k \in 1 .. Len(p) |-> p[k].name]
  BY <1>1 DEF NamesOf
<1>. QED  BY <1>1, <1>2, <1>3

LEMMA NamesAppend ==
  ASSUME NEW t \in Seq(Entry), NEW e \in Entry
  PROVE  NamesOf(Append(t, e)) = Append(NamesOf(t), e.name)
<1> DEFINE p == Append(t, e)
           n == NamesOf(t)
           m == NamesOf(p)
<1>1. p \in Seq(Entry) /\ Len(p) = Len(t) + 1 /\ Len(t) \in Nat /\ p[Len(t) + 1] = e
      /\ \A k \in 1 .. Len(t) : p[k] = t[k]
  OBVIOUS
<1> HIDE DEF p
<1>2. /\ n \in Seq(AnyName) /\ Len(n) = Len(t) /\ \A k \in 1 .. Len(t) : n[k] = t[k].name
      /\ m \in Seq(AnyName) /\ Len(m) = Len(p) /\ \A k \in 1 .. Len(p) : m[k] = p[k].name
  BY <1>1, NamesFacts
<1> HIDE DEF n, m
<1>3. e.name \in AnyName
  BY DEF Entry
<1>4. \A k \in 1 .. Len(t) : m[k] = n[k]
  BY <1>1, <1>2
<1>5. m[Len(t) + 1] = e.name
  BY <1>1, <1>2
<1>6. m = Append(n, e.name)
  BY <1>1, <1>2, <1>3, <1>4, <1>5
<1>. QED  BY <1>6 DEF m, n, p

LEMMA NoNames ==
  /\ NamesOf(<<>>) = <<>>
  /\ \A p \in Seq(Entry) : NamesOf(p) = <<>> => p = <<>>
<1>1. NamesOf(<<>>) = <<>>
  BY DEF NamesOf
<1>2. ASSUME NEW p \in Seq(Entry), NamesOf(p) = <<>> PROVE p = <<>>
  <2>1. Len(p) = Len(NamesOf(p))
    BY NamesFacts
  <2>. QED  BY <1>2, <2>1
<1>. QED  BY <1>1, <1>2

\* What a line or a trail leads through.
LEMMA AboveType ==
  ASSUME NEW p \in Seq(Entry), NEW k \in 1 .. Len(p) + 1
  PROVE  Above(p, k) \in DataBlock
<1>1. CASE k = 1
  BY <1>1, BlockFacts DEF Above
<1>2. CASE k # 1
  <2>1. k - 1 \in 1 .. Len(p)
    BY <1>2
  <2>2. p[k-1] \in Entry
    BY <2>1
  <2>. QED  BY <1>2, <2>2 DEF Above, Entry
<1>. QED  BY <1>1, <1>2

\* A name is found once in a directory.
NamesApart(ds) == \A d \in DataBlock : \A e, k \in ds[d] : e.name = k.name => e = k

\* Entries each of which is listed where the one before leads: a line or a trail.
Runs(ds, p) == p \in Seq(Entry) /\ \A k \in 1 .. Len(p) : p[k] \in Listed(ds, Above(p, k))

LEMMA LinesRun ==
  ASSUME NEW ds, NEW p, IsLine(ds, p) \/ IsTrail(ds, p)
  PROVE  Runs(ds, p)
BY DEF IsLine, IsTrail, Runs

\* q begins with p.
Begins(p, q) == Len(p) <= Len(q) /\ \A k \in 1 .. Len(p) : q[k] = p[k]

\* Names lead to one place at most.
LEMMA RunsAgree ==
  ASSUME NEW ds, NamesApart(ds), NEW p, NEW q, Runs(ds, p), Runs(ds, q),
         Begins(NamesOf(p), NamesOf(q))
  PROVE  Len(p) <= Len(q) /\ \A k \in 1 .. Len(p) : q[k] = p[k]
<1> DEFINE S == {k \in Nat : k \in 1 .. Len(p) => p[k] = q[k]}
<1>1. /\ p \in Seq(Entry) /\ q \in Seq(Entry) /\ Len(p) \in Nat /\ Len(q) \in Nat
      /\ \A k \in 1 .. Len(p) : p[k] \in Listed(ds, Above(p, k))
      /\ \A k \in 1 .. Len(q) : q[k] \in Listed(ds, Above(q, k))
  BY DEF Runs
<1>2. Len(p) <= Len(q) /\ \A k \in 1 .. Len(p) : p[k].name = q[k].name
  <2>1. /\ Len(NamesOf(p)) = Len(p) /\ Len(NamesOf(q)) = Len(q)
        /\ \A k \in 1 .. Len(p) : NamesOf(p)[k] = p[k].name
        /\ \A k \in 1 .. Len(q) : NamesOf(q)[k] = q[k].name
    BY <1>1, NamesFacts
  <2>. QED  BY <1>1, <2>1 DEF Begins
<1>3. ASSUME NEW k \in 1 .. Len(p), Above(p, k) = Above(q, k)
      PROVE  p[k] = q[k]
  <2>1. k \in 1 .. Len(p) + 1 /\ k \in 1 .. Len(q)
    BY <1>1, <1>2
  <2>2. Above(p, k) \in DataBlock
    BY <1>1, <2>1, AboveType
  <2>3. p[k] \in ds[Above(p, k)] /\ q[k] \in ds[Above(p, k)] /\ p[k].name = q[k].name
    BY <1>1, <1>2, <1>3, <2>1 DEF Listed
  <2>. QED  BY <2>2, <2>3 DEF NamesApart
<1>4. 0 \in S
  OBVIOUS
<1>5. ASSUME NEW k \in S PROVE k + 1 \in S
  <2> SUFFICES ASSUME k + 1 \in 1 .. Len(p) PROVE p[k+1] = q[k+1]
    OBVIOUS
  <2>1. CASE k = 0
    BY <1>3, <2>1 DEF Above
  <2>2. CASE k # 0
    <3>1. k \in 1 .. Len(p) /\ k + 1 # 1 /\ (k + 1) - 1 = k
      BY <1>1, <2>2
    <3>2. p[k] = q[k]
      BY <3>1
    <3>3. Above(p, k + 1) = Above(q, k + 1)
      BY <3>1, <3>2 DEF Above
    <3>. QED  BY <1>3, <3>3
  <2>. QED  BY <2>1, <2>2
<1>6. S = Nat
  <2>1. S \in SUBSET Nat
    OBVIOUS
  <2> HIDE DEF S
  <2>. QED  BY <1>4, <1>5, <2>1, AllNaturals
<1>7. \A k \in 1 .. Len(p) : p[k] = q[k]
  BY <1>1, <1>6
<1>. QED  BY <1>2, <1>7

LEMMA RunByName ==
  ASSUME NEW ds, NamesApart(ds), NEW p, NEW q, Runs(ds, p), Runs(ds, q), NamesOf(p) = NamesOf(q)
  PROVE  p = q
<1>1. p \in Seq(Entry) /\ q \in Seq(Entry)
  BY DEF Runs
<1>2. Len(p) = Len(q) /\ Begins(NamesOf(p), NamesOf(q))
  <2>1. Len(NamesOf(p)) = Len(p) /\ Len(NamesOf(q)) = Len(q) /\ Len(p) \in Nat
    BY <1>1, NamesFacts
  <2>. QED  BY <2>1 DEF Begins
<1>3. \A k \in 1 .. Len(p) : q[k] = p[k]
  BY <1>2, RunsAgree
<1>. QED  BY <1>1, <1>2, <1>3

\* There is one trail to a directory.
LEMMA TrailUnique ==
  ASSUME TypeInv, DirInv, NEW s, NEW t, IsTrail(dir, s), IsTrail(dir, t), End(s) = End(t)
  PROVE  s = t
<1>1. s \in Seq(Entry) /\ t \in Seq(Entry) /\ End(<<>>) = Root
  BY DEF IsTrail, End, Above
<1>2. ASSUME NEW u, IsTrail(dir, u), u # <<>>
      PROVE  /\ IsLine(dir, u) /\ End(u) # Root
             /\ \E d \in DataBlock : u[Len(u)] \in Listed(dir, d) /\ u[Len(u)].first = End(u)
  <2>1. u \in Seq(Entry) /\ IsLine(dir, u)
    BY <1>2, TrailLine DEF IsTrail
  <2>2. /\ Len(u) \in 1 .. Len(u) /\ End(u) = u[Len(u)].first
        /\ u[Len(u)] \in Listed(dir, Above(u, Len(u))) /\ Above(u, Len(u)) \in DataBlock
    BY <2>1, LineFacts
  <2>. QED  BY <2>1, <2>2 DEF DirInv, KindsAgree
<1>3. CASE s = <<>> \/ t = <<>>
  BY <1>1, <1>2, <1>3
<1>4. CASE s # <<>> /\ t # <<>>
  <2>1. IsLine(dir, s) /\ IsLine(dir, t)
    BY <1>2, <1>4
  <2>2. PICK c \in DataBlock : s[Len(s)] \in Listed(dir, c) /\ s[Len(s)].first = End(s)
    BY <1>2, <1>4
  <2>3. PICK d \in DataBlock : t[Len(t)] \in Listed(dir, d) /\ t[Len(t)].first = End(t)
    BY <1>2, <1>4
  <2>4. s[Len(s)] = t[Len(t)]
    BY <2>2, <2>3 DEF DirInv, EntriesDistinct
  <2>. QED  BY <2>1, <2>4, LineUnique
<1>. QED  BY <1>3, <1>4

\* Entries that differ in size at most.
Alike(x, e) == x.name = e.name /\ x.first = e.first /\ x.attr = e.attr

\* Every entry of p has such an entry in its place.
HasCopy(es, p) == \A k \in 1 .. Len(p) : \E x \in Listed(es, Above(p, k)) : Alike(x, p[k])

\* A line whose entries have such entries in their places is a line still.
LEMMA LineCopied ==
  ASSUME NEW ds, NEW es \in [Block -> SUBSET Entry], NEW p, IsLine(ds, p), HasCopy(es, p)
  PROVE  \E q : /\ IsLine(es, q) /\ NamesOf(q) = NamesOf(p) /\ End(q) = End(p)
                /\ q[Len(q)].attr = p[Len(p)].attr
<1> DEFINE q == [k \in 1 .. Len(p) |->
                   CHOOSE x \in Listed(es, Above(p, k)) : Alike(x, p[k])]
<1>1. p \in Seq(Entry) /\ Len(p) \in Nat /\ Len(p) >= 1 /\ Len(p) \in 1 .. Len(p)
  BY DEF IsLine
<1>2. \A k \in 1 .. Len(p) : q[k] \in Listed(es, Above(p, k)) /\ Alike(q[k], p[k])
  BY DEF HasCopy
<1>3. \A k \in 1 .. Len(p) : Above(p, k) \in DataBlock
  BY <1>1, AboveType
<1>4. \A k \in 1 .. Len(p) : q[k] \in Entry
  BY <1>2, <1>3, ListedType
<1>5. q \in Seq(Entry) /\ Len(q) = Len(p) /\ q # <<>>
  <2>1. q = [k \in 1 .. Len(p) |-> q[k]]
    OBVIOUS
  <2> HIDE DEF q
  <2>2. q \in Seq(Entry) /\ Len(q) = Len(p)
    BY <1>1, <1>4, <2>1
  <2>. QED  BY <1>1, <2>2
<1> HIDE DEF q
<1>6. \A k \in 1 .. Len(p) + 1 : Above(q, k) = Above(p, k)
  <2> SUFFICES ASSUME NEW k \in 1 .. Len(p) + 1, k # 1 PROVE q[k-1].first = p[k-1].first
    BY DEF Above
  <2>1. k - 1 \in 1 .. Len(p)
    BY <1>1
  <2>. QED  BY <1>2, <2>1 DEF Alike
<1>7. IsLine(es, q)
  BY <1>1, <1>2, <1>5, <1>6 DEF IsLine, Alike
<1>8. NamesOf(q) = NamesOf(p)
  <2>1. DOMAIN q = 1 .. Len(p) /\ DOMAIN p = 1 .. Len(p)
    BY <1>1, <1>5
  <2>. QED  BY <1>2, <2>1 DEF NamesOf, Alike
<1>9. End(q) = End(p)
  BY <1>1, <1>5, <1>6 DEF End
<1>10. q[Len(q)].attr = p[Len(p)].attr
  BY <1>1, <1>2, <1>5 DEF Alike
<1>. QED  BY <1>7, <1>8, <1>9, <1>10

LEMMA TrailCopied ==
  ASSUME NEW ds, NEW es \in [Block -> SUBSET Entry], NEW t, IsTrail(ds, t), HasCopy(es, t)
  PROVE  \E q : IsTrail(es, q) /\ NamesOf(q) = NamesOf(t) /\ End(q) = End(t)
<1>1. t \in Seq(Entry)
  BY DEF IsTrail
<1>2. CASE t = <<>>
  <2>1. IsTrail(es, t)
    BY <1>1, <1>2, TrailLine
  <2>. QED  BY <2>1
<1>3. CASE t # <<>>
  <2>1. IsLine(ds, t) /\ t[Len(t)].attr = ATTR_DIR
    BY <1>1, <1>3, TrailLine
  <2>2. PICK q : /\ IsLine(es, q) /\ NamesOf(q) = NamesOf(t) /\ End(q) = End(t)
                 /\ q[Len(q)].attr = t[Len(t)].attr
    BY <2>1, LineCopied
  <2>. QED  BY <2>1, <2>2, TrailLine DEF IsLine
<1>. QED  BY <1>2, <1>3

---------------------------------------------------------------------------
(* The path in the prompt *)

\* One step of Resolved, and all of them.
Arrived(d, n) ==
  LET found == {e \in UNION {dir[b] : b \in {d} \cap DataBlock} : e.name = n /\ e.attr = ATTR_DIR}
  IN  IF found = {} THEN NoBlock ELSE (CHOOSE e \in found : TRUE).first

AreArrived(path, g) ==
  g = [k \in 0 .. Len(path) |-> IF k = 0 THEN Root ELSE Arrived(g[k-1], path[k])]

LEMMA ArrivedOne ==
  ASSUME UniqueNames, NEW d \in DataBlock, NEW e \in dir[d], e.attr = ATTR_DIR
  PROVE  Arrived(d, e.name) = e.first
<1> DEFINE found == {x \in UNION {dir[b] : b \in {d} \cap DataBlock} :
                       x.name = e.name /\ x.attr = ATTR_DIR}
<1>1. found = {e}
  BY DEF UniqueNames
<1>. QED  BY <1>1 DEF Arrived

\* Where the steps lead that follow a trail.
LEMMA ArrivedKnown ==
  ASSUME UniqueNames, NEW t, IsTrail(dir, t), NEW g, AreArrived(NamesOf(t), g)
  PROVE  \A k \in 0 .. Len(t) : g[k] = Above(t, k + 1)
<1> DEFINE n == NamesOf(t)
           w == [k \in 0 .. Len(n) |-> IF k = 0 THEN Root ELSE Arrived(g[k-1], n[k])]
           S == {k \in Nat : k <= Len(t) => g[k] = Above(t, k + 1)}
<1>1. /\ t \in Seq(Entry) /\ Len(t) \in Nat /\ Len(n) = Len(t)
      /\ \A k \in 1 .. Len(t) : n[k] = t[k].name /\ t[k] \in dir[Above(t, k)]
                                /\ t[k].attr = ATTR_DIR
  BY NamesFacts DEF IsTrail, Listed
<1> HIDE DEF n
<1>2. w[0] = Root /\ \A k \in 1 .. Len(t) : w[k] = Arrived(g[k-1], n[k])
  BY <1>1
<1>3. g = w
  BY Zenon DEF AreArrived, n
<1> HIDE DEF w
<1>4. 0 \in S
  BY <1>2, <1>3 DEF Above
<1>5. ASSUME NEW k \in S PROVE k + 1 \in S
  <2> SUFFICES ASSUME k + 1 <= Len(t) PROVE g[k+1] = Above(t, (k + 1) + 1)
    OBVIOUS
  <2>1. /\ k + 1 \in 1 .. Len(t) /\ (k + 1) - 1 = k /\ k <= Len(t) /\ k + 1 \in 1 .. Len(t) + 1
        /\ (k + 1) + 1 # 1 /\ ((k + 1) + 1) - 1 = k + 1
    BY <1>1
  <2>2. g[k+1] = Arrived(g[k], n[k+1])
    BY <1>2, <1>3, <2>1
  <2>3. g[k] = Above(t, k + 1)
    BY <2>1
  <2>4. Above(t, k + 1) \in DataBlock
    BY <1>1, <2>1, AboveType
  <2>5. Arrived(Above(t, k + 1), t[k+1].name) = t[k+1].first
    BY <1>1, <2>1, <2>4, ArrivedOne
  <2>. QED  BY <1>1, <2>1, <2>2, <2>3, <2>5 DEF Above
<1>6. S = Nat
  <2>1. S \in SUBSET Nat
    OBVIOUS
  <2> HIDE DEF S
  <2>. QED  BY <1>4, <1>5, <2>1, AllNaturals
<1>. QED  BY <1>1, <1>6

LEMMA ResolvedTrail ==
  ASSUME UniqueNames, NEW t, IsTrail(dir, t)
  PROVE  Resolved(NamesOf(t)) = End(t)
<1> DEFINE n == NamesOf(t)
           w == [k \in 0 .. Len(n) |-> Above(t, k + 1)]
           g == CHOOSE h : AreArrived(n, h)
<1>1. /\ t \in Seq(Entry) /\ Len(t) \in Nat /\ Len(n) = Len(t)
      /\ \A k \in 1 .. Len(t) : n[k] = t[k].name /\ t[k] \in dir[Above(t, k)]
                                /\ t[k].attr = ATTR_DIR
  BY NamesFacts DEF IsTrail, Listed
<1>2. Resolved(n) = g[Len(n)]
  BY DEF Resolved, AreArrived, Arrived
<1> HIDE DEF n
<1>3. ASSUME NEW k \in 0 .. Len(n), k # 0
      PROVE  w[k] = Arrived(w[k-1], n[k])
  <2>1. k \in 1 .. Len(t) /\ k \in 1 .. Len(t) + 1 /\ k - 1 \in 0 .. Len(n) /\ (k - 1) + 1 = k
        /\ k + 1 # 1 /\ (k + 1) - 1 = k
    BY <1>1, <1>3
  <2>2. Above(t, k) \in DataBlock
    BY <1>1, <2>1, AboveType
  <2>3. Arrived(Above(t, k), t[k].name) = t[k].first
    BY <1>1, <2>1, <2>2, ArrivedOne
  <2>4. w[k] = t[k].first /\ w[k-1] = Above(t, k)
    BY <2>1 DEF Above
  <2> HIDE DEF w
  <2>. QED  BY <1>1, <2>1, <2>3, <2>4
<1>4. 0 \in 0 .. Len(n) /\ w[0] = Root /\ w[Len(n)] = End(t)
  BY <1>1 DEF Above, End
<1>5. w = [k \in 0 .. Len(n) |-> w[k]]
  OBVIOUS
<1> HIDE DEF w
<1>6. \A k \in 0 .. Len(n) : w[k] = IF k = 0 THEN Root ELSE Arrived(w[k-1], n[k])
  BY <1>3, <1>4
<1>7. AreArrived(n, w)
  BY <1>5, <1>6 DEF AreArrived
<1>8. AreArrived(n, g)
  BY <1>7
<1> HIDE DEF g
<1>9. g[Len(n)] = Above(t, Len(t) + 1)
  <2>1. Len(t) \in 0 .. Len(t)
    BY <1>1
  <2>. QED  BY <1>1, <1>8, <2>1, ArrivedKnown DEF n
<1>. QED  BY <1>2, <1>9 DEF End, n

\* The names on the trail to d.
Leads(ds, names, d) == \E t : IsTrail(ds, t) /\ NamesOf(t) = names /\ End(t) = d

\* The path in the prompt, and the one that a running cd has put together, are those of
\* the places they stand for.
PathInv ==
  /\ Leads(dir, path_stack, cur_block)
  /\ op.cmd = "cd" => Leads(dir, op.stack, op.at)

LEMMA RootLeads ==
  ASSUME NEW ds
  PROVE  Leads(ds, <<>>, Root)
<1>1. IsTrail(ds, <<>>) /\ End(<<>>) = Root
  BY DEF IsTrail, End, Above
<1>. QED  BY <1>1, NoNames DEF Leads

\* down and up again.
LEMMA LeadsDown ==
  ASSUME NEW ds \in [Block -> SUBSET Entry], NEW names, NEW d \in DataBlock, Leads(ds, names, d),
         NEW e \in Listed(ds, d), e.attr = ATTR_DIR
  PROVE  Leads(ds, Append(names, e.name), e.first)
<1>1. PICK t : IsTrail(ds, t) /\ NamesOf(t) = names /\ End(t) = d
  BY DEF Leads
<1>2. e \in Entry /\ t \in Seq(Entry)
  BY <1>1, ListedType DEF IsTrail
<1>. QED  BY <1>1, <1>2, LineJoin, NamesAppend DEF Leads

LEMMA LeadsUp ==
  ASSUME TypeInv, DirInv, NEW names, NEW d, Leads(dir, names, d)
  PROVE  Leads(dir, Up(names), ParentBlock(dir, d))
<1>1. PICK t : IsTrail(dir, t) /\ NamesOf(t) = names /\ End(t) = d
  BY DEF Leads
<1>2. t \in Seq(Entry)
  BY <1>1 DEF IsTrail
<1>3. CASE t = <<>>
  <2>1. names = <<>> /\ d = Root
    BY <1>1, <1>3, NoNames DEF End, Above
  <2>. QED  BY <2>1, RootLeads DEF Up, DirInv, ParentLinks
<1>4. CASE t # <<>>
  <2>1. IsLine(dir, t) /\ t[Len(t)].attr = ATTR_DIR
    BY <1>1, <1>2, <1>4, TrailLine
  <2>2. PICK s \in Seq(Entry), e \in Entry :
          /\ t = Append(s, e) /\ IsTrail(dir, s) /\ e \in Listed(dir, End(s))
          /\ t[Len(t)] = e
    BY <2>1, LineSplit
  <2>3. d = e.first
    BY <1>1, <2>1, <2>2, LineFacts
  <2>4. ParentBlock(dir, d) = End(s)
    BY <2>1, <2>2, <2>3, TrailLine DEF DirInv, ParentLinks
  <2>5. names = Append(NamesOf(s), e.name) /\ NamesOf(s) \in Seq(AnyName) /\ e.name \in AnyName
    BY <1>1, <2>2, NamesAppend, NamesFacts DEF Entry
  <2>6. names # <<>> /\ SubSeq(names, 1, Len(names) - 1) = NamesOf(s)
    BY <2>5
  <2>. QED  BY <2>2, <2>4, <2>6 DEF Up, Leads
<1>. QED  BY <1>3, <1>4

---------------------------------------------------------------------------
(* What the commands do to what is listed *)

\* The same entries, up to their sizes.
ListedAlike(ds, es) ==
  \A d \in DataBlock : /\ \A e \in Listed(ds, d) : \E x \in Listed(es, d) : Alike(x, e)
                       /\ \A e \in Listed(es, d) : \E x \in Listed(ds, d) : Alike(x, e)

\* es lists e in c, too, with nothing in it.
OneMore(ds, es, c, e) ==
  /\ c \in DataBlock /\ e \in Entry
  /\ \A x \in Listed(ds, c) : x.name # e.name
  /\ \A d \in DataBlock : Listed(es, d) = IF d = c THEN Listed(ds, d) \cup {e} ELSE Listed(ds, d)
  /\ e.attr = ATTR_DIR => Listed(es, e.first) = {}

\* es lists k in c, in the place of e and under another name.
OneRenamed(ds, es, c, e, k) ==
  /\ c \in DataBlock /\ e \in Listed(ds, c) /\ k \in Entry
  /\ k.first = e.first /\ k.attr = e.attr
  /\ \A x \in Listed(ds, c) : x.name # k.name
  /\ \A d \in DataBlock :
       Listed(es, d) = IF d = c THEN (Listed(ds, d) \ {e}) \cup {k} ELSE Listed(ds, d)

\* What a command other than format does to what is listed.
DirEffect ==
  \/ ListedAlike(dir, dir')
  \/ \E e : OneMore(dir, dir', cur_block, e) \/ OneMore(dir', dir, cur_block, e)
  \/ \E e, k : OneRenamed(dir, dir', cur_block, e, k)

LEMMA SameListed ==
  ASSUME UNCHANGED dir
  PROVE  DirEffect
BY DEF DirEffect, ListedAlike, Alike

LEMMA CreateEffect ==
  ASSUME NothingCut, TypeInv, DiskInv, NEW n \in AnyName, Create(cur_block, n)
  PROVE  DirEffect
<1>1. CASE UNCHANGED dir
  BY <1>1, SameListed
<1>2. ASSUME NEW b \in FindFree(bitmap), NEW f, NEW u,
             AddEntry(f, u, dir, cur_block, NewEntry(n, b, ATTR_FILE))
      PROVE  DirEffect
  <2> DEFINE e == NewEntry(n, b, ATTR_FILE)
  <2>1. cur_block \in Directories /\ cur_block \in DataBlock /\ DirInv
    BY DirectoryFacts DEF DiskInv, CwdIsDirectory
  <2>2. e \in Entry /\ e.attr = ATTR_FILE /\ e.name = n /\ e.name \notin Dots
    <3>1. b \in DataBlock
      BY <1>2, BlockClaimed DEF DiskInv
    <3>. QED  BY <2>1, <3>1, NewEntryType, NewName, StoredSame DEF NewEntry, Create
  <2>3. dir' = [dir EXCEPT ![cur_block] = @ \cup {e}]
    BY <1>2 DEF AddEntry
  <2>4. \A x \in Listed(dir, cur_block) : x.name # e.name
    BY <2>2 DEF Create, Find, Listed
  <2> HIDE DEF e
  <2>5. \A d \in DataBlock :
          Listed(dir', d) = IF d = cur_block THEN Listed(dir, d) \cup {e} ELSE Listed(dir, d)
    BY <2>1, <2>2, <2>3, TypeFacts, BlockFacts DEF Listed
  <2>6. OneMore(dir, dir', cur_block, e)
    BY <2>1, <2>2, <2>4, <2>5, AttrsDiffer DEF OneMore
  <2>. QED  BY <2>6 DEF DirEffect
<1>. QED  BY <1>1, <1>2 DEF Create

LEMMA MkdirEffect ==
  ASSUME NothingCut, TypeInv, DiskInv, NEW n \in AnyName, Mkdir(n)
  PROVE  DirEffect
<1>1. PICK b \in FindFree(bitmap) :
        LET ds == [dir EXCEPT ![b] = InitDir(b, cur_block)]
        IN  \/ \E f, u : AddEntry(f, u, ds, cur_block, NewEntry(n, b, ATTR_DIR))
            \/ dir' = ds
  BY DEF Mkdir
<1> DEFINE ds == [dir EXCEPT ![b] = InitDir(b, cur_block)]
           e  == NewEntry(n, b, ATTR_DIR)
<1>2. cur_block \in Directories /\ cur_block \in DataBlock /\ cur_block \in Heads /\ DirInv
  BY DirectoryFacts DEF DiskInv, CwdIsDirectory
<1>3. b \in DataBlock /\ b # cur_block /\ Listed(dir, b) = {}
  <2>1. b \in DataBlock /\ b \notin Heads
    BY BlockClaimed DEF DiskInv
  <2>. QED  BY <1>2, <2>1, NotHead DEF Listed
<1>4. e \in Entry /\ e.first = b /\ e.name = n /\ e.name \notin Dots
  BY <1>2, <1>3, NewEntryType, NewName, StoredSame DEF NewEntry, Mkdir
<1>5. \A x \in InitDir(b, cur_block) : x.name \in Dots
  BY DEF InitDir, NewEntry, StoredName, Dots
<1>6. \A d \in DataBlock : Listed(ds, d) = Listed(dir, d)
  BY <1>3, <1>5, TypeFacts, BlockFacts DEF Listed
<1>7. CASE dir' = ds
  BY <1>6, <1>7 DEF DirEffect, ListedAlike, Alike
<1>8. CASE dir' = [ds EXCEPT ![cur_block] = @ \cup {e}]
  <2>1. \A x \in Listed(dir, cur_block) : x.name # e.name
    BY <1>4 DEF Mkdir, Find, Listed
  <2>2. cur_block \in DOMAIN ds
    BY <1>2, TypeFacts, BlockFacts
  <2> HIDE DEF e, ds
  <2>3. \A d \in DataBlock :
          Listed(dir', d) = IF d = cur_block THEN Listed(dir, d) \cup {e} ELSE Listed(dir, d)
    <3>1. dir'[cur_block] = ds[cur_block] \cup {e} /\ \A d \in DataBlock : d # cur_block => dir'[d] = ds[d]
      BY <1>8, <2>2
    <3>. QED  BY <1>4, <1>6, <3>1 DEF Listed
  <2>4. Listed(dir', b) = {}
    BY <1>3, <2>3
  <2>5. OneMore(dir, dir', cur_block, e)
    BY <1>2, <1>4, <2>1, <2>3, <2>4 DEF OneMore
  <2>. QED  BY <2>5 DEF DirEffect
<1>. QED  BY <1>1, <1>7, <1>8 DEF AddEntry

\* remove and rmdir.
LEMMA TakenAway ==
  ASSUME TypeInv, UniqueNames, NEW c \in DataBlock, NEW e \in Listed(dir, c),
         e.attr = ATTR_DIR => Listed(dir, e.first) = {},
         \A d \in DataBlock :
           Listed(dir', d) = IF d = c THEN Listed(dir, d) \ {e} ELSE Listed(dir, d)
  PROVE  OneMore(dir', dir, c, e)
<1>1. e \in Entry
  BY TypeFacts, ListedType
<1>2. \A x \in Listed(dir', c) : x.name # e.name
  BY DEF UniqueNames, Listed
<1>3. \A d \in DataBlock : Listed(dir, d) = IF d = c THEN Listed(dir', d) \cup {e} ELSE Listed(dir', d)
  OBVIOUS
<1>. QED  BY <1>1, <1>2, <1>3 DEF OneMore

LEMMA RemoveEffect ==
  ASSUME TypeInv, DiskInv, UniqueNames, NEW n, Remove(cur_block, n)
  PROVE  DirEffect
<1>1. PICK e \in Find(dir, cur_block, n) :
        e.attr = ATTR_FILE /\ dir' = [dir EXCEPT ![cur_block] = @ \ {e}]
  BY DEF Remove
<1>2. cur_block \in DataBlock /\ DirInv
  BY DirectoryFacts DEF DiskInv, CwdIsDirectory
<1>3. e \in Listed(dir, cur_block)
  BY <1>1, <1>2, FileIsListed
<1>4. \A d \in DataBlock :
        Listed(dir', d) = IF d = cur_block THEN Listed(dir, d) \ {e} ELSE Listed(dir, d)
  BY <1>1, <1>2, TypeFacts, BlockFacts DEF Listed
<1>5. OneMore(dir', dir, cur_block, e)
  BY <1>1, <1>2, <1>3, <1>4, TakenAway, AttrsDiffer
<1>. QED  BY <1>5 DEF DirEffect

LEMMA RmdirEffect ==
  ASSUME TypeInv, DiskInv, UniqueNames, NEW n, Rmdir(n)
  PROVE  DirEffect
<1>1. PICK e \in Find(dir, cur_block, n) :
        /\ e.attr = ATTR_DIR /\ Listed(dir, e.first) = {}
        /\ dir' = [dir EXCEPT ![e.first] = {}, ![cur_block] = @ \ {e}]
  BY DEF Rmdir
<1>2. cur_block \in DataBlock /\ DirInv
  BY DirectoryFacts DEF DiskInv, CwdIsDirectory
<1>3. e \in Listed(dir, cur_block) /\ e.first \in DataBlock
  <2>1. e \in Listed(dir, cur_block)
    BY DEF Rmdir, Find, Listed
  <2>. QED  BY <1>2, <2>1, TypeFacts, ListedType
<1>4. e.first # cur_block
  BY <1>1, <1>3
<1>5. \A d \in DataBlock :
        Listed(dir', d) = IF d = cur_block THEN Listed(dir, d) \ {e} ELSE Listed(dir, d)
  BY <1>1, <1>2, <1>3, <1>4, TypeFacts, BlockFacts DEF Listed
<1>6. OneMore(dir', dir, cur_block, e)
  BY <1>1, <1>2, <1>3, <1>5, TakenAway
<1>. QED  BY <1>6 DEF DirEffect

LEMMA RenameEffect ==
  ASSUME NothingCut, TypeInv, DiskInv, NEW old \in AnyName, NEW new \in AnyName,
         Rename(old, new), old \notin Dots
  PROVE  DirEffect
<1>1. PICK e \in Find(dir, cur_block, old) :
        dir' = Replaced(dir, cur_block, e, [e EXCEPT !.name = StoredName(new)])
  BY DEF Rename
<1> DEFINE k == [e EXCEPT !.name = StoredName(new)]
<1>2. cur_block \in Directories /\ cur_block \in DataBlock /\ DirInv
  BY DirectoryFacts DEF DiskInv, CwdIsDirectory
<1>3. e \in Listed(dir, cur_block) /\ e \in Entry
  BY <1>2, TypeFacts, FindType DEF Find, Listed
<1>4. k \in Entry /\ k.first = e.first /\ k.attr = e.attr /\ k.name = new /\ k.name \notin Dots
  BY <1>2, <1>3, NewName, StoredSame DEF Rename, Entry
<1> HIDE DEF k
<1>5. \A x \in Listed(dir, cur_block) : x.name # k.name
  BY <1>4 DEF Rename, Find, Listed
<1>6. \A d \in DataBlock :
        Listed(dir', d) = IF d = cur_block THEN (Listed(dir, d) \ {e}) \cup {k} ELSE Listed(dir, d)
  BY <1>1, <1>2, <1>4, TypeFacts, BlockFacts DEF Replaced, Listed, k
<1>7. OneRenamed(dir, dir', cur_block, e, k)
  BY <1>2, <1>3, <1>4, <1>5, <1>6 DEF OneRenamed
<1>. QED  BY <1>7 DEF DirEffect

LEMMA CloseEffect ==
  ASSUME TypeInv, NEW fd, Close(fd)
  PROVE  ListedAlike(dir, dir')
<1>1. PICK u \in user_fds : \/ UNCHANGED dir
                            \/ dir' \in WriteBack(sys_files[u.file])
  BY DEF Close
<1> DEFINE of == sys_files[u.file]
<1>2. of.dir \in DataBlock
  BY TypeFacts, RecordType
<1>3. CASE UNCHANGED dir
  BY <1>3 DEF ListedAlike, Alike
<1>4. CASE dir' \in WriteBack(of)
  <2>1. PICK e \in Find(dir, of.dir, of.name) :
          dir' = Replaced(dir, of.dir, e, [e EXCEPT !.size = of.size])
    BY <1>4 DEF WriteBack
  <2> DEFINE k == [e EXCEPT !.size = of.size]
  <2>2. e \in Entry /\ e \in dir[of.dir]
    BY <1>2, TypeFacts, FindType DEF Find
  <2>3. Alike(k, e) /\ Alike(e, k)
    BY <2>2 DEF Entry, Alike
  <2> HIDE DEF k, of
  <2>4. /\ dir'[of.dir] = (dir[of.dir] \ {e}) \cup {k}
        /\ \A d \in DataBlock : d # of.dir => dir'[d] = dir[d]
    BY <1>2, <2>1, TypeFacts, BlockFacts DEF Replaced, k
  <2>5. \A x : Alike(x, x)
    BY DEF Alike
  <2>6. k.name = e.name
    BY <2>3 DEF Alike
  <2>7. ASSUME NEW d \in DataBlock
        PROVE  /\ \A x \in Listed(dir, d) : \E y \in Listed(dir', d) : Alike(y, x)
               /\ \A x \in Listed(dir', d) : \E y \in Listed(dir, d) : Alike(y, x)
    <3>1. CASE d # of.dir
      BY <2>4, <2>5, <3>1 DEF Listed
    <3>2. CASE d = of.dir
      BY <2>2, <2>3, <2>4, <2>5, <2>6, <3>2 DEF Listed
    <3>. QED  BY <3>1, <3>2
  <2>. QED  BY <2>7 DEF ListedAlike
<1>. QED  BY <1>1, <1>3, <1>4

---------------------------------------------------------------------------
(* The working directory keeps its path *)

\* No entry of a trail is listed in the directory it leads to.
LEMMA TrailOutside ==
  ASSUME TypeInv, DirInv, NEW t, IsTrail(dir, t), NEW k \in 1 .. Len(t)
  PROVE  Above(t, k) \in DataBlock /\ Above(t, k) # End(t)
<1>1. t \in Seq(Entry) /\ Len(t) \in Nat /\ t # <<>>
  BY DEF IsTrail
<1>2. IsLine(dir, t)
  BY <1>1, TrailLine
<1>3. Len(t) \in 1 .. Len(t) /\ End(t) = t[Len(t)].first /\ Above(t, k) \in DataBlock
      /\ Above(t, Len(t)) \in DataBlock /\ t[Len(t)] \in Listed(dir, Above(t, Len(t)))
  BY <1>2, LineFacts
<1>4. CASE k = 1
  <2>1. End(t) # Root
    BY <1>3 DEF DirInv, KindsAgree
  <2>. QED  BY <1>3, <1>4, <2>1 DEF Above
<1>5. CASE k # 1
  <2>1. k - 1 \in 1 .. Len(t) /\ k - 1 < Len(t)
    BY <1>1, <1>5
  <2>2. t[k-1].first # t[Len(t)].first
    BY <1>2, <1>3, <2>1, LineWithoutCycle
  <2>. QED  BY <1>3, <1>5, <2>2 DEF Above
<1>. QED  BY <1>4, <1>5

\* So what happens in a directory leaves the trail to it in place.
LEMMA TrailKept ==
  ASSUME TypeInv, TypeInv', DirInv, DirEffect, NEW t, IsTrail(dir, t), End(t) = cur_block
  PROVE  \E q : IsTrail(dir', q) /\ NamesOf(q) = NamesOf(t) /\ End(q) = End(t)
<1>1. dir' \in [Block -> SUBSET Entry]
  BY DEF TypeInv, TypeOK, DirectoryTypeOK
<1>2. \A d \in DataBlock : d # cur_block =>
        \A e \in Listed(dir, d) : \E x \in Listed(dir', d) : Alike(x, e)
  BY DEF DirEffect, ListedAlike, OneMore, OneRenamed, Alike
<1>3. HasCopy(dir', t)
  <2> SUFFICES ASSUME NEW k \in 1 .. Len(t)
               PROVE  \E x \in Listed(dir', Above(t, k)) : Alike(x, t[k])
    BY DEF HasCopy
  <2>1. Above(t, k) \in DataBlock /\ Above(t, k) # cur_block
    BY TrailOutside
  <2>2. t[k] \in Listed(dir, Above(t, k))
    BY DEF IsTrail
  <2>. QED  BY <1>2, <2>1, <2>2
<1>. QED  BY <1>1, <1>3, TrailCopied

LEMMA PathKept ==
  ASSUME TypeInv, TypeInv', DirInv, PathInv, DirEffect, UNCHANGED fsVars, op'.cmd # "cd"
  PROVE  PathInv'
<1>1. PICK t : IsTrail(dir, t) /\ NamesOf(t) = path_stack /\ End(t) = cur_block
  BY DEF PathInv, Leads
<1>2. PICK q : IsTrail(dir', q) /\ NamesOf(q) = NamesOf(t) /\ End(q) = End(t)
  BY <1>1, TrailKept
<1>3. Leads(dir', path_stack', cur_block')
  BY <1>1, <1>2 DEF Leads, fsVars
<1>. QED  BY <1>3 DEF PathInv

\* cd sets out ...
LEMMA CdPath ==
  ASSUME PathInv, NEW start, NEW segs, start = "relative" \/ start = "slash", Cd(start, segs)
  PROVE  PathInv'
<1>1. /\ dir' = dir /\ path_stack' = path_stack /\ cur_block' = cur_block
      /\ op' = Walking(IF start = "relative" THEN cur_block ELSE Root, segs,
                       IF start = "slash" THEN <<>> ELSE path_stack)
  BY DEF Cd, diskVars, fsVars
<1>2. \/ op'.at = cur_block /\ op'.stack = path_stack
      \/ op'.at = Root /\ op'.stack = <<>>
  BY <1>1 DEF Walking
<1>3. Leads(dir, op'.stack, op'.at)
  BY <1>2, RootLeads DEF PathInv
<1>4. Leads(dir', path_stack', cur_block')
  BY <1>1 DEF PathInv
<1>. QED  BY <1>1, <1>3, <1>4 DEF PathInv

\* ... goes up ...
LEMMA CdUpPath ==
  ASSUME TypeInv, DirInv, PathInv, CdUp
  PROVE  PathInv'
<1>1. /\ dir' = dir /\ path_stack' = path_stack /\ cur_block' = cur_block
      /\ op'.at = ParentBlock(dir, op.at) /\ op'.stack = Up(op.stack)
  BY DEF CdUp, diskVars, fsVars, Walking
<1>2. Leads(dir, op.stack, op.at)
  BY DEF PathInv, CdUp
<1>3. Leads(dir, op'.stack, op'.at)
  BY <1>1, <1>2, LeadsUp
<1>. QED  BY <1>1, <1>3 DEF PathInv

\* ... and down.
LEMMA CdDownPath ==
  ASSUME TypeInv, PathInv, CdDown
  PROVE  PathInv'
<1>1. op \in CdWalks
  BY WalkingFacts DEF CdDown
<1>2. /\ op.segs \in Seq(Name \cup {DotDot}) /\ op.segs # <<>> /\ Head(op.segs) # DotDot
      /\ op.at \in DataBlock
  BY <1>1 DEF CdWalks, CdDown
<1>3. Head(op.segs) \notin Dots
  BY <1>2, DirectoryAssumption DEF Dots
<1>4. PICK e \in Subdir(op.at, Head(op.segs)) :
        op' = Walking(e.first, Tail(op.segs), Append(op.stack, Head(op.segs)))
  BY DEF CdDown
<1>5. e \in Listed(dir, op.at) /\ e.attr = ATTR_DIR /\ e.name = Head(op.segs)
  BY <1>3, <1>4 DEF Subdir, Find, Listed
<1>6. Leads(dir, op.stack, op.at)
  BY DEF PathInv, CdDown
<1>7. Leads(dir, Append(op.stack, e.name), e.first)
  BY <1>2, <1>5, <1>6, TypeFacts, LeadsDown
<1>8. /\ dir' = dir /\ path_stack' = path_stack /\ cur_block' = cur_block
      /\ op'.at = e.first /\ op'.stack = Append(op.stack, e.name)
  BY <1>4, <1>5 DEF CdDown, diskVars, fsVars, Walking
<1>. QED  BY <1>7, <1>8 DEF PathInv

LEMMA CdEndsPath ==
  ASSUME PathInv, CdFail \/ CdEnd
  PROVE  PathInv'
<1>1. dir' = dir /\ op'.cmd # "cd"
  BY DEF CdFail, CdEnd, diskVars, Idle
<1>2. Leads(dir, path_stack', cur_block')
  BY DEF CdFail, CdEnd, fsVars, PathInv
<1>. QED  BY <1>1, <1>2 DEF PathInv

LEMMA InitPath == Init => PathInv
<1> SUFFICES ASSUME Init PROVE PathInv
  OBVIOUS
<1>1. path_stack = <<>> /\ cur_block = Root /\ op.cmd # "cd"
  BY DEF Init, FOInit, Idle
<1>. QED  BY <1>1, RootLeads DEF PathInv

LEMMA FormatPath ==
  ASSUME Format
  PROVE  PathInv'
<1>1. path_stack' = <<>> /\ cur_block' = Root /\ op'.cmd # "cd"
  BY DEF Format, Idle
<1>. QED  BY <1>1, RootLeads DEF PathInv

\* What the commands on files and directories have in common.
LEMMA CommandEffect ==
  ASSUME NothingCut, UsedWithCare, TypeInv, DiskInv, UniqueNames,
         \/ FileCommand
         \/ \E n \in AnyName : Mkdir(n) \/ Rmdir(n)
         \/ \E old, new \in AnyName : CanRename(old, new) /\ Rename(old, new)
         \/ Loop /\ UNCHANGED fsVars
  PROVE  DirEffect /\ UNCHANGED fsVars /\ op'.cmd # "cd" /\ op.cmd # "cd"
<1>1. ASSUME NEW n \in AnyName, Open(cur_block, n) PROVE DirEffect /\ op' = Idle /\ op = Idle
  BY <1>1, SameListed DEF Open, diskVars
<1>2. ASSUME NEW fd, NEW n, Read(fd, n) \/ Write(fd, n)
      PROVE  DirEffect /\ op'.cmd # "cd" /\ op = Idle
  BY <1>2, SameListed DEF Read, Write, diskVars, Idle, Lost
<1>3. ASSUME NEW fd, Close(fd) PROVE DirEffect /\ op'.cmd # "cd" /\ op = Idle
  <2>1. DirEffect
    BY <1>3, CloseEffect DEF DirEffect
  <2>2. op = Idle /\ (op' = Lost \/ op' = op)
    BY <1>3 DEF Close
  <2>. QED  BY <2>1, <2>2 DEF Idle, Lost
<1>4. ASSUME NEW n \in AnyName, Create(cur_block, n) \/ Remove(cur_block, n)
      PROVE  DirEffect /\ op' = Idle /\ op = Idle
  BY <1>4, CreateEffect, RemoveEffect DEF Create, Remove
<1>5. ASSUME NEW n \in AnyName, Mkdir(n) \/ Rmdir(n)
      PROVE  DirEffect /\ op' = Idle /\ op = Idle /\ UNCHANGED fsVars
  BY <1>5, MkdirEffect, RmdirEffect DEF Mkdir, Rmdir
<1>6. ASSUME NEW old \in AnyName, NEW new \in AnyName, CanRename(old, new), Rename(old, new)
      PROVE  DirEffect /\ op' = Idle /\ op = Idle /\ UNCHANGED fsVars
  BY <1>6, RenameEffect DEF CanRename, Allows, UsedWithCare, Rename
<1>7. ASSUME Loop PROVE DirEffect /\ op'.cmd # "cd"
  <2>1. DirEffect
    BY <1>7, SameListed DEF Loop, WriteBlock, WriteEnd, diskVars
  <2>2. op.cmd = "write"
    BY <1>7 DEF Loop, WriteBlock, WriteEnd
  <2>3. op'.cmd # "cd"
    <3>1. CASE WriteEnd
      BY <3>1 DEF WriteEnd, Idle
    <3>2. CASE WriteBlock
      <4>1. \E f, b : Put(f, b)
        BY <3>2 DEF WriteBlock
      <4>2. InUse(op.file)
        BY <2>2 DEF DiskInv, RecordsInv
      <4>. QED  BY <2>2, <3>2, <4>1, <4>2, PutType DEF Lost, Writing, WriteBlock
    <3>. QED  BY <1>7, <3>1, <3>2 DEF Loop
  <2>. QED  BY <2>1, <2>2, <2>3
<1>8. Idle.cmd # "cd"
  BY DEF Idle
<1>9. FileCommand => UNCHANGED fsVars
  BY DEF FileCommand
<1>10. CASE FileCommand
  <2>1. DirEffect /\ op'.cmd # "cd" /\ op = Idle
    BY <1>1, <1>2, <1>3, <1>4, <1>8, <1>10 DEF FileCommand
  <2>. QED  BY <1>8, <1>9, <1>10, <2>1
<1>11. CASE \E n \in AnyName : Mkdir(n) \/ Rmdir(n)
  BY <1>5, <1>8, <1>11
<1>12. CASE \E old, new \in AnyName : CanRename(old, new) /\ Rename(old, new)
  BY <1>6, <1>8, <1>12
<1>13. CASE Loop /\ UNCHANGED fsVars
  <2>1. op.cmd # "cd"
    BY <1>13 DEF Loop, WriteBlock, WriteEnd
  <2>2. Loop /\ fsVars' = fsVars
    BY <1>13
  <2>3. DirEffect /\ op'.cmd # "cd"
    BY <1>7, <2>2
  <2>. QED  BY <2>1, <2>2, <2>3
<1>. QED  BY <1>10, <1>11, <1>12, <1>13

LEMMA NextPath ==
  UsedWithCare /\ NothingCut /\ "slash paths" \in Habits
    /\ CarefulInv /\ UniqueNames /\ PathInv /\ [Next]_vars => PathInv'
<1> SUFFICES ASSUME UsedWithCare, NothingCut, "slash paths" \in Habits,
                    CarefulInv, UniqueNames, PathInv, [Next]_vars
             PROVE  PathInv'
  OBVIOUS
<1>1. TypeInv /\ TypeInv' /\ DiskInv /\ DirInv
  BY NextCareful DEF CarefulInv, TableInv, DiskInv
<1>2. ASSUME \/ FileCommand
             \/ \E n \in AnyName : Mkdir(n) \/ Rmdir(n)
             \/ \E old, new \in AnyName : CanRename(old, new) /\ Rename(old, new)
             \/ Loop /\ UNCHANGED fsVars
      PROVE  PathInv'
  BY <1>1, <1>2, CommandEffect, PathKept
<1>3. CASE DirectoryCommand
  <2>1. ASSUME NEW start \in PathStart, NEW segs \in Paths, Allows("slash paths", start # "backslash"),
               Cd(start, segs)
        PROVE  PathInv'
    BY <2>1, CdPath DEF Allows, PathStart
  <2>. QED  BY <1>2, <1>3, <2>1 DEF DirectoryCommand
<1>4. CASE Turn
  BY <1>1, <1>2, <1>4, CdUpPath, CdDownPath, CdEndsPath DEF Turn
<1>5. CASE UNCHANGED vars
  <2>1. dir' = dir /\ path_stack' = path_stack /\ cur_block' = cur_block /\ op' = op
    BY <1>5 DEF vars, foVars, fsVars, diskVars
  <2>. QED  BY <2>1 DEF PathInv
<1>. QED  BY <1>2, <1>3, <1>4, <1>5, FormatPath DEF Next

LEMMA PathShown ==
  ASSUME UniqueNames, PathInv
  PROVE  PwdNamesCwd
BY ResolvedTrail DEF PathInv, Leads, PwdNamesCwd

\* With a user who takes care, does not type '\', and uses no name too long for its
\* slot, the path in the prompt is always the path of the working directory (pwd,
\* resolve_path, and all that makes, removes and renames directories under the path).
THEOREM PromptIsPath ==
  ASSUME UsedWithCare, NothingCut, "slash paths" \in Habits
  PROVE  Spec => []PwdNamesCwd
<1> DEFINE I == CarefulInv /\ UniqueNames /\ PathInv
<1>1. Init => I
  BY InitCareful, InitNames, InitPath
<1>2. I /\ [Next]_vars => I'
  BY NextCareful, NextNames, NextPath DEF CarefulInv, TableInv
<1>3. I => PwdNamesCwd
  BY PathShown
<1>. QED  BY <1>1, <1>2, <1>3, PTL DEF Spec

---------------------------------------------------------------------------
(* The tree of names *)

\* KindsByPath, for directories ds.
LinesOf(ds) == {p \in Seq(Entry) : IsLine(ds, p)}
KindsFrom(lines) ==
  [n \in {NamesOf(p) : p \in lines} |->
     LET line == CHOOSE p \in lines : NamesOf(p) = n IN line[Len(line)].attr]
Kinds(ds) == KindsFrom(LinesOf(ds))

LEMMA KindsAre == TypeInv /\ DirInv => KindsByPath = Kinds(dir)
<1> SUFFICES ASSUME TypeInv, DirInv PROVE KindsByPath = Kinds(dir)
  OBVIOUS
<1>1. Lines = LinesOf(dir)
  BY LinesAre DEF LinesOf
<1>2. KindsByPath = KindsFrom(Lines)
  BY DEF KindsByPath, KindsFrom
<1>. QED  BY <1>1, <1>2 DEF Kinds

LEMMA KindsFacts ==
  ASSUME NEW ds, NamesApart(ds)
  PROVE  /\ \A n : n \in DOMAIN Kinds(ds) <=> \E p : IsLine(ds, p) /\ NamesOf(p) = n
         /\ \A p : IsLine(ds, p) => Kinds(ds)[NamesOf(p)] = Last(p).attr
         /\ Kinds(ds) = [n \in DOMAIN Kinds(ds) |-> Kinds(ds)[n]]
<1>1. DOMAIN Kinds(ds) = {NamesOf(p) : p \in LinesOf(ds)}
  BY DEF Kinds, KindsFrom
<1>2. \A p : p \in LinesOf(ds) <=> IsLine(ds, p)
  BY DEF LinesOf, IsLine
<1>3. ASSUME NEW p, IsLine(ds, p)
      PROVE  Kinds(ds)[NamesOf(p)] = Last(p).attr
  <2> DEFINE line == CHOOSE q \in LinesOf(ds) : NamesOf(q) = NamesOf(p)
  <2>1. line \in LinesOf(ds) /\ NamesOf(line) = NamesOf(p)
    BY <1>2, <1>3
  <2>2. line = p
    BY <1>2, <1>3, <2>1, LinesRun, RunByName
  <2>3. NamesOf(p) \in {NamesOf(q) : q \in LinesOf(ds)}
    BY <1>2, <1>3
  <2>4. Kinds(ds)[NamesOf(p)] = line[Len(line)].attr
    BY <2>3 DEF Kinds, KindsFrom
  <2>. QED  BY <2>2, <2>4 DEF Last
<1>4. Kinds(ds) = [n \in DOMAIN Kinds(ds) |-> Kinds(ds)[n]]
  BY DEF Kinds, KindsFrom
<1>. QED  BY <1>1, <1>2, <1>3, <1>4

\* Two trees of names are the same if each path of the one is one of the other, of the
\* same kind.
LEMMA KindsSame ==
  ASSUME NEW ds, NEW es, NamesApart(ds), NamesApart(es),
         NEW f, f = [n \in DOMAIN f |-> f[n]],
         \A n : n \in DOMAIN f <=> n \in DOMAIN Kinds(es),
         \A p : IsLine(es, p) => f[NamesOf(p)] = Last(p).attr
  PROVE  Kinds(es) = f
<1>1. DOMAIN Kinds(es) = DOMAIN f
  OBVIOUS
<1>2. ASSUME NEW n \in DOMAIN f PROVE Kinds(es)[n] = f[n]
  <2>1. PICK p : IsLine(es, p) /\ NamesOf(p) = n
    BY <1>1, KindsFacts
  <2>. QED  BY <2>1, KindsFacts
<1>3. Kinds(es) = [n \in DOMAIN Kinds(es) |-> Kinds(es)[n]]
  BY KindsFacts
<1>. QED  BY <1>1, <1>2, <1>3

\* What close changes is not in the names.
LEMMA KindsAlike ==
  ASSUME NEW ds \in [Block -> SUBSET Entry], NEW es \in [Block -> SUBSET Entry],
         NamesApart(ds), NamesApart(es), ListedAlike(ds, es)
  PROVE  Kinds(es) = Kinds(ds)
<1>1. ASSUME NEW p, IsLine(ds, p)
      PROVE  \E q : IsLine(es, q) /\ NamesOf(q) = NamesOf(p) /\ Last(q).attr = Last(p).attr
  <2>1. HasCopy(es, p)
    <3> SUFFICES ASSUME NEW k \in 1 .. Len(p)
                 PROVE  \E x \in Listed(es, Above(p, k)) : Alike(x, p[k])
      BY DEF HasCopy
    <3>1. Above(p, k) \in DataBlock /\ p[k] \in Listed(ds, Above(p, k))
      BY <1>1, AboveType DEF IsLine
    <3>. QED  BY <3>1 DEF ListedAlike
  <2>. QED  BY <1>1, <2>1, LineCopied DEF Last
<1>2. ASSUME NEW p, IsLine(es, p)
      PROVE  \E q : IsLine(ds, q) /\ NamesOf(q) = NamesOf(p) /\ Last(q).attr = Last(p).attr
  <2>1. HasCopy(ds, p)
    <3> SUFFICES ASSUME NEW k \in 1 .. Len(p)
                 PROVE  \E x \in Listed(ds, Above(p, k)) : Alike(x, p[k])
      BY DEF HasCopy
    <3>1. Above(p, k) \in DataBlock /\ p[k] \in Listed(es, Above(p, k))
      BY <1>2, AboveType DEF IsLine
    <3>. QED  BY <3>1 DEF ListedAlike
  <2>. QED  BY <1>2, <2>1, LineCopied DEF Last
<1> DEFINE f == Kinds(ds)
<1>3. f = [n \in DOMAIN f |-> f[n]]
  BY KindsFacts
<1>4. \A n : n \in DOMAIN f <=> n \in DOMAIN Kinds(es)
  BY <1>1, <1>2, KindsFacts
<1>5. \A p : IsLine(es, p) => f[NamesOf(p)] = Last(p).attr
  BY <1>2, KindsFacts
<1> HIDE DEF f
<1>6. Kinds(es) = f
  BY <1>3, <1>4, <1>5, KindsSame
<1>. QED  BY <1>6 DEF f

\* A path leads to a directory.
LEMMA LeadsToDir ==
  ASSUME NEW ds, NamesApart(ds), NEW names, NEW d, Leads(ds, names, d)
  PROVE  names = <<>> \/ (names \in DOMAIN Kinds(ds) /\ Kinds(ds)[names] = ATTR_DIR)
<1>1. PICK t : IsTrail(ds, t) /\ NamesOf(t) = names /\ End(t) = d
  BY DEF Leads
<1>2. t = <<>> \/ (IsLine(ds, t) /\ Last(t).attr = ATTR_DIR)
  BY <1>1, TrailLine DEF IsTrail, Last
<1>. QED  BY <1>1, <1>2, NoNames, KindsFacts

\* One of a directory's entries leads to it.
LEMMA DirLeads ==
  ASSUME NEW ds \in [Block -> SUBSET Entry], NamesApart(ds), NEW names, NEW d, Leads(ds, names, d), NEW n,
         Append(names, n) \in DOMAIN Kinds(ds), Kinds(ds)[Append(names, n)] = ATTR_DIR,
         n \in AnyName
  PROVE  \E e \in Listed(ds, d) : e.name = n /\ e.attr = ATTR_DIR
<1>1. PICK t : IsTrail(ds, t) /\ NamesOf(t) = names /\ End(t) = d
  BY DEF Leads
<1>2. PICK p : IsLine(ds, p) /\ NamesOf(p) = Append(names, n)
  BY KindsFacts
<1>3. PICK s \in Seq(Entry), e \in Entry :
        /\ p = Append(s, e) /\ IsTrail(ds, s) /\ e \in Listed(ds, End(s)) /\ p[Len(p)] = e
  BY <1>2, LineSplit
<1>4. NamesOf(p) = Append(NamesOf(s), e.name)
  BY <1>3, NamesAppend
<1>5. names \in Seq(AnyName) /\ NamesOf(s) \in Seq(AnyName) /\ e.name \in AnyName
  <2>1. t \in Seq(Entry)
    BY <1>1 DEF IsTrail
  <2>. QED  BY <1>1, <2>1, NamesFacts DEF Entry
<1>6. NamesOf(s) = names /\ e.name = n
  <2> DEFINE ns == NamesOf(s)
             en == e.name
  <2>1. Append(ns, en) = Append(names, n) /\ ns \in Seq(AnyName) /\ en \in AnyName
    BY <1>2, <1>4, <1>5
  <2> HIDE DEF ns, en
  <2>2. ns = names /\ en = n
    BY <1>5, <2>1, AppendInjective
  <2>. QED  BY <2>2 DEF ns, en
<1>7. s = t
  BY <1>1, <1>3, <1>6, LinesRun, RunByName
<1>8. e.attr = ATTR_DIR
  <2>1. Kinds(ds)[NamesOf(p)] = Last(p).attr
    BY <1>2, KindsFacts
  <2>. QED  BY <1>2, <1>3, <2>1 DEF Last
<1>. QED  BY <1>1, <1>3, <1>6, <1>7, <1>8

---------------------------------------------------------------------------
(* One entry more *)

\* One trail at most leads to c.
OneTrail(ds, c) ==
  \A s, t : IsTrail(ds, s) /\ IsTrail(ds, t) /\ End(s) = c /\ End(t) = c => s = t

LEMMA TrailsSingle == TypeInv /\ DirInv => \A c : OneTrail(dir, c)
BY TrailUnique DEF OneTrail

\* Nothing is listed below the last entry of a line.
LEMMA LineStops ==
  ASSUME NEW ds, NEW q, IsLine(ds, q), NEW k \in 1 .. Len(q),
         q[k].attr = ATTR_DIR => Listed(ds, q[k].first) = {}
  PROVE  k = Len(q)
<1> SUFFICES ASSUME k < Len(q) PROVE FALSE
  BY DEF IsLine
<1>1. k + 1 \in 1 .. Len(q) /\ k + 1 # 1 /\ (k + 1) - 1 = k
  BY DEF IsLine
<1>2. q[k].attr = ATTR_DIR /\ q[k+1] \in Listed(ds, Above(q, k + 1))
  BY <1>1 DEF IsLine
<1>. QED  BY <1>1, <1>2 DEF Above

\* r is the line that es has and ds has not.
OneLineMore(ds, es, r) ==
  (\A p : IsLine(es, p) <=> IsLine(ds, p) \/ p = r) /\ ~ IsLine(ds, r)

LEMMA LinesMore ==
  ASSUME NEW ds, NEW es \in [Block -> SUBSET Entry], NEW c, NEW e, OneMore(ds, es, c, e),
         NEW t, IsTrail(ds, t), End(t) = c, OneTrail(ds, c)
  PROVE  OneLineMore(ds, es, Append(t, e)) /\ Last(Append(t, e)) = e
<1> DEFINE r == Append(t, e)
<1>1. /\ c \in DataBlock /\ e \in Entry /\ t \in Seq(Entry) /\ e \in Listed(es, c)
      /\ \A x \in Listed(ds, c) : x.name # e.name
      /\ \A d \in DataBlock : Listed(ds, d) \subseteq Listed(es, d)
      /\ \A d \in DataBlock : \A x \in Listed(es, d) : x \in Listed(ds, d) \/ (d = c /\ x = e)
      /\ e.attr = ATTR_DIR => Listed(es, e.first) = {}
  BY DEF OneMore, IsTrail
<1>2. ASSUME NEW p, IsLine(ds, p) PROVE IsLine(es, p)
  <2>1. \A k \in 1 .. Len(p) : Above(p, k) \in DataBlock
    BY <1>2, AboveType DEF IsLine
  <2>. QED  BY <1>1, <1>2, <2>1 DEF IsLine
<1>3. IsTrail(es, t)
  <2>1. \A k \in 1 .. Len(t) : Above(t, k) \in DataBlock
    BY <1>1, AboveType
  <2>. QED  BY <1>1, <2>1 DEF IsTrail
<1>4. IsLine(es, r)
  BY <1>1, <1>3, LineJoin
<1>5. /\ r \in Seq(Entry) /\ Len(r) = Len(t) + 1 /\ Len(t) + 1 \in 1 .. Len(r) /\ r[Len(t) + 1] = e
      /\ Above(r, Len(t) + 1) = c
  <2>1. /\ Len(t) \in Nat /\ r \in Seq(Entry) /\ Len(r) = Len(t) + 1 /\ r[Len(t) + 1] = e
        /\ \A k \in 1 .. Len(t) : r[k] = t[k]
    BY <1>1
  <2> HIDE DEF r
  <2>2. Above(r, Len(t) + 1) = Above(t, Len(t) + 1)
    BY <2>1 DEF Above
  <2>3. Above(r, Len(t) + 1) = c
    BY <2>2 DEF End
  <2>4. Len(t) + 1 \in 1 .. Len(r)
    BY <2>1
  <2>. QED  BY <2>1, <2>3, <2>4
<1> HIDE
 DEF r
<1>6.
 ~ IsLine(ds, r)
  BY <1>1, <1>5 DEF IsLine
<1>7. ASSUME NEW p, IsLine(es, p), ~ IsLine(ds, p) PROVE p = r
  <2>1. PICK u \in Seq(Entry), x \in Entry :
          /\ p = Append(u, x) /\ IsTrail(es, u) /\ x \in Listed(es, End(u))
          /\ Len(p) = Len(u) + 1 /\ \A k \in 1 .. Len(u) : p[k] = u[k]
    BY <1>7, LineSplit
  <2>2. ASSUME NEW k \in 1 .. Len(u) PROVE u[k] \in Listed(ds, Above(u, k))
    <3>1. k \in 1 .. Len(p) /\ k # Len(p) /\ k \in 1 .. Len(u) + 1
      BY <2>1
    <3>2. Above(u, k) \in DataBlock /\ u[k] \in Listed(es, Above(u, k))
      BY <2>1, <3>1, AboveType DEF IsTrail
    <3>3. u[k] # e
      <4>1. p[k] = u[k]
        BY <2>1
      <4>. QED  BY <1>1, <1>7, <3>1, <4>1, LineStops
    <3>. QED  BY <1>1, <3>2, <3>3
  <2>3. IsTrail(ds, u)
    BY <2>1, <2>2 DEF IsTrail
  <2>4. End(u) \in DataBlock
    BY <2>1, <2>3, TrailLine
  <2>5. x \notin Listed(ds, End(u))
    BY <1>7, <2>1, <2>3, LineJoin
  <2>6. End(u) = c /\ x = e
    BY <1>1, <2>1, <2>4, <2>5
  <2>7. u = t
    BY <2>3, <2>6 DEF OneTrail
  <2>. QED  BY <2>1, <2>6, <2>7 DEF r
<1>8. Last(r) = e
  BY <1>5 DEF Last
<1>9. OneLineMore(ds, es, r)
  BY <1>2, <1>4, <1>6, <1>7 DEF OneLineMore
<1>. QED  BY <1>8, <1>9 DEF r

\* What Make of NameTree does to the kinds; what is made has nothing below it.
KindMade(was, is, n, k) ==
  /\ n \notin DOMAIN was
  /\ is = [p \in DOMAIN was \cup {n} |-> IF p \in DOMAIN was THEN was[p] ELSE k]

Bare(kinds, n) ==
  /\ n \in Seq(AnyName) /\ n \in DOMAIN kinds
  /\ \A p \in DOMAIN kinds : Begins(n, p) => p = n

KindLess(was, is, n) == is = [p \in DOMAIN was \ {n} |-> was[p]]

LEMMA KindsMore ==
  ASSUME NEW ds, NEW es \in [Block -> SUBSET Entry], NamesApart(ds), NamesApart(es),
         NEW c, NEW e, OneMore(ds, es, c, e), NEW names, Leads(ds, names, c), OneTrail(ds, c)
  PROVE  LET n == Append(names, e.name)
         IN  /\ KindMade(Kinds(ds), Kinds(es), n, e.attr)
             /\ KindLess(Kinds(es), Kinds(ds), n) /\ Bare(Kinds(es), n)
<1> DEFINE n     == Append(names, e.name)
           there == DOMAIN Kinds(ds)
           f     == [p \in there \cup {n} |-> IF p \in there THEN Kinds(ds)[p] ELSE e.attr]
           g     == [p \in DOMAIN Kinds(es) \ {n} |-> Kinds(es)[p]]
<1>1. PICK t : IsTrail(ds, t) /\ NamesOf(t) = names /\ End(t) = c
  BY DEF Leads
<1> DEFINE r == Append(t, e)
<1>2. /\ \A p : IsLine(es, p) <=> IsLine(ds, p) \/ p = r
      /\ ~ IsLine(ds, r) /\ Last(r) = e
  <2>1. OneLineMore(ds, es, r) /\ Last(r) = e
    BY <1>1, LinesMore
  <2>. QED  BY <2>1 DEF OneLineMore
<1>3. NamesOf(r) = n /\ r \in Seq(Entry) /\ n \in Seq(AnyName)
      /\ (e.attr = ATTR_DIR => Listed(es, e.first) = {})
  <2>1. t \in Seq(Entry) /\ e \in Entry /\ (e.attr = ATTR_DIR => Listed(es, e.first) = {})
    BY <1>1 DEF IsTrail, OneMore
  <2>2. names \in Seq(AnyName) /\ e.name \in AnyName
    BY <1>1, <2>1, NamesFacts DEF Entry
  <2>. QED  BY <1>1, <2>1, <2>2, NamesAppend
<1> HIDE DEF r, n
<1>4. /\ \A m : m \in there <=> \E p : IsLine(ds, p) /\ NamesOf(p) = m
      /\ \A m : m \in DOMAIN Kinds(es) <=> \E p : IsLine(es, p) /\ NamesOf(p) = m
      /\ \A p : IsLine(ds, p) => Kinds(ds)[NamesOf(p)] = Last(p).attr
      /\ \A p : IsLine(es, p) => Kinds(es)[NamesOf(p)] = Last(p).attr
  BY KindsFacts
<1> HIDE DEF there
<1>5. n \notin there
  <2> SUFFICES ASSUME NEW p, IsLine(ds, p), NamesOf(p) = n PROVE FALSE
    BY <1>4
  <2>1. p = r
    BY <1>2, <1>3, LinesRun, RunByName
  <2>. QED  BY <1>2, <2>1
<1>6. \A m : m \in DOMAIN Kinds(es) <=> m \in there \cup {n}
  BY <1>2, <1>3, <1>4
<1>7. Kinds(es) = f
  <2>1. f = [p \in DOMAIN f |-> f[p]] /\ \A m : m \in DOMAIN f <=> m \in DOMAIN Kinds(es)
    BY <1>6
  <2>2. ASSUME NEW p, IsLine(es, p) PROVE f[NamesOf(p)] = Last(p).attr
    <3>1. CASE IsLine(ds, p)
      BY <1>4, <3>1
    <3>2. CASE p = r
      BY <1>2, <1>3, <1>5, <3>2
    <3>. QED  BY <1>2, <2>2, <3>1, <3>2
  <2> HIDE DEF f
  <2>. QED  BY <2>1, <2>2, KindsSame
<1>8. Kinds(ds) = g
  <2>1. g = [p \in DOMAIN g |-> g[p]] /\ \A m : m \in DOMAIN g <=> m \in DOMAIN Kinds(ds)
    BY <1>5, <1>6 DEF there
  <2>2. ASSUME NEW p, IsLine(ds, p) PROVE g[NamesOf(p)] = Last(p).attr
    <3>1. NamesOf(p) \in there /\ IsLine(es, p)
      BY <1>2, <1>4, <2>2
    <3>2. NamesOf(p) \in DOMAIN Kinds(es) \ {n}
      BY <1>5, <1>6, <3>1
    <3>. QED  BY <1>4, <3>1, <3>2
  <2> HIDE DEF g
  <2>. QED  BY <2>1, <2>2, KindsSame
<1>9. ASSUME NEW p \in DOMAIN Kinds(es), Begins(n, p) PROVE p = n
  <2>1. PICK q : IsLine(es, q) /\ NamesOf(q) = p
    BY <1>4
  <2>2. IsLine(es, r) /\ Len(r) \in 1 .. Len(r) /\ r[Len(r)] = e /\ Len(q) \in Nat
    BY <1>2, <2>1 DEF IsLine, Last
  <2>3. Len(r) <= Len(q) /\ \A k \in 1 .. Len(r) : q[k] = r[k]
    BY <1>3, <1>9, <2>1, <2>2, LinesRun, RunsAgree
  <2>4. Len(r) \in 1 .. Len(q) /\ q[Len(r)] = e
    BY <2>2, <2>3
  <2>5. Len(r) = Len(q)
    BY <1>3, <2>1, <2>4, LineStops
  <2>6. q = r
    BY <1>3, <2>1, <2>3, <2>5 DEF IsLine
  <2>. QED  BY <1>3, <2>1, <2>6
<1>10. n \in DOMAIN Kinds(es)
  BY <1>6
<1>11. KindMade(Kinds(ds), Kinds(es), n, e.attr)
  BY <1>5, <1>7 DEF there, KindMade
<1>12. KindLess(Kinds(es), Kinds(ds), n)
  BY <1>8 DEF KindLess
<1>13. Bare(Kinds(es), n)
  BY <1>3, <1>9, <1>10 DEF Bare
<1>. QED  BY <1>11, <1>12, <1>13 DEF n

---------------------------------------------------------------------------
(* A new name *)

\* The way down to the k-th entry of a line.
LEMMA TrailWithin ==
  ASSUME NEW ds, NEW q, IsLine(ds, q), NEW k \in 1 .. Len(q)
  PROVE  \E s : /\ IsTrail(ds, s) /\ Len(s) = k - 1 /\ End(s) = Above(q, k)
                /\ \A i \in 1 .. k - 1 : s[i] = q[i]
<1> DEFINE s == [i \in 1 .. k - 1 |-> q[i]]
<1>1. q \in Seq(Entry) /\ Len(q) \in Nat /\ k \in Nat /\ k - 1 \in Nat
      /\ \A i \in 1 .. k - 1 : i \in 1 .. Len(q) /\ i < Len(q) /\ q[i] \in Entry
  BY DEF IsLine
<1>2. s \in Seq(Entry) /\ Len(s) = k - 1 /\ \A i \in 1 .. k - 1 : s[i] = q[i]
  BY <1>1
<1> HIDE DEF s
<1>3. ASSUME NEW i \in 1 .. k PROVE Above(s, i) = Above(q, i)
  <2>1. i = 1 \/ i - 1 \in 1 .. k - 1
    BY <1>1
  <2>. QED  BY <1>2, <2>1 DEF Above
<1>4. IsTrail(ds, s)
  <2>1. ASSUME NEW i \in 1 .. k - 1
        PROVE  s[i] \in Listed(ds, Above(s, i)) /\ s[i].attr = ATTR_DIR
    <3>1. i \in 1 .. k /\ i \in 1 .. Len(q) /\ i < Len(q)
      BY <1>1
    <3>. QED  BY <1>2, <1>3, <3>1 DEF IsLine
  <2>. QED  BY <1>2, <2>1 DEF IsTrail
<1>5. End(s) = Above(q, k)
  BY <1>1, <1>2, <1>3 DEF End
<1>. QED  BY <1>2, <1>4, <1>5

\* The names of a trail and one more.
LEMMA PathTo ==
  ASSUME NEW t \in Seq(Entry), NEW x \in AnyName
  PROVE  LET n == Append(NamesOf(t), x) IN
         /\ NamesOf(t) \in Seq(AnyName) /\ Len(t) \in Nat
         /\ n \in Seq(AnyName) /\ Len(n) = Len(t) + 1 /\ n[Len(t) + 1] = x
         /\ \A k \in 1 .. Len(t) : n[k] = t[k].name
<1> DEFINE s == NamesOf(t)
<1>1. s \in Seq(AnyName) /\ Len(s) = Len(t) /\ Len(t) \in Nat /\ \A k \in 1 .. Len(t) : s[k] = t[k].name
  BY NamesFacts
<1> HIDE DEF s
<1>2. LET n == Append(s, x) IN
      /\ n \in Seq(AnyName) /\ Len(n) = Len(t) + 1 /\ n[Len(t) + 1] = x
      /\ \A k \in 1 .. Len(t) : n[k] = t[k].name
  BY <1>1
<1>. QED  BY <1>1, <1>2 DEF s

\* A line goes through an entry of c if and only if its names begin with those that
\* lead to the entry.
LEMMA Through ==
  ASSUME NEW ds, NamesApart(ds), NEW c, OneTrail(ds, c),
         NEW t, IsTrail(ds, t), End(t) = c, NEW e \in Entry, e \in Listed(ds, c),
         NEW q, IsLine(ds, q)
  PROVE  LET m    == Len(t) + 1
             from == Append(NamesOf(t), e.name)
         IN  /\ \A j \in 1 .. Len(q) :
                  Above(q, j) = c /\ q[j] = e => j = m /\ Begins(from, NamesOf(q))
             /\ Begins(from, NamesOf(q)) => m \in 1 .. Len(q) /\ Above(q, m) = c /\ q[m] = e
<1> DEFINE m    == Len(t) + 1
           from == Append(NamesOf(t), e.name)
           r    == Append(t, e)
           n    == NamesOf(q)
<1>1. t \in Seq(Entry) /\ Len(t) \in Nat /\ q \in Seq(Entry) /\ Len(q) \in Nat /\ e.name \in AnyName
  BY DEF IsTrail, IsLine, Entry
<1>2. /\ r \in Seq(Entry) /\ Len(r) = m /\ r[m] = e /\ NamesOf(r) = from
      /\ \A k \in 1 .. Len(t) : r[k] = t[k]
  BY <1>1, NamesAppend
<1>3. Runs(ds, r)
  BY LineJoin, LinesRun
<1>4. /\ from \in Seq(AnyName) /\ Len(from) = m /\ from[m] = e.name
      /\ \A k \in 1 .. Len(t) : from[k] = t[k].name
  BY <1>1, PathTo
<1>5. Len(n) = Len(q) /\ \A k \in 1 .. Len(q) : n[k] = q[k].name
  BY <1>1, NamesFacts
<1> HIDE DEF from, r, n
<1>6. ASSUME NEW j \in 1 .. Len(q), Above(q, j) = c, q[j] = e
      PROVE  j = m /\ Begins(from, n)
  <2>1. PICK s : /\ IsTrail(ds, s) /\ Len(s) = j - 1 /\ End(s) = Above(q, j)
                 /\ \A i \in 1 .. j - 1 : s[i] = q[i]
    BY TrailWithin
  <2>2. s = t
    BY <1>6, <2>1 DEF OneTrail
  <2>3. j = m /\ \A i \in 1 .. Len(t) : t[i] = q[i]
    BY <1>1, <2>1, <2>2
  <2>4. \A k \in 1 .. m : n[k] = from[k]
    BY <1>1, <1>4, <1>5, <1>6, <2>3
  <2>5. Begins(from, n)
    BY <1>1, <1>4, <1>5, <2>3, <2>4 DEF Begins
  <2>. QED  BY <2>3, <2>5
<1>7. ASSUME Begins(from, n)
      PROVE  m \in 1 .. Len(q) /\ Above(q, m) = c /\ q[m] = e
  <2>1. Len(r) <= Len(q) /\ \A k \in 1 .. Len(r) : q[k] = r[k]
    BY <1>2, <1>3, <1>7, LinesRun, RunsAgree DEF n
  <2>2. m \in 1 .. Len(q) /\ q[m] = e /\ \A k \in 1 .. Len(t) : q[k] = t[k]
    BY <1>1, <1>2, <2>1
  <2>3. Above(q, m) = Above(t, m)
    BY <1>1, <2>2 DEF Above
  <2>. QED  BY <2>2, <2>3 DEF End
<1>. QED  BY <1>6, <1>7 DEF from, n

\* No path begins with a name that is not in c.
LEMMA NotThere ==
  ASSUME NEW ds, NamesApart(ds), NEW t, IsTrail(ds, t), NEW x \in AnyName,
         \A y \in Listed(ds, End(t)) : y.name # x, NEW q, IsLine(ds, q)
  PROVE  ~ Begins(Append(NamesOf(t), x), NamesOf(q))
<1> DEFINE m == Len(t) + 1
           s == NamesOf(t)
           f == Append(s, x)
           n == NamesOf(q)
<1> SUFFICES ASSUME Begins(f, n) PROVE FALSE
  OBVIOUS
<1>1. t \in Seq(Entry) /\ Len(t) \in Nat /\ q \in Seq(Entry) /\ Len(q) \in Nat
  BY DEF IsTrail, IsLine
<1>2. /\ f \in Seq(AnyName) /\ Len(f) = m /\ f[m] = x
      /\ \A k \in 1 .. Len(t) : f[k] = t[k].name
  BY <1>1, PathTo
<1>3. Len(s) = Len(t) /\ \A k \in 1 .. Len(t) : s[k] = t[k].name
  BY <1>1, NamesFacts
<1>4. Len(n) = Len(q) /\ \A k \in 1 .. Len(q) : n[k] = q[k].name
  BY <1>1, NamesFacts
<1> HIDE DEF f, s, n
<1>5. Begins(s, n) /\ m \in 1 .. Len(q) /\ q[m].name = x
  BY <1>1, <1>2, <1>3, <1>4 DEF Begins
<1>6. \A k \in 1 .. Len(t) : q[k] = t[k]
  BY <1>5, LinesRun, RunsAgree DEF s, n
<1>7. Above(q, m) = End(t)
  BY <1>1, <1>6 DEF Above, End
<1>8. q[m] \in Listed(ds, End(t))
  BY <1>5, <1>7 DEF IsLine
<1>. QED  BY <1>5, <1>8

\* The path p after a change of one name: from becomes to.
Swap(from, to, p) ==
  IF Begins(from, p) THEN [i \in 1 .. Len(p) |-> IF i = Len(from) THEN to[i] ELSE p[i]] ELSE p

LEMMA SwapBack ==
  ASSUME NEW n \in Seq(AnyName), NEW x \in AnyName, NEW y \in AnyName, NEW p \in Seq(AnyName),
         ~ Begins(Append(n, y), p)
  PROVE  Swap(Append(n, y), Append(n, x), Swap(Append(n, x), Append(n, y), p)) = p
<1> DEFINE from == Append(n, x)
           to   == Append(n, y)
           m    == Len(n) + 1
           s    == [i \in 1 .. Len(p) |-> IF i = m THEN to[i] ELSE p[i]]
           r    == [i \in 1 .. Len(p) |-> IF i = m THEN from[i] ELSE s[i]]
<1>1. /\ Len(n) \in Nat /\ Len(from) = m /\ Len(to) = m /\ from[m] = x /\ to[m] = y
      /\ \A i \in 1 .. Len(n) : from[i] = to[i]
      /\ Len(p) \in Nat /\ p = [i \in 1 .. Len(p) |-> p[i]] /\ \A i \in 1 .. Len(p) : p[i] \in AnyName
  OBVIOUS
<1> HIDE DEF from, to
<1>2. CASE ~ Begins(from, p)
  BY <1>2 DEF Swap, from, to
<1>3. CASE Begins(from, p)
  <2>1. Swap(from, to, p) = s
    BY <1>1, <1>3 DEF Swap
  <2>2. s \in Seq(AnyName) /\ Len(s) = Len(p) /\ \A i \in 1 .. Len(p) : s[i] = IF i = m THEN to[i] ELSE p[i]
    <3>1. \A i \in 1 .. Len(p) : (IF i = m THEN to[i] ELSE p[i]) \in AnyName
      BY <1>1
    <3>. QED  BY <1>1, <3>1
  <2>3. m \in 1 .. Len(p) /\ \A i \in 1 .. m : p[i] = from[i]
    BY <1>1, <1>3 DEF Begins
  <2> HIDE DEF s
  <2>4. Begins(to, s)
    <3>1. ASSUME NEW i \in 1 .. m PROVE s[i] = to[i]
      <4>1. i \in 1 .. Len(p) /\ (i = m \/ i \in 1 .. Len(n))
        BY <1>1, <2>3
      <4>. QED  BY <1>1, <2>2, <2>3, <4>1
    <3>. QED  BY <1>1, <2>2, <2>3, <3>1 DEF Begins
  <2>5. Swap(to, from, s) = r
    BY <1>1, <2>2, <2>4 DEF Swap
  <2>6. \A i \in 1 .. Len(p) : r[i] = p[i]
    BY <1>1, <2>2, <2>3
  <2>7. r = p
    BY <1>1, <2>6
  <2>. QED  BY <2>1, <2>5, <2>7 DEF from, to
<1>. QED  BY <1>2, <1>3

LEMMA RenamedBack ==
  ASSUME NEW ds \in [Block -> SUBSET Entry], NEW es, NamesApart(ds),
         NEW c, NEW e, NEW k, OneRenamed(ds, es, c, e, k)
  PROVE  OneRenamed(es, ds, c, k, e) /\ e \in Entry
<1>1. c \in DataBlock /\ e \in Listed(ds, c) /\ e \in Entry /\ e \in ds[c]
  BY ListedType DEF OneRenamed
<1>2. k \in Listed(es, c) /\ k \notin Listed(ds, c)
  BY <1>1 DEF OneRenamed
<1>3. \A x \in Listed(es, c) : x.name # e.name
  <2> SUFFICES ASSUME NEW x \in Listed(es, c), x.name = e.name PROVE FALSE
    OBVIOUS
  <2>1. x = k \/ (x \in Listed(ds, c) /\ x # e)
    BY <1>1 DEF OneRenamed
  <2>2. x # k
    BY <1>1 DEF OneRenamed
  <2>. QED  BY <1>1, <2>1, <2>2 DEF NamesApart, Listed
<1>4. \A d \in DataBlock :
        Listed(ds, d) = IF d = c THEN (Listed(es, d) \ {k}) \cup {e} ELSE Listed(es, d)
  BY <1>1, <1>2 DEF OneRenamed
<1>. QED  BY <1>1, <1>2, <1>3, <1>4 DEF OneRenamed

\* Each line has a line under the new name.
LEMMA RenameLine ==
  ASSUME NEW ds, NEW es, NamesApart(ds), NEW c, NEW e \in Entry, NEW k, OneRenamed(ds, es, c, e, k),
         OneTrail(ds, c), NEW t, IsTrail(ds, t), End(t) = c, NEW q, IsLine(ds, q)
  PROVE  LET from == Append(NamesOf(t), e.name)
             to   == Append(NamesOf(t), k.name)
         IN  \E r : /\ IsLine(es, r) /\ NamesOf(r) = Swap(from, to, NamesOf(q))
                    /\ Last(r).attr = Last(q).attr
<1> DEFINE m    == Len(t) + 1
           from == Append(NamesOf(t), e.name)
           to   == Append(NamesOf(t), k.name)
           n    == NamesOf(q)
           r    == [j \in 1 .. Len(q) |-> IF Above(q, j) = c /\ q[j] = e THEN k ELSE q[j]]
           w    == NamesOf(r)
<1>1. /\ q \in Seq(Entry) /\ Len(q) \in Nat /\ Len(q) \in 1 .. Len(q) /\ q # <<>>
      /\ \A j \in 1 .. Len(q) : q[j] \in Entry /\ Above(q, j) \in DataBlock
      /\ t \in Seq(Entry)
  BY AboveType DEF IsLine, IsTrail
<1>2. /\ c \in DataBlock /\ e \in Listed(ds, c) /\ k \in Entry /\ k.first = e.first /\ k.attr = e.attr
      /\ \A d \in DataBlock :
           Listed(es, d) = IF d = c THEN (Listed(ds, d) \ {e}) \cup {k} ELSE Listed(ds, d)
  BY DEF OneRenamed
<1>3. e.name \in AnyName /\ k.name \in AnyName
  BY <1>2 DEF Entry
<1>4. /\ \A j \in 1 .. Len(q) : Above(q, j) = c /\ q[j] = e => j = m /\ Begins(from, n)
      /\ Begins(from, n) => m \in 1 .. Len(q) /\ Above(q, m) = c /\ q[m] = e
  BY <1>2, Through
<1>5. Len(from) = m /\ Len(to) = m /\ to[m] = k.name
  BY <1>1, <1>3, PathTo
<1>6. n \in Seq(AnyName) /\ Len(n) = Len(q) /\ \A j \in 1 .. Len(q) : n[j] = q[j].name
  BY <1>1, NamesFacts
<1> HIDE DEF from, to, n
<1>7. /\ r \in Seq(Entry) /\ Len(r) = Len(q)
      /\ \A j \in 1 .. Len(q) : r[j] = IF Above(q, j) = c /\ q[j] = e THEN k ELSE q[j]
  <2>1. \A j \in 1 .. Len(q) : (IF Above(q, j) = c /\ q[j] = e THEN k ELSE q[j]) \in Entry
    BY <1>1, <1>2
  <2>. QED  BY <1>1, <2>1
<1> HIDE DEF r
<1>8. \A j \in 1 .. Len(q) : r[j].first = q[j].first /\ r[j].attr = q[j].attr
  BY <1>2, <1>7
<1>9. \A j \in 1 .. Len(q) : Above(r, j) = Above(q, j)
  <2> SUFFICES ASSUME NEW j \in 1 .. Len(q), j # 1 PROVE r[j-1].first = q[j-1].first
    BY DEF Above
  <2>1. j - 1 \in 1 .. Len(q)
    BY <1>1
  <2>. QED  BY <1>8, <2>1
<1>10. IsLine(es, r)
  <2>1. \A j \in 1 .. Len(q) : r[j] \in Listed(es, Above(q, j))
    <3> SUFFICES ASSUME NEW j \in 1 .. Len(q) PROVE r[j] \in Listed(es, Above(q, j))
      OBVIOUS
    <3>1. q[j] \in Listed(ds, Above(q, j)) /\ Above(q, j) \in DataBlock
      BY <1>1 DEF IsLine
    <3>. QED  BY <1>2, <1>7, <3>1
  <2>2. \A j \in 1 .. Len(q) : j < Len(q) => r[j].attr = ATTR_DIR
    BY <1>8 DEF IsLine
  <2>3. r # <<>>
    BY <1>1, <1>7
  <2>. QED  BY <1>7, <1>9, <2>1, <2>2, <2>3 DEF IsLine
<1>11. w \in Seq(AnyName) /\ Len(w) = Len(q) /\ \A j \in 1 .. Len(q) : w[j] = r[j].name
  BY <1>7, NamesFacts
<1> HIDE DEF w
<1>12. w = Swap(from, to, n)
  <2>1. CASE Begins(from, n)
    <3> DEFINE s == [j \in 1 .. Len(n) |-> IF j = Len(from) THEN to[j] ELSE n[j]]
    <3>1. \A j \in 1 .. Len(q) : w[j] = s[j]
      <4> SUFFICES ASSUME NEW j \in 1 .. Len(q) PROVE w[j] = IF j = m THEN to[j] ELSE n[j]
        BY <1>5, <1>6
      <4>1. CASE j = m
        <5>1. r[j] = k
          BY <1>4, <1>7, <2>1, <4>1
        <5>. QED  BY <1>5, <1>11, <4>1, <5>1
      <4>2. CASE j # m
        <5>1. r[j] = q[j]
          BY <1>4, <1>7, <4>2
        <5>. QED  BY <1>6, <1>11, <4>2, <5>1
      <4>. QED  BY <4>1, <4>2
    <3>2. w = [j \in 1 .. Len(q) |-> w[j]]
      BY <1>1, <1>11
    <3>3. s = [j \in 1 .. Len(q) |-> s[j]]
      BY <1>6
    <3> HIDE DEF s
    <3>4. w = s
      BY <3>1, <3>2, <3>3
    <3>. QED  BY <2>1, <3>4 DEF Swap, s
  <2>2. CASE ~ Begins(from, n)
    <3>1. \A j \in 1 .. Len(q) : w[j] = n[j]
      BY <1>4, <1>6, <1>7, <1>11, <2>2
    <3>2. w = n
      BY <1>1, <1>6, <1>11, <3>1
    <3>. QED  BY <2>2, <3>2 DEF Swap
  <2>. QED  BY <2>1, <2>2
<1>13. Last(r).attr = Last(q).attr
  BY <1>1, <1>7, <1>8 DEF Last
<1>. QED  BY <1>10, <1>12, <1>13 DEF from, to, n, w

\* The paths of NameTree, put together from two parts.
Moved(from, to, p) ==
  IF Names!Within(from, p) THEN to \o SubSeq(p, Len(from) + 1, Len(p)) ELSE p

LEMMA WithinBegins ==
  ASSUME NEW p \in Seq(AnyName), NEW q \in Seq(AnyName)
  PROVE  Names!Within(p, q) <=> Begins(p, q)
<1> DEFINE s == SubSeq(q, 1, Len(p))
<1>1. Len(p) \in Nat /\ Len(q) \in Nat
  OBVIOUS
<1>2. ASSUME Len(p) <= Len(q)
      PROVE  s \in Seq(AnyName) /\ Len(s) = Len(p) /\ \A k \in 1 .. Len(p) : s[k] = q[k]
  BY <1>1, <1>2
<1> HIDE DEF s
<1>3. ASSUME Len(p) <= Len(q)
      PROVE  s = p <=> \A k \in 1 .. Len(p) : q[k] = p[k]
  BY <1>1, <1>2, <1>3
<1>. QED  BY <1>3 DEF Names!Within, Begins, s

LEMMA MovedSwap ==
  ASSUME NEW n \in Seq(AnyName), NEW x \in AnyName, NEW y \in AnyName, NEW p \in Seq(AnyName)
  PROVE  Moved(Append(n, x), Append(n, y), p) = Swap(Append(n, x), Append(n, y), p)
<1> DEFINE from == Append(n, x)
           to   == Append(n, y)
           m    == Len(n) + 1
           u    == SubSeq(p, m + 1, Len(p))
           v    == to \o u
           s    == [i \in 1 .. Len(p) |-> IF i = m THEN to[i] ELSE p[i]]
<1>1. /\ from \in Seq(AnyName) /\ to \in Seq(AnyName)
      /\ Len(n) \in Nat /\ m \in Nat /\ m >= 1 /\ Len(from) = m /\ Len(to) = m
      /\ \A i \in 1 .. m : i \in 1 .. Len(n) \/ i = m
      /\ \A i \in 1 .. Len(n) : from[i] = to[i]
      /\ Len(p) \in Nat /\ p = [i \in 1 .. Len(p) |-> p[i]]
  OBVIOUS
<1> HIDE DEF from, to, m
<1>2. Names!Within(from, p) <=> Begins(from, p)
  BY <1>1, WithinBegins
<1>3. CASE ~ Begins(from, p)
  BY <1>2, <1>3 DEF Moved, Swap, from, to
<1>4. CASE Begins(from, p)
  <2>1. m <= Len(p) /\ \A i \in 1 .. m : p[i] = from[i]
    BY <1>1, <1>4 DEF Begins
  <2>2. u \in Seq(AnyName) /\ Len(u) = Len(p) - m /\ \A i \in 1 .. Len(p) - m : u[i] = p[m + i]
    <3>1. m + 1 \in Int /\ Len(p) \in Int /\ \A i \in m + 1 .. Len(p) : p[i] \in AnyName
      BY <1>1
    <3>2. /\ u \in Seq(AnyName)
          /\ Len(u) = IF m + 1 <= Len(p) THEN Len(p) - (m + 1) + 1 ELSE 0
          /\ \A i \in 1 .. (Len(p) - (m + 1)) + 1 : u[i] = p[(m + 1 + i) - 1]
      BY <3>1, SubSeqProperties
    <3>3. Len(p) - m = (Len(p) - (m + 1)) + 1 /\ (m + 1 > Len(p) => Len(p) - m = 0)
          /\ \A i \in 1 .. Len(p) - m : (m + 1 + i) - 1 = m + i
      BY <1>1, <2>1
    <3>. QED  BY <3>2, <3>3
  <2> HIDE DEF u
  <2>3. /\ v \in Seq(AnyName) /\ Len(v) = Len(p)
        /\ \A i \in 1 .. m : v[i] = to[i]
        /\ \A i \in m + 1 .. Len(p) : v[i] = u[i - m]
    <3>1. /\ v \in Seq(AnyName) /\ Len(v) = Len(to) + Len(u)
          /\ \A i \in 1 .. Len(to) + Len(u) : v[i] = IF i <= Len(to) THEN to[i] ELSE u[i - Len(to)]
      BY <1>1, <2>2, ConcatProperties
    <3>2. m \in Nat /\ Len(p) \in Nat /\ Len(to) = m
      BY <1>1
    <3>3. m + (Len(p) - m) = Len(p)
      BY <3>2
    <3>4. Len(v) = Len(p) /\ \A i \in 1 .. Len(p) : v[i] = IF i <= m THEN to[i] ELSE u[i - m]
      BY <2>2, <3>1, <3>2, <3>3
    <3>. QED  BY <2>1, <3>1, <3>2, <3>4
  <2> HIDE DEF v
  <2>4. ASSUME NEW i \in 1 .. Len(p) PROVE v[i] = s[i]
    <3>1. CASE i \in 1 .. Len(n)
      <4>1. i \in 1 .. m /\ i # m
        BY <1>1, <3>1 DEF m
      <4>. QED  BY <1>1, <2>1, <2>3, <3>1, <4>1
    <3>2. CASE i = m
      BY <1>1, <2>3, <3>2
    <3>3. CASE i \in m + 1 .. Len(p)
      <4>1. i - m \in 1 .. Len(p) - m /\ m + (i - m) = i
        <5>1. m \in Nat /\ Len(p) \in Nat
          BY <1>1
        <5>. QED  BY <3>3, <5>1
      <4>. QED  BY <1>1, <2>2, <2>3, <3>3, <4>1
    <3>. QED  BY <1>1, <2>1, <3>1, <3>2, <3>3
  <2>5. v = s
    <3>1. v = [i \in 1 .. Len(p) |-> v[i]]
      BY <1>1, <2>3
    <3>. QED  BY <2>4, <3>1
  <2>6. Moved(from, to, p) = v /\ Swap(from, to, p) = s
    BY <1>1, <1>2, <1>4 DEF Moved, Swap, v, u
  <2>. QED  BY <2>5, <2>6 DEF from, to
<1>. QED  BY <1>3, <1>4

\* What Rename of NameTree does to the kinds.
KindMoved(was, is, from, to) ==
  /\ from \in DOMAIN was /\ to \notin DOMAIN was
  /\ is = [q \in {Moved(from, to, p) : p \in DOMAIN was} |->
             was[CHOOSE p \in DOMAIN was : Moved(from, to, p) = q]]

LEMMA KindsRenamed ==
  ASSUME NEW ds \in [Block -> SUBSET Entry], NEW es \in [Block -> SUBSET Entry],
         NamesApart(ds), NamesApart(es), NEW c, NEW e, NEW k, OneRenamed(ds, es, c, e, k),
         NEW names, Leads(ds, names, c), Leads(es, names, c), OneTrail(ds, c), OneTrail(es, c)
  PROVE  LET from  == Append(names, e.name)
             to    == Append(names, k.name)
         IN  KindMoved(Kinds(ds), Kinds(es), from, to)
<1> DEFINE from  == Append(names, e.name)
           to    == Append(names, k.name)
           there == DOMAIN Kinds(ds)
           f     == [q \in {Moved(from, to, p) : p \in there} |->
                       Kinds(ds)[CHOOSE p \in there : Moved(from, to, p) = q]]
<1>1. PICK t : IsTrail(ds, t) /\ NamesOf(t) = names /\ End(t) = c
  BY DEF Leads
<1>2. PICK u : IsTrail(es, u) /\ NamesOf(u) = names /\ End(u) = c
  BY DEF Leads
<1>3. OneRenamed(es, ds, c, k, e) /\ e \in Entry /\ k \in Entry /\ t \in Seq(Entry)
  BY <1>1, RenamedBack DEF OneRenamed, IsTrail
<1>4. names \in Seq(AnyName) /\ e.name \in AnyName /\ k.name \in AnyName
  BY <1>1, <1>3, NamesFacts DEF Entry
<1>5. /\ \A q : IsLine(ds, q) => q \in Seq(Entry)
      /\ \A q : IsLine(es, q) => q \in Seq(Entry)
  BY DEF IsLine
<1>6. ASSUME NEW q, IsLine(ds, q)
      PROVE  /\ ~ Begins(to, NamesOf(q)) /\ NamesOf(q) \in Seq(AnyName)
             /\ \E r : /\ IsLine(es, r) /\ NamesOf(r) = Swap(from, to, NamesOf(q))
                       /\ Last(r).attr = Last(q).attr
  <2>1. \A y \in Listed(ds, c) : y.name # k.name
    BY DEF OneRenamed
  <2>2. NamesOf(q) \in Seq(AnyName)
    BY <1>5, <1>6, NamesFacts
  <2>3. ~ Begins(to, NamesOf(q))
    BY <1>1, <1>4, <1>6, <2>1, NotThere
  <2>4. \E r : /\ IsLine(es, r) /\ NamesOf(r) = Swap(from, to, NamesOf(q))
               /\ Last(r).attr = Last(q).attr
    BY <1>1, <1>3, <1>6, RenameLine
  <2>. QED  BY <2>2, <2>3, <2>4
<1>7. ASSUME NEW r, IsLine(es, r)
      PROVE  /\ ~ Begins(from, NamesOf(r)) /\ NamesOf(r) \in Seq(AnyName)
             /\ \E q : /\ IsLine(ds, q) /\ NamesOf(q) = Swap(to, from, NamesOf(r))
                       /\ Last(q).attr = Last(r).attr
  <2>1. \A y \in Listed(es, c) : y.name # e.name
    BY <1>3 DEF OneRenamed
  <2>2. NamesOf(r) \in Seq(AnyName)
    BY <1>5, <1>7, NamesFacts
  <2>3. ~ Begins(from, NamesOf(r))
    BY <1>2, <1>4, <1>7, <2>1, NotThere
  <2>4. \E q : /\ IsLine(ds, q) /\ NamesOf(q) = Swap(to, from, NamesOf(r))
               /\ Last(q).attr = Last(r).attr
    BY <1>2, <1>3, <1>7, RenameLine
  <2>. QED  BY <2>2, <2>3, <2>4
<1>8. /\ \A n : n \in there <=> \E q : IsLine(ds, q) /\ NamesOf(q) = n
      /\ \A n : n \in DOMAIN Kinds(es) <=> \E q : IsLine(es, q) /\ NamesOf(q) = n
      /\ \A q : IsLine(ds, q) => Kinds(ds)[NamesOf(q)] = Last(q).attr
  BY KindsFacts
<1>9. ASSUME NEW p \in there
      PROVE  /\ Moved(from, to, p) = Swap(from, to, p)
             /\ Swap(to, from, Moved(from, to, p)) = p
  <2>1. p \in Seq(AnyName) /\ ~ Begins(to, p)
    BY <1>6, <1>8
  <2>. QED  BY <1>4, <2>1, MovedSwap, SwapBack
<1>10. ASSUME NEW r, IsLine(es, r)
       PROVE  Swap(from, to, Swap(to, from, NamesOf(r))) = NamesOf(r)
  BY <1>4, <1>7, <1>10, SwapBack
<1>11. from \in there
  <2>1. IsLine(ds, Append(t, e)) /\ NamesOf(Append(t, e)) = from
    BY <1>1, <1>3, LineJoin, NamesAppend DEF OneRenamed
  <2>. QED  BY <1>8, <2>1
<1>12. to \notin there
  <2>1. Begins(to, to)
    BY <1>4 DEF Begins
  <2>. QED  BY <1>6, <1>8, <2>1
<1> HIDE DEF from, to, there
<1>13. ASSUME NEW n \in there
       PROVE  Moved(from, to, n) \in DOMAIN Kinds(es)
  BY <1>6, <1>8, <1>9
<1>14. ASSUME NEW r, IsLine(es, r)
       PROVE  /\ NamesOf(r) \in {Moved(from, to, p) : p \in there}
              /\ f[NamesOf(r)] = Last(r).attr
  <2> DEFINE n == NamesOf(r)
  <2>1. PICK q : IsLine(ds, q) /\ NamesOf(q) = Swap(to, from, n) /\ Last(q).attr = Last(r).attr
    BY <1>7, <1>14
  <2>2. NamesOf(q) \in there /\ Moved(from, to, NamesOf(q)) = n
    BY <1>8, <1>9, <1>10, <1>14, <2>1
  <2>3. PICK p \in there : p = CHOOSE x \in there : Moved(from, to, x) = n
    BY <2>2
  <2>4. Moved(from, to, p) = n
    BY <2>2, <2>3
  <2>5. p = NamesOf(q)
    BY <1>9, <2>1, <2>4
  <2>6. f[n] = Kinds(ds)[p]
    BY <2>2, <2>3
  <2>. QED  BY <1>8, <2>1, <2>2, <2>5, <2>6
<1>15. Kinds(es) = f
  <2>1. f = [n \in DOMAIN f |-> f[n]]
    OBVIOUS
  <2>2. \A n : n \in DOMAIN f <=> n \in DOMAIN Kinds(es)
    <3>1. DOMAIN f = {Moved(from, to, p) : p \in there}
      OBVIOUS
    <3>2. ASSUME NEW n \in DOMAIN f PROVE n \in DOMAIN Kinds(es)
      BY <1>13, <3>1, <3>2
    <3>3. ASSUME NEW n \in DOMAIN Kinds(es) PROVE n \in DOMAIN f
      <4>1. PICK r : IsLine(es, r) /\ NamesOf(r) = n
        BY <1>8
      <4>. QED  BY <1>14, <3>1, <4>1
    <3>. QED  BY <3>2, <3>3
  <2>3. \A r : IsLine(es, r) => f[NamesOf(r)] = Last(r).attr
    BY <1>14
  <2> HIDE DEF f
  <2>. QED  BY <2>1, <2>2, <2>3, KindsSame
<1>16. KindMoved(Kinds(ds), Kinds(es), from, to)
  BY <1>11, <1>12, <1>15 DEF there, KindMoved
<1>. QED  BY <1>16 DEF from, to

---------------------------------------------------------------------------
(* The commands implement NameTree *)

\* What Remove of NameTree does to the kinds.
KindGone(was, is, n) ==
  /\ n \in DOMAIN was
  /\ \A p \in DOMAIN was : Names!Within(n, p) => p = n
  /\ is = [p \in DOMAIN was \ {n} |-> was[p]]

\* What is known of the entries in every state: c is the directory the path leads to.
TreeKnown(ds, kinds, names, c) ==
  /\ ds \in [Block -> SUBSET Entry] /\ NamesApart(ds)
  /\ kinds = Kinds(ds) /\ Leads(ds, names, c) /\ OneTrail(ds, c)

LEMMA MoreMeansMade ==
  ASSUME NEW ds, NEW es, NEW was, NEW is, NEW names, NEW c, NEW e,
         TreeKnown(ds, was, names, c), TreeKnown(es, is, names, c), OneMore(ds, es, c, e)
  PROVE  /\ KindMade(was, is, Append(names, e.name), e.attr)
         /\ KindGone(is, was, Append(names, e.name))
<1> DEFINE n == Append(names, e.name)
<1>1. /\ ds \in [Block -> SUBSET Entry] /\ NamesApart(ds) /\ was = Kinds(ds)
      /\ Leads(ds, names, c) /\ OneTrail(ds, c)
      /\ es \in [Block -> SUBSET Entry] /\ NamesApart(es) /\ is = Kinds(es)
  BY DEF TreeKnown
<1>2. KindMade(was, is, n, e.attr) /\ KindLess(is, was, n) /\ Bare(is, n)
  BY <1>1, KindsMore
<1> HIDE DEF n
<1>3. ASSUME NEW p \in DOMAIN is, Names!Within(n, p) PROVE p = n
  <2>1. p \in Seq(AnyName)
    <3>1. PICK q : IsLine(es, q) /\ NamesOf(q) = p
      BY <1>1, KindsFacts
    <3>2. q \in Seq(Entry)
      BY <3>1 DEF IsLine
    <3>. QED  BY <3>1, <3>2, NamesFacts
  <2>2. n \in Seq(AnyName) /\ (Begins(n, p) => p = n)
    BY <1>2 DEF Bare
  <2>. QED  BY <1>3, <2>1, <2>2, WithinBegins
<1>4. KindGone(is, was, n)
  BY <1>2, <1>3 DEF KindGone, KindLess, Bare
<1>. QED  BY <1>2, <1>4 DEF n

LEMMA RenamedMeansMoved ==
  ASSUME NEW ds, NEW es, NEW was, NEW is, NEW names, NEW c, NEW e, NEW k,
         TreeKnown(ds, was, names, c), TreeKnown(es, is, names, c), OneRenamed(ds, es, c, e, k)
  PROVE  KindMoved(was, is, Append(names, e.name), Append(names, k.name))
BY KindsRenamed DEF TreeKnown

LEMMA AlikeMeansSame ==
  ASSUME NEW ds, NEW es, NEW was, NEW is, NEW names, NEW c,
         TreeKnown(ds, was, names, c), TreeKnown(es, is, names, c), ListedAlike(ds, es)
  PROVE  is = was
BY KindsAlike DEF TreeKnown

\* What is known in every state.
NamesInv == TypeInv /\ DirInv /\ UniqueNames /\ PathInv

NamesKnown == TreeKnown(dir, KindsByPath, path_stack, cur_block)

LEMMA NamesInvKnown == NamesInv => NamesKnown
<1> SUFFICES ASSUME NamesInv PROVE NamesKnown
  OBVIOUS
<1>1. NamesApart(dir)
  BY DEF NamesInv, UniqueNames, NamesApart
<1>2. Leads(dir, path_stack, cur_block)
  BY DEF NamesInv, PathInv
<1>3. TypeInv /\ DirInv
  BY DEF NamesInv
<1>4. dir \in [Block -> SUBSET Entry] /\ KindsByPath = Kinds(dir)
  BY <1>1, <1>3, KindsAre, TypeFacts
<1>5. OneTrail(dir, cur_block)
  BY <1>3, TrailsSingle
<1>. QED  BY <1>1, <1>2, <1>4, <1>5 DEF NamesKnown, TreeKnown

LEMMA NewNameType ==
  ASSUME NEW e \in Entry, e.name \notin Dots
  PROVE  e.name \in Name /\ e.attr \in {ATTR_FILE, ATTR_DIR}
BY DEF Entry, AnyName

\* A command, seen from the names.
LEMMA EffectNames ==
  ASSUME NamesInv, NamesInv', DirEffect, UNCHANGED fsVars
  PROVE  \/ UNCHANGED <<KindsByPath, path_stack>>
         \/ \E n \in Name : Names!Remove(n) \/ \E k \in {ATTR_FILE, ATTR_DIR} : Names!Make(n, k)
         \/ \E old, new \in Name : Names!Rename(old, new)
<1>1. path_stack' = path_stack /\ cur_block' = cur_block
  BY DEF fsVars
<1>2. TreeKnown(dir, KindsByPath, path_stack, cur_block)
  BY NamesInvKnown DEF NamesKnown
<1>3. NamesKnown'
  BY NamesInvKnown, PTL
<1>4. TreeKnown(dir', KindsByPath', path_stack, cur_block)
  BY <1>1, <1>3 DEF NamesKnown
<1>5. CASE ListedAlike(dir, dir')
  <2>1. KindsByPath' = KindsByPath
    BY <1>2, <1>4, <1>5, AlikeMeansSame
  <2>. QED  BY <1>1, <2>1
<1>6. ASSUME NEW e, OneMore(dir, dir', cur_block, e)
      PROVE  \E n \in Name : \E k \in {ATTR_FILE, ATTR_DIR} : Names!Make(n, k)
  <2>1. e \in Entry /\ e.name \notin Dots
    BY <1>6 DEF OneMore, Listed
  <2>2. e.name \in Name /\ e.attr \in {ATTR_FILE, ATTR_DIR}
    BY <2>1, NewNameType
  <2>3. KindMade(KindsByPath, KindsByPath', Append(path_stack, e.name), e.attr)
    BY <1>2, <1>4, <1>6, MoreMeansMade
  <2>4. Names!Make(e.name, e.attr)
    BY <1>1, <2>3 DEF KindMade, Names!Make, Names!Child, Names!There
  <2>. QED  BY <2>2, <2>4
<1>7. ASSUME NEW e, OneMore(dir', dir, cur_block, e)
      PROVE  \E n \in Name : Names!Remove(n)
  <2>1. e \in Entry /\ e.name \notin Dots
    BY <1>7 DEF OneMore, Listed
  <2>2. e.name \in Name
    BY <2>1, NewNameType
  <2>3. KindGone(KindsByPath, KindsByPath', Append(path_stack, e.name))
    BY <1>2, <1>4, <1>7, MoreMeansMade
  <2>4. Names!Remove(e.name)
    BY <1>1, <2>3 DEF KindGone, Names!Remove, Names!Child, Names!There
  <2>. QED  BY <2>2, <2>4
<1>8. ASSUME NEW e, NEW k, OneRenamed(dir, dir', cur_block, e, k)
      PROVE  \E old, new \in Name : Names!Rename(old, new)
  <2>1. e \in Entry /\ e.name \notin Dots /\ k \in Entry /\ k.name \notin Dots
    <3>1. k \in Listed(dir', cur_block) /\ e \in Listed(dir, cur_block) /\ cur_block \in DataBlock /\ k \in Entry
      BY <1>8 DEF OneRenamed
    <3>2. dir \in [Block -> SUBSET Entry]
      BY <1>2 DEF TreeKnown
    <3>. QED  BY <3>1, <3>2, ListedType DEF Listed
  <2>2. e.name \in Name /\ k.name \in Name
    BY <2>1, NewNameType
  <2>3. KindMoved(KindsByPath, KindsByPath', Append(path_stack, e.name), Append(path_stack, k.name))
    BY <1>2, <1>4, <1>8, RenamedMeansMoved
  <2>4. Names!Rename(e.name, k.name)
    BY <1>1, <2>3, Zenon DEF KindMoved, Names!Rename, Names!Child, Names!There, Names!Within, Moved
  <2>. QED  BY <2>2, <2>4
<1>. QED  BY <1>5, <1>6, <1>7, <1>8 DEF DirEffect

---------------------------------------------------------------------------
(* cd implements the walk of NameTree *)

LEMMA KindsStay == ASSUME UNCHANGED dir PROVE KindsByPath' = KindsByPath
BY DEF KindsByPath, Lines, Below, Listed, Find

LEMMA SetsOut ==
  ASSUME NEW start \in PathStart, start # "backslash", NEW segs \in Paths, Cd(start, segs)
  PROVE  Names!Next
<1>1. op = Idle /\ op' = Walking(IF start = "relative" THEN cur_block ELSE Root, segs,
                                 IF start = "slash" THEN <<>> ELSE path_stack)
  BY DEF Cd
<1>2. op.cmd # "cd" /\ op'.cmd = "cd" /\ op'.segs = segs /\ op'.stack \in {path_stack, <<>>}
  BY <1>1 DEF Idle, Walking
<1>3. KindsByPath' = KindsByPath /\ path_stack' = path_stack
  BY KindsStay DEF Cd, diskVars, fsVars
<1>4. Names!SetOut(segs)
  BY <1>2, <1>3 DEF Names!SetOut, Names!Walking
<1>. QED  BY <1>2, <1>4 DEF Names!Next

LEMMA StepsUp ==
  ASSUME NamesInv, CdUp
  PROVE  Names!Next
<1>1. /\ dir' = dir /\ path_stack' = path_stack
      /\ op.cmd = "cd" /\ op.segs # <<>> /\ Head(op.segs) = DotDot
      /\ op'.cmd = "cd" /\ op'.stack = Up(op.stack) /\ op'.segs = Tail(op.segs)
  BY DEF CdUp, diskVars, fsVars, Walking
<1>2. KindsByPath' = KindsByPath
  BY <1>1, KindsStay
<1>3. Leads(dir, op.stack, op.at) /\ TypeInv /\ DirInv /\ NamesApart(dir) /\ KindsByPath = Kinds(dir)
  BY <1>1, NamesInvKnown DEF NamesInv, PathInv, NamesKnown, TreeKnown
<1>4. Leads(dir, Up(op.stack), ParentBlock(dir, op.at))
  BY <1>3, LeadsUp
<1>5. Names!IsDir(Up(op.stack))
  BY <1>3, <1>4, LeadsToDir DEF Names!IsDir, Names!There
<1>6. Names!Parent(op.stack) = Up(op.stack)
  BY DEF Names!Parent, Up
<1>7. Names!Step
  BY <1>1, <1>2, <1>5, <1>6 DEF Names!Step, Names!Walking
<1>. QED  BY <1>7 DEF Names!Next

LEMMA StepsDown ==
  ASSUME NamesInv, CdDown
  PROVE  Names!Next
<1>1. PICK e \in Subdir(op.at, Head(op.segs)) :
        op' = Walking(e.first, Tail(op.segs), Append(op.stack, Head(op.segs)))
  BY DEF CdDown
<1>2. /\ dir' = dir /\ path_stack' = path_stack
      /\ op.cmd = "cd" /\ op.segs # <<>> /\ Head(op.segs) # DotDot
      /\ op'.cmd = "cd" /\ op'.stack = Append(op.stack, Head(op.segs)) /\ op'.segs = Tail(op.segs)
  BY <1>1 DEF CdDown, diskVars, fsVars, Walking
<1>3. KindsByPath' = KindsByPath
  BY <1>2, KindsStay
<1>4. TypeInv /\ NamesApart(dir) /\ KindsByPath = Kinds(dir) /\ dir \in [Block -> SUBSET Entry]
  BY NamesInvKnown DEF NamesInv, NamesKnown, TreeKnown
<1>5. Leads(dir, Append(op.stack, Head(op.segs)), e.first)
  <2>1. PathInv'
    BY <1>4, CdDownPath DEF NamesInv
  <2>2. op'.at = e.first
    BY <1>1 DEF Walking
  <2>. QED  BY <1>2, <2>1, <2>2 DEF PathInv
<1>6. Names!IsDir(Append(op.stack, Head(op.segs)))
  BY <1>4, <1>5, LeadsToDir DEF Names!IsDir, Names!There
<1>7. Names!Step
  BY <1>2, <1>3, <1>6 DEF Names!Step, Names!Walking, Names!Child
<1>. QED  BY <1>7 DEF Names!Next

LEMMA GivesUp ==
  ASSUME NamesInv, CdFail
  PROVE  Names!Next
<1>1. /\ dir' = dir /\ path_stack' = path_stack
      /\ op.cmd = "cd" /\ op.segs # <<>> /\ Head(op.segs) # DotDot
      /\ Subdir(op.at, Head(op.segs)) = {} /\ op'.cmd # "cd"
  BY DEF CdFail, diskVars, fsVars, Idle
<1>2. KindsByPath' = KindsByPath
  BY <1>1, KindsStay
<1>3. /\ TypeInv /\ NamesApart(dir) /\ KindsByPath = Kinds(dir) /\ dir \in [Block -> SUBSET Entry]
      /\ Leads(dir, op.stack, op.at)
  BY <1>1, NamesInvKnown DEF NamesInv, PathInv, NamesKnown, TreeKnown
<1>4. Head(op.segs) \in AnyName
  <2>1. op \in CdWalks
    BY <1>1, <1>3, WalkingFacts
  <2>2. op.segs \in Seq(Name \cup {DotDot})
    BY <2>1 DEF CdWalks
  <2>3. Head(op.segs) \in Name \cup {DotDot}
    BY <1>1, <2>2
  <2>. QED  BY <1>1, <2>3 DEF AnyName
<1>5. ~ Names!IsDir(Append(op.stack, Head(op.segs)))
  <2> DEFINE n == Head(op.segs)
             names == op.stack
  <2>1. Append(names, n) # <<>>
    <3>1. names \in Seq(Name)
      BY <1>1, <1>3, WalkingFacts DEF CdWalks
    <3>. QED  BY <3>1
  <2> SUFFICES ASSUME Append(names, n) \in DOMAIN Kinds(dir), Kinds(dir)[Append(names, n)] = ATTR_DIR
               PROVE  FALSE
    BY <1>3, <2>1 DEF Names!IsDir, Names!There
  <2>2. \E e \in Listed(dir, op.at) : e.name = n /\ e.attr = ATTR_DIR
    BY <1>3, <1>4, DirLeads
  <2>. QED  BY <1>1, <2>2 DEF Subdir, Find, Listed
<1>6. Names!GiveUp
  BY <1>1, <1>2, <1>5 DEF Names!GiveUp, Names!Child
<1>. QED  BY <1>1, <1>6 DEF Names!Next, Names!Resting

LEMMA Arrives ==
  ASSUME CdEnd
  PROVE  Names!Next
<1>1. /\ dir' = dir /\ path_stack' = op.stack
      /\ op.cmd = "cd" /\ op.segs = <<>> /\ op'.cmd # "cd"
  BY DEF CdEnd, diskVars, Idle
<1>2. KindsByPath' = KindsByPath
  BY <1>1, KindsStay
<1>3. Names!Arrive
  BY <1>1, <1>2 DEF Names!Arrive
<1>. QED  BY <1>1, <1>3 DEF Names!Next, Names!Resting

\* Nothing is listed on a formatted disk.
AsFormatted == dir = FormatDir
NoNamesYet  == KindsByPath = Names!Empty

LEMMA NothingListed ==
  ASSUME NEW d \in DataBlock
  PROVE  Listed(FormatDir, d) = {}
<1>1. FormatDir[d] = {} \/ FormatDir[d] = InitDir(d, Root)
  BY BlockFacts DEF FormatDir
<1>2. \A e \in InitDir(d, Root) : e.name \in Dots
  BY DEF InitDir, NewEntry, Dots, StoredName
<1>. QED  BY <1>1, <1>2 DEF Listed

LEMMA NothingThere == NamesInv /\ AsFormatted => NoNamesYet
<1> SUFFICES ASSUME NamesInv, AsFormatted PROVE NoNamesYet
  OBVIOUS
<1>1. NamesApart(dir) /\ KindsByPath = Kinds(dir)
  BY NamesInvKnown DEF NamesKnown, TreeKnown
<1>2. ASSUME NEW p, IsLine(dir, p) PROVE FALSE
  <2>1. PICK s \in Seq(Entry), e \in Entry : IsTrail(dir, s) /\ e \in Listed(dir, End(s))
    BY <1>2, LineSplit
  <2>2. End(s) \in DataBlock
    BY <2>1, TrailLine
  <2>. QED  BY <2>1, <2>2, NothingListed DEF AsFormatted
<1> DEFINE f == Kinds(dir)
<1>3. DOMAIN f = {} /\ f = [n \in DOMAIN f |-> f[n]]
  BY <1>1, <1>2, KindsFacts
<1> HIDE DEF f
<1>4. f = [n \in {} |-> ATTR_DIR]
  BY <1>3
<1>. QED  BY <1>1, <1>4 DEF f, NoNamesYet, Names!Empty

LEMMA Clears ==
  ASSUME NamesInv', Format
  PROVE  Names!Next
<1>1. AsFormatted' /\ path_stack' = <<>> /\ op.cmd # "cd" /\ op'.cmd # "cd"
  BY DEF Format, AsFormatted, Idle
<1>2. NoNamesYet'
  BY <1>1, NothingThere, PTL
<1>3. Names!Clear
  BY <1>1, <1>2 DEF Names!Clear, NoNamesYet
<1>. QED  BY <1>1, <1>3 DEF Names!Next, Names!Other, Names!Resting

LEMMA StartsEmpty == NamesInv /\ Init => Names!Init
<1> SUFFICES ASSUME NamesInv, Init PROVE Names!Init
  OBVIOUS
<1>1. AsFormatted /\ path_stack = <<>> /\ op.cmd # "cd"
  BY DEF Init, FOInit, AsFormatted, Idle
<1>. QED  BY <1>1, NothingThere DEF Names!Init, NoNamesYet, Names!Resting

LEMMA CommandsAct ==
  ASSUME NamesInv, NamesInv', DirEffect, UNCHANGED fsVars, op.cmd # "cd", op'.cmd # "cd"
  PROVE  Names!Next
<1>1. Names!Other
  BY EffectNames DEF Names!Other
<1>. QED  BY <1>1 DEF Names!Next, Names!Resting

LEMMA NextActs ==
  UsedWithCare /\ NothingCut /\ "slash paths" \in Habits
    /\ NamesInv /\ NamesInv' /\ DiskInv /\ [Next]_vars => [Names!Next]_(Names!vars)
<1> SUFFICES ASSUME UsedWithCare, NothingCut, "slash paths" \in Habits,
                    NamesInv, NamesInv', DiskInv, [Next]_vars
             PROVE  [Names!Next]_(Names!vars)
  OBVIOUS
<1>1. CASE UNCHANGED vars
  <2>1. KindsByPath' = KindsByPath
    BY <1>1, KindsStay DEF vars, foVars, diskVars
  <2>2. path_stack' = path_stack /\ op' = op
    BY <1>1 DEF vars, foVars, fsVars
  <2>. QED  BY <2>1, <2>2 DEF Names!vars
<1>2. CASE \/ FileCommand
           \/ \E n \in AnyName : Mkdir(n) \/ Rmdir(n)
           \/ \E old, new \in AnyName : CanRename(old, new) /\ Rename(old, new)
           \/ Loop /\ UNCHANGED fsVars
  <2>1. TypeInv /\ UniqueNames
    BY DEF NamesInv
  <2>2. DirEffect /\ UNCHANGED fsVars /\ op'.cmd # "cd" /\ op.cmd # "cd"
    BY <1>2, <2>1, CommandEffect
  <2>. QED  BY <2>2, CommandsAct
<1>3. CASE \E start \in PathStart, segs \in Paths : Allows("slash paths", start # "backslash") /\ Cd(start, segs)
  BY <1>3, SetsOut DEF Allows
<1>4. CASE CdUp \/ CdDown \/ CdFail \/ CdEnd
  BY <1>4, StepsUp, StepsDown, GivesUp, Arrives
<1>5. CASE CanFormat /\ Format
  BY <1>5, Clears
<1>. QED  BY <1>1, <1>2, <1>3, <1>4, <1>5 DEF Next, DirectoryCommand, Turn

\* The directory commands act on a tree of names, for every disk and however long the
\* session: with a user who takes care, does not type '\' and uses no name too long
\* for its slot, what create, mkdir, remove, rmdir, rename, cd and format do to blocks
\* and entries is what NameTree says they do to paths.
THEOREM NamesImplemented ==
  ASSUME UsedWithCare, NothingCut, "slash paths" \in Habits
  PROVE  Spec => CommandsActOnNames
<1> DEFINE I == CarefulInv /\ UniqueNames /\ PathInv
<1>1. Init => I
  BY InitCareful, InitNames, InitPath
<1>2. I /\ [Next]_vars => I'
  BY NextCareful, NextNames, NextPath DEF CarefulInv, TableInv
<1>3. I => NamesInv
  BY DEF CarefulInv, TableInv, DiskInv, NamesInv
<1>4. I /\ Init => Names!Init
  BY <1>3, StartsEmpty
<1>5. I /\ I' /\ [Next]_vars => [Names!Next]_(Names!vars)
  <2>1. I => NamesInv /\ DiskInv
    BY <1>3 DEF CarefulInv
  <2>2. I' => NamesInv'
    BY DEF CarefulInv, TableInv, DiskInv, NamesInv
  <2>. QED  BY <2>1, <2>2, NextActs
<1>. QED  BY <1>1, <1>2, <1>4, <1>5, PTL DEF Spec, CommandsActOnNames, Names!Spec
===========================================================================
