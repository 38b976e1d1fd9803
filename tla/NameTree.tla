------------------------------ MODULE NameTree ------------------------------
(***************************************************************************)
(* What the directory commands promise, without entries, block numbers and *)
(* "..": a tree of names.  A file or directory is known by its path, the   *)
(* sequence of names that leads to it from the root, and the working       *)
(* directory is a path, too.  cd follows its argument name by name and     *)
(* takes effect when it arrives.                                           *)
(***************************************************************************)
EXTENDS Integers, Sequences

CONSTANTS
  Name,
  DotDot,       \* the segment that leads up
  Argument,     \* the arguments of cd
  File, Dir     \* the two kinds

VARIABLES
  kind,      \* the kind of each path there is, but the root
  cwd,       \* the working directory
  walk       \* the cd in progress

vars == <<kind, cwd, walk>>

There == DOMAIN kind

Resting            == [on |-> FALSE]
Walking(at, names) == [on |-> TRUE, at |-> at, rest |-> names]

Child(p, n) == Append(p, n)
Parent(p)   == IF p = <<>> THEN p ELSE SubSeq(p, 1, Len(p) - 1)
IsDir(p)    == p = <<>> \/ (p \in There /\ kind[p] = Dir)

\* q is p or below it.
Within(p, q) == Len(p) <= Len(q) /\ SubSeq(q, 1, Len(p)) = p

Empty == [p \in {} |-> Dir]

---------------------------------------------------------------------------
Init == kind = Empty /\ cwd = <<>> /\ walk = Resting

\* A new file or directory, with nothing in it.
Make(n, k) ==
  /\ Child(cwd, n) \notin There
  /\ kind' = [p \in There \cup {Child(cwd, n)} |-> IF p \in There THEN kind[p] ELSE k]
  /\ UNCHANGED cwd

\* A file or an empty directory goes, and nothing else.
Remove(n) ==
  /\ Child(cwd, n) \in There
  /\ \A p \in There : Within(Child(cwd, n), p) => p = Child(cwd, n)
  /\ kind' = [p \in There \ {Child(cwd, n)} |-> kind[p]]
  /\ UNCHANGED cwd

\* A new name moves all that is below it.
Rename(old, new) ==
  LET from == Child(cwd, old)
      to   == Child(cwd, new)
      Moved(p) == IF Within(from, p)
                  THEN to \o SubSeq(p, Len(from) + 1, Len(p)) ELSE p
  IN  /\ from \in There /\ to \notin There
      /\ kind' = [q \in {Moved(p) : p \in There} |-> kind[CHOOSE p \in There : Moved(p) = q]]
      /\ UNCHANGED cwd

Clear == kind' = Empty /\ cwd' = <<>>

---------------------------------------------------------------------------
\* cd sets out from the working directory or from the root ...
SetOut(names) ==
  /\ \E from \in {cwd, <<>>} : walk' = Walking(from, names)
  /\ UNCHANGED <<kind, cwd>>

\* ... goes to the parent or to a directory of that name ...
Step ==
  /\ walk.on /\ walk.rest # <<>>
  /\ LET n  == Head(walk.rest)
         to == IF n = DotDot THEN Parent(walk.at) ELSE Child(walk.at, n)
     IN  IsDir(to) /\ walk' = Walking(to, Tail(walk.rest))
  /\ UNCHANGED <<kind, cwd>>

\* ... gives up if there is none ...
GiveUp ==
  /\ walk.on /\ walk.rest # <<>>
  /\ Head(walk.rest) # DotDot /\ ~IsDir(Child(walk.at, Head(walk.rest)))
  /\ UNCHANGED <<kind, cwd>>

\* ... and stays where it arrives.
Arrive ==
  /\ walk.on /\ walk.rest = <<>>
  /\ cwd' = walk.at
  /\ UNCHANGED kind

\* A command that cannot be carried out, or that is about the contents of files, leaves
\* the tree alone.
Other ==
  /\ ~walk.on
  /\ \/ UNCHANGED <<kind, cwd>>
     \/ \E n \in Name : Remove(n) \/ \E k \in {File, Dir} : Make(n, k)
     \/ \E old, new \in Name : Rename(old, new)
     \/ Clear

Next ==
  \/ ~walk.on /\ \E names \in Argument : SetOut(names)
  \/ Step
  \/ (Other \/ GiveUp \/ Arrive) /\ walk' = Resting

Spec == Init /\ [][Next]_vars
=============================================================================
