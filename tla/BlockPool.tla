----------------------------- MODULE BlockPool -----------------------------
(***************************************************************************)
(* What the block layer promises to files and directories: each owns its   *)
(* blocks, known by the first of them, a free block goes to one owner, and *)
(* all blocks of an owner are given back together.  There are no links, no *)
(* FAT and no bitmap here.                                                 *)
(***************************************************************************)

CONSTANTS
  Block,
  Root       \* the owner that is always there

VARIABLE owned    \* the blocks of each owner, none for a block that is no first block

Owners == {h \in Block : owned[h] # {}}
Free   == Block \ UNION {owned[h] : h \in Block}

Fresh == [h \in Block |-> IF h = Root THEN {Root} ELSE {}]

Init == owned = Fresh

\* A free block becomes the first block of a new owner.
Claim(h) ==
  /\ h \in Free
  /\ owned' = [owned EXCEPT ![h] = {h}]

\* An owner gets one more block.
Grow(d, b) ==
  /\ d \in Owners /\ b \in Free
  /\ owned' = [owned EXCEPT ![d] = @ \cup {b}]

\* A new owner needs a place in its directory, and the directory grows with it.
ClaimAndGrow(h, d, b) ==
  /\ h \in Free /\ d \in Owners /\ b \in Free \ {h}
  /\ owned' = [owned EXCEPT ![h] = {h}, ![d] = @ \cup {b}]

\* An owner goes, and all its blocks are free.
Release(h) ==
  /\ h \in Owners \ {Root}
  /\ owned' = [owned EXCEPT ![h] = {}]

Clear == owned' = Fresh

\* Most commands leave the blocks where they are.
Rest == UNCHANGED owned

Next ==
  \/ Rest
  \/ \E h \in Owners : Release(h)
  \/ \E h \in Free : Claim(h) \/ \E d \in Owners, b \in Free : ClaimAndGrow(h, d, b)
  \/ \E d \in Owners, b \in Free : Grow(d, b)
  \/ Clear

Spec == Init /\ [][Next]_owned

\* No block has two owners.
OneOwner == \A g, h \in Block : g # h => owned[g] \cap owned[h] = {}
=============================================================================
