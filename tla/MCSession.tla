----------------------------- MODULE MCSession -----------------------------
(* A small instance of Session for TLC. *)
EXTENDS Session

CONSTANT a

NoCut == [n \in Name |-> n]

OneSegment == {<<a>>, <<DotDot>>}

Careful == {"close before delete", "close before rename", "close before format",
            "close before exit", "keep dots", "slash paths", "counts in range"}
\* A user who reads any count, -1 too.
AnyCount == Careful \ {"counts in range"}
ExitsWithOpenFiles == Careful \ {"close before exit"}
===========================================================================
