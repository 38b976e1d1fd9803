----------------------------- MODULE MCFileOps -----------------------------
(* Small instances of FileOps for TLC. *)
EXTENDS FileOps

CONSTANTS n1, n2

NoCut == [n \in Name |-> n]

Careful == {"close before delete", "close before rename",
            "close before format", "keep dots", "slash paths", "counts in range"}
DeletesOpenFiles == Careful \ {"close before delete"}
===========================================================================
