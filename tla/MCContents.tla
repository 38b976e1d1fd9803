----------------------------- MODULE MCContents -----------------------------
(* A small instance of Contents for TLC. *)
EXTENDS Contents, TLC

CONSTANTS n1, n2, x, y

NoCut == [n \in Name |-> n]

\* A text that crosses from one block into the next.
OneText == {<<x, y, x>>}

\* The two names are alike; the properties are all of safety.
Names == Permutations({n1, n2})

Careful == {"close before delete", "close before rename", "close before format",
            "keep dots", "slash paths", "counts in range"}
=============================================================================
