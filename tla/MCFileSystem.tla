--------------------------- MODULE MCFileSystem ---------------------------
(* Small instances of FileSystem for TLC. *)
EXTENDS CarefulUse, Queries

CONSTANTS a, b

NoCut == [n \in Name |-> n]

\* No segment, one, and two in each of the orders of down and up; the empty path from
\* the root is "/".
ShortPaths == {<<>>} \cup {<<x>> : x \in Name \cup {DotDot}}
                \cup {<<a, b>>, <<a, DotDot>>, <<DotDot, b>>, <<DotDot, DotDot>>}
NoPaths    == {}
OneSegment == {<<>>} \cup {<<x>> : x \in Name \cup {DotDot}}

Careful == {"close before delete", "close before rename",
            "close before format", "keep dots", "slash paths", "counts in range"}
\* A user who deletes, renames and formats under open files, and reads any count.
DotsAndSlashes == {"keep dots", "slash paths"}
RenamesOpenFiles == Careful \ {"close before rename"}
TypesBackslashes == Careful \ {"slash paths"}
===========================================================================
