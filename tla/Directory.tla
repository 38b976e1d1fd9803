----------------------------- MODULE Directory -----------------------------
(***************************************************************************)
(* Directories (src/src/directory.cpp).  A directory is a chain of blocks  *)
(* of EntriesPerBlock slots; a slot whose name is empty is free.  dir[d]   *)
(* is the set of the entries of the directory whose first block is d, and  *)
(* is empty for every block that is not the first block of a directory.    *)
(* A chain of a directory never shrinks (remove_entry only empties the     *)
(* slot), so there is a free slot exactly when the directory has fewer     *)
(* entries than its chain has slots; which slot an entry sits in and the   *)
(* two time stamps of an entry are left out.                               *)
(***************************************************************************)
EXTENDS Blocks

CONSTANTS
  Name,             \* the names a user types, "." and ".." apart
  Dot, DotDot,      \* "." and ".."
  Stored,           \* the name that is left of each name in the 56 bytes of
                    \* a slot: names of more than 55 characters are cut
  EntriesPerBlock   \* ENTRIES_PER_BLOCK, 13 in the code

ASSUME DirectoryAssumption ==
  /\ Dot # DotDot /\ Dot \notin Name /\ DotDot \notin Name
  /\ Stored \in [Name -> Name]
  /\ EntriesPerBlock \in Nat \ {0, 1}

VARIABLE dir

Dots    == {Dot, DotDot}
AnyName == Name \cup Dots

ATTR_FILE == "file"
ATTR_DIR  == "dir"

Entry == [name : AnyName, first : DataBlock, size : Nat, attr : {ATTR_FILE, ATTR_DIR}]

StoredName(n) == IF n \in Dots THEN n ELSE Stored[n]

NewEntry(n, b, a) == [name |-> StoredName(n), first |-> b, size |-> 0, attr |-> a]

\* find: the entries a search for n matches.  The code takes the first in slot
\* order; there is more than one only when two long names were cut to the same.
Find(ds, d, n) == {e \in ds[d] : e.name = n}

\* Slip: ".." is listed too.
ListedWithParent(ds, d) == {e \in ds[d] : e.name # Dot}

\* list, and what is_empty counts: everything but "." and "..".
Listed(ds, d) == {e \in ds[d] : e.name \notin Dots}

\* parent_block, "." and ".." of a new directory: init_dir.
ParentBlock(ds, d) ==
  IF Find(ds, d, DotDot) = {} THEN d
  ELSE (CHOOSE e \in Find(ds, d, DotDot) : TRUE).first

\* Slip: ".." leads to the directory itself.
InitDirWithoutParent(d, parent) ==
  {NewEntry(Dot, d, ATTR_DIR), NewEntry(DotDot, d, ATTR_DIR)}

InitDir(d, parent) == {NewEntry(Dot, d, ATTR_DIR), NewEntry(DotDot, parent, ATTR_DIR)}

FormatDir == [b \in Block |-> IF b = Root THEN InitDir(Root, Root) ELSE {}]

---------------------------------------------------------------------------
(* add_entry, that is write_entry_to_dir *)

\* Slip: one slot too many.
HasRoomForOneMore(f, ds, d) ==
  Cardinality(ds[d]) <= EntriesPerBlock * Cardinality(Chain(f, d))

HasRoom(f, ds, d) ==
  Cardinality(ds[d]) < EntriesPerBlock * Cardinality(Chain(f, d))

\* The directory has to grow, and nothing is left of the disk, or the chain does
\* not end at FAT_EOF.
AddFails(f, ds, d) ==
  /\ ~HasRoom(f, ds, d)
  /\ FatFree(f) = {} \/ \A t \in Tails(f, d) : f[t] = FAT_FREE

\* Slip: the block the directory grows by is not marked used.
AddEntryUnmarked(f, u, ds, d, e) ==
  /\ dir' = [ds EXCEPT ![d] = @ \cup {e}]
  /\ bitmap' = u
  /\ \/ HasRoom(f, ds, d) /\ fat' = f
     \/ /\ ~HasRoom(f, ds, d)
        /\ \E b \in Lowest(FatFree(f)), t \in Tails(f, d) :
             f[t] = FAT_EOF /\ fat' = Linked(f, t, b)

\* The entry goes into a free slot, or into a block the chain grows by.  f, u
\* and ds are the FAT, the bitmap and the directories the caller has built.
AddEntry(f, u, ds, d, e) ==
  /\ dir' = [ds EXCEPT ![d] = @ \cup {e}]
  /\ \/ HasRoom(f, ds, d) /\ fat' = f /\ bitmap' = u
     \/ /\ ~HasRoom(f, ds, d)
        /\ \E b \in Lowest(FatFree(f)), t \in Tails(f, d) :
             f[t] = FAT_EOF /\ fat' = Linked(f, t, b) /\ bitmap' = u \cup {b}

\* One entry takes the place of another of the same directory: a size written
\* back, a new name.
Replaced(ds, d, old, new) == [ds EXCEPT ![d] = (@ \ {old}) \cup {new}]

DirectoryTypeOK ==
  /\ BlocksTypeOK
  /\ dir \in [Block -> SUBSET Entry]
===========================================================================
