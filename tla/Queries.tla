------------------------------ MODULE Queries ------------------------------
(***************************************************************************)
(* What the commands that only look show (src/src/fs_core.cpp): tree walks *)
(* down the directories, du and stat follow the FAT, df counts the bits of *)
(* the bitmap.  They change nothing, and each believes one of the three    *)
(* structures; that their answers fit together is for the others to keep.  *)
(***************************************************************************)
EXTENDS FileSystem, FiniteSetsExt

---------------------------------------------------------------------------
(* tree *)

\* Slip: "." and ".." are printed, too.
BelowWithDots(path) ==
  LET e == path[Len(path)]
  IN  IF e.attr = ATTR_DIR THEN {Append(path, k) : k \in dir[e.first]} ELSE {}

\* The lines printed under the line of an entry: none for a file, one for each
\* entry of a directory.
Below(path) ==
  LET e == path[Len(path)]
  IN  IF e.attr = ATTR_DIR THEN {Append(path, k) : k \in Listed(dir, e.first)} ELSE {}

\* A line stands for a sequence of entries from the root down.  As there are no
\* more directories than blocks, a walk that is deeper does not end.
Lines ==
  LET level[k \in 0 .. BlockCount] ==
        IF k = 0 THEN {<<e>> : e \in Listed(dir, Root)}
        ELSE UNION {Below(path) : path \in level[k - 1]}
  IN  UNION {level[k] : k \in 0 .. BlockCount}

---------------------------------------------------------------------------
(* du, stat, df *)

\* The blocks du and stat tell of an entry.
Occupied(e) == Cardinality(Chain(fat, e.first))

\* The blocks df calls used.
UsedCount == Cardinality(bitmap)

---------------------------------------------------------------------------
(* Properties *)

\* tree comes to an end and shows every file and directory there is exactly once
\* (print_tree, against what create, mkdir, rename, remove and rmdir made of the
\* entries).
TreeShowsEachOnce ==
  /\ \A path \in Lines : Len(path) <= BlockCount
  /\ \A d \in DataBlock : \A e \in Listed(dir, d) :
       Cardinality({path \in Lines : path[Len(path)] = e}) = 1

\* What df calls used is enough for all that tree shows, with the sizes du gives,
\* together with the root and the reserved blocks: the space that df calls free is
\* not taken (the bitmap against the FAT and the entries).
DfCoversTree ==
  UsedCount >= DataStart + Cardinality(Chain(fat, Root))
                 + MapThenSumSet(LAMBDA path : Occupied(path[Len(path)]), Lines)
---------------------------------------------------------------------------
(* What the directory commands promise *)

NamesOf(path) == [k \in DOMAIN path |-> path[k].name]

\* The kind of what tree shows, by the names that lead to it.
KindsByPath ==
  LET lines == Lines
  IN  [p \in {NamesOf(path) : path \in lines} |->
         LET line == CHOOSE path \in lines : NamesOf(path) = p IN line[Len(line)].attr]

Names == INSTANCE NameTree WITH
  Argument <- Paths,
  File     <- ATTR_FILE,
  Dir      <- ATTR_DIR,
  kind     <- KindsByPath,
  cwd      <- path_stack,
  walk     <- IF op.cmd = "cd"
              THEN [on |-> TRUE, at |-> op.stack, rest |-> op.segs] ELSE [on |-> FALSE]

\* The commands act on a tree of names as its users see it: what is made, removed and
\* renamed is what the path in the prompt and the name say, nothing else comes, goes or
\* moves, and cd, which follows block numbers and "..", arrives where the names lead
\* (mkdir, rmdir, rename, cd, format, create and remove).
CommandsActOnNames == Names!Spec
=============================================================================
