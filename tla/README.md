# A TLA+ model of OS-File-Management

The program is a file system in one file: a 1 MB disk buffer with a FAT, a
bitmap and multi-level directories, a shell with 19 commands on top of it, and
an image `data/fs.fsimg` that carries the buffer from one run to the next. This
directory holds a TLA+ model of it, the configurations TLC checks it with, and
TLAPS proofs.

## The system

| part | source | state | operations |
|------|--------|-------|------------|
| FAT | `fat.cpp` | one entry per block: next block, end, free | `alloc_block`, `free_chain`, `nth_block`, `chain_size` |
| bitmap | `bitmap.cpp` | one bit per block | `find_free`, `mark_used`, `mark_free`, `free_count` |
| directories | `directory.cpp` | slots of 76 bytes in the blocks of a chain | `find`, `list`, `add_entry`, `remove_entry`, `rename_entry`, `init_dir`, `is_empty`, `parent_block` |
| files | `file_op.cpp` | `sys_files_` (one record per opened file), `user_fds_`, `next_fd_` | `create`, `open`, `close`, `read`, `write`, `remove`, `seek`, `cat` |
| core | `fs_core.cpp` | `cur_block_`, `path_stack_` | `mkdir`, `rmdir`, `cd`, `rename`, `format`, `start`, `exit_fs`, queries |
| disk and image | `disk_io.cpp`, `super_block.cpp` | the buffer, the image file, the count of free blocks | `format`, `load`, `save` |
| program | `main.cpp`, `shell.cpp`, `commands.cpp` | where the run has got to | the start menu, one command after another, `exit` |
| output, text | `ui.cpp`, `utils.cpp` | none | formatting, `split_path` |

There is one thread. What makes the program hard is not concurrency but
redundancy: the same fact is kept in several places, and every operation has to
keep them in step itself.

* A block is free in the FAT *and* in the bitmap. `create` and `mkdir` take their
  block from the bitmap, `write` and a growing directory from the FAT.
* The size of a file is in its entry, in its record while it is open, and in the
  length of its chain. `close` brings the first two together by looking for a
  name; `open` recognises an open file by its first block.
* The place of a directory is in its parent's entry, in its own `..`, in
  `cur_block_` and in `path_stack_`.
* The disk is in the buffer and in the image; the super block has a count of
  what the bitmap says.

The hazards that follow from this are listed in `PROJECT.json`, each at its line
and with the properties that would notice it. In short, per part:

* blocks: no block in two chains, no chain with a free block in it, bitmap and FAT
  in agreement (`NoSharedBlocks`, `ChainsIntact`, `BitmapCoversFat`,
  `FreedIsReclaimed`, `Isolation`), and all of it together as a pool in which each
  file or directory owns its blocks (`BlocksMoveAsPool`);
* directories: a slot for every entry, no name twice, `..` the way back, no
  directory below itself, none lost (`EntriesFit`, `UniqueNames`, `ParentLinks`,
  `TreeIsFinite`, `DirectoriesListed`);
* open files: one record per file, as many references as descriptors, the record of
  the right file, the cursor inside it, the size kept (`OneRecordPerFile`,
  `DescriptorsCounted`, `OpenFilesListed`, `OpenLeadsToFile`, `CursorInFile`,
  `CloseSavesSize`, `SizeMatchesChain`), no undefined behaviour (`NeverLost`), and
  all of it together as files that are sequences of bytes (`FilesAreByteSequences`), which
  `cat` shows as a whole (`CatShowsAll`);
* core: the working directory exists and the prompt names it (`CwdIsDirectory`,
  `PwdNamesCwd`), commands act on the names their user sees (`CommandsActOnNames`), commands end (`WritesReturn`, `CommandsReturn`), what `tree`, `du`
  and `df` show fits together (`TreeShowsEachOnce`, `DfCoversTree`);
* program: behind every prompt there is a sound disk, whatever the runs before it
  did, and an image is not destroyed without consent (`DiskSound`, `SizesSurvive`,
  `SavedFreeCount`, `KeptUnlessAgreed`).

## The modules

The state of the program is built up in five modules, each of which EXTENDS one
before it: `Blocks`, `Directory`, `FileOps`, then `FileSystem` and, on top of that,
`Session`. `Contents` extends `FileOps`; `CarefulUse` and `Queries` extend
`FileSystem`.

* `Blocks`: `fat`, a function from blocks to links, and `bitmap`, the set of blocks
  marked used. A walk along a chain is written as the least set closed under the
  links, `Chain`; it is the set of blocks the loop visits, on circular chains too.
* `Directory`: `dir[d]`, the set of entries of the directory whose first block is
  `d`. `AddEntry` is `write_entry_to_dir`: a free slot, or a block appended to
  the chain. Which slot an entry has is left out, so is the time.
* `FileOps`: `sys_files`, `user_fds`, `next_fd`, and one action per operation of
  `FileOperator`. `write` is `Write` (the lookup), one `WriteBlock` per turn of its
  loop and `WriteEnd`; `op` holds the running command, and nothing else starts
  before `op` is `Idle`. Where the program goes on in a way the language does not
  define, or that depends on bytes which are not kept, `op` becomes `Lost`, and the
  commands that follow are not modelled. There are three ways there. Text is written over
  the entries of a directory, after a file has been deleted, or the disk formatted, while
  the file was open. Or `close` looks for a name in the block of a directory that has been
  removed, and the block serves as something else by now (`Recycled`). Or `read` is asked
  for -1 bytes: the command passes that on as 2^32 - 1 with an empty buffer, the sum with the cursor is taken in 32 bits (`WordSize`), and
  the cut to what the file has comes too late (`Cut`, `Overruns`). Other negative counts
  throw when the buffer is made, before anything is read.
* `Contents`: `FileOps` with `data`, the bytes of the blocks, `typed`, what is left of
  the text of a running `write`, and `answer`, what the last command printed. `cat` is
  here, and the operations that move bytes. A block that is taken or given back is not
  cleared, as in the code.
* `ByteFiles`: what the file operations promise, without blocks: a file is a sequence
  of bytes (`text`), of which its directory knows a prefix (`kept`); it has one cursor
  however often it is open; a write appears piece by piece and ends early only
  on a full disk. `cat` shows `kept`, since the code goes by the entry: of an open file that
  may be less than its text (`cat_open`). `Contents` implements it. The mapping, in
  `Contents`: the text of a file is
  what its chain holds up to its size (the record's while it is open, the position
  reached while it is written), `kept` the size in its entry, the writer the command
  in its loop.
* `FileSystem`: `cur_block`, `path_stack`, the directory commands, `cd` with one
  action per segment of its path, `format`, and the file commands in the working
  directory.
* `BlockPool`: what the block layer promises: an owner, known by its first block, is
  claimed, grows by free blocks, and gives all its blocks back at once; no FAT, no
  bitmap, no links.
* `CarefulUse`: `UsedWithCare`, the habits under which the disk stays sound, `DiskInv`,
  the invariant that then holds, and the mapping from `FileSystem` to `BlockPool`: an
  owner is the first block of a file or directory, and owns its chain.
* `NameTree`: what the directory commands promise: a file or directory is its path, the
  commands make, remove and move paths, and `cd` follows names. No entries, no block
  numbers, no `..`.
* `Queries`: what `tree`, `du`, `stat` and `df` show. They change nothing, so they are no
  actions; `Lines` is the set of lines `print_tree` prints, each the sequence of entries
  that leads to it. The mapping from `FileSystem` to `NameTree` is here, since a path exists
  when `tree` shows it; the working directory is the path in the prompt, not `cur_block`,
  so that the two are compared with every command.
* `Session`: `phase` (where `main` is), `image`, `free_blocks`. `save` opens the
  file anew, so it may leave the image as it is, written in part, or written; a
  run may be cut off between any two steps. A run that is `Lost` may have anything in its
  buffer, text in the place of entries for one; what its `exit` or `format` saves
  (`SaveLost`) is an image that is marked as unknown, which a later run may load, and is then
  `Lost` from its start (`LoadUnknown`), or may find to be no good and replace.
* `FileSystemProofs`, `CarefulProofs`, `PoolProofs`, `SizeProofs`, `ContentsProofs`,
  `TreeProofs`, `NameProofs`, `SessionProofs`: the proofs about `Blocks` and about
  `FileSystem` with any user; with a careful one; that it then implements `BlockPool`, and
  that entries fit; that files have the blocks their sizes call for; that `Contents`
  implements `ByteFiles`; about `Queries`; that `FileSystem` implements `NameTree`; and
  about `Session`.
* `MCFileOps`, `MCContents`, `MCFileSystem`, `MCSession`: definitions for the
  configurations.

Two conventions. *Habits*: the constant `Habits` says what the user takes care
of, for instance to close a file before deleting it. A habit is a guard on a
command in the next-state relation and never part of the operation, so the same
operations are examined with careful and with careless users. *Slips*: a
definition commented as a slip is a variant of the one below it with a mistake
one could make in that piece of code. No action uses it; put in the place of
the original it makes the property violated that is meant to catch the mistake,
and `PROJECT.json` says which.

## What TLC checks

All runs use `DataStart = 1` (one block stands for the metadata), directories
with 3 slots a block of which `.` and `..` take two, and blocks of 1 or 2
bytes. What matters about a size is whether it fills a block, crosses into the
next or finds the disk full, and about a directory whether it grows; disks of 4
to 6 blocks are small enough to be full, and large enough for two files, one of
several blocks, and a grown directory.

| run | shows |
|-----|-------|
| `files_careful` | 5 data blocks of 2 bytes, a text of 3 bytes made of two different ones, two names, two descriptors. The operations with their bytes implement `ByteFiles` for a user who closes files before deleting them: through partly filled blocks, growth of files and of the root directory, a full disk in the middle of a write and of a create, blocks used a second time, and two descriptors on one file. That FAT, bitmap and sizes agree is checked along with it; the other invariants of `FileOps` are left to the next two runs. |
| `files_any` | 3 data blocks of 1 byte, two names, two descriptors, with directories. Files are deleted and renamed and the disk is formatted while they are open, and written to afterwards, which makes circular chains; `read` is asked for -1 bytes too. The reference counts, the cursors and the sharing of records hold even so, no entry is lost, and every `write` ends. |
| `tree_careful` | 4 data blocks, two names, paths of no segment, one, and two in each order of down and up, from a prompt of up to three, with `mkdir`, `rmdir`, `cd`, `rename`, `format` and all file commands. The directories form a tree, `..` leads to the parent, the prompt tells the truth, `tree` shows everything once, what `df` calls free is not taken, files and directories do not share blocks, nothing undefined happens, every command ends, the blocks move as in `BlockPool`, and names as in `NameTree`. `DiskInv`, from which most of this follows, is checked too, before it is proved. |
| `restarts` | 3 data blocks, one name. Any number of runs of the program on one image, cut off anywhere, with saves that fail, and with `read` of -1 bytes, after which a run is lost, saves, and is loaded again. The disk behind the prompt of a run that is not lost is sound, and the files have the sizes their blocks call for; an image that is not marked as unknown is missing, cut short, or a disk with the right count of free blocks. |

Words are taken modulo `WordSize = 16`, in which 15 stands for the count -1 and 14 is
the largest count that is in range. In `files_careful` the two names are
interchangeable; all its properties are of safety, so the symmetry is sound.

`MaxFds` bounds the number of opens, `MaxCursor` where a write may start (a
circular chain would let a file grow for ever), `MaxDepth` the length of the
prompt. All three are guards on commands; behind the bound the commands are
simply not typed. They are large enough that a file has two descriptors and
more than one block, and that a record is left over by an earlier open. Deadlock is
not looked for: when the bounds are used up and the disk is full the user may
have nothing to type, and `Lost` ends a behaviour on purpose.

Fairness is weak fairness of the program's own steps, the turns of the loops of
`write` and `cd` and the last step of `main` before the prompt, which formats when
nothing was loaded: there is one thread, and it waits for nothing there. The questions of
`main` and the prompt wait as long as nothing is typed, so the steps that need an answer are
under no fairness, and no property says that the prompt is reached. Nothing is assumed
about the user.

The other runs each show one statement of the documentation, a comment or a message
that the code does not keep. TLC's counterexamples are the shortest sequences of
commands that show it:

| run | statement | what happens |
|-----|-----------|--------------|
| `delete_reclaims` | `README.md:44`, delete reclaims all blocks | only the bit of the first block is cleared |
| `open_stale` | `README.md:40`, `file_op.cpp:38`, open opens the file | after `delete` of an open file the next file on that block gets its record |
| `cat_open` | `README.md:50`, `file_op.cpp:230`, cat prints the whole content of the file | of an open file only what was there when a descriptor was last closed, while `read` shows all |
| `rename_open` | `README.md:41`, close writes the size back | not after a rename |
| `mkdir_full` | `README.md:30`, `commands.cpp:31`, the directory was created | the parent could not grow; the block is lost |
| `cd_backslash` | `fs_core.cpp:70,105`, separators are unified, pwd is the current path | `cd \a` shows another path |
| `refuse_format` | `main.cpp:27`, formatting is confirmed | "n" formats too |
| `exit_open` | `README.md:69`, what was saved on exit is restored | sizes of open files are not saved |

Known as well, but without a run of its own. `rename` takes `.` and `..` for old names, which
`rmdir` does not (`fs_core.cpp:153`); under another name `.` of the root is listed below
the root, or by `..` a parent below its own child, and `tree`, which should show the whole
directory (`README.md:54`), recurses without end. Without the habit "keep dots",
`TreeIsFinite` fails after one such step. And a name of more than 55 characters is
cut when it is stored and compared in full when it is looked for
(`directory.cpp:35`), so it is never found, and `create` makes it twice; with a
`Stored` that cuts, `UniqueNames` fails after two steps. The runs use names that
are not cut.

## What is proved

All theorems hold for every value of the constants that the ASSUMEs of the modules
allow (disk size, block size, names, bounds).

`FileSystemProofs` proves, for every set of habits:

* `TypeCorrect`: `TypeOK`;
* `CountsAreExact`: `DescriptorsCounted`;
* `RecordsAreShared`: `OneRecordPerFile`;
* `CursorsInFiles`: `CursorInFile`.

`TypeOK` is not inductive: `close` takes a size out of `sys_files[u.file]`, which
has a type only if the descriptor leads to a record, and a running `write`
keeps such an index too. `TypeInv` adds both; they hold because records are never
removed. One lemma per action shows that it keeps `TypeInv`, from lemmas about
what the operators of `Blocks` and `Directory` return.

For the three others the invariant is `TableInv`: `TypeInv`, the three
properties, and `FdsFresh` (the descriptors are finitely many and below
`next_fd`, so a new one is not counted already). Most actions leave the tables
alone (`TablesKept`); `Read` and `WriteEnd` replace one record by one with the same
first block and count (`CursorStep`); `Open` and `Close` change the set of
descriptors by one, and the cardinality with it.

`CarefulProofs` assumes `UsedWithCare`: files are closed before they are deleted and
before the disk is formatted, and `.` and `..` are not renamed. The first two
cannot be dropped (`files_any` and `open_stale` show what happens), nor can the
third (see `rename` of dots above). It proves

* `DiskStaysSound`: `DiskInv`, and from it
* `BlocksNotShared`, `ChainsStayIntact`, `BitmapKeepsUp`: `NoSharedBlocks`,
  `ChainsIntact`, `BitmapCoversFat`;
* `OpenFilesStayListed`, `CwdStaysInTree`, `DirectoriesFormTree`:
  `OpenFilesListed`, `CwdIsDirectory`, `TreeIsFinite`, and `ParentsLeadBack`: `ParentLinks`;
* `NamesStayUnique`: `UniqueNames`, if no name is long enough to be cut.

Nothing about chains is inductive by itself, because an action changes single links.
`DiskInv` therefore speaks of links: `Sound(fat, Heads)` says that links lead from
used blocks to used blocks, that no two lead to the same block, and that none
leads to the first block of a file or directory. The first half of `FileSystemProofs` shows
what this says of whole chains. Since a chain is the least closed set, it is enough each time to
exhibit a closed set: the used blocks, for chains without a free block; the chain
of one head without that of another, for disjointness. That a chain has an end
is the pigeonhole principle: without an end its links would map it one to one into
itself without the first block. `SoundClaim`, `SoundGrow` and `SoundFree`
are the three ways in which the FAT changes.

The other conjuncts of `DiskInv` are what makes the preconditions of these true. The
blocks that `create` and `mkdir` take from the bitmap are free because
`BitmapCoversFat`; `remove` and `rmdir` free the chain of a head because what is listed
is a head, and no other entry loses its blocks because entries are distinct;
`write` appends to a chain that ends because an open file is listed. Conversely
`CountsAreExact` is needed to know that a file without a descriptor has no record
in use. The lemma `OneBitReleased` is the cause of the divergence
`delete_reclaims` in general form: whatever the chain, `remove` clears one bit.

`PoolProofs` (with `UsedWithCare`) proves the refinement

* `BlocksFormPool`: `BlocksMoveAsPool`, that is, `FileSystem` implements `BlockPool`;
* `PoolHasOneOwner`: whoever relies on `BlockPool` alone has no block with two owners;
* `FilesStayApart`: `Isolation`.

Every command is first shown to move blocks in one of six ways (`Moves`): it leaves
them alone, takes a first block, appends to a chain, does both, gives a chain back
(`MovesSome`), or formats (`StartsAfresh`). Each way is then one step of `BlockPool`, by
what `SoundClaim`, `SoundGrow` and `SoundFree` say of the chain that changes
and of the others. The same six ways give `Isolation`: what grows is a directory or the
file being written.

It also proves `DirectoriesFitBlocks`: `EntriesFit`. The invariant `AllFit` adds
that the entries of a directory are finitely many, without which a cardinality
says nothing. In the ways of `MovesSome` the chain of what stays never gets shorter
(`ChainsKept`), and what `AddEntry` puts in has a slot or brings a block with it.

`SizeProofs` proves

* `StaysDefined`: `NeverLost`, with `UsedWithCare` and counts that do not wrap around
  ("counts in range");
* `SizesMatchChains`: `SizeMatchesChain`;
* `ClosingSavesSize`, `OpeningLeadsToFile`: `CloseSavesSize`, `OpenLeadsToFile`.

The last three assume `Orderly`: `UsedWithCare`, names that are not cut (`NothingCut`), and
files that are closed before they are renamed; `rename_open` shows why. The
invariant is `SizeInv`. `RecordsNamed` says that the entry of an open file has the name
in its record, which is what `close` relies on. `ClosedSizes` says that the chain of a
closed file has as many blocks as the size in its entry calls for, `OpenSizes`
the same of an open one and the size in its record. While a `write` is in its loop, the
size counts as the position reached (`GrownSize`): a block is appended exactly when the
position is behind the chain. That needs to know which block the walk of `nth_block` comes
to, and that it comes to none exactly when the chain is too short. Both are proved in
`FileSystemProofs` (section *Counting*) from the number of blocks behind each block of a
chain.

`ContentsProofs` assumes `OrderlyReads`: `Orderly`, and counts that do not wrap around. It proves

* `BytesWellTyped`: `ContentsTypeOK`;
* `FilesHoldTheirBytes`: `FilesAreByteSequences`, that is, `Contents` implements `ByteFiles`.

`Contents` works in the root directory, and the working directory does not occur in
`ContentsSpec`. Both theorems therefore add `[]AtRoot`, which says that it is the root: any
behaviour of `Contents` is one with `AtRoot` when the two variables nobody mentions are given
these values. Every step but `seek` and `cat` is then a step of `FileSystem`, whose
invariants hold here too. `ContentsInv` adds that all files are in the root directory
(`FlatRoot`), that the entry of an open file is never ahead of its record
(`EntriesBehind`: `cat` goes by the entry, `read` by the record), that descriptors differ
(`FdsApart`), and that what a `write` has still to store is as long as its counter says
(`BytesTyped`).

The text of a file is mapped to the bytes at its places along the chain, as far as its size,
or the position of the `write` under way, whichever is more. Three facts carry the proof: a
step that leaves links, size and bytes of a chain alone leaves the text alone (`TextKept`);
a turn of the loop of `write` changes the bytes of one block, and chains are disjoint,
so that the texts of all other files are kept (`TurnExtents`); and two places of one file are the
same byte of the disk only if they are the same place, since `nth_block` comes to each block
of a chain once, so that in the file written exactly the bytes of this turn change
(`TurnText`). A block appended in the same turn may still hold the bytes of its last owner behind the
part, which do not show because the text ends with the part.

`TreeProofs` (with `UsedWithCare`) proves `TreeShowsAll`: `TreeShowsEachOnce`, and
`DfCountsAll`: `DfCoversTree`. A line of `tree` is a sequence of entries, each listed where
the one before leads. `Lines`, built level by level, is shown to be the set of these
sequences; two that end in one entry are the same, by going up both of them, since an entry
is listed in one directory; there is one for each directory because `TreeIsFinite`
lets one climb to the root; and its directories are all different, so that it is no longer
than the disk. For `df` the chains at the ends of lines are disjoint, and the sum over the lines
is the number of blocks in their union. Its invariant adds that the reserved blocks stay
marked (`MetaMarked`).

`NameProofs` assumes `UsedWithCare`, `NothingCut`, and a user who does not type a path
that starts with a backslash ("slash paths", see `cd_backslash`), and proves

* `PromptIsPath`: `PwdNamesCwd`;
* `NamesImplemented`: `CommandsActOnNames`, that is, `FileSystem` implements `NameTree`.

`PwdNamesCwd` is not inductive: a `cd` that is under way becomes the prompt when it
arrives. `PathInv` says of both the prompt and the running `cd` that there is a *trail*, a
sequence of directory entries from the root down, that has these names and ends at that
block; `..` cuts it by one because `ParentLinks` holds, and with `UniqueNames` it is what the
path resolves to. A command can change what is listed in one of four ways
(`DirEffect`): not at all but for sizes, by one entry with nothing below it more or less,
or by one entry under another name, with all that is below it unmoved; always in the
working directory. A trail that does not pass through the entry that changes is kept, and
the trail to the working directory does not, as it would be listed below itself.

For the refinement each of the four is one step of `NameTree`. The paths there are the
names of lines, and names tell lines apart (`RunByName`). With one entry more there is exactly
one line more (`LinesMore`), and none goes on behind it (`LineStops`). With an entry renamed,
the lines with the old name in the place of the directory are those with the new one
(`RenameLine`); exchanging one for the other is its own inverse (`SwapBack`), so that the
`CHOOSE` of `NameTree!Rename` finds the path it should. A step of `cd` goes to a path that is
a directory because a trail leads there (`LeadsToDir`), and gives up only if no path of that
name is one (`DirLeads`).

`SessionProofs` proves

* `SessionTypeCorrect`: `SessionTypeOK`, for every user;
* `FreeCountIsSaved`: `SavedFreeCount`, for every user;
* `RunsGoOn`: `DiskSound`, with `UsedWithCare`;
* `SizesSurviveRuns`: `SizesSurvive`, with `Orderly` and files closed before exit.

What the first two say of images holds for those not marked as unknown. The marked ones,
and what is in memory once a run is `Lost`, are not described by the variables, which then
just keep the values they had; `DiskSound` leaves such runs out. For a user who takes care, only
a count that wraps around in `read` can lose a run (`StaysDefined`).

For the first two, `SessionInv` adds that no file is open before the prompt: a disk
that is loaded under an open file would leave a descriptor without a type. For the
third, the image has to satisfy what the buffer does. `Img` is an instance of
`CarefulUse` in which the image's fields stand for FAT, bitmap and directories, and
`ImageSound` is `DiskInv` of it, as far as it speaks of the disk. Saving carries it from the
buffer to the image, loading carries it back, and an image that was not
written, or in part, is the old one or is not loaded. Inside a run, `SessionProofs`
uses that every command is a step of `FileSystem`, for which `CarefulProofs` has
proved the invariant. "close before exit" is not needed for it: it is the sizes of
files that an exit with open files loses (`exit_open`), not the soundness of the disk.

For `SizesSurvive`, `OrderlySessionInv` keeps `SizeInv` while a run is under way and not lost
(`LostStays`: it stays lost, and no command of it is looked at), and of an
image that can be loaded that every file in it has the blocks the size in its entry calls for
(`ImageFits`). At an exit without open files the two say the same; the records do not
outlive the run, and nothing else of `SizeInv` is needed by the next one.

Induction. The library's induction theorems take a predicate as a parameter, which the
provers here cannot instantiate. Where a property rests on a definition by recursion (the walk of
`nth_block`, `Lines`, `Resolved`, the sum over lines), the proof takes the least element of
the set of counterexamples instead (`WFMin` of the library, or the smallest natural
number), and shows the recursive function to be the one that satisfies its equation.

Every invariant and every action property of the passing runs is proved, and so are the
refinements. Only model-checked is what holds under fairness, since liveness and `ENABLED`
are beyond the prover, and the violations, which are single behaviours.

## Not modelled

* Slot order, time stamps, the constant fields of the super block, bits within a byte.
* Text: splitting of lines and paths, aliases, help, conversion of numbers, the layout
  of what is printed, `format_size`, `format_time`, `ui.cpp`. A name is a value; cutting
  of long names is the function `Stored`. A name with a backslash, which `mkdir`
  accepts and `cd` takes for two segments, is therefore not in the model.
* Sizes near 2^32: a disk has 2^20 bytes, so cursors and sizes never get there on a
  chain that ends. Only the count given to `read` is taken modulo a word.
* What follows when text or a size has been written over something else or `read` has
  overrun its buffer (`Lost`), but for its image, which is marked as unknown.
* The contents of files across directories, `rename` and `format`: `Contents` works in the
  root directory, as `FileOperator` knows a directory by its first block only.

## Plan

Modelled, checked and proved as planned: the pool of blocks, the tree of names, the sizes,
the invariants of sessions, the bytes. What could still be added:

1. *The image.* `ByteFiles` across runs: the bytes of the last exit are those the next
   run starts with.
