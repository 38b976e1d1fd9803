------------------------------ MODULE Blocks ------------------------------
(***************************************************************************)
(* The block layer of the virtual disk: the FAT (src/src/fat.cpp) and the  *)
(* free-space bitmap (src/src/bitmap.cpp).  Both live in the reserved      *)
(* blocks of one disk buffer and are changed independently of each other:  *)
(* alloc_block looks for a free block in the FAT, find_free looks for one  *)
(* in the bitmap, and every caller has to keep the two in step itself.     *)
(*                                                                         *)
(* The walks of the C++ code along a FAT chain are not written as          *)
(* recursion.  Chain(f, b) is the least set that holds b and is closed     *)
(* under the links of f, which is exactly the set of blocks such a walk    *)
(* visits, and which can be reasoned about without induction.              *)
(***************************************************************************)
EXTENDS Integers, FiniteSets

CONSTANTS
  BlockCount,   \* BLOCK_COUNT, 1024 in the code
  DataStart     \* DATA_START, 6 in the code: the blocks below hold metadata

\* Block 0 is the super block, so 0 (FAT_EOF) is never the number of a data block.
ASSUME BlockAssumption ==
  /\ BlockCount \in Nat
  /\ DataStart \in 1 .. BlockCount - 1

VARIABLES
  fat,          \* the FAT: one entry per block
  bitmap        \* the set of blocks whose bit is set, that is, marked used

FAT_EOF  == 0
FAT_FREE == -1
NoBlock  == -1    \* static_cast<uint32_t>(-1)

Block     == 0 .. BlockCount - 1
DataBlock == DataStart .. BlockCount - 1
MetaBlock == 0 .. DataStart - 1
Root      == DataStart

FatValue == DataBlock \cup {FAT_EOF, FAT_FREE}

---------------------------------------------------------------------------
(* FAT chains *)

\* The sets that hold b and that no link leaves.
ClosedSets(f, b) ==
  {S \in SUBSET DataBlock :
     b \in S /\ \A x \in S : f[x] \in DataBlock => f[x] \in S}

\* The blocks visited by a walk that starts at b and ends at FAT_EOF or
\* FAT_FREE: free_chain, chain_size, foreach_entry and the search for the tail.
Chain(f, b) ==
  LET closed == ClosedSets(f, b) IN {x \in DataBlock : \A S \in closed : x \in S}

\* The last block of the chain of b; no such block if the chain is a cycle.
Tails(f, b) == {x \in Chain(f, b) : f[x] \in {FAT_EOF, FAT_FREE}}

\* Slip: the walk stops before it has freed the last block.
FreeChainKeepsEnd(f, b) ==
  [x \in Block |-> IF x \in Chain(f, b) \ Tails(f, b) THEN FAT_FREE ELSE f[x]]

\* free_chain.
FreeChain(f, b) == [x \in Block |-> IF x \in Chain(f, b) THEN FAT_FREE ELSE f[x]]

\* nth_block: the block n links after b, NoBlock past the end of the chain.
NthBlock(f, b, n) ==
  LET nth[k \in 0 .. n] ==
        IF k = 0 THEN b
        ELSE IF nth[k-1] = NoBlock \/ f[nth[k-1]] <= 0 THEN NoBlock
             ELSE f[nth[k-1]]
  IN  nth[n]

\* Chains that start at the blocks of H are sound: links lead from used data
\* blocks to used ones, no two lead to the same block, and none leads to a block
\* of H, which are used.  Each of the conjuncts looks at single links only.
Sound(f, H) ==
  /\ \A x \in MetaBlock : f[x] = FAT_FREE
  /\ \A x \in Block : f[x] \in DataBlock => f[f[x]] # FAT_FREE
  /\ \A x, y \in Block : f[x] \in DataBlock /\ f[x] = f[y] => x = y
  /\ \A h \in H : f[h] # FAT_FREE /\ \A x \in Block : f[x] # h

---------------------------------------------------------------------------
(* Choosing a free block *)

\* The lowest block of a set, as a set: empty when there is none.
Lowest(S) == {b \in S : \A c \in S : b <= c}

\* alloc_block scans the FAT ...
FatFree(f) == {b \in DataBlock : f[b] = FAT_FREE}

\* ... and find_free the bitmap.
FindFree(u) == Lowest(DataBlock \ u)

\* Slip: the new end of the chain is not marked as its end.
LinkedWithoutEnd(f, t, b) == [f EXCEPT ![t] = b]

\* The FAT after alloc_block has appended b to the chain that ends at t.  When
\* the chain was freed before, t is free, and may be b itself.
Linked(f, t, b) == [f EXCEPT ![b] = FAT_EOF, ![t] = b]

---------------------------------------------------------------------------
(* DiskIO::format: the root directory owns the first data block *)

FormatFat    == [b \in Block |-> IF b = Root THEN FAT_EOF ELSE FAT_FREE]
FormatBitmap == MetaBlock \cup {Root}

BlocksTypeOK ==
  /\ fat \in [Block -> FatValue]
  /\ bitmap \in SUBSET Block
===========================================================================
