------------------------------- MODULE Arena -------------------------------
(***************************************************************************)
(* The arena of a memtable (util/arena.cc): what the writer asks for, with *)
(* or without alignment, is cut from blocks that are never given back      *)
(* before the memtable itself.  Sizes are counted in units of which a word *)
(* has Align.                                                              *)
(***************************************************************************)
EXTENDS Naturals, FiniteSets, Sequences

CONSTANTS
  ArenaBlock,      \* kBlockSize of arena.cc
  Align,           \* alignment of a word; a block starts at a multiple of it
  Requests,        \* bound: sizes asked for
  MaxAllocations   \* bound: how often

\* What the theorems assume of the constants: Allocate asserts that it is asked
\* for something, and the alignment is not 0.
ArenaAssumption ==
  /\ ArenaBlock \in Nat /\ Align \in Nat \ {0}
  /\ Requests \subseteq Nat \ {0}

VARIABLES
  alloc_ptr_,                \* <<block, offset>>; block 0 is NULL
  alloc_bytes_remaining_,
  blocks_,                   \* the sizes of the blocks
  memory_usage_,
  given                      \* what was returned: block, from, bytes, aligned

vars == <<alloc_ptr_, alloc_bytes_remaining_, blocks_, memory_usage_, given>>

Init ==
  /\ alloc_ptr_ = <<0, 0>>
  /\ alloc_bytes_remaining_ = 0
  /\ blocks_ = << >>
  /\ memory_usage_ = 0
  /\ given = << >>

Gives(block, from, bytes, aligned) ==
  given' = Append(given, [block |-> block, from |-> from, bytes |-> bytes,
                          aligned |-> aligned])

\* The pointer of the vector counts as a word.
AllocateNewBlock(block_bytes) ==
  /\ blocks_' = Append(blocks_, block_bytes)
  /\ memory_usage_' = memory_usage_ + block_bytes + Align

\* From the block in use, after slop.
FromBlock(slop, bytes, aligned) ==
  /\ slop + bytes <= alloc_bytes_remaining_
  /\ Gives(alloc_ptr_[1], alloc_ptr_[2] + slop, bytes, aligned)
  /\ alloc_ptr_' = [alloc_ptr_ EXCEPT ![2] = @ + slop + bytes]
  /\ alloc_bytes_remaining_' = alloc_bytes_remaining_ - (slop + bytes)
  /\ UNCHANGED <<blocks_, memory_usage_>>

\* A large request has a block of its own, and the one in use stays in use;
\* for a small one, what remains of that is given up.
AllocateFallback(bytes, aligned) ==
  LET new == Len(blocks_) + 1
      large == bytes > ArenaBlock \div 4
  IN /\ Gives(new, 0, bytes, aligned)
     /\ AllocateNewBlock(IF large THEN bytes ELSE ArenaBlock)
     /\ IF large THEN UNCHANGED <<alloc_ptr_, alloc_bytes_remaining_>>
        ELSE /\ alloc_ptr_' = <<new, bytes>>
             /\ alloc_bytes_remaining_' = ArenaBlock - bytes

Allocate(bytes) ==
  \/ FromBlock(0, bytes, FALSE)
  \/ bytes > alloc_bytes_remaining_ /\ AllocateFallback(bytes, FALSE)

Slop == (Align - (alloc_ptr_[2] % Align)) % Align

AllocateAligned(bytes) ==
  \/ FromBlock(Slop, bytes, TRUE)
  \/ Slop + bytes > alloc_bytes_remaining_ /\ AllocateFallback(bytes, TRUE)

Next ==
  /\ Len(given) < MaxAllocations
  /\ \E bytes \in Requests : Allocate(bytes) \/ AllocateAligned(bytes)

Spec == Init /\ [][Next]_vars
-----------------------------------------------------------------------------
Units(g) == {<<g.block, u>> : u \in g.from..(g.from + g.bytes - 1)}

Taken == UNION {Units(given[i]) : i \in DOMAIN given}

\* Arena: no two of the pieces it gave share memory, each lies in a block and
\* at a word if it was asked to, and MemoryUsage, by which a memtable is full,
\* counts all of them.
MemoryIsKept ==
  /\ \A i, j \in DOMAIN given : i < j => Units(given[i]) \cap Units(given[j]) = {}
  /\ \A i \in DOMAIN given :
       /\ given[i].from + given[i].bytes <= blocks_[given[i].block]
       /\ given[i].aligned => given[i].from % Align = 0
  /\ Cardinality(Taken) <= memory_usage_
=============================================================================
