----------------------------- MODULE HeapBlocks -----------------------------
(***************************************************************************)
(* The blocks of the kernel heap (src/mem.c) and what must be true of them *)
(* however they are kept.  Heap changes them as sets; FreeList keeps them  *)
(* as headers in memory and implements Heap.  HeapProofs proves the        *)
(* invariants of both.                                                     *)
(***************************************************************************)
EXTENDS HeapSizes

VARIABLES
  free,    (* the blocks on the free list                *)
  live,    (* the blocks kmalloc returned, not yet freed *)
  answer   (* the last call and its result               *)

Blocks == free \cup live

(* The free list and the callers' blocks are blocks, never the same one,   *)
(* and the last answer is well formed.                                     *)
TypeOK ==
  /\ free \subseteq Block
  /\ live \subseteq Block
  /\ free \cap live = {}
  /\ answer \in Answer

(* No byte of the region, header or payload, belongs to two blocks, and    *)
(* no block leaves the region: splitting and merging never hand the same   *)
(* bytes to two callers.                                                   *)
BlocksDisjoint ==
  /\ \A b \in Blocks : Start <= b.addr /\ BlockEnd(b) <= Limit
  /\ \A b, c \in Blocks : b # c => BlockEnd(b) <= c.addr \/ BlockEnd(c) <= b.addr

(* Every byte of the region belongs to some block: the slack of a block    *)
(* that is too small to split comes back when it is freed.                 *)
NothingLost == \A x \in Start .. (Limit - 1) : \E b \in Blocks : b.addr <= x /\ x < BlockEnd(b)

(* Two free blocks never touch: kfree merges in both directions.           *)
FullyCoalesced == \A b, c \in free : BlockEnd(b) # c.addr

(* Every header, hence every pointer kmalloc returns, is 8-byte aligned.   *)
HeadersAligned == \A b \in Blocks : b.addr % ALIGN_SIZE = 0

HeapInv == TypeOK /\ BlocksDisjoint /\ NothingLost /\ FullyCoalesced /\ HeadersAligned

(* kmalloc and kfree keep the promise of Allocator.                        *)
A == INSTANCE Allocator WITH live <- live, answer <- answer
ImplementsAllocator == A!ASpec

=============================================================================
