-------------------------------- MODULE Heap --------------------------------
(***************************************************************************)
(* The kernel heap of src/mem.c as two sets of blocks.  The free list is   *)
(* kept sorted by address, so it is a set here: "first on the list" is     *)
(* "lowest address".  FreeList models the pointers and implements this     *)
(* module; HeapProofs proves the invariants of HeapBlocks of it.           *)
(*                                                                         *)
(* kmalloc and kfree do their list work with interrupts off and the only   *)
(* interrupt handler never allocates, so each call is one step.  Callers   *)
(* free only what kmalloc gave them, once, and stay inside their payload.  *)
(***************************************************************************)
EXTENDS HeapBlocks

vars == <<free, live, answer>>

(* init_allocator_region: one block spans a usable region.                 *)
Init ==
  /\ free = IF Usable THEN {[addr |-> Start, size |-> Limit - Start - HDR]} ELSE {}
  /\ live = {}
  /\ answer = [op |-> "none", n |-> 0, ret |-> NULL]

Fits(b, n) == b.size >= Padded(n)

(* The walk of kmalloc stops at the first block that fits.                 *)
FirstFit(b, n) == b \in free /\ Fits(b, n) /\ \A c \in free : Fits(c, n) => b.addr <= c.addr

(* Room for the payload, another header and a minimal block.               *)
Splits(b, n) == b.size >= Padded(n) + HDR + MIN_ALLOC_SIZE

Front(b, n) == [addr |-> b.addr, size |-> Padded(n)]

Rest(b, n) == [addr |-> b.addr + HDR + Padded(n), size |-> b.size - Padded(n) - HDR]

KmallocSplit(n) ==
  \E b \in free :
    /\ n > 0 /\ FirstFit(b, n) /\ Splits(b, n)
    /\ free' = (free \ {b}) \cup {Rest(b, n)}
    /\ live' = live \cup {Front(b, n)}
    /\ answer' = [op |-> "kmalloc", n |-> n, ret |-> b.addr + HDR]

KmallocWhole(n) ==
  \E b \in free :
    /\ n > 0 /\ FirstFit(b, n) /\ ~Splits(b, n)
    /\ free' = free \ {b}
    /\ live' = live \cup {b}
    /\ answer' = [op |-> "kmalloc", n |-> n, ret |-> b.addr + HDR]

KmallocNull(n) ==
  /\ n = 0 \/ \A b \in free : ~Fits(b, n)
  /\ answer' = [op |-> "kmalloc", n |-> n, ret |-> NULL]
  /\ UNCHANGED <<free, live>>

Before(b) == {c \in free : BlockEnd(c) = b.addr}
After(b) == {c \in free : c.addr = BlockEnd(b)}

(* insert_free_block_sorted: the block and the free neighbours it touches  *)
(* become one block, from the lowest of them to the highest.               *)
Kfree(b) ==
  \E lo \in Before(b) \cup {b}, hi \in After(b) \cup {b} :
    /\ Before(b) # {} => lo # b
    /\ After(b) # {} => hi # b
    /\ free' = (free \ {lo, hi}) \cup {[addr |-> lo.addr, size |-> BlockEnd(hi) - lo.addr - HDR]}
    /\ live' = live \ {b}
    /\ answer' = [op |-> "kfree", n |-> 0, ret |-> NULL]

KfreeNull ==
  /\ answer' = [op |-> "kfree", n |-> 0, ret |-> NULL]
  /\ UNCHANGED <<free, live>>

Next ==
  \/ \E n \in Requests : KmallocSplit(n) \/ KmallocWhole(n) \/ KmallocNull(n)
  \/ \E b \in live : Kfree(b)
  \/ KfreeNull

Spec == Init /\ [][Next]_vars

=============================================================================
