----------------------------- MODULE Allocator -----------------------------
(***************************************************************************)
(* What kmalloc and kfree promise their callers, with no free list: which  *)
(* blocks callers hold, and what a call may answer.  Heap and FreeList are *)
(* shown to implement it.                                                  *)
(***************************************************************************)
EXTENDS HeapSizes

VARIABLES
  live,    (* the blocks callers hold *)
  answer   (* the last call           *)

avars == <<live, answer>>

(* The bytes lo .. hi-1 are in the region and belong to no caller.         *)
Clear(lo, hi) ==
  /\ Start <= lo /\ hi <= Limit
  /\ \A b \in live : BlockEnd(b) <= lo \/ hi <= b.addr

AInit ==
  /\ live = {}
  /\ answer = [op |-> "none", n |-> 0, ret |-> NULL]

(* A granted block is large enough, aligned, and takes nobody's bytes.     *)
Grant(n) ==
  /\ n > 0
  /\ \E b \in live' \ live :
       /\ live' = live \cup {b}
       /\ Clear(b.addr, BlockEnd(b))
       /\ Representable(n) => b.size >= n
       /\ b.addr % ALIGN_SIZE = 0
       /\ answer' = [op |-> "kmalloc", n |-> n, ret |-> b.addr + HDR]

(* A request is refused only when no gap between the callers' blocks has   *)
(* room for its header and its padded payload: fragmentation of the free   *)
(* list itself is never a reason.                                          *)
Refuse(n) ==
  /\ n = 0 \/ \A lo \in Start .. Limit : ~Clear(lo, lo + HDR + Padded(n))
  /\ answer' = [op |-> "kmalloc", n |-> n, ret |-> NULL]
  /\ UNCHANGED live

Release ==
  /\ \/ \E b \in live : live' = live \ {b}
     \/ UNCHANGED live                        \* kfree(NULL)
  /\ answer' = [op |-> "kfree", n |-> 0, ret |-> NULL]

ANext == (\E n \in Requests : Grant(n) \/ Refuse(n)) \/ Release

ASpec == AInit /\ [][ANext]_avars

=============================================================================
