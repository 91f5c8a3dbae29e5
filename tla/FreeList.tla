------------------------------ MODULE FreeList ------------------------------
(***************************************************************************)
(* The heap of src/mem.c with its pointers: free_list_head, and the header *)
(* {size, next} stored in front of every block.  hdr holds the headers     *)
(* that mean something; reading any other address is an error of the code  *)
(* (TLC stops).  A link is the address of a pointer to a block: NULL       *)
(* stands for &free_list_head, any other value p for &p->next.             *)
(*                                                                         *)
(* A round of a loop is a step.  free and live, what the callers can tell, *)
(* change when a call succeeds: free says which blocks the headers then    *)
(* describe, so the invariants of HeapBlocks are checked of the pointers.  *)
(***************************************************************************)
EXTENDS HeapBlocks

VARIABLES
  free_list_head,  (* address of the first free block, or NULL               *)
  hdr,             (* header address -> [size, next]                         *)
  pc,              (* the loop that runs: "fit", "insert", "back", or "idle" *)
  arg,             (* kmalloc's argument, or the block kfree inserts         *)
  cur,             (* the link at which the first loop stands                *)
  prev             (* the block at which the loop for coalescing back stands *)

locals == <<pc, arg, cur, prev>>
list_vars == <<free_list_head, hdr, locals, free, live, answer>>

Held == {b.addr : b \in live}
Unheld == {[addr |-> p, size |-> hdr[p].size] : p \in DOMAIN hdr \ Held}

(* init_allocator_region; a region refused leaves free_list_head NULL.     *)
ListInit ==
  /\ free_list_head = IF Usable THEN Start ELSE NULL
  /\ hdr = [p \in IF Usable THEN {Start} ELSE {} |->
              [size |-> Limit - Start - HDR, next |-> NULL]]
  /\ live = {} /\ free = Unheld
  /\ answer = [op |-> "none", n |-> 0, ret |-> NULL]
  /\ pc = "idle" /\ arg = 0 /\ cur = NULL /\ prev = NULL

Deref(link) == IF link = NULL THEN free_list_head ELSE hdr[link].next

HeadWith(link, p) == IF link = NULL THEN p ELSE free_list_head
HdrWith(h, link, p) == IF link = NULL THEN h ELSE [h EXCEPT ![link].next = p]

Enter(loop, a) ==
  /\ pc = "idle" /\ pc' = loop /\ arg' = a /\ cur' = NULL
  /\ UNCHANGED <<free_list_head, hdr, prev, free, live, answer>>

Return(op, n, ret) ==
  /\ pc' = "idle" /\ arg' = 0 /\ cur' = NULL /\ prev' = NULL
  /\ answer' = [op |-> op, n |-> n, ret |-> ret]

-----------------------------------------------------------------------------
(* Size 0 and an allocator without a list are answered before the loop.    *)
KmallocRefused(n) ==
  /\ pc = "idle" /\ (n = 0 \/ free_list_head = NULL)
  /\ Return("kmalloc", n, NULL)
  /\ UNCHANGED <<free_list_head, hdr, free, live>>

KmallocBegin(n) == n > 0 /\ free_list_head # NULL /\ Enter("fit", n)

(* The test of the loop.                                                   *)
\* Mutation: a block of exactly the padded size is passed over.
LargeEnough_Strictly(block) == hdr[block].size > Padded(arg)
LargeEnough(block) == hdr[block].size >= Padded(arg)

FitNext ==
  /\ pc = "fit" /\ Deref(cur) # NULL /\ ~LargeEnough(Deref(cur))
  /\ cur' = Deref(cur)
  /\ UNCHANGED <<free_list_head, hdr, pc, arg, prev, free, live, answer>>

FitNone ==
  /\ pc = "fit" /\ Deref(cur) = NULL
  /\ Return("kmalloc", arg, NULL)
  /\ UNCHANGED <<free_list_head, hdr, free, live>>

(* The test for room, and the header written in the rest.                  *)
\* Mutation: splits without room for the second header and payload.
HasRest_NoRoom(block) == hdr[block].size >= Padded(arg)
HasRest(block) == hdr[block].size >= Padded(arg) + HDR + MIN_ALLOC_SIZE

\* Mutation: the room for the new header is taken off twice.
RestSize_HeaderTwice(block) == hdr[block].size - Padded(arg) - 2 * HDR
RestSize(block) == hdr[block].size - Padded(arg) - HDR

\* Mutation: the new header lies inside the payload.
RestAt_InPayload(block) == block + Padded(arg)
RestAt(block) == block + HDR + Padded(arg)

Cut(block) ==
  [p \in DOMAIN hdr \cup {RestAt(block)} |->
     IF p = RestAt(block) THEN [size |-> RestSize(block), next |-> hdr[block].next]
     ELSE IF p = block THEN [size |-> Padded(arg), next |-> hdr[p].next]
     ELSE hdr[p]]

(* The block at the link is taken; what follows it is linked instead.      *)
Take(block, follower, h) ==
  /\ pc = "fit" /\ block # NULL /\ LargeEnough(block)
  /\ free_list_head' = HeadWith(cur, follower) /\ hdr' = HdrWith(h, cur, follower)
  /\ live' = live \cup {[addr |-> block, size |-> hdr'[block].size]} /\ free' = Unheld'
  /\ Return("kmalloc", arg, block + HDR)

TakeFront ==
  /\ Deref(cur) # NULL /\ HasRest(Deref(cur))
  /\ Take(Deref(cur), RestAt(Deref(cur)), Cut(Deref(cur)))

TakeWhole ==
  /\ Deref(cur) # NULL /\ ~HasRest(Deref(cur))
  /\ Take(Deref(cur), hdr[Deref(cur)].next, hdr)

-----------------------------------------------------------------------------
KfreeNothing ==
  /\ pc = "idle" /\ Return("kfree", 0, NULL)
  /\ UNCHANGED <<free_list_head, hdr, free, live>>

KfreeBegin(b) == Enter("insert", b.addr)

(* The first loop of insert_free_block_sorted stops here.                  *)
\* Mutation: always at the head of the list.
InsertHere_AtHead == TRUE
InsertHere == Deref(cur) = NULL \/ Deref(cur) >= arg

InsertNext ==
  /\ pc = "insert" /\ ~InsertHere /\ cur' = Deref(cur)
  /\ UNCHANGED <<free_list_head, hdr, pc, arg, prev, free, live, answer>>

(* Coalescing forward, in headers that already have the block linked in.   *)
(* A header whose block is merged into another means nothing more.         *)
\* Mutation: no coalescing forward.
MergeForward_Never(h) == h
MergeForward(h) ==
  LET nxt == h[arg].next
  IN IF nxt # NULL /\ arg + HDR + h[arg].size = nxt
     THEN [p \in DOMAIN h \ {nxt} |->
             IF p = arg THEN [size |-> h[arg].size + HDR + h[nxt].size, next |-> h[nxt].next]
             ELSE h[p]]
     ELSE h

LinkIn ==
  /\ pc = "insert" /\ InsertHere
  /\ free_list_head' = HeadWith(cur, arg)
  /\ hdr' = MergeForward(HdrWith([hdr EXCEPT ![arg].next = Deref(cur)], cur, arg))
  /\ pc' = "back" /\ prev' = free_list_head'
  /\ UNCHANGED <<arg, cur, free, live, answer>>

(* The search for the block before it, unless it is the first of the list. *)
BackEnds == cur = NULL \/ prev = NULL \/ hdr[prev].next = arg

BackNext ==
  /\ pc = "back" /\ ~BackEnds /\ prev' = hdr[prev].next
  /\ UNCHANGED <<free_list_head, hdr, pc, arg, cur, free, live, answer>>

\* Mutation: no coalescing backward.
MergeBackward_Never == hdr
MergeBackward ==
  IF cur # NULL /\ prev # NULL /\ prev + HDR + hdr[prev].size = arg
  THEN [p \in DOMAIN hdr \ {arg} |->
          IF p = prev THEN [size |-> hdr[prev].size + HDR + hdr[arg].size, next |-> hdr[arg].next]
          ELSE hdr[p]]
  ELSE hdr

KfreeEnds ==
  /\ pc = "back" /\ BackEnds
  /\ hdr' = MergeBackward
  /\ live' = {b \in live : b.addr # arg} /\ free' = Unheld'
  /\ Return("kfree", 0, NULL)
  /\ UNCHANGED free_list_head

-----------------------------------------------------------------------------
ListNext ==
  \/ \E n \in Requests : KmallocRefused(n) \/ KmallocBegin(n)
  \/ FitNext \/ FitNone \/ TakeFront \/ TakeWhole
  \/ KfreeNothing
  \/ \E b \in live : KfreeBegin(b)
  \/ InsertNext \/ LinkIn \/ BackNext \/ KfreeEnds

ListSpec == ListInit /\ [][ListNext]_list_vars

-----------------------------------------------------------------------------
(* q is the first address of S above p, or NULL if there is none.          *)
Follows(S, p, q) ==
  IF q = NULL THEN \A a \in S : a <= p
  ELSE q \in S /\ q > p /\ \A a \in S : a <= p \/ q <= a

(* The list ascends and visits every free block, so every walk of it ends  *)
(* and finds what it looks for; and the headers in memory are those of the *)
(* free and the held blocks, with their sizes: no block is lost, and kfree *)
(* will believe the size that kmalloc left.  Only while kfree has linked a *)
(* block in and not yet merged it is the list ahead of free.               *)
ListSound ==
  pc # "back" =>
    /\ \A p \in {NULL} \cup {b.addr : b \in free} : Follows({b.addr : b \in free}, p, Deref(p))
    /\ DOMAIN hdr = {b.addr : b \in Blocks}
    /\ \A b \in Blocks : hdr[b.addr].size = b.size

(* The pointers implement the sets of Heap: the walk finds the lowest      *)
(* block that fits, and kfree merges exactly the neighbours that touch.    *)
H == INSTANCE Heap WITH free <- free, live <- live, answer <- answer
ImplementsHeap == H!Spec

=============================================================================
