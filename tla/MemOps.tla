------------------------------- MODULE MemOps -------------------------------
(***************************************************************************)
(* memcpy, memset, memmove and memcmp of mem.c (and memset_page, kmalloc's *)
(* own memset): loops that move, fill or compare one byte at a time.  The  *)
(* first two pointers of a call are its operands a and b: the destination  *)
(* and the source of a copy, the two ranges of a comparison.               *)
(***************************************************************************)
EXTENDS Integers

Size == 4294967296    \* bytes of memory
Addresses == 0 .. (Size - 1)
Bytes == 0 .. 255

VARIABLES
  mem,     (* address -> byte                                              *)
  call,    (* [op, a, b, n, c]: the call in progress or the last one       *)
  i,       (* its loop variable                                            *)
  pc,      (* "idle", "loop" or "returned"                                 *)
  was,     (* the memory when it began                                     *)
  result   (* what memcmp returned                                         *)

vars == <<mem, call, i, pc, was, result>>

Calls ==
  [op : {"memcpy", "memmove", "memset", "memcmp"}, a : Nat, b : Nat, n : Nat, c : Int]

Init ==
  /\ mem \in [Addresses -> Bytes] /\ was = mem /\ pc = "idle" /\ i = 0 /\ result = 0
  /\ call = [op |-> "memset", a |-> 0, b |-> 0, n |-> 0, c |-> 0]

(* The ranges are objects of the program; those of memcpy are restrict and *)
(* do not overlap.                                                         *)
Apart(k) == k.a + k.n <= k.b \/ k.b + k.n <= k.a
Legal(k) ==
  /\ k.a + k.n <= Size /\ k.b + k.n <= Size
  /\ k.op = "memcpy" => Apart(k)

(* memmove copies from the front when the source lies behind the           *)
(* destination, from the back when it lies before it, and else not at all. *)
Forward(k) == k.op = "memcpy" \/ (k.op = "memmove" /\ k.b > k.a)
Backward(k) == k.op = "memmove" /\ k.b < k.a

Begin(k) ==
  /\ pc # "loop" /\ Legal(k)
  /\ call' = k /\ pc' = "loop" /\ was' = mem
  /\ i' = IF Backward(k) THEN k.n ELSE 0
  /\ UNCHANGED <<mem, result>>

CopyForward ==
  /\ pc = "loop" /\ Forward(call) /\ i < call.n
  /\ mem' = [mem EXCEPT ![call.a + i] = mem[call.b + i]]
  /\ i' = i + 1
  /\ UNCHANGED <<call, pc, was, result>>

CopyBackward ==
  /\ pc = "loop" /\ Backward(call) /\ i > 0
  /\ mem' = [mem EXCEPT ![call.a + (i - 1)] = mem[call.b + (i - 1)]]
  /\ i' = i - 1
  /\ UNCHANGED <<call, pc, was, result>>

SetByte ==
  /\ pc = "loop" /\ call.op = "memset" /\ i < call.n
  /\ mem' = [mem EXCEPT ![call.a + i] = call.c % 256]
  /\ i' = i + 1
  /\ UNCHANGED <<call, pc, was, result>>

CompareEqual ==
  /\ pc = "loop" /\ call.op = "memcmp" /\ i < call.n
  /\ mem[call.a + i] = mem[call.b + i]
  /\ i' = i + 1
  /\ UNCHANGED <<mem, call, pc, was, result>>

CompareDiffers ==
  /\ pc = "loop" /\ call.op = "memcmp" /\ i < call.n
  /\ mem[call.a + i] # mem[call.b + i]
  /\ result' = IF mem[call.a + i] < mem[call.b + i] THEN -1 ELSE 1
  /\ pc' = "returned"
  /\ UNCHANGED <<mem, call, i, was>>

(* The loop has run out, or there was none.                                *)
Over ==
  \/ (Forward(call) \/ call.op \in {"memset", "memcmp"}) /\ i >= call.n
  \/ Backward(call) /\ i = 0
  \/ call.op = "memmove" /\ call.a = call.b
Return ==
  /\ pc = "loop" /\ Over
  /\ pc' = "returned" /\ result' = 0
  /\ UNCHANGED <<mem, call, i, was>>

Next ==
  \/ \E k \in Calls : Begin(k)
  \/ CopyForward \/ CopyBackward \/ SetByte \/ CompareEqual \/ CompareDiffers \/ Return

Spec == Init /\ [][Next]_vars

-----------------------------------------------------------------------------
(* A copy leaves in the destination what the source held when it began, as *)
(* if it had gone through a buffer, also when memmove's ranges overlap; a  *)
(* fill leaves its byte; and nothing else changes, by memcmp nothing.      *)
Wanted(x) ==
  IF call.op # "memcmp" /\ call.a <= x /\ x < call.a + call.n
  THEN IF call.op = "memset" THEN call.c % 256 ELSE was[call.b + (x - call.a)]
  ELSE was[x]
MemoryRight == pc = "returned" => mem = [x \in Addresses |-> Wanted(x)]

(* memcmp orders the ranges by their first different byte.                 *)
Agree(k) == \A j \in 0 .. (k - 1) : was[call.a + j] = was[call.b + j]
ComparisonRight ==
  pc = "returned" /\ call.op = "memcmp" =>
    \/ result = 0 /\ Agree(call.n)
    \/ \E k \in 0 .. (call.n - 1) :
         /\ Agree(k)
         /\ \/ result = -1 /\ was[call.a + k] < was[call.b + k]
            \/ result = 1 /\ was[call.a + k] > was[call.b + k]

=============================================================================
