----------------------------- MODULE HeapSizes -----------------------------
(***************************************************************************)
(* The arithmetic of the kernel heap (src/mem.c): the region handed to     *)
(* init_allocator_region, the header in front of every block and the       *)
(* rounding of a request.  Addresses and sizes are bytes, as in the code.  *)
(* size_t is an unsigned word: SizeMod stands for 2^32, smaller under TLC. *)
(***************************************************************************)
EXTENDS Integers

CONSTANTS
  RegionBase,  (* first argument of init_allocator_region  *)
  RegionSize,  (* second argument of init_allocator_region *)
  SizeMod,     (* number of values of size_t               *)
  Requests     (* the sizes kmalloc is called with         *)

NULL == 0
HDR == 8                \* sizeof(free_list_block) on i386
MIN_ALLOC_SIZE == 16
ALIGN_SIZE == 8

(* kmain passes 1 MB and 2 GB: the region is not at the bottom of the      *)
(* address space and does not reach its top.                               *)
ASSUME RegionAssumption ==
  /\ RegionBase \in Nat /\ RegionBase >= HDR + MIN_ALLOC_SIZE
  /\ RegionSize \in Nat
  /\ SizeMod \in Nat /\ SizeMod % ALIGN_SIZE = 0
  /\ RegionBase + RegionSize + ALIGN_SIZE <= SizeMod
  /\ Requests \subseteq 0 .. (SizeMod - 1)

\* Mutation: rounds up without masking the low bits.
align_up_NoMask(n) == (n + ALIGN_SIZE - 1) % SizeMod
align_up(n) == LET s == (n + ALIGN_SIZE - 1) % SizeMod IN s - (s % ALIGN_SIZE)

(* The payload kmalloc sets aside for a request of n bytes.                *)
Padded(n) == LET a == align_up(n) IN IF a < MIN_ALLOC_SIZE THEN MIN_ALLOC_SIZE ELSE a

(* Requests this close to the top of size_t wrap around in align_up.       *)
Representable(n) == n <= SizeMod - ALIGN_SIZE

Start == align_up(RegionBase)

(* The size test of init_allocator_region.                                 *)
Usable == RegionSize > HDR + (Start - RegionBase)

(* Where the managed bytes end; a region that is refused manages none.     *)
Limit == IF Usable THEN RegionBase + RegionSize ELSE Start

Block == [addr : Nat, size : Nat]

(* A block occupies the bytes addr .. BlockEnd - 1, its header included.   *)
BlockEnd(b) == b.addr + HDR + b.size

(* What the last call was and what it returned to the caller.              *)
Answer == [op : {"none", "kmalloc", "kfree"}, n : Nat, ret : Nat]

=============================================================================
