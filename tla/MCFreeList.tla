----------------------------- MODULE MCFreeList -----------------------------
(* FreeList on a region of fourteen words whose base and end are unaligned. *)
EXTENDS FreeList
MCRequests == {0, 1, 17, 41, SizeMod - 3}
=============================================================================
