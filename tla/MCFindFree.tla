----------------------------- MODULE MCFindFree -----------------------------
(* Every drive of up to MaxSize sectors, every content, every bad sector.  *)
EXTENDS FindFree
=============================================================================
