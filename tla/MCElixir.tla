------------------------------ MODULE MCElixir ------------------------------
(* Elixir on an empty slot, a small drive, and drives at the boundaries of *)
(* create_super and of the bitmap: one bit more than a whole number of     *)
(* sectors, the last and the first size on each side of 256 sectors.       *)
EXTENDS Elixir
MCSizes == {0, 32767, 32768, 32770, 40001, 1044480, 1048576}
MCMarks == {0, 32769, 32775, 32776, 36863, 40000}
=============================================================================
