------------------------------ MODULE MCBoot -------------------------------
(* Disks that end inside a track, a cylinder and a slot before, at and     *)
(* after the loader; one of 256 heads; a kernel with and without padding.  *)
EXTENDS Boot
D(n, k, s, h) == [sectors |-> n, kernel |-> k, spt |-> s, heads |-> h]
MCDisks == {D(2, 1, 63, 16), D(8, 7, 3, 2), D(13, 9, 2, 4), D(20, 19, 4, 256), D(29, 20, 5, 1),
            D(59, 58, 18, 2), D(60, 59, 7, 3), D(60, 59, 63, 255), D(61, 40, 9, 2), D(80, 79, 18, 2)}
=============================================================================
