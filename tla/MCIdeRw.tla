------------------------------ MODULE MCIdeRw -------------------------------
(* A drive of 5 sectors and a count register of 3 values: a write of 3     *)
(* sectors is one command with 0 in the register, as one of 256 is, and a  *)
(* write of 4 takes a second command.  Address 5 is past the addressable   *)
(* sectors, as 2^28 is.  Of the drives 1, 2 and 4 only 1 is there.         *)
EXTENDS IdeRw
MCPresent == {1}
MCDrives == {1, 2, 4}
MCLbas == {0, 1, 3, 5}
MCReadCounts == {0, 1, 2}
MCWriteCounts == {1, 3, 4}
=============================================================================
