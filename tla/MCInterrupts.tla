---------------------------- MODULE MCInterrupts ----------------------------
(* The timer and another device of the master, two of the slave, of which  *)
(* one is on the line a spurious interrupt of the slave is reported on.    *)
EXTENDS Interrupts
MCDevices == {0, 1, 14, 15}
=============================================================================
