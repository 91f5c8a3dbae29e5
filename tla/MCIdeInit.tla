----------------------------- MODULE MCIdeInit ------------------------------
(* Every way to attach drives to the two channels, with four sizes.        *)
EXTENDS IdeInit
MCSizeOf == [p \in 0 .. 3 |-> 40000 + p]
=============================================================================
