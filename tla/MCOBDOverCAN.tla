----------------------------- MODULE MCOBDOverCAN -----------------------------
(* Three PIDs in groups of two, the third in the ranges of the second request: one full group *)
(* and a rest; a dictionary that wants them all and one that decodes and wants fewer.         *)
EXTENDS OBDOverCAN, TLC

MCPIDs == 1 .. 3
MCSecondRange == {3}
MCReported == ("engine" :> 1 .. 3) @@ ("transmission" :> {1})
MCDictionaries == {[pids |-> 1 .. 3, wanted |-> 1 .. 3], [pids |-> {2, 3}, wanted |-> {2}]}
=============================================================================
