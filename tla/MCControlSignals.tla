-------------------------- MODULE MCControlSignals --------------------------
(* A router with two children to start one after the other. *)
EXTENDS ControlSignals

CONSTANTS k1, k2, RootCheckpoints, KidCheckpoints

TwoLevels == [w \in Workflows |-> IF w = Root THEN RootCheckpoints ELSE KidCheckpoints]
=============================================================================
