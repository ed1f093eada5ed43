-------------------------- MODULE MCStrategyWorker --------------------------
(* Instances of StrategyWorker for TLC. *)
EXTENDS StrategyWorker

CONSTANTS c1, a, b, d

(* d waits for a and b, which run in one wave. *)
JoinDeps == [x \in Agents |-> IF x = d THEN {a, b} ELSE {}]

(* A swarm that runs a and b one after the other does not get to d. *)
Limits == [dag |-> 16, swarm |-> 2]
=============================================================================
