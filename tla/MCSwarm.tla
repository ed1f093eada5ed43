------------------------------ MODULE MCSwarm ------------------------------
(* A swarm of two agents; the second task waits for the first.             *)
EXTENDS Swarm

CONSTANTS t1, t2

MCTasks == {t1, t2}
MCDeps == [t \in MCTasks |-> IF t = t2 THEN {t1} ELSE {}]
MCPlans == {MCTasks}

=============================================================================
