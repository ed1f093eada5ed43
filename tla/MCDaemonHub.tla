---------------------------- MODULE MCDaemonHub ----------------------------
(* Instances of DaemonHub for TLC: the connections and the                 *)
(* messages are interchangeable.                                           *)
EXTENDS DaemonHub, TLC

Symmetry == Permutations(Conns) \cup Permutations(Messages)
=============================================================================
