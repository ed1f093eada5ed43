----------------------------- MODULE MCVmPool -----------------------------
(* One session and requests of every kind. *)
EXTENDS VmPool

CONSTANTS r1, r2, s1
=============================================================================
