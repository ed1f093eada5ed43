--------------------------- MODULE MCToolApproval ---------------------------
(* Two branches and two distinct calls: they can wait for the same call,   *)
(* overwrite each other's request, and come back for a second round that   *)
(* finds what the first one left behind.                                   *)
EXTENDS ToolApproval
=============================================================================
