------------------------- MODULE MCDaemonApprovals -------------------------
(* Two requests, two responders that may race for one of them, and one     *)
(* update of a channel's message.                                          *)
EXTENDS DaemonApprovals
=============================================================================
