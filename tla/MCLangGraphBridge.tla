------------------------- MODULE MCLangGraphBridge -------------------------
(* The retry policy of the code, MaximumAttempts = 2, is small enough for  *)
(* TLC as it is; one connection is cut.  Of the answers, one code stands   *)
(* for those the activity treats alike: BUDGET_EXCEEDED for CANCELLED too  *)
(* (an error, no failover; the worker may give it whenever it may give     *)
(* CANCELLED), STRATEGY_FAILED for TIMEOUT too.                            *)
EXTENDS LangGraphBridge
=============================================================================
