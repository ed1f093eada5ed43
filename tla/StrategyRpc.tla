---------------------------- MODULE StrategyRpc ----------------------------
(***************************************************************************)
(* What the strategy worker promises to the orchestrator, RPC by RPC,      *)
(* without saying how a strategy runs.                                     *)
(*                                                                         *)
(* A call is one RunStrategy request.  All the calls here carry the same   *)
(* workflow id, so they share one entry of the worker's registry: a new    *)
(* call takes the entry over, and a Cancel or a rejection reaches only the *)
(* call that holds the entry when it arrives.                              *)
(***************************************************************************)

CONSTANTS
    Calls,      \* the RunStrategy requests of one workflow id
    NoCall      \* the registry has no entry for the workflow id

VARIABLES
    registered, \* TaskRegistry._tasks[workflow_id]
    phase,      \* where the request of each call stands
    cancelled,  \* TaskState.cancel_event of each call
    answer      \* the StrategyErrorCode each call was answered with

vars == <<registered, phase, cancelled, answer>>

(* Error codes a served call can carry; NoAnswer is the absence of one. *)
NoAnswer == "none"
Codes    == {"OK", "CANCELLED", "TIMEOUT", "BUDGET_EXCEEDED", "STRATEGY_FAILED",
             "UNKNOWN"}
Phases   == {"idle", "open", "answered", "aborted"}

Init ==
    /\ registered = NoCall
    /\ phase = [c \in Calls |-> "idle"]
    /\ cancelled = [c \in Calls |-> FALSE]
    /\ answer = [c \in Calls |-> NoAnswer]

(* A request arrives and takes over the registry entry. *)
Open(c) ==
    /\ phase[c] = "idle"
    /\ phase' = [phase EXCEPT ![c] = "open"]
    /\ registered' = c
    /\ UNCHANGED <<cancelled, answer>>

(* A Cancel or a rejection reaches the call that holds the entry. *)
CancelHolder ==
    /\ registered # NoCall
    /\ cancelled' = [cancelled EXCEPT ![registered] = TRUE]
    /\ UNCHANGED <<registered, phase, answer>>

(* A call is answered.  Success is promised only to a call nobody has      *)
(* cancelled, CANCELLED only to a call that somebody has.                  *)
Honest_IgnoresCancel(c, code) == TRUE
Honest(c, code) ==
    /\ code = "OK" => ~cancelled[c]
    /\ code = "CANCELLED" => cancelled[c]

Reply(c, code) ==
    /\ phase[c] = "open"
    /\ Honest(c, code)
    /\ phase' = [phase EXCEPT ![c] = "answered"]
    /\ answer' = [answer EXCEPT ![c] = code]
    /\ UNCHANGED <<registered, cancelled>>

(* The client goes away: nobody is left to answer, and the worker's watch  *)
(* of the gRPC context may or may not have noticed first.                  *)
Abandon(c) ==
    /\ phase[c] = "open"
    /\ phase' = [phase EXCEPT ![c] = "aborted"]
    /\ \E seen \in BOOLEAN :
          cancelled' = [cancelled EXCEPT ![c] = cancelled[c] \/ seen]
    /\ UNCHANGED <<registered, answer>>

Next ==
    \/ \E c \in Calls : Open(c)
    \/ CancelHolder
    \/ \E c \in Calls, code \in Codes : Reply(c, code)
    \/ \E c \in Calls : Abandon(c)

Spec == Init /\ [][Next]_vars
=============================================================================
