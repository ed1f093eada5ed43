--------------------------- MODULE LangGraphBridge ---------------------------
(***************************************************************************)
(* The Go side of a strategy run: the Temporal activity                    *)
(* ExecuteLangGraphIfEnabled with its failover (activities/langgraph.go,   *)
(* strategyworker/failover.go), the retry policy maybeRunLangGraph gives   *)
(* it (workflows/langgraph_bridge.go), the goroutine that cancels the      *)
(* worker when the activity's context ends, and the Cancel the workflow's  *)
(* control handler sends (workflows/control/handler.go), composed with the *)
(* worker as StrategyRpc describes it.                                     *)
(*                                                                         *)
(* Every attempt of the activity makes up to two RunStrategy calls, its    *)
(* primary and its fallback, all with the workflow's id: the worker keeps  *)
(* one registry entry for all of them.                                     *)
(***************************************************************************)
EXTENDS Naturals, FiniteSets

CONSTANTS
    MaximumAttempts,  \* RetryPolicy.MaximumAttempts
    Answers,          \* the error codes the worker answers with
    MaxCuts,          \* bound: connections cut while a call is in flight
    NoCall            \* the worker's registry is empty

ASSUME AttemptsAssumption == MaximumAttempts \in Nat \ {0}
ASSUME CutsAssumption == MaxCuts \in Nat

Attempts == 1 .. MaximumAttempts
Calls    == Attempts \X {"primary", "fallback"}

ASSUME NoCallAssumption == NoCall \notin Calls

VARIABLES
    registered, phase, cancelled, answer,  \* the worker, see StrategyRpc
    mode,        \* the strategy asked for: "sample" is the light one
    attempt,     \* attempts of the activity scheduled so far
    act,         \* where each attempt stands
    outcome,     \* what each attempt returned to Temporal
    primaryErr,  \* the primary call of the attempt ended in an error
    expired,     \* attempts whose StartToClose deadline has passed
    cut,         \* calls whose connection was cut while they were waited for
    stale,       \* attempts whose goroutine is sending a Cancel
    userCancel,  \* the CancelLangGraphStrategy activity of the control handler
    hit,         \* history: the open call the user's Cancel reached
    wf           \* the result of the workflow

worker == <<registered, phase, cancelled, answer>>
activity == <<attempt, act, outcome, primaryErr, expired, cut>>
vars == <<worker, mode, activity, stale, userCancel, hit, wf>>

Worker == INSTANCE StrategyRpc

ASSUME AnswersAssumption == Answers \subseteq Worker!Codes

Primary(a)  == <<a, "primary">>
Fallback(a) == <<a, "fallback">>

(* The call an attempt is waiting for, if any. *)
Waits(a, c) ==
    \/ act[a] = "primary" /\ c = Primary(a)
    \/ act[a] = "fallback" /\ c = Fallback(a)

Init ==
    /\ Worker!Init
    /\ mode \in {"sample", "dag"}
    /\ attempt = 0
    /\ act = [a \in Attempts |-> "idle"]
    /\ outcome = [a \in Attempts |-> "none"]
    /\ primaryErr = [a \in Attempts |-> FALSE]
    /\ expired = {}
    /\ cut = {}
    /\ stale = {}
    /\ userCancel = "none"
    /\ hit = NoCall
    /\ wf = "running"

-----------------------------------------------------------------------------
(* failover.go *)

IsLightMode == mode = "sample"

(* EligibleForFailover over the codes a served call can carry; a gRPC      *)
(* UNKNOWN is read as STRATEGY_FAILED (ErrorCodeFromRPC).                  *)
Eligible(cd) == ~IsLightMode /\ cd \in {"STRATEGY_FAILED", "TIMEOUT", "UNKNOWN"}

(* executeLangGraphOnce returns an error for these, and a result with      *)
(* Success = false for the other failures.                                 *)
IsError(cd) == cd \in {"CANCELLED", "BUDGET_EXCEEDED", "UNKNOWN"}

-----------------------------------------------------------------------------
(* The workflow and Temporal *)

(* The activity is scheduled, and again after an error or a timeout while  *)
(* attempts are left.  The status errors the activity returns are of type  *)
(* "Error" to Temporal, so NonRetryableErrorTypes never applies to them.   *)
MayAttempt_Eager   == attempt < MaximumAttempts
MayAttempt ==
    /\ attempt < MaximumAttempts
    /\ attempt > 0 => outcome[attempt] = "error"

Schedule ==
    /\ wf = "running"
    /\ MayAttempt
    /\ attempt' = attempt + 1
    /\ act' = [act EXCEPT ![attempt + 1] = "primary"]
    /\ UNCHANGED <<worker, mode, outcome, primaryErr, expired, cut, stale, userCancel, hit, wf>>

Complete ==
    /\ wf = "running"
    /\ attempt > 0
    /\ \/ outcome[attempt] = "ok" /\ wf' = "ok"
       \/ outcome[attempt] = "fail" /\ wf' = "failed"
       \/ outcome[attempt] = "error" /\ attempt = MaximumAttempts /\ wf' = "failed"
    /\ UNCHANGED <<worker, mode, activity, stale, userCancel, hit>>

(* The deadline of an attempt passes: its context ends, and with it the    *)
(* RPC it waits for; the goroutine of that RPC sends a Cancel, unless it   *)
(* sees the RPC's end first.                                               *)
DeadlineExpires_Never(a) == FALSE   \* no StartToCloseTimeout
DeadlineExpires(a) ==
    /\ act[a] \in {"primary", "hint", "fallback"}
    /\ act' = [act EXCEPT ![a] = "returned"]
    /\ outcome' = [outcome EXCEPT ![a] = "error"]
    /\ expired' = expired \cup {a}
    /\ \/ stale' = IF act[a] = "hint" THEN stale ELSE stale \cup {a}
       \/ UNCHANGED stale
    /\ UNCHANGED <<worker, mode, attempt, primaryErr, cut, userCancel, hit, wf>>

-----------------------------------------------------------------------------
(* ExecuteLangGraphIfEnabled *)

(* The connection of a call is cut: before the worker has read the         *)
(* request, while it works on it, or before its answer is read.            *)
ConnectionLost(a, c) ==
    /\ Waits(a, c)
    /\ c \notin cut /\ Cardinality(cut) < MaxCuts
    /\ cut' = cut \cup {c}
    /\ UNCHANGED <<worker, mode, attempt, act, outcome, primaryErr, expired, stale,
                   userCancel, hit, wf>>

(* The request is served: the worker's RunStrategy begins.  A request that *)
(* was on its way when its connection was cut may be served yet, as long   *)
(* as its client has not given it up.                                      *)
Serve(a, c) ==
    /\ Waits(a, c)
    /\ Worker!Open(c)
    /\ UNCHANGED <<mode, activity, stale, userCancel, hit, wf>>

Return(a, o) ==
    /\ act' = [act EXCEPT ![a] = "returned"]
    /\ outcome' = [outcome EXCEPT ![a] = o]

(* The primary call is answered.  A failure response carries its hint; an  *)
(* RPC error carries none and the worker is asked for one.                 *)
PrimaryReturns(a) ==
    LET cd == answer[Primary(a)]
    IN /\ act[a] = "primary"
       /\ phase[Primary(a)] = "answered"
       /\ Primary(a) \notin cut
       /\ primaryErr' = [primaryErr EXCEPT ![a] = IsError(cd)]
       /\ \/ cd = "OK" /\ Return(a, "ok")
          \/ /\ cd # "OK"
             /\ ~Eligible(cd)
             /\ Return(a, IF IsError(cd) THEN "error" ELSE "fail")
          \/ /\ Eligible(cd)
             /\ act' = [act EXCEPT ![a] = IF cd = "UNKNOWN" THEN "hint" ELSE "fallback"]
             /\ UNCHANGED outcome
       /\ UNCHANGED <<worker, mode, attempt, expired, cut, stale, userCancel, hit, wf>>

(* The worker cannot be dialled, or the connection was cut: UNAVAILABLE,   *)
(* which a heavy mode may try to fail over from.                           *)
Unavailable(c) == phase[c] = "idle" \/ c \in cut

PrimaryUnavailable(a) ==
    /\ act[a] = "primary"
    /\ Unavailable(Primary(a))
    /\ primaryErr' = [primaryErr EXCEPT ![a] = TRUE]
    /\ IF IsLightMode
       THEN Return(a, "error")
       ELSE act' = [act EXCEPT ![a] = "hint"] /\ UNCHANGED outcome
    /\ UNCHANGED <<worker, mode, attempt, expired, cut, stale, userCancel, hit, wf>>

(* GetFailoverHint suggests sample, or cannot be asked. *)
Hint(a) ==
    /\ act[a] = "hint"
    /\ \/ act' = [act EXCEPT ![a] = "fallback"] /\ UNCHANGED outcome
       \/ Return(a, "error")
    /\ UNCHANGED <<worker, mode, attempt, primaryErr, expired, cut, stale, userCancel, hit, wf>>

(* The fallback call ends; without an error of its own the attempt returns *)
(* the primary's.                                                          *)
FallbackReturns(a) ==
    LET cd == answer[Fallback(a)]
    IN /\ act[a] = "fallback"
       /\ phase[Fallback(a)] = "answered"
       /\ Fallback(a) \notin cut
       /\ Return(a, IF cd = "OK" THEN "ok"
                    ELSE IF IsError(cd) \/ primaryErr[a] THEN "error" ELSE "fail")
       /\ UNCHANGED <<worker, mode, attempt, primaryErr, expired, cut, stale, userCancel, hit, wf>>

FallbackUnavailable(a) ==
    /\ act[a] = "fallback"
    /\ Unavailable(Fallback(a))
    /\ Return(a, "error")
    /\ UNCHANGED <<worker, mode, attempt, primaryErr, expired, cut, stale, userCancel, hit, wf>>

-----------------------------------------------------------------------------
(* Cancel: it reaches the call that holds the registry entry, or nothing.  *)

ReachWorker ==
    \/ Worker!CancelHolder
    \/ UNCHANGED worker

(* The goroutine of an expired attempt; its Cancel may be lost. *)
StaleCancel_IgnoresDone(a) ==
    /\ act[a] = "returned"
    /\ ReachWorker
    /\ UNCHANGED <<mode, activity, stale, userCancel, hit, wf>>
StaleCancel(a) ==
    /\ a \in stale
    /\ stale' = stale \ {a}
    /\ ReachWorker
    /\ UNCHANGED <<mode, activity, userCancel, hit, wf>>

(* A cancel signal reaches the workflow: the control handler starts the    *)
(* CancelLangGraphStrategy activity.                                       *)
CancelSignal ==
    /\ wf = "running"
    /\ userCancel = "none"
    /\ userCancel' = "sending"
    /\ UNCHANGED <<worker, mode, activity, stale, hit, wf>>

(* CancelTask signals first and then has Temporal cancel the workflow: it  *)
(* returns CANCELLED at once.  The activity does not heartbeat and is not  *)
(* told; it goes on to its end, fallback included.                         *)
NativeCancel ==
    /\ wf = "running"
    /\ userCancel # "none"
    /\ wf' = "cancelled"
    /\ UNCHANGED <<worker, mode, activity, stale, userCancel, hit>>

(* The one attempt of CancelLangGraphStrategy arrives, or it fails, or     *)
(* NativeCancel ended it first, and it is forgotten.                       *)
UserCancel ==
    /\ userCancel = "sending"
    /\ userCancel' = "sent"
    /\ \/ /\ Worker!CancelHolder
          /\ hit' = IF phase[registered] = "open" THEN registered ELSE NoCall
       \/ UNCHANGED <<worker, hit>>
    /\ UNCHANGED <<mode, activity, stale, wf>>

-----------------------------------------------------------------------------
(* The worker's own steps; it abandons a call only when its client has     *)
(* gone or its connection was cut, which it may notice before the client,  *)
(* after it, or never.                                                     *)
WorkerReplies(c) ==
    /\ \E cd \in Answers : Worker!Reply(c, cd)
    /\ UNCHANGED <<mode, activity, stale, userCancel, hit, wf>>

WorkerAbandons(c) ==
    /\ c \in cut \/ \A a \in Attempts : ~Waits(a, c)
    /\ Worker!Abandon(c)
    /\ UNCHANGED <<mode, activity, stale, userCancel, hit, wf>>

Activity(a) ==
    \/ \E c \in Calls : Serve(a, c) \/ ConnectionLost(a, c)
    \/ PrimaryReturns(a) \/ PrimaryUnavailable(a) \/ Hint(a)
    \/ FallbackReturns(a) \/ FallbackUnavailable(a)

Next ==
    \/ Schedule \/ Complete
    \/ \E a \in Attempts : Activity(a) \/ DeadlineExpires(a) \/ StaleCancel(a)
    \/ CancelSignal \/ NativeCancel \/ UserCancel
    \/ \E c \in Calls : WorkerReplies(c) \/ WorkerAbandons(c)

Spec == Init /\ [][Next]_vars

(***************************************************************************)
(* Fairness: Temporal schedules the activity, records what it returned and *)
(* enforces the StartToClose deadline, and the Go scheduler runs an        *)
(* attempt whose RPC has ended.  Nothing is assumed of the worker: it may  *)
(* be gone for good.                                                       *)
(***************************************************************************)
Fairness ==
    /\ WF_vars(Schedule) /\ WF_vars(Complete)
    /\ \A a \in Attempts : WF_vars(DeadlineExpires(a))

FairSpec == Spec /\ Fairness

-----------------------------------------------------------------------------
(* Properties *)

(* The types of the activity's and the workflow's variables. *)
TypeOK ==
    /\ registered \in Calls \cup {NoCall}
    /\ phase \in [Calls -> Worker!Phases]
    /\ cancelled \in [Calls -> BOOLEAN]
    /\ answer \in [Calls -> Worker!Codes \cup {Worker!NoAnswer}]
    /\ mode \in {"sample", "dag"}
    /\ attempt \in 0 .. MaximumAttempts
    /\ act \in [Attempts -> {"idle", "primary", "hint", "fallback", "returned"}]
    /\ outcome \in [Attempts -> {"none", "ok", "fail", "error"}]
    /\ primaryErr \in [Attempts -> BOOLEAN]
    /\ expired \in SUBSET Attempts
    /\ cut \in SUBSET Calls
    /\ stale \in SUBSET Attempts
    /\ userCancel \in {"none", "sending", "sent"}
    /\ hit \in Calls \cup {NoCall}
    /\ wf \in {"running", "ok", "failed", "cancelled"}

(* A call comes before another: its attempt does, or it is the primary and *)
(* the other the fallback of one attempt.                                  *)
Before(c, d) == c[1] < d[1] \/ (c[1] = d[1] /\ c = Primary(c[1]) /\ d = Fallback(c[1]))

(* Two calls of the workflow run together on the worker, both under its    *)
(* one registry entry, only when the client of the earlier one has gone,   *)
(* cut off or past its deadline, and the worker has not noticed: a retry   *)
(* or a fallback never starts beside a call that somebody waits for.       *)
OverlapOnlyAfterLoss ==
    \A c, d \in Calls :
        Before(c, d) /\ phase[c] = "open" /\ phase[d] # "idle" =>
            c \in cut \/ c[1] \in expired

(* A call that no user cancelled, of a workflow whose attempts kept their  *)
(* deadlines, is cancelled only because its own connection was cut: a      *)
(* Cancel is never sent out of nothing, nor for another call.              *)
CancelHasACause ==
    userCancel # "sent" /\ expired = {} => \A c \in Calls : cancelled[c] => c \in cut

(* The call the user's Cancel reached while it ran never makes the         *)
(* workflow succeed, and neither does an answer nobody read: success comes *)
(* from another call, whose client was there.                              *)
SuccessIsAnotherCall ==
    wf = "ok" =>
        \E c \in Calls : c[1] = attempt /\ answer[c] = "OK" /\ c # hit /\ c \notin cut

(* The workflow returns, whatever the worker does. *)
WorkflowReturns == <>(wf # "running")

(* "Wait for workflow to complete with CANCELLED status"                   *)
(* (tests/e2e/45_control_signals_test.sh): a workflow whose running        *)
(* strategy took the user's Cancel, with no deadline passed and no         *)
(* connection cut, does not complete with success.                         *)
CancelTakesEffect == hit # NoCall /\ expired = {} /\ cut = {} => wf # "ok"
=============================================================================
