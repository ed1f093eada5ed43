---------------------------- MODULE ToolApproval ----------------------------
(***************************************************************************)
(* The approval of dangerous tools inside a running strategy:              *)
(* ToolRegistry.execute and _wait_approval (tools/registry.py) against the *)
(* ApproveDecision and Cancel RPCs (servicer.py, runtime.py).              *)
(*                                                                         *)
(* A task has ONE slot for the request that waits, one decision and one    *)
(* event, and its branches run concurrently: a second request overwrites   *)
(* the first.  A step is the code between two suspension points of the     *)
(* asyncio loop.  A call is named by its binding id, the hash of the tool, *)
(* its parameters and the session: two equal calls have the same id.       *)
(***************************************************************************)
EXTENDS Naturals, FiniteSets

CONSTANTS
    Branches,      \* the agents of the task that run concurrently
    Bindings,      \* binding ids of the dangerous calls they may make
    NoBinding,     \* no request, or a decision that carries no approval_id
    MaxRounds,     \* max_rounds of run_llm_with_tools, one dangerous call each
    MaxDecisions   \* bound: ApproveDecision RPCs that arrive

ASSUME ConstantsAssumption ==
    /\ NoBinding \notin Bindings
    /\ MaxRounds \in Nat
    /\ MaxDecisions \in Nat

VARIABLES
    request,     \* TaskState.approval_request, by its binding id
    decision,    \* TaskState.approval
    event,       \* TaskState.approval_event is set
    status,      \* TaskState.status
    cancelEvent, \* TaskState.cancel_event is set
    place,       \* where the call of each branch stands
    call,        \* the call each branch is making
    calls,       \* rounds each branch has spent on a dangerous call
    decisions,   \* ApproveDecision RPCs so far
    decidedFor,  \* history: the request the decision was applied to
    grants,      \* history: approvals applied
    runs         \* history: dangerous tools run

task == <<request, decision, event, status, cancelEvent>>
branch == <<place, call, calls>>
toolHistory == <<decidedFor, grants, runs>>
toolVars == <<task, branch, decisions, toolHistory>>

NoDecision == [id |-> NoBinding, verdict |-> "none"]

ToolInit ==
    /\ request = NoBinding
    /\ decision = NoDecision
    /\ event = FALSE
    /\ status = "running"
    /\ cancelEvent = FALSE
    /\ place = [b \in Branches |-> "idle"]
    /\ call = [b \in Branches |-> NoBinding]
    /\ calls = [b \in Branches |-> 0]
    /\ decisions = 0
    /\ decidedFor = NoBinding
    /\ grants = 0
    /\ runs = 0

-----------------------------------------------------------------------------
(* _approval_matches: an approval is there, the request that waits is this *)
(* very call, and the approval names no other.                             *)
Matches_AnyCall(x) == decision.verdict = "approved" /\ request # NoBinding
Matches(x) ==
    /\ decision.verdict = "approved"
    /\ request = x
    /\ decision.id \in {NoBinding, x}

(* The approval is consumed, then the tool runs. *)
Consume_Keeps == UNCHANGED <<request, decision>>
Consume ==
    /\ decision' = NoDecision
    /\ request' = NoBinding

Run(b) ==
    /\ Consume
    /\ \/ /\ place' = [place EXCEPT ![b] = "running"]
          /\ runs' = runs + 1
       \/ /\ place' = [place EXCEPT ![b] = "idle"]   \* the rate limit refuses it
          /\ UNCHANGED runs

RoundsLeft(b) == calls[b] < MaxRounds

(* A branch calls a dangerous tool; the loop has just seen that the task   *)
(* is not cancelled.  An approval that already matches is used at once;    *)
(* otherwise a request is put in the slot, whatever it held, and published.*)
Execute(b, x) ==
    /\ place[b] = "idle"
    /\ ~cancelEvent
    /\ RoundsLeft(b)
    /\ calls' = [calls EXCEPT ![b] = @ + 1]
    /\ call' = [call EXCEPT ![b] = x]
    /\ \/ /\ Matches(x)
          /\ Run(b)
          /\ UNCHANGED <<event, status>>
       \/ /\ ~Matches(x)
          /\ request' = x
          /\ decision' = NoDecision
          /\ event' = FALSE
          /\ status' = "waiting_approval"
          /\ place' = [place EXCEPT ![b] = "asking"]
          /\ UNCHANGED runs
    /\ UNCHANGED <<cancelEvent, decisions, decidedFor, grants>>

(* WORKFLOW_PAUSED is out; the event may have been set meanwhile. *)
Asked(b) ==
    /\ place[b] = "asking"
    /\ place' = [place EXCEPT ![b] = IF event THEN "woken" ELSE "waiting"]
    /\ UNCHANGED <<task, call, calls, decisions, toolHistory>>

(* A publish raises, WORKFLOW_PAUSED's or one of the tool's, and with it   *)
(* the agent.                                                              *)
PublishFails(b) ==
    /\ place[b] \in {"asking", "running"}
    /\ place' = [place EXCEPT ![b] = "failed"]
    /\ UNCHANGED <<task, call, calls, decisions, toolHistory>>

(* A decision is bound to the request that waits, if both name one. *)
Bound(x) == request = NoBinding \/ x = NoBinding \/ x = request

(* The waiter resumes and reads the decision it finds NOW, which is not    *)
(* always the one that woke it.                                            *)
Resume_Unchecked(b) ==
    /\ place[b] = "woken"
    /\ status' = IF decision.verdict = "approved" THEN "running" ELSE status
    /\ Run(b)
    /\ UNCHANGED <<event, cancelEvent, call, calls, decisions, decidedFor, grants>>

Resume(b) ==
    /\ place[b] = "woken"
    /\ status' = IF decision.verdict = "approved" /\ Bound(decision.id)
                 THEN "running" ELSE status
    /\ \/ Matches(call[b]) /\ Run(b)
       \/ /\ ~Matches(call[b])
          /\ place' = [place EXCEPT ![b] = "idle"]
          /\ UNCHANGED <<request, decision, runs>>
    /\ UNCHANGED <<event, cancelEvent, call, calls, decisions, decidedFor, grants>>

(* The wait times out; the request and the status stay as they are.        *)
TimedOut_Never(b) == FALSE   \* wait() without wait_for
TimedOut(b) ==
    /\ place[b] \in {"waiting", "woken"}
    /\ place' = [place EXCEPT ![b] = "idle"]
    /\ UNCHANGED <<task, call, calls, decisions, toolHistory>>

ToolReturns(b) ==
    /\ place[b] = "running"
    /\ place' = [place EXCEPT ![b] = "idle"]
    /\ UNCHANGED <<task, call, calls, decisions, toolHistory>>

-----------------------------------------------------------------------------
(* ApproveDecision: setting the event wakes every waiter there is. *)
Wake == place' = [b \in Branches |-> IF place[b] = "waiting" THEN "woken" ELSE place[b]]

ApproveDecision(x, verdict) ==
    /\ decisions < MaxDecisions
    /\ decisions' = decisions + 1
    /\ IF ~Bound(x)
       THEN UNCHANGED <<task, place, toolHistory>>
       ELSE /\ decision' = [id |-> x, verdict |-> verdict]
            /\ event' = TRUE
            /\ Wake
            /\ decidedFor' = request
            /\ IF verdict = "approved"
               THEN /\ status' = IF status = "waiting_approval" THEN "running" ELSE status
                    /\ grants' = grants + 1
                    /\ UNCHANGED cancelEvent
               ELSE /\ status' = "cancelled"
                    /\ cancelEvent' = TRUE
                    /\ UNCHANGED grants
            /\ UNCHANGED <<request, runs>>
    /\ UNCHANGED <<call, calls>>

(* Cancel does not wake the branches that wait for an approval. *)
RequestCancel ==
    /\ ~cancelEvent
    /\ cancelEvent' = TRUE
    /\ status' = IF status \in {"running", "waiting_approval"} THEN "cancelled" ELSE status
    /\ UNCHANGED <<request, decision, event, branch, decisions, toolHistory>>

-----------------------------------------------------------------------------
Branch(b) ==
    \/ Asked(b) \/ Resume(b) \/ TimedOut(b) \/ ToolReturns(b)

ToolNext ==
    \/ \E b \in Branches, x \in Bindings : Execute(b, x)
    \/ \E b \in Branches : Branch(b) \/ PublishFails(b)
    \/ \E x \in Bindings \cup {NoBinding}, v \in {"approved", "rejected"} : ApproveDecision(x, v)
    \/ RequestCancel

ToolSpec == ToolInit /\ [][ToolNext]_toolVars

(* Fairness: the loop resumes a branch that can run, the wait for an       *)
(* approval and the tool itself have timeouts.  Nobody has to decide.      *)
FairToolSpec == ToolSpec /\ \A b \in Branches : WF_toolVars(Branch(b))

-----------------------------------------------------------------------------
(* Properties *)

(* The types of the task's and the branches' variables. *)
ToolTypeOK ==
    /\ request \in Bindings \cup {NoBinding}
    /\ decision \in [id : Bindings \cup {NoBinding}, verdict : {"none", "approved", "rejected"}]
    /\ event \in BOOLEAN
    /\ status \in {"running", "waiting_approval", "cancelled"}
    /\ cancelEvent \in BOOLEAN
    /\ place \in [Branches -> {"idle", "asking", "waiting", "woken", "running", "failed"}]
    /\ call \in [Branches -> Bindings \cup {NoBinding}]
    /\ calls \in [Branches -> 0 .. MaxRounds]
    /\ decisions \in 0 .. MaxDecisions
    /\ decidedFor \in Bindings \cup {NoBinding}
    /\ grants \in Nat
    /\ runs \in Nat

Pending == IF decision.verdict = "approved" THEN 1 ELSE 0

(* One approval runs one tool: however many branches wait, and however     *)
(* many of them wait for the very same call, the decision that wakes them  *)
(* all is consumed by the first that resumes.                              *)
OneRunPerApproval == runs + Pending <= grants

(* A dangerous tool runs only on an approval that was applied while this   *)
(* very call was the one that waited: an approval meant for a request that *)
(* another branch overwrote, or one that came before any, runs nothing.    *)
RunsWhatWasDecided ==
    [][\A b \in Branches : place[b] # "running" /\ place'[b] = "running" =>
          /\ decision.verdict = "approved"
          /\ decidedFor = call'[b]]_toolVars

(* A call that waits for an approval comes back or runs, though no         *)
(* decision ever comes and its request may be gone from the slot.          *)
EveryAskEnds ==
    \A b \in Branches : place[b] \in {"asking", "waiting", "woken"}
        ~> place[b] \notin {"asking", "waiting", "woken"}
=============================================================================
