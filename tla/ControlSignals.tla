--------------------------- MODULE ControlSignals ---------------------------
(***************************************************************************)
(* Pause, resume and cancel of a task (workflows/control/handler.go), its  *)
(* callers in server/service.go, and the router that starts and registers  *)
(* the child workflows (workflows/orchestrator_router.go).  A child that   *)
(* its route leaves unregistered is told of no pause and no resume.        *)
(*                                                                         *)
(* A workflow runs two coroutines.  The main one works from checkpoint to  *)
(* checkpoint; the root's also starts a child, registers it and follows    *)
(* it.  The handler takes one signal at a time: it sets the state, awaits  *)
(* an activity that emits the event, and passes the signal on to the       *)
(* children registered then.  Each signal name is a channel of its own:    *)
(* the order of signals with different names is not kept, and the selector *)
(* takes from the first channel, in the order they were added, that holds  *)
(* one.                                                                    *)
(*                                                                         *)
(* Temporal, which is not in the repository, is taken at its documented    *)
(* behaviour: a cancelled context fails whatever waits on it, and a child  *)
(* is asked to cancel when its parent closes (PARENT_CLOSE_POLICY_REQUEST_ *)
(* CANCEL).  No bound is put on how long a workflow task takes, so nothing *)
(* is said of the 100 ms CancelTask sleeps.                                *)
(***************************************************************************)
EXTENDS Integers, Sequences, FiniteSets

CONSTANTS
    Root,            \* the router's workflow: the task the API names
    Kids,            \* the child workflows it may start, one at a time
    NoKid,
    Checkpoints,     \* Checkpoints[w]: the CheckPausePoint calls w makes
    MaxCommands      \* bound: the PauseTask, ResumeTask and CancelTask requests

ASSUME ConstantsAssumption ==
    /\ Root \notin Kids
    /\ NoKid \notin Kids
    /\ Checkpoints \in [Kids \cup {Root} -> Nat \ {0}]
    /\ MaxCommands \in Nat

Workflows == Kids \cup {Root}

VARIABLES
    main,       \* where the main coroutine stands
    left,       \* checkpoints still ahead of it
    kid,        \* the child the root is starting or following
    children,   \* the root's childWorkflowIDs
    isPaused,   \* State.IsPaused
    isCancelled,\* State.IsCancelled
    handler,    \* the signal being handled, how far, and whom it is yet to reach
    inbox,      \* signals waiting in each workflow's channels
    resuming,   \* ResumeTask requests past their query, before their signal
    native,     \* a CancelTask request past its signal, before CancelWorkflow
    ctxDone,    \* the workflow's context is cancelled
    commands    \* requests so far

flow == <<main, left, kid, children>>
state == <<isPaused, isCancelled>>
api == <<resuming, native, commands>>
vars == <<flow, state, handler, inbox, api, ctxDone>>

Signals == {"pause", "resume", "cancel"}
Idle == [at |-> "select", sig |-> "none", to |-> {}]

Init ==
    /\ main = [w \in Workflows |-> IF w = Root THEN "working" ELSE "none"]
    /\ left = Checkpoints
    /\ kid = NoKid
    /\ children = {}
    /\ isPaused = [w \in Workflows |-> FALSE]
    /\ isCancelled = [w \in Workflows |-> FALSE]
    /\ handler = [w \in Workflows |-> Idle]
    /\ inbox = [w \in Workflows |-> [s \in Signals |-> 0]]
    /\ resuming = 0
    /\ native = FALSE
    /\ ctxDone = [w \in Workflows |-> FALSE]
    /\ commands = 0

Running(w) == main[w] \notin {"none", "ended"}

Send(w, s) == inbox' = [inbox EXCEPT ![w][s] = @ + 1]

-----------------------------------------------------------------------------
(* The main coroutine *)

(* CheckPausePoint: emits CANCELLED and gives up, emits PAUSED and waits,  *)
(* or goes on.                                                             *)
CheckPausePoint(w) ==
    /\ main[w] = "working"
    /\ left[w] > 0
    /\ \/ /\ isCancelled[w]
          /\ main' = [main EXCEPT ![w] = "cancelling"]
          /\ UNCHANGED left
       \/ /\ ~isCancelled[w] /\ isPaused[w]
          /\ main' = [main EXCEPT ![w] = "pausing"]
          /\ UNCHANGED left
       \/ /\ ~isCancelled[w] /\ ~isPaused[w]
          /\ left' = [left EXCEPT ![w] = @ - 1]
          /\ UNCHANGED main
    /\ UNCHANGED <<kid, children, state, handler, inbox, api, ctxDone>>

Block(w) ==
    /\ main[w] = "pausing"
    /\ main' = [main EXCEPT ![w] = "paused"]
    /\ UNCHANGED <<left, kid, children, state, handler, inbox, api, ctxDone>>

Awaited_CancelOnly(w) == isCancelled[w]
Awaited(w) == ~isPaused[w] \/ isCancelled[w]

Unblock(w) ==
    /\ main[w] = "paused"
    /\ Awaited(w)
    /\ IF isCancelled[w]
       THEN main' = [main EXCEPT ![w] = "cancelling"] /\ UNCHANGED left
       ELSE /\ main' = [main EXCEPT ![w] = "working"]
            /\ left' = [left EXCEPT ![w] = @ - 1]
    /\ UNCHANGED <<kid, children, state, handler, inbox, api, ctxDone>>

(* The workflow returns: at a checkpoint, cancelled, or at its end.        *)
Return(w) ==
    /\ \/ main[w] = "cancelling"
       \/ main[w] = "working" /\ left[w] = 0
    /\ main' = [main EXCEPT ![w] = "ended"]
    /\ UNCHANGED <<left, kid, children, state, handler, inbox, api, ctxDone>>

(* The root, past a checkpoint, emits its delegation event, starts a child *)
(* and waits for its execution id ...                                      *)
StartChild(k) ==
    /\ main[Root] = "working"
    /\ left[Root] < Checkpoints[Root]
    /\ main[k] = "none"
    /\ main' = [main EXCEPT ![Root] = "starting"]
    /\ kid' = k
    /\ UNCHANGED <<left, children, state, handler, inbox, api, ctxDone>>

(* ... the child begins, or cannot be started ...                          *)
ChildStarts ==
    /\ main[Root] = "starting"
    /\ main[kid] = "none"
    /\ \/ main' = [main EXCEPT ![kid] = "working"]
       \/ main' = [main EXCEPT ![Root] = "ended"]
    /\ UNCHANGED <<left, kid, children, state, handler, inbox, api, ctxDone>>

RegisterChildWorkflow ==
    /\ main[Root] = "starting"
    /\ main[kid] # "none"
    /\ main' = [main EXCEPT ![Root] = "following"]
    /\ children' = children \cup {kid}
    /\ UNCHANGED <<left, kid, state, handler, inbox, api, ctxDone>>

(* ... which two routes leave out, skip_synthesis and context.agent ...     *)
FollowUnregistered ==
    /\ main[Root] = "starting"
    /\ main[kid] # "none"
    /\ main' = [main EXCEPT ![Root] = "following"]
    /\ UNCHANGED <<left, kid, children, state, handler, inbox, api, ctxDone>>

(* ... and has returned: the root returns too, or falls back to another    *)
(* child (a template that failed, which is always registered).             *)
UnregisterChildWorkflow ==
    /\ main[Root] = "following"
    /\ main[kid] = "ended"
    /\ children' = children \ {kid}
    /\ \/ main' = [main EXCEPT ![Root] = "ended"]
       \/ kid \in children /\ main' = [main EXCEPT ![Root] = "working"]
    /\ UNCHANGED <<left, kid, state, handler, inbox, api, ctxDone>>

-----------------------------------------------------------------------------
(* The handler coroutine *)

Ready_ResumeFirst(w, s) ==
    /\ inbox[w][s] > 0
    /\ s = "pause" => inbox[w]["resume"] = 0
    /\ s = "cancel" => inbox[w]["pause"] = 0 /\ inbox[w]["resume"] = 0

Ready(w, s) ==
    /\ inbox[w][s] > 0
    /\ s \in {"resume", "cancel"} => inbox[w]["pause"] = 0
    /\ s = "cancel" => inbox[w]["resume"] = 0

Ignored(w, s) ==
    \/ s = "pause" /\ isPaused[w]
    \/ s = "resume" /\ ~isPaused[w]

Handle(w, s) ==
    /\ Running(w)
    /\ handler[w] = Idle
    /\ Ready(w, s)
    /\ inbox' = [inbox EXCEPT ![w][s] = @ - 1]
    /\ IF Ignored(w, s)
       THEN UNCHANGED <<state, handler>>
       ELSE /\ isPaused' = [isPaused EXCEPT ![w] = (s = "pause") \/ (@ /\ s = "cancel")]
            /\ isCancelled' = [isCancelled EXCEPT ![w] = @ \/ s = "cancel"]
            /\ handler' = [handler EXCEPT ![w] = [at |-> "emit", sig |-> s, to |-> {}]]
    /\ UNCHANGED <<flow, api, ctxDone>>

(* propagateSignalToChildren: to a copy of the children registered now.    *)
Propagate(w) ==
    LET to == IF w = Root THEN children ELSE {}
    IN handler' = [handler EXCEPT ![w] =
           IF to = {} THEN Idle ELSE [at |-> "propagate", sig |-> @.sig, to |-> to]]

(* The event is out.  A cancel goes to the strategy worker first.          *)
Emitted(w) ==
    /\ Running(w)
    /\ handler[w].at = "emit"
    /\ IF handler[w].sig = "cancel"
       THEN handler' = [handler EXCEPT ![w].at = "worker"]
       ELSE Propagate(w)
    /\ UNCHANGED <<flow, state, inbox, api, ctxDone>>

WorkerCancelled(w) ==
    /\ Running(w)
    /\ handler[w].at = "worker"
    /\ Propagate(w)
    /\ UNCHANGED <<flow, state, inbox, api, ctxDone>>

(* SignalExternalWorkflow: an error, the child has ended, is ignored.      *)
Deliver(w, k) ==
    /\ Running(w)
    /\ k \in handler[w].to
    /\ handler' = [handler EXCEPT ![w] =
           IF @.to = {k} THEN Idle ELSE [@ EXCEPT !.to = handler[w].to \ {k}]]
    /\ \/ Running(k) /\ Send(k, handler[w].sig)
       \/ (~Running(k) \/ ctxDone[w]) /\ UNCHANGED inbox
    /\ UNCHANGED <<flow, state, api, ctxDone>>

-----------------------------------------------------------------------------
(* The API, and what Temporal does when a workflow is cancelled.           *)

Command ==
    /\ Running(Root)
    /\ commands < MaxCommands
    /\ commands' = commands + 1

(* PauseTask refuses a task its query finds paused; the query may fail.    *)
PauseTask ==
    /\ Command
    /\ Send(Root, "pause")
    /\ UNCHANGED <<flow, state, handler, resuming, native, ctxDone>>

ResumeTask ==
    /\ Command
    /\ isPaused[Root]
    /\ resuming' = resuming + 1
    /\ UNCHANGED <<flow, state, handler, inbox, native, ctxDone>>

SignalResume ==
    /\ resuming > 0
    /\ resuming' = resuming - 1
    /\ IF Running(Root) THEN Send(Root, "resume") ELSE UNCHANGED inbox
    /\ UNCHANGED <<flow, state, handler, native, commands, ctxDone>>

CancelTask ==
    /\ Command
    /\ Send(Root, "cancel")
    /\ native' = TRUE
    /\ UNCHANGED <<flow, state, handler, resuming, ctxDone>>

CancelWorkflow ==
    /\ native
    /\ native' = FALSE
    /\ ctxDone' = [ctxDone EXCEPT ![Root] = TRUE]
    /\ UNCHANGED <<flow, state, handler, inbox, resuming, commands>>

(* What the main coroutine awaits fails, and the workflow returns; so does *)
(* the child it leaves behind.                                             *)
Orphan_Abandoned == {}
Orphan == {k \in Kids : Running(k)}

Unwind(w) ==
    /\ ctxDone[w]
    /\ Running(w)
    /\ main' = [main EXCEPT ![w] = "ended"]
    /\ ctxDone' = IF w = Root
                  THEN [x \in Workflows |-> ctxDone[x] \/ x \in Orphan]
                  ELSE ctxDone
    /\ UNCHANGED <<left, kid, children, state, handler, inbox, api>>

-----------------------------------------------------------------------------
Main(w) == CheckPausePoint(w) \/ Block(w) \/ Unblock(w) \/ Return(w)

Router == (\E k \in Kids : StartChild(k)) \/ ChildStarts \/ RegisterChildWorkflow
          \/ FollowUnregistered \/ UnregisterChildWorkflow

Handler(w) ==
    \/ \E s \in Signals : Handle(w, s)
    \/ Emitted(w) \/ WorkerCancelled(w)
    \/ \E k \in Kids : Deliver(w, k)

Next ==
    \/ \E w \in Workflows : Main(w) \/ Handler(w) \/ Unwind(w)
    \/ Router
    \/ PauseTask \/ ResumeTask \/ SignalResume \/ CancelTask \/ CancelWorkflow

Spec == Init /\ [][Next]_vars

(***************************************************************************)
(* Fairness: Temporal schedules every coroutine that can run and delivers  *)
(* what was accepted, the activities of the handler have timeouts, and     *)
(* CancelTask goes on to CancelWorkflow after its sleep.  Nothing makes    *)
(* anyone pause, resume or cancel.                                         *)
(***************************************************************************)
Fairness ==
    /\ \A w \in Workflows : WF_vars(Main(w)) /\ WF_vars(Handler(w)) /\ WF_vars(Unwind(w))
    /\ WF_vars(Router)
    /\ WF_vars(SignalResume) /\ WF_vars(CancelWorkflow)

FairSpec == Spec /\ Fairness
-----------------------------------------------------------------------------
(* Properties *)

(* Every variable keeps to its type; a handler that passes a signal on has *)
(* someone left to tell.                                                   *)
TypeOK ==
    /\ main \in [Workflows -> {"none", "working", "pausing", "paused", "cancelling",
                               "starting", "following", "ended"}]
    /\ left \in [Workflows -> Nat]
    /\ kid \in Kids \cup {NoKid}
    /\ children \subseteq Kids
    /\ isPaused \in [Workflows -> BOOLEAN]
    /\ isCancelled \in [Workflows -> BOOLEAN]
    /\ \A w \in Workflows :
         \/ handler[w] = Idle
         \/ /\ handler[w].sig \in Signals
            /\ handler[w].to \subseteq Kids
            /\ handler[w].at \in {"emit", "worker", "propagate"}
            /\ handler[w].at = "propagate" <=> handler[w].to # {}
    /\ inbox \in [Workflows -> [Signals -> Nat]]
    /\ resuming \in 0 .. MaxCommands
    /\ native \in BOOLEAN
    /\ ctxDone \in [Workflows -> BOOLEAN]
    /\ commands \in 0 .. MaxCommands

Quiet(w) == handler[w] = Idle /\ \A s \in Signals : inbox[w][s] = 0

Live(w) == Running(w) /\ ~ctxDone[w]

(* Once every signal is handled, no child is paused under a root that is   *)
(* not: whatever the interleaving of pauses and resumes, though channels   *)
(* lose their order, a resume is never overtaken by an older pause.        *)
NoChildLeftPaused ==
    \A k \in Kids :
        Live(Root) /\ Live(k) /\ Quiet(Root) /\ Quiet(k) /\ isPaused[k] => isPaused[Root]

(* If the root is in the end not paused, the task ends: no checkpoint, of  *)
(* the root or of a child, waits for a resume that was given.              *)
ResumeFrees ==
    <>[](~isPaused[Root]) => \A w \in Workflows : Running(w) ~> main[w] = "ended"

(* CancelTask ends the task whatever it was doing: paused, starting a      *)
(* child, or following a child that is itself paused.                      *)
CancelEnds ==
    \A w \in Workflows : native /\ Running(w) ~> main[w] = "ended"
=============================================================================
