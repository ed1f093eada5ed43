------------------------ MODULE Orchestrator_proofs ------------------------
(***************************************************************************)
(* Proofs about two parts of the orchestrator: the signals of a task       *)
(* (ControlSignals) and the circuit breaker in front of its stores         *)
(* (CircuitBreaker).  They share nothing but this module.                  *)
(***************************************************************************)
EXTENDS CircuitBreaker, ControlSignals, FiniteSetTheorems, TLAPS

-----------------------------------------------------------------------------
(***************************************************************************)
(* Proofs about ControlSignals, for any children, checkpoints and number   *)
(* of requests: once every signal is handled no child is paused under a    *)
(* root that is not.                                                       *)
(*                                                                         *)
(* The root passes its signals on in the order in which it handled them,   *)
(* to the children registered at that time; the channels of a child lose   *)
(* that order, but a child takes its pauses before its resumes.  So a      *)
(* child that is paused, or has a pause before it, has a resume before it  *)
(* as well unless the root is paused itself.                               *)
(***************************************************************************)

Handlers == [at : {"select", "emit", "worker", "propagate"}, sig : Signals \cup {"none"},
             to : SUBSET Kids]

(* The handler of w.                                                       *)
HandlerAt(w) ==
    LET h == handler[w]
    IN  /\ h = Idle \/ (h.sig # "none" /\ h.at # "select")
        /\ h.at = "propagate" <=> h.to # {}
        /\ h.at = "worker" => h.sig = "cancel"
        /\ h.sig = "pause" => isPaused[w]
        /\ w \in Kids => h.to = {}

(* A signal of the root has reached k, or is on its way.                   *)
Told(k) ==
    isPaused[k] \/ (\E s \in Signals : inbox[k][s] > 0) \/ k \in handler[Root].to

PauseAhead(k) ==
    isPaused[k] \/ inbox[k]["pause"] > 0 \/ (k \in handler[Root].to /\ handler[Root].sig = "pause")

ResumeAhead(k) ==
    \/ inbox[k]["resume"] > 0
    \/ handler[Root].sig = "resume" /\ (handler[Root].at = "emit" \/ k \in handler[Root].to)

(* Only a registered child is told anything, and it stays registered.      *)
Registered(k) ==
    /\ k \in children \/ Told(k) => main[k] # "none"
    /\ Running(k) /\ Told(k) => k \in children

Followed(k) == Live(Root) /\ Running(k) /\ PauseAhead(k) => isPaused[Root] \/ ResumeAhead(k)

(* Who waits at a checkpoint has it before him still.                      *)
AtCheckpoint == \A w \in Workflows : main[w] \in {"pausing", "paused"} => left[w] > 0

IInv ==
    /\ TypeOK
    /\ AtCheckpoint
    /\ resuming <= commands
    /\ handler \in [Workflows -> Handlers]
    /\ main[Root] \in {"starting", "following"} => kid \in Kids
    /\ \A w \in Workflows : HandlerAt(w)
    /\ \A k \in Kids : Registered(k) /\ Followed(k)

-----------------------------------------------------------------------------
(* Handlers and channels                                                   *)

LEMMA WorkflowsAre ==
    /\ Root \in Workflows /\ \A k \in Kids : k \in Workflows /\ k # Root
    /\ \A w \in Workflows : w = Root \/ w \in Kids
BY ConstantsAssumption DEF Workflows

LEMMA IdleFields ==
    Idle \in Handlers /\ Idle.at = "select" /\ Idle.sig = "none" /\ Idle.to = {}
BY DEF Idle, Handlers

(* TypeOK says of the handlers what Handlers and HandlerAt say.            *)
LEMMA HandlersTyped ==
    ASSUME handler' \in [Workflows -> Handlers], NEW w \in Workflows, HandlerAt(w)'
    PROVE  \/ handler'[w] = Idle
           \/ /\ handler'[w].sig \in Signals
              /\ handler'[w].to \subseteq Kids
              /\ handler'[w].at \in {"emit", "worker", "propagate"}
              /\ handler'[w].at = "propagate" <=> handler'[w].to # {}
BY DEF HandlerAt, Handlers

LEMMA ChannelMoves ==
    ASSUME TypeOK, NEW w \in Workflows, NEW s \in Signals, NEW n \in Nat,
           inbox' = [inbox EXCEPT ![w][s] = n]
    PROVE  /\ inbox' \in [Workflows -> [Signals -> Nat]]
           /\ inbox'[w][s] = n
           /\ \A r \in Signals \ {s} : inbox'[w][r] = inbox[w][r]
           /\ \A v \in Workflows \ {w} : inbox'[v] = inbox[v]
BY DEF TypeOK

LEMMA InboxCounts ==
    ASSUME TypeOK, NEW w \in Workflows, NEW s \in Signals
    PROVE  inbox[w][s] \in Nat /\ inbox[w][s] + 1 \in Nat /\ inbox[w][s] + 1 > 0
BY DEF TypeOK

LEMMA AheadIsTold ==
    ASSUME NEW k \in Kids, PauseAhead(k)
    PROVE  Told(k)
BY DEF PauseAhead, Told, Signals

-----------------------------------------------------------------------------
(* Steps that touch no signal                                              *)

(* A child begins untold, goes on, or ends; its registration may go when   *)
(* it has ended.                                                           *)
LEMMA FlowMoves ==
    ASSUME IInv, TypeOK', AtCheckpoint',
           UNCHANGED <<handler, isPaused, inbox, resuming, commands>>,
           (main[Root] \in {"starting", "following"})' => kid' \in Kids,
           Live(Root)' => Live(Root),
           \A k \in Kids :
               /\ main[k] # "none" => main'[k] # "none"
               /\ Running(k)' => Running(k) \/ main[k] = "none"
               /\ k \in children' => main'[k] # "none"
               /\ k \in children /\ Running(k)' => k \in children'
    PROVE  IInv'
<1>1. \A w \in Workflows : HandlerAt(w)'
  BY DEF IInv, HandlerAt
<1>2. ASSUME NEW k \in Kids
      PROVE  Registered(k)' /\ Followed(k)'
  <2>1. /\ Told(k)' <=> Told(k)
        /\ PauseAhead(k)' <=> PauseAhead(k)
        /\ ResumeAhead(k)' <=> ResumeAhead(k)
    BY DEF Told, PauseAhead, ResumeAhead
  <2>2. Registered(k) /\ Followed(k)
    BY DEF IInv
  <2>3. main[k] = "none" => ~Told(k)
    BY <2>2 DEF Registered
  <2>4. Registered(k)'
    BY <2>1, <2>2, <2>3 DEF Registered
  <2>5. Followed(k)'
    BY <2>1, <2>2, <2>3, AheadIsTold DEF Followed
  <2> QED BY <2>4, <2>5
<1> QED BY <1>1, <1>2 DEF IInv

(* A step of the main coroutine of one workflow.                           *)
LEMMA MainMoves ==
    ASSUME IInv, NEW w \in Workflows, Running(w),
           NEW p \in {"working", "pausing", "paused", "cancelling", "ended"},
           main' = [main EXCEPT ![w] = p],
           left' \in [Workflows -> Nat], \A v \in Workflows \ {w} : left'[v] = left[v],
           p \in {"pausing", "paused"} => left'[w] > 0,
           ctxDone' \in [Workflows -> BOOLEAN],
           ctxDone[Root] => ctxDone'[Root],
           UNCHANGED <<kid, children, isPaused, isCancelled, handler, inbox, resuming, native,
                       commands>>
    PROVE  IInv'
<1>1. main'[w] = p /\ \A v \in Workflows \ {w} : main'[v] = main[v]
  BY DEF IInv, TypeOK
<1>2. TypeOK'
  <2>1. main' \in [Workflows -> {"none", "working", "pausing", "paused", "cancelling",
                                 "starting", "following", "ended"}]
    BY DEF IInv, TypeOK
  <2> QED BY <2>1 DEF IInv, TypeOK
<1>3. (main[Root] \in {"starting", "following"})' => kid' \in Kids
  BY <1>1, WorkflowsAre DEF IInv
<1>4. \A v \in Workflows : Running(v)' => Running(v)
  BY <1>1 DEF Running
<1>5. Live(Root)' => Live(Root)
  BY <1>4, WorkflowsAre DEF Live
<1>6. \A k \in Kids : (main[k] # "none" => main'[k] # "none") /\ (k \in children' => main'[k] # "none")
  BY <1>1, WorkflowsAre DEF IInv, Registered
<1>7. AtCheckpoint'
  BY <1>1 DEF IInv, AtCheckpoint
<1> QED BY <1>2, <1>3, <1>4, <1>5, <1>6, <1>7, WorkflowsAre, FlowMoves

LEMMA MainStep ==
    ASSUME IInv, NEW w \in Workflows, Main(w)
    PROVE  IInv'
<1>1. left \in [Workflows -> Nat] /\ ctxDone \in [Workflows -> BOOLEAN]
  BY DEF IInv, TypeOK
<1>2. main \in [Workflows -> {"none", "working", "pausing", "paused", "cancelling",
                              "starting", "following", "ended"}]
  BY DEF IInv, TypeOK
<1>3. CASE CheckPausePoint(w)
  <2>1. main[w] = "working" /\ left[w] > 0 /\ Running(w)
    BY <1>3 DEF CheckPausePoint, Running
  <2>2. CASE /\ main' = [main EXCEPT ![w] = "cancelling"] \/ main' = [main EXCEPT ![w] = "pausing"]
             /\ UNCHANGED left
    BY <1>1, <1>3, <2>1, <2>2, MainMoves DEF CheckPausePoint, state, api
  <2>3. CASE left' = [left EXCEPT ![w] = @ - 1] /\ UNCHANGED main
    <3>1. main' = [main EXCEPT ![w] = "working"]
      BY <1>2, <2>1, <2>3
    <3>2. left[w] - 1 \in Nat
      BY <1>1, <2>1
    <3>3. left' \in [Workflows -> Nat] /\ \A v \in Workflows \ {w} : left'[v] = left[v]
      BY <1>1, <2>3, <3>2
    <3> QED BY <1>1, <1>3, <2>1, <3>1, <3>3, MainMoves DEF CheckPausePoint, state, api
  <2> QED BY <1>3, <2>2, <2>3 DEF CheckPausePoint
<1>4. CASE Block(w)
  <2>1. left[w] > 0
    BY <1>4 DEF Block, IInv, AtCheckpoint
  <2> QED BY <1>1, <1>4, <2>1, MainMoves DEF Block, Running, state, api
<1>5. CASE Unblock(w)
  <2>1. Running(w)
    BY <1>5 DEF Unblock, Running
  <2>2. CASE main' = [main EXCEPT ![w] = "cancelling"] /\ UNCHANGED left
    BY <1>1, <1>5, <2>1, <2>2, MainMoves DEF Unblock, state, api
  <2>3. CASE main' = [main EXCEPT ![w] = "working"] /\ left' = [left EXCEPT ![w] = @ - 1]
    <3>1. left[w] - 1 \in Nat
      BY <1>1, <1>5 DEF Unblock, IInv, AtCheckpoint
    <3>2. left' \in [Workflows -> Nat] /\ \A v \in Workflows \ {w} : left'[v] = left[v]
      BY <1>1, <2>3, <3>1
    <3> QED BY <1>1, <1>5, <2>1, <2>3, <3>2, MainMoves DEF Unblock, state, api
  <2> QED BY <1>5, <2>2, <2>3 DEF Unblock
<1>6. CASE Return(w)
  BY <1>1, <1>6, MainMoves DEF Return, Running, state, api
<1> QED BY <1>3, <1>4, <1>5, <1>6 DEF Main

LEMMA RouterStep ==
    ASSUME IInv, Router
    PROVE  IInv'
<1>1. /\ UNCHANGED <<left, isPaused, isCancelled, handler, inbox, resuming, native>>
      /\ UNCHANGED <<commands, ctxDone>>
  BY DEF Router, StartChild, ChildStarts, RegisterChildWorkflow, FollowUnregistered,
         UnregisterChildWorkflow, state, api
<1>2. main \in [Workflows -> {"none", "working", "pausing", "paused", "cancelling",
                              "starting", "following", "ended"}]
  BY DEF IInv, TypeOK
<1>3. ASSUME NEW w \in Workflows, main[w] # "ended",
             NEW p \in {"working", "starting", "following", "ended"},
             main' = [main EXCEPT ![w] = p],
             main[w] = "none" => w # Root,
             (main[Root] \in {"starting", "following"})' => kid' \in Kids,
             kid' \in Kids \cup {NoKid}, children' \subseteq Kids,
             \A k \in Kids : /\ k \in children' => main'[k] # "none"
                             /\ k \in children /\ Running(k)' => k \in children'
      PROVE  IInv'
  <2>1. main'[w] = p /\ \A v \in Workflows \ {w} : main'[v] = main[v]
    BY <1>2, <1>3
  <2>2. TypeOK'
    <3>1. main' \in [Workflows -> {"none", "working", "pausing", "paused", "cancelling",
                                   "starting", "following", "ended"}]
      BY <1>2, <1>3
    <3> QED BY <1>1, <1>3, <3>1 DEF IInv, TypeOK
  <2>3. AtCheckpoint'
    BY <1>1, <1>3, <2>1 DEF IInv, AtCheckpoint
  <2>4. Live(Root)' => Live(Root)
    BY <1>1, <1>3, <2>1, WorkflowsAre DEF Live, Running
  <2>5. \A k \in Kids : /\ main[k] # "none" => main'[k] # "none"
                        /\ Running(k)' => Running(k) \/ main[k] = "none"
    BY <1>3, <2>1, WorkflowsAre DEF Running
  <2> QED BY <1>1, <1>3, <2>2, <2>3, <2>4, <2>5, FlowMoves
<1>4. CASE \E k \in Kids : StartChild(k)
  <2>1. PICK k \in Kids : /\ main[Root] = "working" /\ main' = [main EXCEPT ![Root] = "starting"]
                          /\ kid' = k /\ UNCHANGED children
    BY <1>4 DEF StartChild
  <2>2. \A j \in Kids : main'[j] = main[j]
    BY <1>2, <2>1, WorkflowsAre
  <2> QED BY <1>3, <2>1, <2>2, WorkflowsAre DEF IInv, TypeOK, Registered
<1>5. CASE ChildStarts
  <2>1. /\ main[Root] = "starting" /\ main[kid] = "none" /\ UNCHANGED <<kid, children>>
        /\ kid \in Kids
    BY <1>5 DEF ChildStarts, IInv
  <2>2. CASE main' = [main EXCEPT ![kid] = "working"]
    <3>1. \A j \in Kids : j \in children => main'[j] # "none"
      BY <1>2, <2>1, <2>2, WorkflowsAre DEF IInv, Registered
    <3> QED BY <1>3, <2>1, <2>2, <3>1, WorkflowsAre DEF IInv, TypeOK
  <2>3. CASE main' = [main EXCEPT ![Root] = "ended"]
    <3>1. \A j \in Kids : j \in children => main'[j] # "none"
      BY <1>2, <2>1, <2>3, WorkflowsAre DEF IInv, Registered
    <3> QED BY <1>3, <2>1, <2>3, <3>1, WorkflowsAre DEF IInv, TypeOK
  <2> QED BY <1>5, <2>2, <2>3 DEF ChildStarts
<1>6. CASE RegisterChildWorkflow \/ FollowUnregistered
  <2>1. /\ main[Root] = "starting" /\ main[kid] # "none" /\ UNCHANGED kid
        /\ main' = [main EXCEPT ![Root] = "following"]
        /\ children' \in {children, children \cup {kid}} /\ kid \in Kids
    BY <1>6 DEF RegisterChildWorkflow, FollowUnregistered, IInv
  <2>2. \A j \in Kids : main'[j] = main[j]
    BY <1>2, <2>1, WorkflowsAre
  <2> QED BY <1>3, <2>1, <2>2, WorkflowsAre DEF IInv, TypeOK, Registered
<1>7. CASE UnregisterChildWorkflow
  <2>1. /\ main[Root] = "following" /\ main[kid] = "ended" /\ UNCHANGED kid
        /\ children' = children \ {kid} /\ kid \in Kids
    BY <1>7 DEF UnregisterChildWorkflow, IInv
  <2>2. PICK next \in {"working", "ended"} : main' = [main EXCEPT ![Root] = next]
    BY <1>7 DEF UnregisterChildWorkflow
  <2>3. \A j \in Kids : main'[j] = main[j]
    BY <1>2, <2>2, WorkflowsAre
  <2>4. \A j \in Kids : j \in children /\ Running(j)' => j \in children'
    BY <2>1, <2>3 DEF Running
  <2> QED BY <1>3, <2>1, <2>2, <2>3, <2>4, WorkflowsAre DEF IInv, TypeOK, Registered
<1> QED BY <1>4, <1>5, <1>6, <1>7 DEF Router

LEMMA UnwindStep ==
    ASSUME IInv, NEW w \in Workflows, Unwind(w)
    PROVE  IInv'
<1>1. /\ Running(w) /\ main' = [main EXCEPT ![w] = "ended"]
      /\ UNCHANGED <<left, kid, children, isPaused, isCancelled, handler, inbox, resuming>>
      /\ UNCHANGED <<native, commands>>
  BY DEF Unwind, state, api
<1>2. ctxDone' \in [Workflows -> BOOLEAN] /\ (ctxDone[Root] => ctxDone'[Root])
  <2>1. ctxDone \in [Workflows -> BOOLEAN]
    BY DEF IInv, TypeOK
  <2>2. CASE w = Root
    <3>1. ctxDone' = [x \in Workflows |-> ctxDone[x] \/ x \in Orphan]
      BY <2>2 DEF Unwind
    <3>2. \A x \in Workflows : (ctxDone[x] \/ x \in Orphan) \in BOOLEAN
      OBVIOUS
    <3>3. ctxDone' \in [Workflows -> BOOLEAN]
      BY <3>1, <3>2
    <3> QED BY <3>1, <3>3, WorkflowsAre
  <2>3. CASE w # Root
    BY <2>1, <2>3 DEF Unwind
  <2> QED BY <2>2, <2>3
<1> QED BY <1>1, <1>2, MainMoves DEF IInv, TypeOK

LEMMA CancelWorkflowStep ==
    ASSUME IInv, CancelWorkflow
    PROVE  IInv'
<1>1. /\ native' = FALSE /\ ctxDone' = [ctxDone EXCEPT ![Root] = TRUE]
      /\ UNCHANGED <<main, left, kid, children, isPaused, isCancelled, handler, inbox>>
      /\ UNCHANGED <<resuming, commands>>
  BY DEF CancelWorkflow, flow, state
<1>2. ctxDone' \in [Workflows -> BOOLEAN] /\ ctxDone'[Root]
  BY <1>1, WorkflowsAre DEF IInv, TypeOK
<1>3. TypeOK' /\ AtCheckpoint'
  BY <1>1, <1>2 DEF IInv, TypeOK, AtCheckpoint
<1>4. ~Live(Root)'
  BY <1>2 DEF Live
<1> QED BY <1>1, <1>3, <1>4, FlowMoves DEF IInv, Registered, Running

-----------------------------------------------------------------------------
(* The requests: they are signals to the root, and tell no child           *)

LEMMA RequestMoves ==
    ASSUME IInv, TypeOK', resuming' <= commands',
           UNCHANGED <<main, left, kid, children, isPaused, isCancelled, handler, ctxDone>>,
           \A k \in Kids : inbox'[k] = inbox[k]
    PROVE  IInv'
<1>1. AtCheckpoint' /\ \A w \in Workflows : HandlerAt(w)'
  BY DEF IInv, AtCheckpoint, HandlerAt
<1>2. ASSUME NEW k \in Kids
      PROVE  Registered(k)' /\ Followed(k)'
  BY DEF IInv, Registered, Followed, Told, PauseAhead, ResumeAhead, Live, Running
<1> QED BY <1>1, <1>2 DEF IInv

LEMMA RequestStep ==
    ASSUME IInv, PauseTask \/ ResumeTask \/ SignalResume \/ CancelTask
    PROVE  IInv'
<1>1. UNCHANGED <<main, left, kid, children, isPaused, isCancelled, handler, ctxDone>>
  BY DEF PauseTask, ResumeTask, SignalResume, CancelTask, flow, state
<1>2. /\ resuming \in 0 .. MaxCommands /\ commands \in 0 .. MaxCommands
      /\ resuming <= commands /\ MaxCommands \in Nat
  BY ConstantsAssumption DEF IInv, TypeOK
<1>3. /\ resuming' \in 0 .. MaxCommands /\ commands' \in 0 .. MaxCommands
      /\ resuming' <= commands' /\ native' \in BOOLEAN
  <2>1. CASE PauseTask \/ CancelTask
    <3>1. native \in BOOLEAN
      BY DEF IInv, TypeOK
    <3>2. /\ commands < MaxCommands /\ commands' = commands + 1 /\ resuming' = resuming
          /\ native' \in {native, TRUE}
      BY <2>1 DEF PauseTask, CancelTask, Command
    <3>3. commands' \in 0 .. MaxCommands /\ resuming' <= commands'
      BY <1>2, <3>2
    <3> QED BY <1>2, <3>1, <3>2, <3>3
  <2>2. CASE ResumeTask
    BY <1>2, <2>2 DEF ResumeTask, Command, IInv, TypeOK
  <2>3. CASE SignalResume
    BY <1>2, <2>3 DEF SignalResume, IInv, TypeOK
  <2> QED BY <2>1, <2>2, <2>3
<1>4. UNCHANGED inbox \/ \E s \in Signals : Send(Root, s)
  BY DEF PauseTask, ResumeTask, SignalResume, CancelTask, Signals
<1>5. /\ inbox' \in [Workflows -> [Signals -> Nat]]
      /\ \A k \in Kids : inbox'[k] = inbox[k]
  <2>1. CASE UNCHANGED inbox
    BY <2>1 DEF IInv, TypeOK
  <2>2. ASSUME NEW s \in Signals, Send(Root, s)
        PROVE  /\ inbox' \in [Workflows -> [Signals -> Nat]]
               /\ \A k \in Kids : inbox'[k] = inbox[k]
    <3>1. inbox' = [inbox EXCEPT ![Root][s] = inbox[Root][s] + 1] /\ inbox[Root][s] + 1 \in Nat
      BY <2>2, InboxCounts, WorkflowsAre DEF Send, IInv
    <3> QED BY <3>1, ChannelMoves, WorkflowsAre DEF IInv
  <2> QED BY <1>4, <2>1, <2>2
<1>6. TypeOK'
  BY <1>1, <1>3, <1>5 DEF IInv, TypeOK
<1> QED BY <1>1, <1>3, <1>5, <1>6, RequestMoves

-----------------------------------------------------------------------------
(* The handlers                                                            *)

(* The handler of a child takes a signal, or is done with one: it passes   *)
(* nothing on.                                                             *)
LEMMA KidHandles ==
    ASSUME IInv, NEW k \in Kids, NEW s \in Signals, Handle(k, s)
    PROVE  IInv'
<1> DEFINE h == [at |-> "emit", sig |-> s, to |-> {}]
<1>1. /\ Running(k) /\ Ready(k, s) /\ inbox' = [inbox EXCEPT ![k][s] = @ - 1]
      /\ \/ Ignored(k, s) /\ UNCHANGED <<isPaused, isCancelled, handler>>
         \/ /\ isPaused' = [isPaused EXCEPT ![k] = (s = "pause") \/ (@ /\ s = "cancel")]
            /\ isCancelled' = [isCancelled EXCEPT ![k] = @ \/ s = "cancel"]
            /\ handler' = [handler EXCEPT ![k] = h]
      /\ UNCHANGED <<main, left, kid, children, resuming, native, commands, ctxDone>>
  BY DEF Handle, flow, state, api
<1>2. inbox[k][s] > 0 /\ inbox[k][s] \in Nat /\ inbox[k][s] - 1 \in Nat
  BY <1>1, InboxCounts, WorkflowsAre DEF Ready, IInv
<1>3. /\ inbox' \in [Workflows -> [Signals -> Nat]]
      /\ inbox'[k][s] = inbox[k][s] - 1
      /\ \A r \in Signals \ {s} : inbox'[k][r] = inbox[k][r]
      /\ \A v \in Workflows \ {k} : inbox'[v] = inbox[v]
  <2>1. inbox' = [inbox EXCEPT ![k][s] = inbox[k][s] - 1]
    BY <1>1
  <2> QED BY <1>2, <2>1, ChannelMoves, WorkflowsAre DEF IInv
<1>4. h \in Handlers /\ h.at = "emit" /\ h.sig = s /\ h.to = {}
  BY DEF Handlers
<1>5. /\ isPaused' \in [Workflows -> BOOLEAN] /\ isCancelled' \in [Workflows -> BOOLEAN]
      /\ isPaused'[k] => s = "pause" \/ (isPaused[k] /\ s # "resume")
      /\ \A v \in Workflows \ {k} : isPaused'[v] = isPaused[v]
  <2>1. /\ isPaused \in [Workflows -> BOOLEAN] /\ isCancelled \in [Workflows -> BOOLEAN]
        /\ k \in Workflows
    BY WorkflowsAre DEF IInv, TypeOK
  <2>2. CASE Ignored(k, s) /\ UNCHANGED <<isPaused, isCancelled>>
    BY <2>1, <2>2 DEF Ignored
  <2>3. CASE /\ isPaused' = [isPaused EXCEPT ![k] = (s = "pause") \/ (@ /\ s = "cancel")]
             /\ isCancelled' = [isCancelled EXCEPT ![k] = @ \/ s = "cancel"]
    <3>1. ((s = "pause") \/ (isPaused[k] /\ s = "cancel")) \in BOOLEAN
      OBVIOUS
    <3>2. isPaused' \in [Workflows -> BOOLEAN] /\ isCancelled' \in [Workflows -> BOOLEAN]
      BY <2>1, <2>3, <3>1
    <3> QED BY <2>1, <2>3, <3>2
  <2> QED BY <1>1, <2>2, <2>3
<1>6. /\ handler' \in [Workflows -> Handlers]
      /\ handler'[k] = h => isPaused'[k] \/ s # "pause"
      /\ handler'[k] # h => handler'[k] = handler[k] /\ isPaused'[k] = isPaused[k]
      /\ \A v \in Workflows \ {k} : handler'[v] = handler[v]
  <2>1. handler \in [Workflows -> Handlers] /\ k \in Workflows
        /\ isPaused \in [Workflows -> BOOLEAN] /\ isPaused[k] \in BOOLEAN
    BY WorkflowsAre DEF IInv, TypeOK
  <2> HIDE DEF h
  <2>2. CASE Ignored(k, s) /\ UNCHANGED <<isPaused, isCancelled, handler>>
    BY <2>1, <2>2 DEF Ignored
  <2>3. CASE /\ isPaused' = [isPaused EXCEPT ![k] = (s = "pause") \/ (@ /\ s = "cancel")]
             /\ handler' = [handler EXCEPT ![k] = h]
    BY <1>4, <2>1, <2>3
  <2> QED BY <1>1, <2>2, <2>3
<1> HIDE DEF h
<1>7. \A w \in Workflows : HandlerAt(w)'
  <2> SUFFICES ASSUME NEW w \in Workflows
               PROVE  HandlerAt(w)'
    OBVIOUS
  <2>1. HandlerAt(w)
    BY DEF IInv
  <2>2. CASE w # k
    BY <1>5, <1>6, <2>1, <2>2 DEF HandlerAt
  <2>3. CASE w = k /\ handler'[k] = h
    BY <1>4, <1>6, <2>3 DEF HandlerAt, Signals
  <2>4. CASE w = k /\ handler'[k] # h
    BY <1>6, <2>1, <2>4 DEF HandlerAt
  <2> QED BY <2>2, <2>3, <2>4
<1>8. TypeOK'
  <2>1. \A w \in Workflows :
           \/ handler'[w] = Idle
           \/ /\ handler'[w].sig \in Signals
              /\ handler'[w].to \subseteq Kids
              /\ handler'[w].at \in {"emit", "worker", "propagate"}
              /\ handler'[w].at = "propagate" <=> handler'[w].to # {}
    BY <1>6, <1>7, HandlersTyped
  <2> QED BY <1>1, <1>3, <1>5, <2>1 DEF IInv, TypeOK
<1>9. ASSUME NEW j \in Kids
      PROVE  Registered(j)' /\ Followed(j)'
  <2>1. handler'[Root] = handler[Root] /\ isPaused'[Root] = isPaused[Root]
    BY <1>5, <1>6, WorkflowsAre
  <2>2. Registered(j) /\ Followed(j) /\ j \in Workflows
    BY WorkflowsAre DEF IInv
  <2>3. CASE j # k
    BY <1>1, <1>3, <1>5, <2>1, <2>2, <2>3
    DEF Registered, Followed, Told, PauseAhead, ResumeAhead, Live, Running
  <2>4. CASE j = k
    <3>1. Told(k) /\ Registered(k)
      BY <1>2, <2>2, <2>4 DEF Told
    <3>2. Registered(j)'
      BY <1>1, <2>4, <3>1 DEF Registered, Running
    <3>3. ASSUME Live(Root), PauseAhead(k)'
          PROVE  isPaused[Root] \/ ResumeAhead(k)'
      <4>1. CASE s = "pause"
        <5>1. PauseAhead(k)
          BY <1>2, <4>1 DEF PauseAhead
        <5>2. inbox'[k]["resume"] = inbox[k]["resume"]
          BY <1>3, <4>1 DEF Signals
        <5> QED BY <1>1, <2>1, <2>2, <2>4, <3>3, <5>1, <5>2 DEF Followed, ResumeAhead
      <4>2. CASE s = "cancel"
        <5>1. PauseAhead(k) /\ inbox'[k]["resume"] = inbox[k]["resume"]
          BY <1>3, <1>5, <2>1, <3>3, <4>2 DEF PauseAhead, Signals
        <5> QED BY <1>1, <2>1, <2>2, <2>4, <3>3, <5>1 DEF Followed, ResumeAhead
      <4>3. CASE s = "resume"
        <5>1. inbox[k]["pause"] = 0
          BY <1>1, <4>3 DEF Ready
        <5>2. inbox'[k]["pause"] = 0 /\ ~isPaused'[k]
          BY <1>3, <1>5, <4>3, <5>1 DEF Signals
        <5>3. handler[Root].sig = "pause"
          BY <2>1, <3>3, <5>2 DEF PauseAhead
        <5> QED BY <5>3, WorkflowsAre DEF IInv, HandlerAt
      <4> QED BY <4>1, <4>2, <4>3 DEF Signals
    <3>4. Followed(j)'
      BY <1>1, <2>1, <2>4, <3>3 DEF Followed, Live, Running
    <3> QED BY <3>2, <3>4
  <2> QED BY <2>3, <2>4
<1>10. AtCheckpoint' /\ ((main[Root] \in {"starting", "following"})' => kid' \in Kids)
       /\ resuming' <= commands'
  BY <1>1 DEF IInv, AtCheckpoint
<1> QED BY <1>6, <1>7, <1>8, <1>9, <1>10 DEF IInv

(* The root takes a signal: from a pause on it is paused itself, and a     *)
(* resume it does not ignore is at once ahead of every child.              *)
LEMMA RootHandles ==
    ASSUME IInv, NEW s \in Signals, Handle(Root, s)
    PROVE  IInv'
<1> DEFINE h == [at |-> "emit", sig |-> s, to |-> {}]
<1>1. /\ handler[Root] = Idle /\ inbox[Root][s] > 0
      /\ inbox' = [inbox EXCEPT ![Root][s] = @ - 1]
      /\ \/ Ignored(Root, s) /\ UNCHANGED <<isPaused, isCancelled, handler>>
         \/ /\ isPaused' = [isPaused EXCEPT ![Root] = (s = "pause") \/ (@ /\ s = "cancel")]
            /\ isCancelled' = [isCancelled EXCEPT ![Root] = @ \/ s = "cancel"]
            /\ handler' = [handler EXCEPT ![Root] = h]
      /\ UNCHANGED <<main, left, kid, children, resuming, native, commands, ctxDone>>
  BY DEF Handle, Ready, flow, state, api
<1>2. inbox[Root][s] \in Nat /\ inbox[Root][s] - 1 \in Nat
  BY <1>1, InboxCounts, WorkflowsAre DEF IInv
<1>3. /\ inbox' \in [Workflows -> [Signals -> Nat]]
      /\ \A k \in Kids : inbox'[k] = inbox[k]
  <2>1. inbox' = [inbox EXCEPT ![Root][s] = inbox[Root][s] - 1]
    BY <1>1
  <2> QED BY <1>2, <2>1, ChannelMoves, WorkflowsAre DEF IInv
<1>4. h \in Handlers /\ h.at = "emit" /\ h.sig = s /\ h.to = {}
  BY DEF Handlers
<1>5. handler \in [Workflows -> Handlers] /\ isPaused \in [Workflows -> BOOLEAN]
      /\ isCancelled \in [Workflows -> BOOLEAN] /\ isPaused[Root] \in BOOLEAN
  BY WorkflowsAre DEF IInv, TypeOK
<1> HIDE DEF h
<1>6. /\ isPaused' \in [Workflows -> BOOLEAN] /\ isCancelled' \in [Workflows -> BOOLEAN]
      /\ handler' \in [Workflows -> Handlers]
      /\ \A k \in Kids : isPaused'[k] = isPaused[k] /\ handler'[k] = handler[k]
      /\ \/ handler'[Root] = Idle /\ isPaused'[Root] = isPaused[Root]
         \/ /\ s = "pause" => isPaused'[Root]
            /\ s = "cancel" => isPaused'[Root] = isPaused[Root]
            /\ handler'[Root] = h
  <2>1. CASE Ignored(Root, s) /\ UNCHANGED <<isPaused, isCancelled, handler>>
    BY <1>1, <1>5, <2>1 DEF Ignored
  <2>2. CASE /\ isPaused' = [isPaused EXCEPT ![Root] = (s = "pause") \/ (@ /\ s = "cancel")]
             /\ isCancelled' = [isCancelled EXCEPT ![Root] = @ \/ s = "cancel"]
             /\ handler' = [handler EXCEPT ![Root] = h]
    <3>1. /\ ((s = "pause") \/ (isPaused[Root] /\ s = "cancel")) \in BOOLEAN
          /\ (isCancelled[Root] \/ s = "cancel") \in BOOLEAN
      OBVIOUS
    <3>2. isPaused'[Root] = ((s = "pause") \/ (isPaused[Root] /\ s = "cancel"))
      BY <1>5, <2>2, WorkflowsAre
    <3>3. s = "cancel" => isPaused'[Root] = isPaused[Root]
      BY <1>5, <3>2
    <3>4. s = "pause" => isPaused'[Root]
      BY <3>2
    <3>5. isPaused' \in [Workflows -> BOOLEAN] /\ isCancelled' \in [Workflows -> BOOLEAN]
      BY <1>5, <2>2, <3>1
    <3>6. handler' \in [Workflows -> Handlers] /\ handler'[Root] = h
      BY <1>4, <1>5, <2>2, WorkflowsAre
    <3>7. \A k \in Kids : isPaused'[k] = isPaused[k] /\ handler'[k] = handler[k]
      BY <1>5, <2>2, WorkflowsAre
    <3> QED BY <3>3, <3>4, <3>5, <3>6, <3>7
  <2> QED BY <1>1, <2>1, <2>2
<1>7. \A w \in Workflows : HandlerAt(w)'
  <2>1. HandlerAt(Root)'
    <3>1. CASE handler'[Root] = Idle
      BY <3>1, IdleFields, WorkflowsAre DEF HandlerAt
    <3>2. CASE handler'[Root] = h
      BY <1>4, <1>6, <3>2, WorkflowsAre, IdleFields DEF HandlerAt, Signals
    <3> QED BY <1>6, <3>1, <3>2
  <2>2. \A k \in Kids : HandlerAt(k)'
    BY <1>6, WorkflowsAre DEF IInv, HandlerAt
  <2> QED BY <2>1, <2>2, WorkflowsAre
<1>8. TypeOK'
  <2>1. \A w \in Workflows :
           \/ handler'[w] = Idle
           \/ /\ handler'[w].sig \in Signals
              /\ handler'[w].to \subseteq Kids
              /\ handler'[w].at \in {"emit", "worker", "propagate"}
              /\ handler'[w].at = "propagate" <=> handler'[w].to # {}
    BY <1>6, <1>7, HandlersTyped
  <2> QED BY <1>1, <1>3, <1>6, <2>1 DEF IInv, TypeOK
<1>9. ASSUME NEW k \in Kids
      PROVE  Registered(k)' /\ Followed(k)'
  <2>1. handler[Root].to = {} /\ handler'[Root].to = {} /\ handler[Root].sig = "none"
    BY <1>1, <1>4, <1>6, IdleFields
  <2>2. Registered(k) /\ Followed(k)
    BY DEF IInv
  <2>3. Registered(k)'
    BY <1>1, <1>3, <1>6, <2>1, <2>2 DEF Registered, Told, Running
  <2>4. PauseAhead(k)' => PauseAhead(k)
    BY <1>3, <1>6, <2>1 DEF PauseAhead
  <2>5. ASSUME Live(Root), Running(k), PauseAhead(k)
        PROVE  isPaused'[Root] \/ ResumeAhead(k)'
    <3>1. isPaused[Root] \/ inbox[k]["resume"] > 0
      BY <2>1, <2>2, <2>5 DEF Followed, ResumeAhead
    <3>2. CASE inbox[k]["resume"] > 0
      BY <1>3, <3>2 DEF ResumeAhead
    <3>3. CASE isPaused[Root]
      <4>1. CASE handler'[Root] = h /\ s = "resume"
        BY <1>4, <4>1 DEF ResumeAhead
      <4>2. CASE ~(handler'[Root] = h /\ s = "resume")
        BY <1>6, <3>3, <4>2 DEF Signals
      <4> QED BY <4>1, <4>2
    <3> QED BY <3>1, <3>2, <3>3
  <2>6. Followed(k)'
    BY <1>1, <2>4, <2>5 DEF Followed, Live, Running
  <2> QED BY <2>3, <2>6
<1>10. AtCheckpoint' /\ ((main[Root] \in {"starting", "following"})' => kid' \in Kids)
       /\ resuming' <= commands'
  BY <1>1 DEF IInv, AtCheckpoint
<1> QED BY <1>6, <1>7, <1>8, <1>9, <1>10 DEF IInv

(* A handler goes on, and no channel changes but that of a child it passes *)
(* its signal to.                                                          *)
LEMMA HandlerMoves ==
    ASSUME IInv, NEW w \in Workflows, NEW h \in Handlers,
           handler' = [handler EXCEPT ![w] = h],
           h = Idle \/ (h.sig = handler[w].sig /\ h.sig # "none" /\ h.at # "select"),
           h.at = "propagate" <=> h.to # {},
           h.at = "worker" => h.sig = "cancel",
           w \in Kids => h.to = {},
           inbox' \in [Workflows -> [Signals -> Nat]],
           \A k \in Kids : w = Root => (Registered(k)' /\ Followed(k)'),
           \A k \in Kids : w # Root => inbox'[k] = inbox[k],
           UNCHANGED <<main, left, kid, children, isPaused, isCancelled, resuming, native,
                       commands, ctxDone>>
    PROVE  IInv'
<1>1. /\ handler' \in [Workflows -> Handlers] /\ handler'[w] = h
      /\ \A v \in Workflows \ {w} : handler'[v] = handler[v]
  BY DEF IInv
<1>2. \A v \in Workflows : HandlerAt(v)'
  <2> SUFFICES ASSUME NEW v \in Workflows
               PROVE  HandlerAt(v)'
    OBVIOUS
  <2>1. HandlerAt(v)
    BY DEF IInv
  <2>2. CASE v # w
    BY <1>1, <2>1, <2>2 DEF HandlerAt
  <2>3. CASE v = w
    BY <1>1, <2>1, <2>3, IdleFields DEF HandlerAt
  <2> QED BY <2>2, <2>3
<1>3. TypeOK'
  <2>1. \A v \in Workflows :
           \/ handler'[v] = Idle
           \/ /\ handler'[v].sig \in Signals
              /\ handler'[v].to \subseteq Kids
              /\ handler'[v].at \in {"emit", "worker", "propagate"}
              /\ handler'[v].at = "propagate" <=> handler'[v].to # {}
    BY <1>1, <1>2, HandlersTyped
  <2> QED BY <2>1 DEF IInv, TypeOK
<1>4. AtCheckpoint' /\ ((main[Root] \in {"starting", "following"})' => kid' \in Kids)
  BY DEF IInv, AtCheckpoint
<1>5. ASSUME NEW k \in Kids
      PROVE  Registered(k)' /\ Followed(k)'
  <2>1. CASE w = Root
    BY <2>1
  <2>2. CASE w # Root
    BY <1>1, <2>2, WorkflowsAre
    DEF IInv, Registered, Followed, Told, PauseAhead, ResumeAhead, Live, Running
  <2> QED BY <2>1, <2>2
<1> QED BY <1>1, <1>2, <1>3, <1>4, <1>5 DEF IInv

(* The signal goes to the children registered now: whoever has a pause     *)
(* ahead is one of them, and gets the resume.                              *)
LEMMA PropagateStep ==
    ASSUME IInv, NEW w \in Workflows, Propagate(w), handler[w].to = {}, handler[w].sig # "none",
           UNCHANGED <<main, left, kid, children, isPaused, isCancelled, inbox, resuming, native,
                       commands, ctxDone>>
    PROVE  IInv'
<1> DEFINE to == IF w = Root THEN children ELSE {}
<1> DEFINE h == IF to = {} THEN Idle ELSE [at |-> "propagate", sig |-> handler[w].sig, to |-> to]
<1>1. handler' = [handler EXCEPT ![w] = h] /\ to \subseteq Kids
  BY DEF Propagate, IInv, TypeOK
<1>2. handler[w] \in Handlers /\ handler[w].sig \in Signals
  BY DEF IInv, Handlers
<1>3. /\ h \in Handlers /\ h.to = to
      /\ h = Idle \/ (h.sig = handler[w].sig /\ h.at = "propagate")
      /\ h.at = "propagate" <=> h.to # {}
      /\ h.at # "worker"
  BY <1>1, <1>2, IdleFields DEF Handlers
<1>4. ASSUME NEW k \in Kids, w = Root
      PROVE  Registered(k)' /\ Followed(k)'
  <2>1. handler'[Root] = h /\ to = children
    BY <1>1, <1>4 DEF IInv
  <2>2. Registered(k) /\ Followed(k) /\ HandlerAt(Root)
    BY WorkflowsAre DEF IInv
  <2>3. Registered(k)'
    BY <1>3, <1>4, <2>1, <2>2 DEF Registered, Told, Running
  <2>4. ASSUME Live(Root), Running(k), PauseAhead(k)'
        PROVE  isPaused[Root] \/ ResumeAhead(k)'
    <3>1. CASE PauseAhead(k)
      <4>1. k \in children
        BY <2>2, <2>4, <3>1, AheadIsTold DEF Registered
      <4>2. isPaused[Root] \/ ResumeAhead(k)
        BY <2>2, <2>4, <3>1 DEF Followed
      <4>3. h.sig = handler[Root].sig /\ k \in h.to
        BY <1>3, <1>4, <2>1, <4>1, IdleFields
      <4> HIDE DEF h
      <4> QED BY <2>1, <4>2, <4>3 DEF ResumeAhead
    <3>2. CASE ~PauseAhead(k)
      <4>1. handler'[Root].sig = "pause"
        BY <2>4, <3>2 DEF PauseAhead
      <4>2. handler[Root].sig = "pause"
        BY <1>3, <1>4, <2>1, <4>1, IdleFields
      <4> QED BY <2>2, <4>2 DEF HandlerAt
    <3> QED BY <3>1, <3>2
  <2>5. Followed(k)'
    BY <2>4 DEF Followed, Live, Running
  <2> QED BY <2>3, <2>5
<1>5. w \in Kids => h.to = {}
  BY <1>3, WorkflowsAre
<1> HIDE DEF h
<1> QED BY <1>1, <1>2, <1>3, <1>4, <1>5, IdleFields, HandlerMoves DEF IInv, TypeOK, Signals

LEMMA EmittedStep ==
    ASSUME IInv, NEW w \in Workflows, Emitted(w)
    PROVE  IInv'
<1>1. /\ handler[w].at = "emit"
      /\ UNCHANGED <<main, left, kid, children, isPaused, isCancelled, inbox, resuming>>
      /\ UNCHANGED <<native, commands, ctxDone>>
  BY DEF Emitted, flow, state, api
<1>2. HandlerAt(w) /\ handler[w] \in Handlers
  BY DEF IInv
<1>3. handler[w].to = {} /\ handler[w].sig # "none"
  BY <1>1, <1>2, IdleFields DEF HandlerAt
<1>4. CASE Propagate(w)
  BY <1>1, <1>3, <1>4, PropagateStep
<1>5. CASE handler[w].sig = "cancel" /\ handler' = [handler EXCEPT ![w].at = "worker"]
  <2> DEFINE h == [handler[w] EXCEPT !.at = "worker"]
  <2>1. /\ h \in Handlers /\ h.sig = handler[w].sig /\ h.to = {} /\ h.at = "worker"
    BY <1>2, <1>3 DEF Handlers
  <2>2. handler' = [handler EXCEPT ![w] = h]
    BY <1>5
  <2> HIDE DEF h
  <2>3. \A k \in Kids : w = Root => (Registered(k)' /\ Followed(k)')
    <3> SUFFICES ASSUME NEW k \in Kids, w = Root
                 PROVE  Registered(k)' /\ Followed(k)'
      OBVIOUS
    <3>1. handler'[Root] = h
      BY <2>2 DEF IInv
    <3>2. handler[Root].sig = "cancel" /\ handler[Root].to = {}
      BY <1>3, <1>5
    <3> QED BY <1>1, <2>1, <3>1, <3>2
            DEF IInv, Registered, Followed, Told, PauseAhead, ResumeAhead, Live, Running
  <2>4. inbox' \in [Workflows -> [Signals -> Nat]] /\ \A k \in Kids : inbox'[k] = inbox[k]
    BY <1>1 DEF IInv, TypeOK
  <2> QED BY <1>1, <1>3, <1>5, <2>1, <2>2, <2>3, <2>4, HandlerMoves
<1> QED BY <1>4, <1>5 DEF Emitted

LEMMA WorkerCancelledStep ==
    ASSUME IInv, NEW w \in Workflows, WorkerCancelled(w)
    PROVE  IInv'
<1>1. /\ handler[w].at = "worker" /\ Propagate(w)
      /\ UNCHANGED <<main, left, kid, children, isPaused, isCancelled, inbox, resuming>>
      /\ UNCHANGED <<native, commands, ctxDone>>
  BY DEF WorkerCancelled, flow, state, api
<1>2. HandlerAt(w)
  BY DEF IInv
<1>3. handler[w].to = {} /\ handler[w].sig # "none"
  BY <1>1, <1>2, IdleFields DEF HandlerAt
<1> QED BY <1>1, <1>3, PropagateStep

LEMMA DeliverStep ==
    ASSUME IInv, NEW w \in Workflows, NEW k \in Kids, Deliver(w, k)
    PROVE  IInv'
<1> DEFINE h == IF handler[w].to = {k} THEN Idle ELSE [handler[w] EXCEPT !.to = @ \ {k}]
<1>1. /\ k \in handler[w].to /\ handler' = [handler EXCEPT ![w] = h]
      /\ \/ Running(k) /\ Send(k, handler[w].sig)
         \/ (~Running(k) \/ ctxDone[w]) /\ UNCHANGED inbox
      /\ UNCHANGED <<main, left, kid, children, isPaused, isCancelled, resuming, native>>
      /\ UNCHANGED <<commands, ctxDone>>
  <2>1. handler' = [handler EXCEPT ![w] = h]
    BY DEF Deliver
  <2> HIDE DEF h
  <2> QED BY <2>1 DEF Deliver, flow, state, api
<1>2. /\ w = Root /\ HandlerAt(Root) /\ handler[Root] \in Handlers
      /\ handler[Root].at = "propagate" /\ handler[Root].sig \in Signals
  <2>1. HandlerAt(w) /\ handler[w] \in Handlers
    BY DEF IInv
  <2>2. w = Root
    BY <1>1, <2>1, WorkflowsAre DEF HandlerAt
  <2>3. handler[w].at = "propagate" /\ handler[w].sig # "none"
    BY <1>1, <2>1, IdleFields DEF HandlerAt
  <2> QED BY <2>1, <2>2, <2>3, WorkflowsAre DEF Handlers
<1> PICK s \in Signals : s = handler[Root].sig
  BY <1>2
<1>3. /\ h \in Handlers /\ h.to = handler[Root].to \ {k}
      /\ h = Idle \/ (h.sig = s /\ h.at = "propagate" /\ h.to # {})
  <2>1. CASE handler[Root].to = {k}
    BY <1>2, <2>1, IdleFields
  <2>2. CASE handler[Root].to # {k}
    <3>1. h = [handler[Root] EXCEPT !.to = @ \ {k}]
      BY <1>2, <2>2
    <3>2. handler[Root].to \ {k} # {} /\ handler[Root].to \ {k} \subseteq Kids
      BY <1>1, <1>2, <2>2 DEF Handlers
    <3> HIDE DEF h
    <3> QED BY <1>2, <3>1, <3>2 DEF Handlers
  <2> QED BY <2>1, <2>2
<1>4. /\ inbox' \in [Workflows -> [Signals -> Nat]]
      /\ \A j \in Kids \ {k} : inbox'[j] = inbox[j]
      /\ \A r \in Signals : inbox[k][r] > 0 => inbox'[k][r] > 0
      /\ \A r \in Signals : inbox'[k][r] > 0 => inbox[k][r] > 0 \/ r = s
      /\ Running(k) /\ ~ctxDone[w] => inbox'[k][s] > 0
  <2>1. CASE UNCHANGED inbox /\ (~Running(k) \/ ctxDone[w])
    BY <2>1 DEF IInv, TypeOK
  <2>2. CASE Send(k, s)
    <3>1. PICK n \in Nat : n > 0 /\ inbox' = [inbox EXCEPT ![k][s] = n]
      BY <1>2, <2>2, InboxCounts, WorkflowsAre DEF Send, IInv
    <3>2. /\ inbox' \in [Workflows -> [Signals -> Nat]]
          /\ inbox'[k][s] > 0
          /\ \A r \in Signals \ {s} : inbox'[k][r] = inbox[k][r]
          /\ \A v \in Workflows \ {k} : inbox'[v] = inbox[v]
      <4>1. TypeOK /\ k \in Workflows /\ n > 0 /\ inbox' = [inbox EXCEPT ![k][s] = n]
        BY <3>1, WorkflowsAre DEF IInv
      <4>2. inbox'[k][s] = n
        BY <4>1, ChannelMoves
      <4> QED BY <4>1, <4>2, ChannelMoves
    <3> QED BY <3>2, WorkflowsAre
  <2> QED BY <1>1, <1>2, <2>1, <2>2
<1> HIDE DEF h
<1>5. handler'[Root] = h
  BY <1>1, <1>2 DEF IInv
<1>6. ASSUME NEW j \in Kids
      PROVE  Registered(j)' /\ Followed(j)'
  <2>1. Registered(j) /\ Followed(j)
    BY DEF IInv
  <2>2. Told(j)' => Told(j)
    BY <1>1, <1>2, <1>3, <1>4, <1>5 DEF Told
  <2>3. Registered(j)'
    BY <1>1, <2>1, <2>2 DEF Registered, Running
  <2>4. ASSUME Live(Root), Running(j), PauseAhead(j)'
        PROVE  isPaused[Root] \/ ResumeAhead(j)'
    <3>1. CASE s = "pause"
      BY <1>2, <3>1 DEF HandlerAt
    <3>2. CASE s # "pause"
      <4>1. inbox'[j]["pause"] > 0 => inbox[j]["pause"] > 0
        BY <1>4, <3>2 DEF Signals
      <4>2. PauseAhead(j)
        <5>1. ~(handler'[Root].sig = "pause")
          BY <1>3, <1>5, <3>2, IdleFields
        <5> QED BY <1>1, <2>4, <4>1, <5>1 DEF PauseAhead
      <4>3. isPaused[Root] \/ ResumeAhead(j)
        BY <2>1, <2>4, <4>2 DEF Followed
      <4>4. CASE inbox[j]["resume"] > 0
        <5>1. inbox'[j]["resume"] > 0
          BY <1>4, <4>4 DEF Signals
        <5> QED BY <5>1 DEF ResumeAhead
      <4>5. CASE s = "resume" /\ j \in handler[Root].to
        <5>1. CASE j = k
          BY <1>2, <1>4, <2>4, <4>5, <5>1 DEF ResumeAhead, Live
        <5>2. CASE j # k
          BY <1>3, <1>5, <4>5, <5>2, IdleFields DEF ResumeAhead
        <5> QED BY <5>1, <5>2
      <4> QED BY <1>1, <1>2, <4>3, <4>4, <4>5 DEF ResumeAhead
    <3> QED BY <3>1, <3>2
  <2>5. Followed(j)'
    BY <1>1, <2>4 DEF Followed, Live, Running
  <2> QED BY <2>3, <2>5
<1> QED BY <1>1, <1>2, <1>3, <1>4, <1>5, <1>6, IdleFields, WorkflowsAre, HandlerMoves
        DEF Signals

-----------------------------------------------------------------------------
(* The inductive invariant                                                 *)

LEMMA Initially == Init => IInv
<1> SUFFICES ASSUME Init
             PROVE  IInv
  OBVIOUS
<1>1. /\ \A w \in Workflows : /\ main[w] = IF w = Root THEN "working" ELSE "none"
                              /\ handler[w] = Idle /\ ~isPaused[w]
                              /\ \A s \in Signals : inbox[w][s] = 0
      /\ children = {} /\ resuming = 0 /\ commands = 0
  BY DEF Init
<1>2. handler \in [Workflows -> Handlers]
  BY IdleFields DEF Init
<1>3. TypeOK
  <2>1. left \in [Workflows -> Nat]
    BY ConstantsAssumption DEF Init, Workflows
  <2>2. /\ main \in [Workflows -> {"none", "working", "pausing", "paused", "cancelling",
                                   "starting", "following", "ended"}]
        /\ inbox \in [Workflows -> [Signals -> Nat]]
        /\ isPaused \in [Workflows -> BOOLEAN] /\ isCancelled \in [Workflows -> BOOLEAN]
        /\ ctxDone \in [Workflows -> BOOLEAN]
    BY DEF Init
  <2>3. resuming \in 0 .. MaxCommands /\ commands \in 0 .. MaxCommands
    BY <1>1, ConstantsAssumption
  <2> QED BY <1>1, <2>1, <2>2, <2>3 DEF Init, TypeOK
<1>4. \A w \in Workflows : HandlerAt(w)
  BY <1>1, IdleFields DEF HandlerAt
<1>5. ASSUME NEW k \in Kids
      PROVE  Registered(k) /\ Followed(k)
  <2>1. ~Told(k) /\ k \notin children
    BY <1>1, IdleFields, WorkflowsAre DEF Told
  <2> QED BY <2>1, AheadIsTold DEF Registered, Followed
<1> QED BY <1>1, <1>2, <1>3, <1>4, <1>5, WorkflowsAre DEF IInv, AtCheckpoint

LEMMA Stutter ==
    ASSUME IInv, UNCHANGED vars
    PROVE  IInv'
<1>1. UNCHANGED <<main, left, kid, children, isPaused, isCancelled, handler, inbox, ctxDone>>
  BY DEF vars, flow, state
<1>2. UNCHANGED <<resuming, native, commands>>
  BY DEF vars, api
<1>3. TypeOK'
  BY <1>1, <1>2 DEF IInv, TypeOK
<1> QED BY <1>1, <1>2, <1>3, RequestMoves DEF IInv

LEMMA Inductive == IInv /\ [Next]_vars => IInv'
<1> SUFFICES ASSUME IInv, [Next]_vars
             PROVE  IInv'
  OBVIOUS
<1>1. ASSUME NEW w \in Workflows, Main(w) \/ Handler(w) \/ Unwind(w)
      PROVE  IInv'
  <2>1. CASE \E s \in Signals : Handle(w, s)
    BY <2>1, KidHandles, RootHandles, WorkflowsAre
  <2>2. CASE \E k \in Kids : Deliver(w, k)
    BY <2>2, DeliverStep
  <2>3. CASE Emitted(w) \/ WorkerCancelled(w)
    BY <2>3, EmittedStep, WorkerCancelledStep
  <2>4. CASE Main(w) \/ Unwind(w)
    BY <2>4, MainStep, UnwindStep
  <2> QED BY <1>1, <2>1, <2>2, <2>3, <2>4 DEF Handler
<1>2. CASE Router
  BY <1>2, RouterStep
<1>3. CASE PauseTask \/ ResumeTask \/ SignalResume \/ CancelTask \/ CancelWorkflow
  BY <1>3, RequestStep, CancelWorkflowStep
<1>4. CASE UNCHANGED vars
  BY <1>4, Stutter
<1> QED BY <1>1, <1>2, <1>3, <1>4 DEF Next

LEMMA Invariance == Spec => []IInv
BY Initially, Inductive, PTL DEF Spec

-----------------------------------------------------------------------------
(* Theorems                                                                *)

(* The workflows, their handlers and channels keep their types.            *)
THEOREM TypesHold == Spec => []TypeOK
<1>1. IInv => TypeOK
  BY DEF IInv
<1> QED BY <1>1, Invariance, PTL

(* Once every signal is handled no child is paused under a root that is    *)
(* not, for any children, any checkpoints and any number of requests.      *)
THEOREM ChildrenFollow == Spec => []NoChildLeftPaused
<1>1. ASSUME IInv, NEW k \in Kids, Live(Root), Live(k), Quiet(Root), Quiet(k), isPaused[k]
      PROVE  isPaused[Root]
  <2>1. Followed(k)
    BY <1>1 DEF IInv
  <2>2. handler[Root].sig = "none" /\ inbox[k]["resume"] = 0
    BY <1>1, IdleFields DEF Quiet, Signals
  <2>3. ~ResumeAhead(k) /\ PauseAhead(k) /\ Running(k)
    BY <1>1, <2>2 DEF ResumeAhead, PauseAhead, Live
  <2> QED BY <1>1, <2>1, <2>3 DEF Followed
<1>2. IInv => NoChildLeftPaused
  BY <1>1 DEF NoChildLeftPaused
<1> QED BY <1>2, Invariance, PTL

-----------------------------------------------------------------------------
(***************************************************************************)
(* The safety of CircuitBreaker for every number of callers and every      *)
(* configuration.                                                          *)
(*                                                                         *)
(* SlotsAccounted is not inductive alone: that a breaker turning half-open *)
(* starts with no running probe rests on OpenAdmitsNobody, and both rest   *)
(* on the types.  Together with them it is inductive.                      *)
(***************************************************************************)

(* The inductive invariant. *)
BreakerInv == BreakerTypeOK /\ OpenAdmitsNobody /\ SlotsAccounted

USE ConfigAssumption

(* The callers running in the current generation are finitely many. *)
LEMMA RunningFinite ==
    IsFiniteSet(CurrentCallers) /\ Cardinality(CurrentCallers) \in Nat
  BY FS_Subset, FS_CardinalityType, IsFiniteSet(Callers) DEF CurrentCallers, ConfigAssumption

(* A generation that begins has nobody running in it. *)
LEMMA OutdatedRunning ==
    ASSUME BreakerTypeOK
    PROVE  /\ Outdate(TRUE) \in [Callers -> {"idle", "stale"}]
           /\ Outdate(FALSE) = caller
  BY DEF BreakerTypeOK, Outdate

(* currentState keeps the invariant's shape: a state entered by a lapsed   *)
(* timer has empty counts, and then nobody is left running in it.          *)
LEMMA CurrentStateShape ==
    ASSUME BreakerInv
    PROVE  /\ CurrentState \in [state : States, requests : 0 .. MaxRequests,
                                successes : Nat, failures : Nat, lapsed : BOOLEAN]
           /\ ~CurrentState.lapsed
           /\ ~cb.lapsed => CurrentState = cb
           /\ cb.lapsed => /\ CurrentState.state # "open"
                           /\ CurrentState.requests = 0
                           /\ CurrentState.successes = 0
  BY DEF BreakerInv, BreakerTypeOK, CurrentState, NewGeneration, States, ConfigAssumption

LEMMA InitIInv == BreakerInit => BreakerInv
<1> SUFFICES ASSUME BreakerInit PROVE BreakerInv
  OBVIOUS
<1>1. BreakerTypeOK
  BY DEF BreakerInit, BreakerTypeOK, NewGeneration, States, ConfigAssumption
<1>2. OpenAdmitsNobody /\ SlotsAccounted
  BY DEF BreakerInit, NewGeneration, OpenAdmitsNobody, SlotsAccounted
<1> QED BY <1>1, <1>2 DEF BreakerInv

LEMMA AdmitIInv ==
    ASSUME BreakerInv, NEW p \in Callers, Admit(p)
    PROVE  BreakerInv'
<1> DEFINE b == CurrentState
<1>1. b \in [state : States, requests : 0 .. MaxRequests, successes : Nat,
             failures : Nat, lapsed : BOOLEAN] /\ ~b.lapsed
  BY CurrentStateShape
<1>2. BreakerTypeOK'
  BY <1>1 DEF Admit, Allows, BreakerTypeOK, BreakerInv, Outdate, ConfigAssumption
<1>3. b.state # "open" /\ cb'.state = b.state
  BY <1>1 DEF Admit, Allows
<1>4. OpenAdmitsNobody'
  BY <1>3 DEF OpenAdmitsNobody
<1>5. SlotsAccounted'
  <2> SUFFICES ASSUME b.state = "half-open" PROVE SlotsAccounted'
    BY <1>3 DEF SlotsAccounted
  <2>1. cb'.requests = b.requests + 1 /\ cb'.successes = b.successes /\ b.requests < MaxRequests
    BY <1>1 DEF Admit, Allows
  <2>2. CASE ~cb.lapsed
    <3>0. b = cb /\ Outdate(cb.lapsed) = caller /\ caller \in [Callers -> {"idle", "current", "stale"}]
      BY <2>2, CurrentStateShape DEF Outdate, BreakerInv, BreakerTypeOK
    <3>a. caller[p] = "idle" /\ caller' = [caller EXCEPT ![p] = "current"]
      BY <3>0 DEF Admit
    <3>1. b = cb /\ CurrentCallers' = CurrentCallers \cup {p} /\ p \notin CurrentCallers
      BY <3>0, <3>a DEF CurrentCallers
    <3>2. Cardinality(CurrentCallers') = Cardinality(CurrentCallers) + 1
      BY <3>1, RunningFinite, FS_AddElement
    <3>3. b.requests = b.successes + Cardinality(CurrentCallers)
      BY <3>1 DEF BreakerInv, SlotsAccounted
    <3> QED BY <1>1, <2>1, <3>2, <3>3, RunningFinite DEF SlotsAccounted, ConfigAssumption
  <2>3. CASE cb.lapsed
    <3>1. CurrentCallers' = {p}
      BY <2>3, OutdatedRunning DEF Admit, CurrentCallers, BreakerInv
    <3>2. Cardinality(CurrentCallers') = 1
      BY <3>1, FS_Singleton
    <3>3. b.requests = 0 /\ b.successes = 0
      BY <2>3, CurrentStateShape
    <3> QED BY <1>1, <2>1, <3>2, <3>3 DEF SlotsAccounted, ConfigAssumption
  <2> QED BY <2>2, <2>3
<1> QED BY <1>2, <1>4, <1>5 DEF BreakerInv

LEMMA ReturnIInv ==
    ASSUME BreakerInv, NEW p \in Callers, NEW success \in BOOLEAN, AfterRequest(p, success)
    PROVE  BreakerInv'
<1> DEFINE b == CurrentState
           Rec == [state : States, requests : 0 .. MaxRequests, successes : Nat,
                   failures : Nat, lapsed : BOOLEAN]
<1>1. b \in Rec /\ ~b.lapsed
  BY CurrentStateShape
<1>2. OnSuccess(b) \in Rec /\ OnFailure(b) \in Rec
  BY <1>1 DEF OnSuccess, OnFailure, NewGeneration, States, ConfigAssumption
<1>3. ~OnSuccess(b).lapsed /\ ~OnFailure(b).lapsed
  BY <1>1 DEF OnSuccess, OnFailure, NewGeneration, ConfigAssumption
<1>4. cb' \in {b, OnSuccess(b), OnFailure(b)}
  BY DEF AfterRequest
<1>5. BreakerTypeOK'
  BY <1>1, <1>2, <1>3, <1>4 DEF BreakerTypeOK, AfterRequest, Outdate, BreakerInv
<1>6. CASE ~Counts(p)
  <2>1. cb' = b
    BY <1>6 DEF AfterRequest
  <2>2. CASE cb.lapsed
    <3>1. CurrentCallers' = {}
      BY <2>2, OutdatedRunning DEF AfterRequest, CurrentCallers, BreakerInv, BreakerTypeOK
    <3>2. Cardinality(CurrentCallers') = 0
      BY <3>1, FS_EmptySet
    <3> QED BY <1>5, <2>1, <2>2, <3>1, <3>2, CurrentStateShape, <1>1
            DEF BreakerInv, OpenAdmitsNobody, SlotsAccounted
  <2>3. CASE ~cb.lapsed
    <3>1. cb' = cb /\ caller[p] # "current"
      BY <1>6, <2>1, <2>3, CurrentStateShape DEF Counts
    <3>2. CurrentCallers' = CurrentCallers
      BY <2>1, <2>3, <3>1, OutdatedRunning DEF AfterRequest, CurrentCallers, BreakerInv, BreakerTypeOK
    <3> QED BY <1>5, <3>1, <3>2 DEF BreakerInv, OpenAdmitsNobody, SlotsAccounted
  <2> QED BY <2>2, <2>3
<1>7. CASE Counts(p)
  <2>1. b = cb /\ caller[p] = "current" /\ ~cb.lapsed
    BY <1>7, CurrentStateShape DEF Counts
  <2>2. cb' = IF success THEN OnSuccess(cb) ELSE OnFailure(cb)
    BY <1>7, <2>1 DEF AfterRequest
  <2>3. cb.state # "open"
    BY <2>1 DEF BreakerInv, OpenAdmitsNobody, CurrentCallers
  <2>4. CASE cb'.state # cb.state
    <3>1. CurrentCallers' = {}
      BY <2>1, <2>2, <2>4, OutdatedRunning, <1>7 DEF AfterRequest, CurrentCallers, BreakerInv, BreakerTypeOK
    <3>2. cb' = NewGeneration("closed") \/ cb' = NewGeneration("open")
      BY <2>2, <2>4, <1>1, <2>1 DEF OnSuccess, OnFailure
    <3> QED BY <1>5, <3>1, <3>2 DEF BreakerInv, OpenAdmitsNobody, SlotsAccounted, NewGeneration
  <2>5. CASE cb'.state = cb.state
    <3>0. Outdate(FALSE) = caller /\ caller \in [Callers -> {"idle", "current", "stale"}]
      BY OutdatedRunning DEF BreakerInv, BreakerTypeOK
    <3>a. caller' = [caller EXCEPT ![p] = "idle"]
      BY <2>1, <2>2, <2>5, <1>7, <3>0 DEF AfterRequest
    <3>1. CurrentCallers' = CurrentCallers \ {p} /\ p \in CurrentCallers
      BY <2>1, <3>0, <3>a DEF CurrentCallers
    <3>2. OpenAdmitsNobody'
      BY <2>3, <2>5 DEF OpenAdmitsNobody
    <3>3. SlotsAccounted'
      <4> SUFFICES ASSUME cb.state = "half-open" PROVE SlotsAccounted'
        BY <2>5 DEF SlotsAccounted
      <4>1. cb' = [cb EXCEPT !.successes = @ + 1]
        BY <2>2, <2>5, <1>1, <2>1 DEF OnSuccess, OnFailure, NewGeneration
      <4>2. Cardinality(CurrentCallers') = Cardinality(CurrentCallers) - 1
        BY <3>1, RunningFinite, FS_RemoveElement
      <4>3. cb'.successes = cb.successes + 1 /\ cb'.requests = cb.requests
        BY <4>1, <1>1, <2>1
      <4>4. cb.requests = cb.successes + Cardinality(CurrentCallers) /\ cb.requests <= MaxRequests
        BY DEF BreakerInv, SlotsAccounted
      <4> QED BY <4>2, <4>3, <4>4, <1>1, <2>1, RunningFinite DEF SlotsAccounted
    <3> QED BY <1>5, <3>2, <3>3 DEF BreakerInv
  <2> QED BY <2>4, <2>5
<1> QED BY <1>6, <1>7

LEMMA TimerIInv ==
    ASSUME BreakerInv, TimerLapses
    PROVE  BreakerInv'
<1>1. cb'.state = cb.state /\ cb.state # "half-open" /\ caller' = caller
  BY DEF TimerLapses, BreakerInv, BreakerTypeOK
<1>2. BreakerTypeOK'
  BY <1>1 DEF TimerLapses, BreakerInv, BreakerTypeOK
<1> QED BY <1>1, <1>2 DEF BreakerInv, OpenAdmitsNobody, SlotsAccounted, CurrentCallers

LEMMA NextIInv == BreakerInv /\ [BreakerNext]_breakerVars => BreakerInv'
<1> SUFFICES ASSUME BreakerInv, [BreakerNext]_breakerVars PROVE BreakerInv'
  OBVIOUS
<1>1. ASSUME NEW p \in Callers, Admit(p) PROVE BreakerInv'
  BY <1>1, AdmitIInv
<1>2. ASSUME NEW p \in Callers, NEW success \in BOOLEAN, AfterRequest(p, success) PROVE BreakerInv'
  BY <1>2, ReturnIInv
<1>3. CASE TimerLapses
  BY <1>3, TimerIInv
<1>4. CASE UNCHANGED breakerVars
  BY <1>4 DEF breakerVars, BreakerInv, BreakerTypeOK, OpenAdmitsNobody, SlotsAccounted, CurrentCallers
<1> QED BY <1>1, <1>2, <1>3, <1>4 DEF BreakerNext

THEOREM BreakerInvariance == BreakerSpec => []BreakerInv
  BY InitIInv, NextIInv, PTL DEF BreakerSpec

(* The breaker and its callers keep to their types. *)
THEOREM BreakerTypesHold == BreakerSpec => []BreakerTypeOK
<1>1. BreakerInv => BreakerTypeOK
  BY DEF BreakerInv
<1> QED BY <1>1, BreakerInvariance, PTL

(* However many callers race, an open breaker has none of them running in  *)
(* its generation, and a half-open one loses and oversells no slot.        *)
THEOREM Slots == BreakerSpec => [](OpenAdmitsNobody /\ SlotsAccounted)
<1>1. BreakerInv => OpenAdmitsNobody /\ SlotsAccounted
  BY DEF BreakerInv
<1> QED BY <1>1, BreakerInvariance, PTL

(* The result of a caller of an older generation changes nothing. *)
THEOREM StaleIgnored == BreakerSpec => StaleResultsIgnored
<1>1. ASSUME BreakerInv, [BreakerNext]_breakerVars
      PROVE  [\A p \in Callers : caller[p] = "stale" /\ caller'[p] = "idle" /\ ~cb.lapsed
                                  => cb' = cb]_breakerVars
  <2> SUFFICES ASSUME NEW p \in Callers, caller[p] = "stale", caller'[p] = "idle",
                      ~cb.lapsed, BreakerNext
               PROVE  cb' = cb
    BY <1>1 DEF breakerVars
  <2>1. ASSUME NEW q \in Callers, Admit(q) PROVE cb' = cb
    <3>1. cb.lapsed = FALSE
      BY <1>1 DEF BreakerInv, BreakerTypeOK
    <3>2. Outdate(cb.lapsed) = caller
      BY <1>1, <3>1, OutdatedRunning DEF BreakerInv
    <3>3. caller' = [caller EXCEPT ![q] = "current"]
      BY <2>1, <3>2 DEF Admit
    <3> QED BY <1>1, <3>3 DEF BreakerInv, BreakerTypeOK
  <2>2. ASSUME NEW q \in Callers, NEW success \in BOOLEAN, AfterRequest(q, success) PROVE cb' = cb
    <3>1. q = p
      BY <1>1, <2>2 DEF AfterRequest, Outdate, BreakerInv, BreakerTypeOK
    <3>2. cb' = CurrentState
      BY <2>2, <3>1 DEF AfterRequest, Counts
    <3> QED BY <1>1, <3>2, CurrentStateShape
  <2>3. CASE TimerLapses
    BY <2>3 DEF TimerLapses
  <2> QED BY <2>1, <2>2, <2>3 DEF BreakerNext
<1> QED BY <1>1, BreakerInvariance, PTL DEF BreakerSpec, StaleResultsIgnored

=============================================================================
