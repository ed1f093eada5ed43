---------------------------- MODULE Swarm_proofs ----------------------------
(***************************************************************************)
(* Proofs about Swarm, for any tasks, plans, agents, iterations, decisions *)
(* and messages.  Types hold whatever the lead's LLM does.  What is in     *)
(* progress is tracked, a task has a second agent and is given out before  *)
(* what it depends on only with a cause, and the lead is done only when it *)
(* is quiet, as long as the LLM keeps to its protocol (Obedient): a lead   *)
(* that gives out what it has given out before breaks each of them.        *)
(***************************************************************************)
EXTENDS Swarm, FiniteSetTheorems, TLAPS

-----------------------------------------------------------------------------
(* Part 1.  Types, and what one step of an agent does.                     *)

MaxLimit == IF TotalIterations > MaxIterations THEN TotalIterations ELSE MaxIterations

Loops == [at : {"none", "begin", "llm", "idle", "closed"}, work : Tasks \cup {NoTask},
          iter : Nat, limit : Nat, again : Nat]
Inboxes == [tasks : Seq(Tasks \cup {NoTask}), stop : BOOLEAN, peer : Nat]

(* An iteration is left, and who does not work has no task.                *)
InLimits(l) ==
    /\ l.limit \in 1..MaxLimit /\ l.iter \in 0..(l.limit - 1)
    /\ l.at \notin {"begin", "llm"} => l.work = NoTask

TypeInv == TypeOK /\ loop \in [Agents -> Loops] /\ \A a \in Agents : InLimits(loop[a])

LEMMA Typed ==
    ASSUME TypeInv
    PROVE  /\ copy \in [Tasks -> Status] /\ tasks \in [Tasks -> Status]
           /\ agentStates \in [Agents -> {"none", "running", "idle", "completed"}]
           /\ taskMap \in [Agents -> Tasks \cup {NoTask}]
           /\ collected \subseteq Agents
           /\ idleQ \in Seq(Agents) /\ sent \in [Agents -> Nat]
           /\ inbox \in [Agents -> Inboxes] /\ loop \in [Agents -> Loops]
           /\ messages \in Nat /\ faults \in Nat
           /\ handed \subseteq Tasks /\ lost \subseteq Tasks /\ cancelled \subseteq Tasks
BY DEF TypeInv, TypeOK, TaskLists, Inboxes

LEMMA Bounds ==
    /\ MaxAgents \in Nat \ {0} /\ MaxIterations \in Nat \ {0}
    /\ PerReassign \in Nat /\ TotalIterations \in Nat /\ MaxReassignments \in Nat
    /\ MaxActions \in Nat /\ MaxTroubles \in Nat
    /\ NoTask \notin Tasks
    /\ MaxLimit \in Nat /\ MaxIterations <= MaxLimit /\ TotalIterations <= MaxLimit
BY SwarmAssumption DEF MaxLimit

LEMMA NoLoopFields ==
    /\ NoLoop \in Loops /\ InLimits(NoLoop)
    /\ NoLoop.at = "none" /\ NoLoop.work = NoTask
    /\ NoSignals \in Inboxes
    /\ NoSignals.tasks = <<>> /\ NoSignals.stop = FALSE /\ NoSignals.peer = 0
<1>1. NoLoop \in Loops
  BY Bounds DEF NoLoop, Loops
<1>2. InLimits(NoLoop)
  BY Bounds DEF NoLoop, InLimits
<1>3. NoSignals \in Inboxes
  <2>1. <<>> \in Seq(Tasks \cup {NoTask})
    OBVIOUS
  <2> QED BY <2>1 DEF NoSignals, Inboxes
<1> QED BY <1>1, <1>2, <1>3 DEF NoLoop, NoSignals

LEMMA ClosedFields ==
    /\ Closed \in Loops /\ InLimits(Closed)
    /\ Closed.at = "closed" /\ Closed.work = NoTask
BY NoLoopFields DEF Closed, Loops, InLimits

LEMMA LoopMoves ==
    ASSUME TypeInv, NEW a \in Agents, NEW l \in Loops, InLimits(l),
           loop' = [loop EXCEPT ![a] = l]
    PROVE  /\ loop' \in [Agents -> Loops] /\ loop'[a] = l
           /\ \A b \in Agents \ {a} : loop'[b] = loop[b]
           /\ \A b \in Agents : InLimits(loop'[b])
BY DEF TypeInv

LEMMA InboxMoves ==
    ASSUME TypeInv, NEW a \in Agents, NEW box \in Inboxes, inbox' = [inbox EXCEPT ![a] = box]
    PROVE  /\ inbox' \in [Agents -> Inboxes] /\ inbox'[a] = box
           /\ \A b \in Agents \ {a} : inbox'[b] = inbox[b]
BY Typed

LEMMA MessagesStay ==
    ASSUME TypeInv, messages' = messages
    PROVE  messages' \in Nat /\ messages' >= messages
BY Bounds DEF TypeInv, TypeOK

(* TypeOK of the next state, from the types of what the step changed.      *)
LEMMA TypesAre ==
    ASSUME loop' \in [Agents -> Loops], \A a \in Agents : InLimits(loop'[a])
    PROVE  \A a \in Agents :
               /\ loop'[a].at \in {"none", "begin", "llm", "idle", "closed"}
               /\ loop'[a].work \in Tasks \cup {NoTask}
               /\ loop'[a].limit \in 1..MaxLimit
               /\ loop'[a].iter \in 0..(loop'[a].limit - 1)
BY DEF Loops, InLimits

-----------------------------------------------------------------------------
(* The steps of an agent, as the others see them.                          *)

Ends(a) == loop'[a].at = "closed" /\ inbox'[a] = NoSignals /\ idleQ' = idleQ
Works(a) ==
    /\ AtWork(a) /\ loop'[a].at \in {"begin", "llm"} /\ loop'[a].work = loop[a].work
    /\ inbox'[a] = inbox[a] /\ idleQ' = idleQ
Rests(a) ==
    /\ AtWork(a) /\ loop'[a].at = "idle" /\ inbox'[a] = inbox[a] /\ idleQ' = Append(idleQ, a)
Takes(a) ==
    /\ loop[a].at = "idle" /\ inbox[a].tasks # <<>> /\ loop'[a].at \in {"begin", "llm"}
    /\ loop'[a].work = Head(inbox[a].tasks) /\ inbox'[a].tasks = Tail(inbox[a].tasks)
    /\ inbox'[a].stop = inbox[a].stop /\ inbox'[a].peer = inbox[a].peer /\ idleQ' = idleQ
Wakes(a) ==
    /\ loop[a].at = "idle" /\ inbox[a].peer > 0 /\ loop'[a].at \in {"begin", "llm"}
    /\ loop'[a].work = NoTask
    /\ inbox'[a].tasks = inbox[a].tasks /\ inbox'[a].stop = inbox[a].stop /\ idleQ' = idleQ

AgentMoves(a) ==
    /\ loop' \in [Agents -> Loops] /\ \A b \in Agents : InLimits(loop'[b])
    /\ \A b \in Agents \ {a} : loop'[b] = loop[b] /\ inbox'[b] = inbox[b]
    /\ inbox' \in [Agents -> Inboxes]
    /\ Alive(a)
    /\ Ends(a) \/ Works(a) \/ Rests(a) \/ Takes(a) \/ Wakes(a)

LEMMA CloseMoves ==
    ASSUME TypeInv, NEW a \in Agents, Close(a), Alive(a),
           idleQ' = idleQ
    PROVE  AgentMoves(a)
<1>1. /\ loop' = [loop EXCEPT ![a] = Closed]
      /\ inbox' = [inbox EXCEPT ![a] = NoSignals]
  BY DEF Close
<1>2. /\ loop' \in [Agents -> Loops] /\ loop'[a] = Closed
      /\ \A b \in Agents \ {a} : loop'[b] = loop[b]
      /\ \A b \in Agents : InLimits(loop'[b])
  BY <1>1, ClosedFields, LoopMoves
<1>3. /\ inbox' \in [Agents -> Inboxes] /\ inbox'[a] = NoSignals
      /\ \A b \in Agents \ {a} : inbox'[b] = inbox[b]
  BY <1>1, InboxMoves, NoLoopFields
<1> QED BY <1>2, <1>3, ClosedFields DEF AgentMoves, Ends

(* The next iteration, as long as one is left.                             *)
LEMMA AdvanceMoves ==
    ASSUME TypeInv, NEW a \in Agents, NEW l \in Loops, Advance(a, l),
           l.limit \in 1..MaxLimit, l.iter + 1 < l.limit
    PROVE  /\ loop' \in [Agents -> Loops] /\ \A b \in Agents : InLimits(loop'[b])
           /\ \A b \in Agents \ {a} : loop'[b] = loop[b]
           /\ loop'[a].at = "begin" /\ loop'[a].work = l.work
<1> DEFINE n == [l EXCEPT !.at = "begin", !.iter = @ + 1]
<1>1. l.iter \in Nat /\ l.limit \in Nat
  BY DEF Loops
<1>2. n \in Loops
  <2>1. l.iter + 1 \in Nat
    BY <1>1
  <2> QED BY <2>1 DEF Loops
<1>5. n.at = "begin" /\ n.work = l.work /\ n.limit = l.limit /\ n.iter = l.iter + 1
  BY DEF Loops
<1>3. loop' = [loop EXCEPT ![a] = n]
  BY DEF Advance
<1> HIDE DEF n
<1>4. InLimits(n)
  BY <1>1, <1>5 DEF InLimits
<1> QED BY <1>2, <1>3, <1>4, <1>5, LoopMoves

(* Everything an agent's step may do.                                      *)
AgentStep(a) ==
    /\ AgentMoves(a)
    /\ UNCHANGED leadOnly
    /\ sent' \in [Agents -> Nat] /\ messages' \in Nat /\ messages' >= messages
    /\ messages' = messages => sent' = sent

LEMMA BeginIterationMoves ==
    ASSUME TypeInv, NEW a \in Agents, BeginIteration(a)
    PROVE  AgentStep(a)
<1>1. AtWork(a) /\ Alive(a) /\ idleQ' = idleQ /\ sent' = sent /\ messages' = messages
      /\ UNCHANGED leadOnly
  BY DEF BeginIteration, AtWork, Alive
<1>2. CASE inbox[a].stop
  BY <1>1, <1>2, CloseMoves, Typed, MessagesStay DEF BeginIteration, AgentStep
<1>3. CASE ~inbox[a].stop
  <2>1. loop' = [loop EXCEPT ![a].at = "llm"] /\ inbox' = inbox
    BY <1>3 DEF BeginIteration
  <2> DEFINE l == [loop[a] EXCEPT !.at = "llm"]
  <2>2. loop[a] \in Loops /\ InLimits(loop[a])
    BY DEF TypeInv
  <2>3. l \in Loops /\ l.at = "llm" /\ l.work = loop[a].work /\ l.limit = loop[a].limit
        /\ l.iter = loop[a].iter
    BY <2>2 DEF Loops
  <2>4. loop' = [loop EXCEPT ![a] = l]
    BY <2>1
  <2> HIDE DEF l
  <2>5. InLimits(l)
    BY <2>2, <2>3 DEF InLimits
  <2>6. /\ loop' \in [Agents -> Loops] /\ loop'[a] = l
        /\ \A b \in Agents \ {a} : loop'[b] = loop[b]
        /\ \A b \in Agents : InLimits(loop'[b])
    BY <2>3, <2>4, <2>5, LoopMoves
  <2>7. Works(a)
    BY <1>1, <2>1, <2>3, <2>6 DEF Works
  <2> QED BY <1>1, <2>1, <2>6, <2>7, Typed, MessagesStay DEF AgentMoves, AgentStep
<1> QED BY <1>2, <1>3

LEMMA WorkMoves ==
    ASSUME TypeInv, NEW a \in Agents, loop[a].at = "llm", ~LastIteration(a),
           Advance(a, loop[a]), inbox' = inbox, idleQ' = idleQ
    PROVE  AgentMoves(a)
<1>1. loop[a] \in Loops /\ InLimits(loop[a])
  BY DEF TypeInv
<1>2. loop[a].limit \in 1..MaxLimit /\ loop[a].iter + 1 < loop[a].limit
  BY <1>1, Bounds DEF InLimits, LastIteration
<1>3. /\ loop' \in [Agents -> Loops] /\ \A b \in Agents : InLimits(loop'[b])
      /\ \A b \in Agents \ {a} : loop'[b] = loop[b]
      /\ loop'[a].at = "begin" /\ loop'[a].work = loop[a].work
  BY <1>1, <1>2, AdvanceMoves
<1>4. Works(a) /\ Alive(a)
  BY <1>3 DEF Works, AtWork, Alive
<1> QED BY <1>3, <1>4, Typed DEF AgentMoves

LEMMA StepWorksMoves ==
    ASSUME TypeInv, NEW a \in Agents, StepWorks(a)
    PROVE  AgentStep(a)
BY WorkMoves, Typed, MessagesStay DEF StepWorks, AgentStep, signals

LEMMA StepSendsMoves ==
    ASSUME TypeInv, NEW a \in Agents, NEW b \in Agents, StepSends(a, b)
    PROVE  AgentStep(a)
<1>1. AgentMoves(a) /\ UNCHANGED leadOnly
  BY WorkMoves DEF StepSends
<1>2. sent' = [sent EXCEPT ![b] = @ + 1] /\ messages' = messages + 1
  BY DEF StepSends
<1>3. sent' \in [Agents -> Nat]
  BY <1>2, Typed
<1>4. messages' \in Nat /\ messages' >= messages /\ messages' # messages
  BY <1>2, Typed, Bounds
<1> QED BY <1>1, <1>3, <1>4 DEF AgentStep

LEMMA StepReturnsMoves ==
    ASSUME TypeInv, NEW a \in Agents, StepReturns(a)
    PROVE  AgentStep(a)
BY CloseMoves, Typed, MessagesStay DEF StepReturns, AgentStep, AtWork, Alive

LEMMA KilledMoves ==
    ASSUME TypeInv, NEW a \in Agents, Killed(a)
    PROVE  AgentStep(a)
BY CloseMoves, Typed, MessagesStay DEF Killed, AgentStep

LEMMA StepIdlesMoves ==
    ASSUME TypeInv, NEW a \in Agents, StepIdles(a)
    PROVE  AgentStep(a)
<1>1. AtWork(a) /\ Alive(a) /\ sent' = sent /\ messages' = messages /\ UNCHANGED leadOnly
  BY DEF StepIdles, AtWork, Alive
<1>2. CASE Close(a) /\ UNCHANGED idleQ
  BY <1>1, <1>2, CloseMoves, Typed, MessagesStay DEF AgentStep
<1>3. CASE /\ loop' = [loop EXCEPT ![a].at = "idle", ![a].work = NoTask]
           /\ idleQ' = Append(idleQ, a) /\ UNCHANGED inbox
  <2> DEFINE l == [loop[a] EXCEPT !.at = "idle", !.work = NoTask]
  <2>1. loop[a] \in Loops /\ InLimits(loop[a])
    BY DEF TypeInv
  <2>2. l \in Loops /\ l.at = "idle" /\ l.work = NoTask /\ l.limit = loop[a].limit
        /\ l.iter = loop[a].iter
    BY <2>1 DEF Loops
  <2>3. loop' = [loop EXCEPT ![a] = l]
    BY <1>3
  <2> HIDE DEF l
  <2>4. InLimits(l)
    BY <2>1, <2>2 DEF InLimits
  <2>5. /\ loop' \in [Agents -> Loops] /\ loop'[a] = l
        /\ \A b \in Agents \ {a} : loop'[b] = loop[b]
        /\ \A b \in Agents : InLimits(loop'[b])
    BY <2>2, <2>3, <2>4, LoopMoves
  <2>6. Rests(a)
    BY <1>1, <1>3, <2>2, <2>5 DEF Rests
  <2> QED BY <1>1, <1>3, <2>5, <2>6, Typed, MessagesStay DEF AgentMoves, AgentStep
<1> QED BY <1>2, <1>3 DEF StepIdles

(* A new task may extend the limit, never past the longest one.            *)
LEMMA ReassignedFields ==
    ASSUME NEW l \in Loops, l.limit \in 1..MaxLimit, NEW t \in Tasks \cup {NoTask}
    PROVE  /\ Reassigned(l, t) \in Loops
           /\ Reassigned(l, t).work = t /\ Reassigned(l, t).iter = l.iter
           /\ Reassigned(l, t).limit \in 1..MaxLimit
<1> DEFINE longer == IF l.limit + PerReassign > TotalIterations
                     THEN TotalIterations ELSE l.limit + PerReassign
           limit == IF l.again < MaxReassignments /\ longer > l.limit THEN longer ELSE l.limit
<1>1. l.iter \in Nat /\ l.limit \in Nat /\ l.again \in Nat
  BY DEF Loops
<1>2. longer \in Nat /\ longer <= MaxLimit
  BY <1>1, Bounds
<1>3. limit \in 1..MaxLimit /\ limit \in Nat
  <2> HIDE DEF longer
  <2> QED BY <1>1, <1>2, Bounds
<1>4. l.again + 1 \in Nat
  BY <1>1
<1>5. Reassigned(l, t) = [l EXCEPT !.work = t, !.limit = limit, !.again = @ + 1]
  BY DEF Reassigned
<1> HIDE DEF limit, longer
<1> QED BY <1>3, <1>4, <1>5 DEF Loops

LEMMA HeadIsIn ==
    ASSUME NEW S, NEW s \in Seq(S), s # <<>>
    PROVE  Head(s) \in S /\ Tail(s) \in Seq(S) /\ Len(Tail(s)) = Len(s) - 1
           /\ \A i \in 1..Len(Tail(s)) : Tail(s)[i] = s[i + 1]
OBVIOUS

LEMMA WakeNewTaskMoves ==
    ASSUME TypeInv, NEW a \in Agents, WakeNewTask(a)
    PROVE  AgentStep(a)
<1> DEFINE box == inbox[a]
<1>1. /\ Alive(a) /\ loop[a].at = "idle" /\ box.tasks # <<>>
      /\ idleQ' = idleQ /\ sent' = sent /\ messages' = messages /\ UNCHANGED leadOnly
  BY DEF WakeNewTask, Alive
<1>2. box \in Inboxes /\ loop[a] \in Loops /\ InLimits(loop[a])
  BY Typed DEF TypeInv
<1>3. box.tasks \in Seq(Tasks \cup {NoTask})
  BY <1>2 DEF Inboxes
<1>4. Head(box.tasks) \in Tasks \cup {NoTask} /\ Tail(box.tasks) \in Seq(Tasks \cup {NoTask})
  BY <1>1, <1>3, HeadIsIn
<1>5. loop[a].limit \in 1..MaxLimit
  BY <1>2 DEF InLimits
<1>6. PICK l : l = Reassigned(loop[a], Head(box.tasks))
  OBVIOUS
<1>7. /\ l \in Loops /\ l.work = Head(box.tasks) /\ l.limit \in 1..MaxLimit
  BY <1>2, <1>4, <1>5, <1>6, ReassignedFields
<1>8. CASE l.iter + 1 < l.limit
  <2>1. Advance(a, l) /\ inbox' = [inbox EXCEPT ![a].tasks = Tail(@)]
    BY <1>6, <1>8 DEF WakeNewTask
  <2>2. /\ loop' \in [Agents -> Loops] /\ \A b \in Agents : InLimits(loop'[b])
        /\ \A b \in Agents \ {a} : loop'[b] = loop[b]
        /\ loop'[a].at = "begin" /\ loop'[a].work = l.work
    BY <1>7, <1>8, <2>1, AdvanceMoves
  <2> DEFINE n == [box EXCEPT !.tasks = Tail(@)]
  <2>3. n \in Inboxes /\ n.tasks = Tail(box.tasks) /\ n.stop = box.stop /\ n.peer = box.peer
    BY <1>2, <1>4 DEF Inboxes
  <2>4. inbox' = [inbox EXCEPT ![a] = n]
    BY <2>1
  <2> HIDE DEF n
  <2>5. /\ inbox' \in [Agents -> Inboxes] /\ inbox'[a] = n
        /\ \A b \in Agents \ {a} : inbox'[b] = inbox[b]
    BY <2>3, <2>4, InboxMoves
  <2>6. Takes(a)
    BY <1>1, <1>7, <2>2, <2>3, <2>5 DEF Takes
  <2> QED BY <1>1, <2>2, <2>5, <2>6, Typed, MessagesStay DEF AgentMoves, AgentStep
<1>9. CASE ~(l.iter + 1 < l.limit)
  <2>1. Close(a)
    BY <1>6, <1>9 DEF WakeNewTask
  <2> QED BY <1>1, <2>1, CloseMoves, Typed, MessagesStay DEF AgentStep
<1> QED BY <1>8, <1>9

LEMMA WakeShutdownMoves ==
    ASSUME TypeInv, NEW a \in Agents, WakeShutdown(a)
    PROVE  AgentStep(a)
BY CloseMoves, Typed, MessagesStay DEF WakeShutdown, AgentStep, AtWork, Alive

LEMMA WakePeerMoves ==
    ASSUME TypeInv, NEW a \in Agents, WakePeer(a)
    PROVE  AgentStep(a)
<1> DEFINE box == inbox[a]
<1>1. /\ Alive(a) /\ loop[a].at = "idle" /\ box.peer > 0
      /\ idleQ' = idleQ /\ sent' = sent /\ messages' = messages /\ UNCHANGED leadOnly
  BY DEF WakePeer, Alive
<1>2. box \in Inboxes /\ loop[a] \in Loops /\ InLimits(loop[a])
  BY Typed DEF TypeInv
<1>3. CASE LastIteration(a)
  BY <1>1, <1>3, CloseMoves, Typed, MessagesStay DEF WakePeer, AgentStep
<1>4. CASE ~LastIteration(a)
  <2>1. Advance(a, loop[a]) /\ inbox' = [inbox EXCEPT ![a].peer = @ - 1]
    BY <1>4 DEF WakePeer
  <2>2. /\ loop[a].limit \in 1..MaxLimit /\ loop[a].iter + 1 < loop[a].limit
        /\ loop[a].work = NoTask
    BY <1>1, <1>2, <1>4, Bounds DEF InLimits, LastIteration
  <2>3. /\ loop' \in [Agents -> Loops] /\ \A b \in Agents : InLimits(loop'[b])
        /\ \A b \in Agents \ {a} : loop'[b] = loop[b]
        /\ loop'[a].at = "begin" /\ loop'[a].work = loop[a].work
    BY <1>2, <2>1, <2>2, AdvanceMoves
  <2> DEFINE n == [box EXCEPT !.peer = @ - 1]
  <2>4. box.peer - 1 \in Nat
    BY <1>1, <1>2 DEF Inboxes
  <2>5. n \in Inboxes /\ n.tasks = box.tasks /\ n.stop = box.stop
    BY <1>2, <2>4 DEF Inboxes
  <2>6. inbox' = [inbox EXCEPT ![a] = n]
    BY <2>1
  <2> HIDE DEF n
  <2>7. /\ inbox' \in [Agents -> Inboxes] /\ inbox'[a] = n
        /\ \A b \in Agents \ {a} : inbox'[b] = inbox[b]
    BY <2>5, <2>6, InboxMoves
  <2>8. Wakes(a)
    BY <1>1, <2>2, <2>3, <2>5, <2>7 DEF Wakes
  <2> QED BY <1>1, <2>3, <2>7, <2>8, Typed, MessagesStay DEF AgentMoves, AgentStep
<1> QED BY <1>3, <1>4

LEMMA AgentSteps ==
    ASSUME TypeInv, NEW a \in Agents, Step(a) \/ Killed(a)
    PROVE  AgentStep(a)
BY BeginIterationMoves, StepWorksMoves, StepSendsMoves, StepReturnsMoves, StepIdlesMoves,
   WakeNewTaskMoves, WakeShutdownMoves, WakePeerMoves, KilledMoves DEF Step, Spawned

-----------------------------------------------------------------------------
(* Part 2.  The invariant.                                                 *)

In(x, s) == \E i \in 1..Len(s) : s[i] = x
Queued(a) == In(a, idleQ)

(* The agents are spawned in their order, and nothing is known of one that *)
(* is not.                                                                 *)
Fresh(a) ==
    /\ loop[a] = NoLoop /\ taskMap[a] = NoTask /\ a \notin collected
    /\ ~Queued(a) /\ inbox[a].tasks = <<>> /\ ~inbox[a].stop

Enrolled ==
    /\ \E n \in Nat : Spawned = 1..n
    /\ \A a \in Agents \ Spawned : Fresh(a)

(* Before its first event the lead has told the agents nothing, at its     *)
(* events it holds no list, and only a decision in hand has given out.     *)
Beginning(a) ==
    /\ a \notin collected /\ agentStates[a] \in {"none", "running"}
    /\ inbox[a].tasks = <<>> /\ inbox[a].peer = 0
    /\ Queued(a) => ~AtWork(a)

Deciding == lead \in {"spawn", "act"}

Phases ==
    /\ lead = "plan" => Spawned = {}
    /\ lead \in {"plan", "spawn"} => \A a \in Agents : Beginning(a)
    /\ lead \in {"wait", "event", "checkpoint"} => copy = EmptyList
    /\ ~Deciding => handed = {}

(* An agent that is idle, or has ended, has no task in the lead's eyes.    *)
Mapped ==
    /\ \A a \in Idle : taskMap[a] = NoTask
    /\ \A a \in collected :
        /\ lead \notin {"synthesis", "done"} => taskMap[a] = NoTask
        /\ lead \notin {"drain", "synthesis", "done"} =>
               agentStates[a] = "completed" /\ ~Queued(a) /\ loop[a].at = "closed"

(* What is in progress was given to somebody.                              *)
Tracked ==
    faults = 0 /\ lead \notin {"synthesis", "done"} =>
        \A t \in Tasks : tasks[t] = "in_progress" => \E a \in Agents : taskMap[a] = t

(* Agent a works on t, or will once it reads its signals.                  *)
HeldBy(a, t) ==
    /\ Alive(a) /\ ~inbox[a].stop
    /\ (AtWork(a) /\ loop[a].work = t) \/ In(t, inbox[a].tasks)
Has(a, t) == HeldBy(a, t) \/ taskMap[a] = t

(* Unless its news were lost, the list says of a task that somebody holds  *)
(* that it was given out.                                                  *)
Marked ==
    \A t \in Tasks \ lost :
        /\ copy[t] # "absent" => tasks[t] # "absent"
        /\ \A a \in Agents : HeldBy(a, t) => tasks[t] \in {"in_progress", "completed"}

(* What a decision is shown as pending, and has not given out, nobody      *)
(* holds; what it has given out is in the map.                             *)
Unheld ==
    Deciding => \A t \in Tasks : copy[t] = "pending" =>
        /\ t \notin lost \cup handed => \A a \in Agents : ~HeldBy(a, t)
        /\ t \in handed => t \in Given

(* Without messages, a task that was not cancelled under the hands of its  *)
(* agent is one agent's, is in progress, and is neither pending nor        *)
(* completed in the list that a decision is taken on.                      *)
Sole ==
    messages = 0 => \A t \in Tasks \ (lost \cup cancelled) :
        /\ \A a, b \in Agents : Has(a, t) /\ Has(b, t) => a = b
        /\ \A a \in Agents : Has(a, t) =>
              /\ lead # "done" => tasks[t] = "in_progress"
              /\ Deciding /\ t \notin handed => t \notin Shown

(* Without messages an agent that is idle, or about to be, stays idle      *)
(* until the lead gives it a task.                                         *)
Rested(a) ==
    /\ sent[a] = 0 /\ inbox[a].peer = 0
    /\ agentStates[a] = "idle" => ~AtWork(a) /\ inbox[a].tasks = <<>> /\ ~Queued(a)
    /\ Queued(a) => ~AtWork(a) /\ inbox[a].tasks = <<>>
    /\ AtWork(a) => inbox[a].tasks = <<>>
    /\ Len(inbox[a].tasks) <= 1
    /\ agentStates[a] = "completed" => ~Alive(a) \/ inbox[a].stop

Early == messages = 0 => \A a \in Agents : Rested(a)

IInv ==
    /\ TypeInv /\ Enrolled /\ Phases /\ Mapped
    /\ Tracked /\ Marked /\ Unheld /\ Sole /\ Early

-----------------------------------------------------------------------------
(* Part 3.  The helpers of the lead's steps, and its types.                *)

(* What SetStatus leaves: an absent task stays absent, and one that is     *)
(* there is moved unless its call is lost.                                 *)
StatusMoves(S, to) ==
    /\ tasks' \in TaskLists /\ faults' \in Nat /\ faults' >= faults
    /\ lost \subseteq lost' /\ lost' \subseteq lost \cup S
    /\ to = "completed" => lost' = lost
    /\ \A t \in Tasks \ S : tasks'[t] = tasks[t]
    /\ \A t \in Tasks : tasks'[t] = tasks[t] \/ (tasks[t] # "absent" /\ tasks'[t] = to)
    /\ \A t \in S : tasks[t] = "absent" \/ tasks'[t] = to \/ faults' > faults
    /\ to = "in_progress" => \A t \in S : tasks[t] = "absent" \/ tasks'[t] = to \/ t \in lost'

LEMMA StatusSet ==
    ASSUME TypeInv, NEW S \in SUBSET Tasks, NEW to \in {"in_progress", "completed"},
           SetStatus(S, to)
    PROVE  StatusMoves(S, to)
<1>1. PICK failed \in SUBSET S :
          /\ faults' = faults + Cardinality(failed)
          /\ tasks' = UpdateTaskStatus(tasks, S \ failed, to)
          /\ lost' = IF to = "in_progress" THEN lost \cup failed ELSE lost
  BY DEF SetStatus
<1>2. IsFiniteSet(failed) /\ failed \in SUBSET Tasks
  BY FS_Subset, DepsAssumption
<1>3. Cardinality(failed) \in Nat /\ (Cardinality(failed) = 0 <=> failed = {})
  BY <1>2, FS_CardinalityType, FS_EmptySet
<1>4. faults' \in Nat /\ faults' >= faults /\ (failed # {} => faults' > faults)
  BY <1>1, <1>3, Typed, Bounds
<1>5. tasks \in [Tasks -> Status]
  BY Typed
<1>6. tasks' \in TaskLists
  BY <1>1, <1>5 DEF UpdateTaskStatus, TaskLists, Status
<1>7. \A t \in Tasks : tasks'[t] = IF t \in S \ failed /\ ValidateStatusTransition(tasks[t], to)
                                   THEN to ELSE tasks[t]
  BY <1>1 DEF UpdateTaskStatus
<1>8. \A t \in Tasks : ValidateStatusTransition(tasks[t], to) <=>
                          tasks[t] # "absent" /\ ~(tasks[t] = "completed" /\ to = "completed")
  BY <1>5 DEF ValidateStatusTransition, Status
<1>9. /\ lost \subseteq lost' /\ lost' \subseteq lost \cup S
      /\ (to = "completed" => lost' = lost) /\ (to = "in_progress" => failed \subseteq lost')
  BY <1>1
<1> QED BY <1>4, <1>6, <1>7, <1>8, <1>9 DEF StatusMoves

LEMMA GivenToTasks ==
    ASSUME TypeInv, NEW S \in SUBSET Agents
    PROVE  GivenTo(S) \in SUBSET Tasks
BY Typed DEF GivenTo

LEMMA IdleQTyped ==
    ASSUME TypeInv, NEW S, S = {idleQ[i] : i \in 1..Len(idleQ)}
    PROVE  S \in SUBSET Agents /\ \A a \in Agents : a \in S <=> Queued(a)
<1>1. idleQ \in Seq(Agents)
  BY Typed
<1> QED BY <1>1 DEF Queued, In

(* Signals that were forwarded only count messages.                        *)
ForwardMoves ==
    /\ inbox' \in [Agents -> Inboxes] /\ sent' = [a \in Agents |-> 0]
    /\ \A a \in Agents :
        /\ inbox'[a].tasks = inbox[a].tasks /\ inbox'[a].stop = inbox[a].stop
        /\ inbox'[a].peer \in {inbox[a].peer, inbox[a].peer + sent[a]}

LEMMA Forwarded ==
    ASSUME TypeInv, NEW to, Forward(to)
    PROVE  ForwardMoves
<1>1. sent' = [a \in Agents |-> 0]
      /\ inbox' = [a \in Agents |-> IF a \in to /\ Alive(a)
                                    THEN [inbox[a] EXCEPT !.peer = @ + sent[a]] ELSE inbox[a]]
  BY DEF Forward
<1>2. ASSUME NEW a \in Agents
      PROVE  /\ inbox'[a] \in Inboxes
             /\ inbox'[a].tasks = inbox[a].tasks /\ inbox'[a].stop = inbox[a].stop
             /\ inbox'[a].peer \in {inbox[a].peer, inbox[a].peer + sent[a]}
  <2>1. inbox[a] \in Inboxes /\ sent[a] \in Nat
    BY Typed
  <2>2. inbox[a].peer + sent[a] \in Nat
    BY <2>1 DEF Inboxes
  <2>3. inbox'[a] = inbox[a] \/ inbox'[a] = [inbox[a] EXCEPT !.peer = @ + sent[a]]
    BY <1>1
  <2> QED BY <2>1, <2>2, <2>3 DEF Inboxes
<1>3. inbox' \in [Agents -> Inboxes]
  BY <1>1, <1>2
<1> QED BY <1>1, <1>2, <1>3 DEF ForwardMoves

(* A shutdown reaches who is alive and has not been told yet.              *)
StopMoves ==
    /\ inbox' \in [Agents -> Inboxes]
    /\ \A a \in Agents :
        /\ inbox'[a].tasks = inbox[a].tasks /\ inbox'[a].peer = inbox[a].peer
        /\ inbox[a].stop => inbox'[a].stop
        /\ inbox'[a].stop => inbox[a].stop \/ Alive(a)

LEMMA Stopped ==
    ASSUME TypeInv, Shutdown
    PROVE  StopMoves
<1>1. inbox' = [a \in Agents |-> IF Alive(a) /\ agentStates[a] # "completed"
                                 THEN [inbox[a] EXCEPT !.stop = TRUE] ELSE inbox[a]]
  BY DEF Shutdown
<1>2. ASSUME NEW a \in Agents
      PROVE  /\ inbox'[a] \in Inboxes
             /\ inbox'[a].tasks = inbox[a].tasks /\ inbox'[a].peer = inbox[a].peer
             /\ inbox[a].stop => inbox'[a].stop
             /\ inbox'[a].stop => inbox[a].stop \/ Alive(a)
  <2>1. inbox[a] \in Inboxes
    BY Typed
  <2>2. inbox'[a] = inbox[a] \/ (Alive(a) /\ inbox'[a] = [inbox[a] EXCEPT !.stop = TRUE])
    BY <1>1
  <2> QED BY <2>1, <2>2 DEF Inboxes
<1>3. inbox' \in [Agents -> Inboxes]
  BY <1>1, <1>2
<1> QED BY <1>2, <1>3 DEF StopMoves

(* The loop of an agent that is spawned begins with the task it is given.  *)
LEMMA SpawnedLoop ==
    ASSUME TypeInv, NEW a \in Agents, NEW t \in Tasks \cup {NoTask},
           loop' = [loop EXCEPT ![a] = [NoLoop EXCEPT !.at = "begin", !.work = t]]
    PROVE  /\ loop' \in [Agents -> Loops] /\ \A b \in Agents : InLimits(loop'[b])
           /\ loop'[a].at = "begin" /\ loop'[a].work = t
           /\ \A b \in Agents \ {a} : loop'[b] = loop[b]
<1> DEFINE l == [NoLoop EXCEPT !.at = "begin", !.work = t]
<1>1. l \in Loops /\ l.at = "begin" /\ l.work = t /\ l.iter = NoLoop.iter /\ l.limit = NoLoop.limit
  BY NoLoopFields DEF Loops
<1>2. loop' = [loop EXCEPT ![a] = l]
  OBVIOUS
<1> HIDE DEF l
<1>3. InLimits(l)
  BY <1>1, NoLoopFields DEF InLimits
<1> QED BY <1>1, <1>2, <1>3, LoopMoves

(* SpawnAgent takes the next agent, of whom nothing is known.              *)
SpawnMoves(a, t) ==
    /\ a \in Agents /\ a \notin Spawned
    /\ agentStates' = [agentStates EXCEPT ![a] = "running"]
    /\ taskMap' = [taskMap EXCEPT ![a] = t]
    /\ loop' \in [Agents -> Loops] /\ \A b \in Agents : InLimits(loop'[b])
    /\ loop'[a].at = "begin" /\ loop'[a].work = t
    /\ \A b \in Agents \ {a} : loop'[b] = loop[b]
    /\ \E n \in Nat : Spawned \cup {a} = 1..n

LEMMA NextAgent ==
    ASSUME Enrolled, NEW a, a = Cardinality(Spawned) + 1
    PROVE  a \notin Spawned /\ \E n \in Nat : Spawned \cup {a} = 1..n
<1>1. PICK n \in Nat : Spawned = 1..n
  BY DEF Enrolled
<1>2. Cardinality(1..n) = n
  BY FS_Interval
<1>3. a = n + 1
  BY <1>1, <1>2
<1>4. a \notin 1..n /\ (1..n) \cup {a} = 1..(n + 1) /\ n + 1 \in Nat
  BY <1>3
<1> QED BY <1>1, <1>4

LEMMA SpawnAgentMoves ==
    ASSUME TypeInv, Enrolled, NEW t \in Tasks \cup {NoTask}, SpawnAgent(t)
    PROVE  (\E a \in Agents : SpawnMoves(a, t)) /\ StatusMoves({t} \ {NoTask}, "in_progress")
<1>1. PICK a : a = Cardinality(Spawned) + 1
  OBVIOUS
<1>2. /\ a \in Agents
      /\ agentStates' = [agentStates EXCEPT ![a] = "running"]
      /\ taskMap' = [taskMap EXCEPT ![a] = t]
      /\ loop' = [loop EXCEPT ![a] = [NoLoop EXCEPT !.at = "begin", !.work = t]]
      /\ SetStatus({t} \ {NoTask}, "in_progress")
  BY <1>1 DEF SpawnAgent
<1>3. {t} \ {NoTask} \in SUBSET Tasks
  OBVIOUS
<1>4. SpawnMoves(a, t)
  BY <1>1, <1>2, SpawnedLoop, NextAgent DEF SpawnMoves
<1> QED BY <1>2, <1>3, <1>4, StatusSet

(* Pair gives each agent that has no task one of the orphaned.             *)
PairMoves(p) ==
    /\ p \in [Unlinked -> Orphaned]
    /\ \A t \in Orphaned : \E a \in Unlinked : p[a] = t
    /\ \A a, b \in Unlinked : p[a] = p[b] => a = b
    /\ taskMap' \in [Agents -> Tasks \cup {NoTask}]
    /\ \A a \in Agents : taskMap'[a] = IF a \in Unlinked THEN p[a] ELSE taskMap[a]
    /\ loop' \in [Agents -> Loops] /\ \A a \in Agents : InLimits(loop'[a])
    /\ \A a \in Agents :
        /\ loop'[a].at = loop[a].at
        /\ a \in Unlinked /\ AtWork(a) => loop'[a].work = p[a]
        /\ ~(a \in Unlinked /\ AtWork(a)) => loop'[a] = loop[a]

LEMMA AgentsFinite == IsFiniteSet(Agents)
BY FS_Interval, Bounds DEF Agents

LEMMA Paired ==
    ASSUME TypeInv, Pair, Cardinality(Unlinked) = Cardinality(Orphaned)
    PROVE  (\E p \in [Unlinked -> Orphaned] : PairMoves(p))
           /\ StatusMoves(Orphaned, "in_progress")
<1>1. PICK p \in [Unlinked -> Orphaned] :
        /\ \A t \in Orphaned : \E a \in Unlinked : p[a] = t
        /\ taskMap' = [a \in Agents |-> IF a \in Unlinked THEN p[a] ELSE taskMap[a]]
        /\ loop' = [a \in Agents |-> IF a \in Unlinked /\ AtWork(a)
                                     THEN [loop[a] EXCEPT !.work = p[a]] ELSE loop[a]]
        /\ SetStatus(Orphaned, "in_progress")
  BY DEF Pair
<1>2. Orphaned \in SUBSET Tasks /\ Unlinked \in SUBSET Agents
  BY DEF Orphaned, Unlinked, Spawned
<1>3. \A a, b \in Unlinked : p[a] = p[b] => a = b
  <2>1. IsFiniteSet(Unlinked)
    BY <1>2, AgentsFinite, FS_Subset
  <2>2. p \in Surjection(Unlinked, Orphaned)
    BY <1>1 DEF Surjection
  <2>3. p \in Injection(Unlinked, Orphaned)
    BY <2>1, <2>2, FS_Surjection
  <2> QED BY <2>3 DEF Injection, IsInjective
<1>4. taskMap' \in [Agents -> Tasks \cup {NoTask}]
  BY <1>1, <1>2, Typed
<1>5. ASSUME NEW a \in Agents
      PROVE  /\ loop'[a] \in Loops /\ InLimits(loop'[a]) /\ loop'[a].at = loop[a].at
             /\ a \in Unlinked /\ AtWork(a) => loop'[a].work = p[a]
             /\ ~(a \in Unlinked /\ AtWork(a)) => loop'[a] = loop[a]
  <2>1. loop[a] \in Loops /\ InLimits(loop[a])
    BY DEF TypeInv
  <2>2. CASE a \in Unlinked /\ AtWork(a)
    <3>1. loop'[a] = [loop[a] EXCEPT !.work = p[a]] /\ p[a] \in Tasks
      BY <1>1, <1>2, <2>2
    <3>2. loop'[a] \in Loops /\ loop'[a].at = loop[a].at /\ loop'[a].work = p[a]
          /\ loop'[a].iter = loop[a].iter /\ loop'[a].limit = loop[a].limit
      BY <2>1, <3>1 DEF Loops
    <3> QED BY <2>1, <2>2, <3>2 DEF InLimits, AtWork
  <2>3. CASE ~(a \in Unlinked /\ AtWork(a))
    BY <1>1, <2>1, <2>3
  <2> QED BY <2>2, <2>3
<1>6. loop' \in [Agents -> Loops]
  BY <1>1, <1>5
<1>7. PairMoves(p)
  BY <1>1, <1>3, <1>4, <1>5, <1>6 DEF PairMoves
<1> QED BY <1>1, <1>2, <1>7, StatusSet

(* The types of the variables that the steps change, put together.         *)
LEMMA TypesTogether ==
    ASSUME lead' \in {"plan", "spawn", "wait", "event", "checkpoint", "act", "drain",
                      "synthesis", "done"},
           actions' \in 0..MaxActions, copy' \in TaskLists, tasks' \in TaskLists,
           agentStates' \in [Agents -> {"none", "running", "idle", "completed"}],
           taskMap' \in [Agents -> Tasks \cup {NoTask}], collected' \subseteq Agents,
           idleQ' \in Seq(Agents), sent' \in [Agents -> Nat], inbox' \in [Agents -> Inboxes],
           loop' \in [Agents -> Loops], \A a \in Agents : InLimits(loop'[a]),
           messages' \in Nat, faults' \in Nat,
           handed' \subseteq Tasks, lost' \subseteq Tasks, cancelled' \subseteq Tasks
    PROVE  TypeInv'
<1>1. inbox' \in [Agents -> [tasks : Seq(Tasks \cup {NoTask}), stop : BOOLEAN, peer : Nat]]
  BY DEF Inboxes
<1>2. TypeOK'
  BY <1>1, TypesAre DEF TypeOK, MaxLimit
<1> QED BY <1>2 DEF TypeInv

LEMMA Split ==
    ASSUME TypeInv
    PROVE  /\ lead \in {"plan", "spawn", "wait", "event", "checkpoint", "act", "drain",
                        "synthesis", "done"}
           /\ actions \in 0..MaxActions /\ copy \in TaskLists /\ tasks \in TaskLists
           /\ \A a \in Agents : InLimits(loop[a])
           /\ messages \in Nat /\ faults \in Nat
BY DEF TypeInv, TypeOK

LEMMA StatusTypes ==
    ASSUME TypeInv, NEW S \in SUBSET Tasks, NEW to, StatusMoves(S, to)
    PROVE  tasks' \in TaskLists /\ faults' \in Nat /\ lost' \subseteq Tasks
BY Typed DEF StatusMoves

LEMMA EmptyListIs == EmptyList \in TaskLists
BY DEF EmptyList, TaskLists, Status

LEMMA FaultCounted ==
    ASSUME TypeInv, Fails
    PROVE  faults' \in Nat /\ faults' = faults + 1 /\ faults' # 0
BY Split, Bounds DEF Fails

LEMMA ActionCounted ==
    ASSUME TypeInv, Act
    PROVE  actions' \in 0..MaxActions /\ lead = "act"
BY Split, Bounds DEF Act

LEMMA AgentTypes ==
    ASSUME TypeInv, NEW a \in Agents, AgentStep(a)
    PROVE  TypeInv'
<1>1. messages' \in Nat
  BY Split, Bounds DEF AgentStep
<1>2. idleQ' \in Seq(Agents)
  <2>1. idleQ' = idleQ \/ idleQ' = Append(idleQ, a)
    BY DEF AgentStep, AgentMoves, Ends, Works, Rests, Takes, Wakes
  <2>2. idleQ \in Seq(Agents)
    BY Typed
  <2>3. Append(idleQ, a) \in Seq(Agents)
    BY <2>2
  <2> QED BY <2>1, <2>2, <2>3
<1> QED BY <1>1, <1>2, Split, Typed, TypesTogether
       DEF AgentStep, AgentMoves, leadOnly, leadVars, choices

LEMMA PlanTypes ==
    ASSUME TypeInv, Plan
    PROVE  TypeInv'
<1>1. PICK S \in Plans :
        /\ copy' = InitTaskList(EmptyList, S)
        /\ \/ tasks' = InitTaskList(tasks, S) /\ UNCHANGED <<faults, lost>>
           \/ S # {} /\ Fails /\ lost' = lost \cup S /\ UNCHANGED tasks
  BY DEF Plan
<1>2. \A list \in TaskLists : InitTaskList(list, S) \in TaskLists
  BY DEF InitTaskList, TaskLists, Status
<1>3. S \subseteq Tasks
  BY SwarmAssumption
<1> QED BY <1>1, <1>2, <1>3, EmptyListIs, FaultCounted, Split, Typed, TypesTogether
       DEF Plan, signals, choices

LEMMA SpawnAgentTypes ==
    ASSUME TypeInv, NEW t \in Tasks \cup {NoTask}, SpawnAgent(t),
           UNCHANGED <<lead, copy, collected, signals, messages>>,
           actions' \in 0..MaxActions
    PROVE  TypeInv'
<1>1. PICK a \in Agents :
        /\ agentStates' = [agentStates EXCEPT ![a] = "running"]
        /\ taskMap' = [taskMap EXCEPT ![a] = t]
        /\ loop' = [loop EXCEPT ![a] = [NoLoop EXCEPT !.at = "begin", !.work = t]]
        /\ SetStatus({t} \ {NoTask}, "in_progress")
        /\ handed' = handed \cup ({t} \ {NoTask}) /\ UNCHANGED cancelled
  BY DEF SpawnAgent, HandOut
<1>2. {t} \ {NoTask} \in SUBSET Tasks /\ StatusMoves({t} \ {NoTask}, "in_progress")
  <2>1. {t} \ {NoTask} \in SUBSET Tasks
    OBVIOUS
  <2> QED BY <1>1, <2>1, StatusSet
<1>3. loop' \in [Agents -> Loops] /\ \A b \in Agents : InLimits(loop'[b])
  BY <1>1, SpawnedLoop
<1>4. /\ agentStates' \in [Agents -> {"none", "running", "idle", "completed"}]
      /\ taskMap' \in [Agents -> Tasks \cup {NoTask}]
  BY <1>1, Typed
<1>5. tasks' \in TaskLists /\ faults' \in Nat /\ lost' \subseteq Tasks
  BY <1>2, StatusTypes
<1> QED BY <1>1, <1>3, <1>4, <1>5, Split, Typed, TypesTogether DEF signals

LEMMA LinkedTask ==
    ASSUME NEW t \in Tasks \cup {NoTask}
    PROVE  LinkOf(t) \in Orphaned \/ LinkOf(t) = t
<1>1. CASE t = NoTask /\ Cardinality(Orphaned) = 1
  <2>1. Orphaned # {}
    BY <1>1, FS_EmptySet
  <2>2. LinkOf(t) \in Orphaned
    BY <1>1, <2>1 DEF LinkOf
  <2> QED BY <2>2
<1>2. CASE ~(t = NoTask /\ Cardinality(Orphaned) = 1)
  BY <1>2 DEF LinkOf
<1> QED BY <1>1, <1>2

LEMMA AutoLinkTypes ==
    ASSUME TypeInv, AutoLink
    PROVE  TypeInv'
<1>1. /\ copy' = EmptyList /\ lead' \in {"done", "wait"}
      /\ handed' = {}
      /\ UNCHANGED <<actions, agentStates, collected, signals, messages, cancelled>>
  BY DEF AutoLink
<1>2. CASE Pair /\ Cardinality(Unlinked) = Cardinality(Orphaned)
  <2>1. PICK p : PairMoves(p)
    BY <1>2, Paired
  <2>2. tasks' \in TaskLists /\ faults' \in Nat /\ lost' \subseteq Tasks
    <3>1. Orphaned \in SUBSET Tasks
      BY DEF Orphaned
    <3> QED BY <1>2, <3>1, Paired, StatusTypes
  <2> QED BY <1>1, <2>1, <2>2, EmptyListIs, Split, Typed, TypesTogether DEF PairMoves, signals
<1>3. CASE UNCHANGED <<taskMap, loop, tasks, faults, lost>>
  BY <1>1, <1>3, EmptyListIs, Split, Typed, TypesTogether DEF signals
<1> QED BY <1>2, <1>3 DEF AutoLink

LEMMA OnIdleTypes ==
    ASSUME TypeInv, OnIdle
    PROVE  TypeInv' /\ ForwardMoves /\ \E S \in SUBSET Agents : StatusMoves(GivenTo(S), "completed")
<1>1. PICK S : S = {idleQ[i] : i \in 1..Len(idleQ)}
  OBVIOUS
<1>2. S \in SUBSET Agents
  BY <1>1, IdleQTyped
<1>3. /\ agentStates' = [a \in Agents |-> IF a \in S THEN "idle" ELSE agentStates[a]]
      /\ SetStatus(GivenTo(S), "completed")
      /\ taskMap' = [a \in Agents |-> IF a \in S THEN NoTask ELSE taskMap[a]]
      /\ idleQ' = <<>> /\ lead' = "event"
      /\ UNCHANGED <<actions, copy, collected, loop, messages, handed, cancelled>>
  BY <1>1 DEF OnIdle, choices
<1>4. StatusMoves(GivenTo(S), "completed")
  BY <1>2, <1>3, GivenToTasks, StatusSet
<1>5. ForwardMoves
  BY Forwarded DEF OnIdle
<1>6. agentStates' \in [Agents -> {"none", "running", "idle", "completed"}]
      /\ taskMap' \in [Agents -> Tasks \cup {NoTask}]
  BY <1>3, Typed
<1>7. idleQ' \in Seq(Agents) /\ sent' \in [Agents -> Nat]
  BY <1>2, <1>3, <1>5, Typed DEF ForwardMoves
<1>8. tasks' \in TaskLists /\ faults' \in Nat /\ lost' \subseteq Tasks
  BY <1>2, <1>4, GivenToTasks, StatusTypes
<1>9. inbox' \in [Agents -> Inboxes]
  BY <1>5 DEF ForwardMoves
<1>10. TypeInv'
  BY <1>3, <1>6, <1>7, <1>8, <1>9, Split, Typed, TypesTogether
<1> QED BY <1>2, <1>4, <1>5, <1>10

(* What an agent leaves when its result is collected.                      *)
CollectMoves(a) ==
    /\ loop[a].at = "closed" /\ a \notin collected
    /\ collected' = collected \cup {a}
    /\ taskMap' = [taskMap EXCEPT ![a] = NoTask]
    /\ StatusMoves(GivenTo({a}), "completed")

LEMMA Collected_ ==
    ASSUME TypeInv, NEW a \in Agents, Ended(a), Collect(a)
    PROVE  CollectMoves(a)
<1>1. GivenTo({a}) \in SUBSET Tasks
  BY GivenToTasks
<1> QED BY <1>1, StatusSet DEF Collect, CollectMoves, Ended

LEMMA OnCompletionTypes ==
    ASSUME TypeInv, NEW a \in Agents, OnCompletion(a)
    PROVE  TypeInv' /\ ForwardMoves /\ CollectMoves(a)
<1>1. CollectMoves(a)
  BY Collected_ DEF OnCompletion
<1>2. ForwardMoves
  BY Forwarded DEF OnCompletion
<1>3. agentStates' \in [Agents -> {"none", "running", "idle", "completed"}]
      /\ taskMap' \in [Agents -> Tasks \cup {NoTask}] /\ sent' \in [Agents -> Nat]
  BY <1>1, <1>2, Typed DEF OnCompletion, CollectMoves, ForwardMoves
<1>4. tasks' \in TaskLists /\ faults' \in Nat /\ lost' \subseteq Tasks
  BY <1>1, GivenToTasks, StatusTypes DEF CollectMoves
<1>5. TypeInv'
  BY <1>1, <1>2, <1>3, <1>4, Split, Typed, TypesTogether
     DEF OnCompletion, CollectMoves, ForwardMoves, choices
<1> QED BY <1>1, <1>2, <1>5

LEMMA CheckpointTypes ==
    ASSUME TypeInv, Checkpoint
    PROVE  TypeInv' /\ (StopMoves \/ inbox' = inbox)
<1>1. lead' \in {"synthesis", "wait", "event"} /\ faults' \in Nat
  BY FaultCounted, Split DEF Checkpoint, WrapUp
<1>2. StopMoves \/ inbox' = inbox
  BY Stopped DEF Checkpoint, WrapUp
<1>4. inbox' \in [Agents -> Inboxes]
  BY <1>2, Typed DEF StopMoves
<1>5. TypeInv'
  BY <1>1, <1>4, Split, Typed, TypesTogether DEF Checkpoint, choices
<1> QED BY <1>2, <1>5

LEMMA AssignTypes ==
    ASSUME TypeInv, NEW a \in Agents, NEW t \in Tasks \cup {NoTask}, ActAssign(a, t)
    PROVE  /\ TypeInv' /\ StatusMoves({t} \ {NoTask}, "in_progress")
           /\ inbox' = inbox \/ (/\ Alive(a) /\ inbox'[a].tasks = Append(inbox[a].tasks, t)
                                 /\ inbox'[a].stop = inbox[a].stop
                                 /\ inbox'[a].peer = inbox[a].peer
                                 /\ \A b \in Agents \ {a} : inbox'[b] = inbox[b])
<1>1. StatusMoves({t} \ {NoTask}, "in_progress")
  <2>1. {t} \ {NoTask} \in SUBSET Tasks
    OBVIOUS
  <2> QED BY <2>1, StatusSet DEF ActAssign
<1>2. /\ inbox' \in [Agents -> Inboxes]
      /\ inbox' = inbox \/ (/\ Alive(a) /\ inbox'[a].tasks = Append(inbox[a].tasks, t)
                            /\ inbox'[a].stop = inbox[a].stop
                            /\ inbox'[a].peer = inbox[a].peer
                            /\ \A b \in Agents \ {a} : inbox'[b] = inbox[b])
  <2>1. CASE inbox' = inbox
    BY <2>1, Typed
  <2>2. CASE Alive(a) /\ inbox' = [inbox EXCEPT ![a].tasks = Append(@, t)]
    <3> DEFINE n == [inbox[a] EXCEPT !.tasks = Append(@, t)]
    <3>1. inbox[a] \in Inboxes
      BY Typed
    <3>2. inbox[a].tasks \in Seq(Tasks \cup {NoTask})
      BY <3>1 DEF Inboxes
    <3>3. Append(inbox[a].tasks, t) \in Seq(Tasks \cup {NoTask})
      BY <3>2
    <3>4. n \in Inboxes /\ n.tasks = Append(inbox[a].tasks, t) /\ n.stop = inbox[a].stop
          /\ n.peer = inbox[a].peer
      BY <3>1, <3>3 DEF Inboxes
    <3>5. inbox' = [inbox EXCEPT ![a] = n]
      BY <2>2
    <3> HIDE DEF n
    <3> QED BY <2>2, <3>4, <3>5, InboxMoves
  <2> QED BY <2>1, <2>2 DEF ActAssign
<1>3. agentStates' \in [Agents -> {"none", "running", "idle", "completed"}]
      /\ taskMap' \in [Agents -> Tasks \cup {NoTask}]
  BY Typed DEF ActAssign
<1>4. tasks' \in TaskLists /\ faults' \in Nat /\ lost' \subseteq Tasks
  <2>1. {t} \ {NoTask} \in SUBSET Tasks
    OBVIOUS
  <2> QED BY <1>1, <2>1, StatusTypes
<1>5. TypeInv'
  BY <1>2, <1>3, <1>4, ActionCounted, Split, Typed, TypesTogether DEF ActAssign, HandOut
<1> QED BY <1>1, <1>2, <1>5

LEMMA MessageTypes ==
    ASSUME TypeInv, ActMessage
    PROVE  /\ TypeInv' /\ messages' # 0
           /\ \A a \in Agents : /\ inbox'[a].tasks = inbox[a].tasks
                                /\ inbox'[a].stop = inbox[a].stop
<1>1. PICK to \in SUBSET Idle :
        inbox' = [a \in Agents |-> IF a \in to /\ Alive(a)
                                   THEN [inbox[a] EXCEPT !.peer = @ + 1] ELSE inbox[a]]
  BY DEF ActMessage
<1>2. ASSUME NEW a \in Agents
      PROVE  /\ inbox'[a] \in Inboxes
             /\ inbox'[a].tasks = inbox[a].tasks /\ inbox'[a].stop = inbox[a].stop
  <2>1. inbox[a] \in Inboxes
    BY Typed
  <2>2. inbox[a].peer + 1 \in Nat
    BY <2>1 DEF Inboxes
  <2>3. inbox'[a] = inbox[a] \/ inbox'[a] = [inbox[a] EXCEPT !.peer = @ + 1]
    BY <1>1
  <2> QED BY <2>1, <2>2, <2>3 DEF Inboxes
<1>3. inbox' \in [Agents -> Inboxes]
  BY <1>1, <1>2
<1>4. messages' \in Nat /\ messages' # 0
  BY Split, Bounds DEF ActMessage
<1>5. TypeInv'
  BY <1>3, <1>4, ActionCounted, Split, Typed, TypesTogether DEF ActMessage, leadVars, choices
<1> QED BY <1>2, <1>4, <1>5

(* A revision creates a task, or completes one that counts as cancelled    *)
(* unless nobody has been given it.                                        *)
LEMMA ReviseMoves ==
    ASSUME TypeInv, ActRevisePlan
    PROVE  /\ lost' = lost /\ cancelled \subseteq cancelled' /\ cancelled' \subseteq Tasks
           /\ faults' \in Nat /\ faults' >= faults /\ tasks' \in TaskLists
           /\ \A t \in Tasks : \/ tasks'[t] = tasks[t]
                               \/ tasks[t] = "absent" /\ tasks'[t] = "pending"
                               \/ tasks[t] = "pending" /\ tasks'[t] = "completed"
                               \/ tasks[t] = "in_progress" /\ tasks'[t] = "completed"
                                  /\ t \in cancelled'
<1>1. CASE \E t \in Tasks : /\ tasks[t] = "absent" /\ tasks' = CreateTask(tasks, t)
                            /\ UNCHANGED <<faults, lost, cancelled>>
  <2>1. PICK t \in Tasks : tasks[t] = "absent" /\ tasks' = [tasks EXCEPT ![t] = "pending"]
    BY <1>1 DEF CreateTask
  <2>2. \A u \in Tasks : tasks'[u] = IF u = t THEN "pending" ELSE tasks[u]
    BY <2>1, Typed
  <2>3. tasks' \in TaskLists
    BY <2>1, Split DEF TaskLists, Status
  <2> QED BY <1>1, <2>1, <2>2, <2>3, Typed
<1>2. ASSUME NEW t \in Tasks, SetStatus({t}, "completed"),
             cancelled' = cancelled \cup {o \in {t} : tasks[o] = "in_progress" /\ tasks'[o] # tasks[o]}
      PROVE  /\ lost' = lost /\ cancelled \subseteq cancelled' /\ cancelled' \subseteq Tasks
             /\ faults' \in Nat /\ faults' >= faults /\ tasks' \in TaskLists
             /\ \A u \in Tasks : \/ tasks'[u] = tasks[u]
                                 \/ tasks[u] = "pending" /\ tasks'[u] = "completed"
                                 \/ tasks[u] = "in_progress" /\ tasks'[u] = "completed"
                                    /\ u \in cancelled'
  <2>1. StatusMoves({t}, "completed")
    BY <1>2, StatusSet
  <2>2. tasks[t] \in {"absent", "pending", "in_progress", "completed"}
    BY Typed DEF Status
  <2>3. tasks[t] = "in_progress" /\ tasks'[t] # tasks[t] => t \in cancelled'
    BY <1>2
  <2>4. cancelled \subseteq cancelled' /\ cancelled' \subseteq Tasks
    BY <1>2, Typed
  <2> QED BY <2>1, <2>2, <2>3, <2>4, Typed DEF StatusMoves
<1> QED BY <1>1, <1>2 DEF ActRevisePlan

LEMMA ReviseTypes ==
    ASSUME TypeInv, ActRevisePlan
    PROVE  TypeInv'
<1>1. lost' = lost /\ cancelled' \subseteq Tasks /\ faults' \in Nat /\ tasks' \in TaskLists
  BY ReviseMoves
<1> QED BY <1>1, ActionCounted, Split, Typed, TypesTogether DEF ActRevisePlan, leadVars, signals

(* An agent is shut down and what it was given settled.                    *)
ShutdownMoves(a) ==
    /\ StopMoves
    /\ \A b \in Agents \ {a} : inbox'[b] = inbox[b]
    /\ Alive(a) => inbox'[a].stop
    /\ agentStates' = [agentStates EXCEPT ![a] = "completed"]
    /\ StatusMoves(GivenTo({a}), "completed")
    /\ taskMap' = [taskMap EXCEPT ![a] = NoTask]
    /\ copy' \in TaskLists
    /\ \A t \in Tasks : copy'[t] = IF t \in GivenTo({a}) /\ copy[t] # "absent"
                                   THEN "completed" ELSE copy[t]

LEMMA ActShutdownTypes ==
    ASSUME TypeInv, NEW a \in Agents, ActShutdown(a)
    PROVE  TypeInv' /\ ShutdownMoves(a)
<1>1. StatusMoves(GivenTo({a}), "completed")
  BY GivenToTasks, StatusSet DEF ActShutdown
<1>2. /\ StopMoves /\ \A b \in Agents \ {a} : inbox'[b] = inbox[b]
      /\ Alive(a) => inbox'[a].stop
  <2>1. CASE ~Alive(a) /\ inbox' = inbox
    BY <2>1, Typed DEF StopMoves
  <2>2. CASE Alive(a) /\ inbox' = [inbox EXCEPT ![a].stop = TRUE]
    <3> DEFINE n == [inbox[a] EXCEPT !.stop = TRUE]
    <3>1. inbox[a] \in Inboxes
      BY Typed
    <3>2. n \in Inboxes /\ n.tasks = inbox[a].tasks /\ n.stop = TRUE /\ n.peer = inbox[a].peer
      BY <3>1 DEF Inboxes
    <3>3. inbox' = [inbox EXCEPT ![a] = n]
      BY <2>2
    <3> HIDE DEF n
    <3>4. inbox' \in [Agents -> Inboxes] /\ inbox'[a] = n
          /\ \A b \in Agents \ {a} : inbox'[b] = inbox[b]
      BY <3>2, <3>3, InboxMoves
    <3> QED BY <2>2, <3>2, <3>4 DEF StopMoves
  <2> QED BY <2>1, <2>2 DEF ActShutdown
<1>3. copy' = [t \in Tasks |-> IF t \in GivenTo({a}) /\ copy[t] # "absent"
                               THEN "completed" ELSE copy[t]]
  BY DEF ActShutdown
<1>4. copy' \in TaskLists
  BY <1>3, Split DEF TaskLists, Status
<1>5. ShutdownMoves(a)
  BY <1>1, <1>2, <1>3, <1>4 DEF ActShutdown, ShutdownMoves
<1>6. agentStates' \in [Agents -> {"none", "running", "idle", "completed"}]
      /\ taskMap' \in [Agents -> Tasks \cup {NoTask}]
  BY <1>5, Typed DEF ShutdownMoves
<1>7. tasks' \in TaskLists /\ faults' \in Nat /\ lost' \subseteq Tasks
  BY <1>1, GivenToTasks, StatusTypes
<1>8. inbox' \in [Agents -> Inboxes]
  BY <1>2 DEF StopMoves
<1>9. TypeInv'
  BY <1>4, <1>6, <1>7, <1>8, ActionCounted, Split, Typed, TypesTogether DEF ActShutdown, choices
<1> QED BY <1>5, <1>9

LEMMA DrainTypes ==
    ASSUME TypeInv, Drain
    PROVE  /\ TypeInv'
           /\ \/ /\ \E a \in Agents : CollectMoves(a)
                 /\ UNCHANGED <<lead, idleQ>>
              \/ /\ idleQ # <<>> /\ idleQ' = Tail(idleQ)
                 /\ UNCHANGED <<lead, collected, taskMap, tasks, faults, lost>>
              \/ lead' = "synthesis" /\ UNCHANGED <<idleQ, collected, taskMap, tasks, faults, lost>>
<1>1. UNCHANGED <<actions, copy, agentStates, sent, inbox, loop, messages, handed, cancelled>>
  BY DEF Drain, choices
<1>2. CASE (\E a \in Agents : Ended(a) /\ Collect(a)) /\ UNCHANGED <<lead, idleQ>>
  <2>1. PICK a \in Agents : CollectMoves(a)
    BY <1>2, Collected_
  <2>2. tasks' \in TaskLists /\ faults' \in Nat /\ lost' \subseteq Tasks
    BY <2>1, GivenToTasks, StatusTypes DEF CollectMoves
  <2>3. collected' \subseteq Agents
        /\ taskMap' \in [Agents -> Tasks \cup {NoTask}]
    BY <2>1, Typed DEF CollectMoves
  <2> QED BY <1>1, <1>2, <2>1, <2>2, <2>3, Split, Typed, TypesTogether
<1>3. CASE idleQ # <<>> /\ idleQ' = Tail(idleQ) /\ UNCHANGED <<lead, collected, taskMap, tasks, faults, lost>>
  <2>1. idleQ' \in Seq(Agents)
    BY <1>3, Typed
  <2> QED BY <1>1, <1>3, <2>1, Split, Typed, TypesTogether
<1>4. CASE lead' = "synthesis" /\ UNCHANGED <<idleQ, collected, taskMap, tasks, faults, lost>>
  BY <1>1, <1>4, Split, Typed, TypesTogether
<1> QED BY <1>2, <1>3, <1>4 DEF Drain

LEMMA SynthesizeTypes ==
    ASSUME TypeInv, Synthesize
    PROVE  /\ TypeInv'
           /\ ((\E S \in SUBSET Tasks : StatusMoves(S, "completed"))
              \/ (Fails /\ UNCHANGED <<tasks, lost>>))
<1>1. ((\E S \in SUBSET Tasks : StatusMoves(S, "completed"))
              \/ (Fails /\ UNCHANGED <<tasks, lost>>))
  <2>1. Unfinished(tasks) \in SUBSET Tasks
    BY DEF Unfinished
  <2> QED BY <2>1, StatusSet DEF Synthesize
<1>2. tasks' \in TaskLists /\ faults' \in Nat /\ lost' \subseteq Tasks
  BY <1>1, StatusTypes, FaultCounted, Split, Typed
<1>4. actions' \in 0..MaxActions
  BY Bounds DEF Synthesize
<1>5. TypeInv'
  BY <1>2, <1>4, EmptyListIs, Split, Typed, TypesTogether DEF Synthesize, signals, choices
<1> QED BY <1>1, <1>5

(* The steps that only look, wait or decide.                               *)
LEMMA QuietTypes ==
    ASSUME TypeInv, NoSwarm \/ OnCheckpoint \/ AfterEvent \/ ActDone \/ EndOfActions
    PROVE  TypeInv'
<1>1. CASE NoSwarm
  BY <1>1, Split, Typed, TypesTogether DEF NoSwarm, signals, bounds, choices
<1>2. CASE OnCheckpoint
  <2>1. ForwardMoves
    BY <1>2, Forwarded DEF OnCheckpoint
  <2>2. inbox' \in [Agents -> Inboxes] /\ sent' \in [Agents -> Nat]
    BY <2>1 DEF ForwardMoves
  <2> QED BY <1>2, <2>2, Split, Typed, TypesTogether
          DEF OnCheckpoint, bounds, leadVars, choices
<1>3. CASE AfterEvent
  <2>1. /\ lead' \in {"synthesis", "wait", "act"} /\ copy' \in {copy, tasks, EmptyList}
        /\ faults' \in Nat /\ actions' \in 0..MaxActions
    BY <1>3, FaultCounted, Split, Bounds DEF AfterEvent, Ask
  <2> QED BY <1>3, <2>1, EmptyListIs, Split, Typed, TypesTogether
          DEF AfterEvent, signals, choices
<1>4. CASE ActDone
  <2>1. inbox' \in [Agents -> Inboxes]
    BY <1>4, Stopped DEF ActDone, StopMoves
  <2> QED BY <1>4, <2>1, ActionCounted, Split, Typed, TypesTogether DEF ActDone, leadVars, bounds
<1>5. CASE EndOfActions
  <2>1. actions' \in 0..MaxActions
    BY <1>5, Bounds DEF EndOfActions
  <2> QED BY <1>5, <2>1, EmptyListIs, Split, Typed, TypesTogether
          DEF EndOfActions, signals, bounds
<1> QED BY <1>1, <1>2, <1>3, <1>4, <1>5

-----------------------------------------------------------------------------
(* Part 4.  Who is spawned, what the lead knows of the agents, and whom it *)
(* has given a task: Shape.                                                *)

Shape == TypeInv /\ Enrolled /\ Phases /\ Mapped

LEMMA InEmpty == \A x : ~In(x, <<>>)
BY DEF In

LEMMA InAppend ==
    ASSUME NEW S, NEW s \in Seq(S), NEW y \in S, NEW x
    PROVE  In(x, Append(s, y)) <=> In(x, s) \/ x = y
<1>1. /\ Append(s, y) \in Seq(S) /\ Len(Append(s, y)) = Len(s) + 1 /\ Len(s) \in Nat
      /\ Append(s, y)[Len(s) + 1] = y
      /\ \A i \in 1..Len(s) : Append(s, y)[i] = s[i]
  OBVIOUS
<1>2. \A i \in 1..(Len(s) + 1) : i \in 1..Len(s) \/ i = Len(s) + 1
  BY <1>1
<1>3. Len(s) + 1 \in 1..(Len(s) + 1) /\ \A i \in 1..Len(s) : i \in 1..(Len(s) + 1)
  BY <1>1
<1> QED BY <1>1, <1>2, <1>3 DEF In

LEMMA InTail ==
    ASSUME NEW S, NEW s \in Seq(S), s # <<>>, NEW x
    PROVE  (In(x, Tail(s)) => In(x, s)) /\ In(Head(s), s)
<1>1. /\ Len(s) \in Nat \ {0} /\ Len(Tail(s)) = Len(s) - 1
      /\ \A i \in 1..Len(Tail(s)) : Tail(s)[i] = s[i + 1]
      /\ Head(s) = s[1]
  OBVIOUS
<1>2. \A i \in 1..Len(Tail(s)) : i + 1 \in 1..Len(s)
  BY <1>1
<1>3. 1 \in 1..Len(s)
  BY <1>1
<1> QED BY <1>1, <1>2, <1>3 DEF In

(* Who moves was spawned; only it joins the queue, and rests then.         *)
LEMMA AgentQueue ==
    ASSUME Shape, NEW a \in Agents, AgentStep(a)
    PROVE  /\ a \in Spawned
           /\ \A b \in Agents \ {a} : Queued(b)' <=> Queued(b)
           /\ Queued(a) => Queued(a)'
           /\ Queued(a)' => Queued(a) \/ Rests(a)
<1>1. idleQ' = idleQ \/ (Rests(a) /\ idleQ' = Append(idleQ, a))
  BY DEF AgentStep, AgentMoves, Ends, Works, Rests, Takes, Wakes
<1>2. idleQ \in Seq(Agents)
  BY Typed DEF Shape
<1>3. a \in Spawned
  BY NoLoopFields DEF Shape, Enrolled, Fresh, AgentStep, AgentMoves, Alive, AtWork
<1>4. \A b \in Agents : In(b, Append(idleQ, a)) <=> In(b, idleQ) \/ b = a
  BY <1>2, InAppend
<1> QED BY <1>1, <1>3, <1>4 DEF Queued

LEMMA AgentShape ==
    ASSUME Shape, NEW a \in Agents, AgentStep(a)
    PROVE  Shape'
<1> USE DEF Shape
<1>1. TypeInv'
  BY AgentTypes
<1>2. /\ UNCHANGED <<lead, copy, agentStates, taskMap, collected, handed>>
      /\ \A b \in Agents \ {a} : loop'[b] = loop[b] /\ inbox'[b] = inbox[b]
      /\ Alive(a) /\ (Ends(a) \/ Works(a) \/ Rests(a) \/ Takes(a) \/ Wakes(a))
  BY DEF AgentStep, AgentMoves, leadOnly, leadVars, choices
<1>3. /\ a \in Spawned /\ (\A b \in Agents \ {a} : Queued(b)' <=> Queued(b))
      /\ Queued(a)' => Queued(a) \/ Rests(a)
  BY AgentQueue
<1>4. Spawned' = Spawned
  BY <1>2 DEF Spawned
<1>5. Enrolled'
  <2>1. \A b \in Agents \ Spawned : Fresh(b)'
    BY <1>2, <1>3 DEF Enrolled, Fresh
  <2> QED BY <1>4, <2>1 DEF Enrolled
<1>6. Phases'
  <2>1. ASSUME NEW b \in Agents, Beginning(b) PROVE Beginning(b)'
    <3>1. CASE b # a
      BY <1>2, <1>3, <2>1, <3>1 DEF Beginning, AtWork
    <3>2. CASE b = a
      <4>1. Ends(a) \/ Works(a) \/ Rests(a)
        BY <1>2, <2>1, <3>2 DEF Beginning, Takes, Wakes
      <4>2. inbox'[a].tasks = <<>> /\ inbox'[a].peer = 0
        BY <2>1, <3>2, <4>1, NoLoopFields DEF Beginning, Ends, Works, Rests
      <4>3. Queued(a)' => ~AtWork(a)'
        BY <1>3, <2>1, <3>2, <4>1 DEF Beginning, Ends, Works, Rests, AtWork
      <4> QED BY <1>2, <2>1, <3>2, <4>2, <4>3 DEF Beginning
    <3> QED BY <3>1, <3>2
  <2> QED BY <1>2, <1>4, <2>1 DEF Phases, Deciding
<1>7. Mapped'
  <2>1. \A b \in collected : loop[b].at = "closed" => b # a
    BY <1>2 DEF Alive, AtWork
  <2> QED BY <1>2, <1>3, <2>1, Typed DEF Mapped, Idle
<1> QED BY <1>1, <1>5, <1>6, <1>7

-----------------------------------------------------------------------------

LEMMA NoSwarmShape ==
    ASSUME Shape, NoSwarm
    PROVE  Shape'
<1> USE DEF Shape
<1>1. TypeInv'
  BY QuietTypes
<1>2. lead = "plan" /\ lead' = "done"
      /\ UNCHANGED <<copy, agentStates, taskMap, collected, idleQ, inbox, loop, handed>>
  BY DEF NoSwarm, signals, choices
<1> QED BY <1>1, <1>2 DEF Enrolled, Spawned, Fresh, Queued, Phases, Deciding, Mapped, Idle

(* The lead moves on, and nothing changes but its list.                    *)
LEMMA LeadShape ==
    ASSUME Shape, TypeInv',
           UNCHANGED <<agentStates, taskMap, collected, idleQ, loop>>,
           \A a \in Agents : /\ inbox'[a].tasks = inbox[a].tasks
                             /\ inbox'[a].stop => inbox[a].stop \/ Alive(a),
           lead' \notin {"plan", "spawn"}, lead' = "act" \/ handed' = {},
           lead' \in {"wait", "event", "checkpoint"} => copy' = EmptyList,
           lead' \in {"synthesis", "done", "drain"} \/ lead \notin {"synthesis", "done", "drain"},
           lead' \in {"synthesis", "done"} \/ lead \notin {"synthesis", "done"}
    PROVE  Shape'
<1> USE DEF Shape
<1>1. Spawned' = Spawned /\ Idle' = Idle
  BY DEF Spawned, Idle
<1>2. Enrolled'
  <2>1. \A a \in Agents \ Spawned : Fresh(a)'
    BY NoLoopFields DEF Enrolled, Fresh, Queued, Alive, AtWork
  <2> QED BY <1>1, <2>1 DEF Enrolled
<1>3. Mapped'
  BY <1>1 DEF Mapped, Queued
<1> QED BY <1>2, <1>3 DEF Phases, Deciding

LEMMA PlanShape ==
    ASSUME Shape, Plan
    PROVE  Shape'
<1> USE DEF Shape
<1>1. TypeInv'
  BY PlanTypes
<1>2. lead = "plan" /\ lead' = "spawn"
      /\ UNCHANGED <<agentStates, taskMap, collected, idleQ, inbox, loop>>
  BY DEF Plan, signals
<1>3. Mapped'
  BY <1>2 DEF Mapped, Idle, Queued
<1>4. Enrolled'
  BY <1>2 DEF Enrolled, Spawned, Fresh, Queued
<1>5. Phases'
  BY <1>2 DEF Phases, Deciding, Beginning, Queued, AtWork
<1> QED BY <1>1, <1>3, <1>4, <1>5

LEMMA SpawnShape ==
    ASSUME Shape, NEW a \in Agents, NEW t \in Tasks \cup {NoTask}, SpawnMoves(a, t), TypeInv',
           UNCHANGED <<lead, copy, collected, idleQ, inbox>>, lead \in {"spawn", "act"}
    PROVE  Shape'
<1> USE DEF Shape
<1>1. Fresh(a)
  BY DEF SpawnMoves, Enrolled
<1>2. /\ agentStates'[a] = "running" /\ taskMap'[a] = t
      /\ \A b \in Agents \ {a} : /\ agentStates'[b] = agentStates[b] /\ taskMap'[b] = taskMap[b]
                                 /\ loop'[b] = loop[b]
  BY Typed DEF SpawnMoves
<1>3. Spawned' = Spawned \cup {a}
  BY <1>2 DEF Spawned
<1>4. Enrolled'
  <2>1. \A b \in Agents \ (Spawned \cup {a}) : Fresh(b)'
    BY <1>2 DEF Enrolled, Fresh, Queued
  <2> QED BY <1>3, <2>1 DEF Enrolled, SpawnMoves
<1>5. Phases'
  <2>1. \A b \in Agents : Beginning(b) => Beginning(b)'
    BY <1>1, <1>2 DEF Beginning, Fresh, Queued, AtWork
  <2> QED BY <2>1 DEF Phases, Deciding
<1>6. Mapped'
  <2>2. \A b \in Idle' : taskMap'[b] = NoTask
    BY <1>2 DEF Mapped, Idle
  <2>3. collected' = collected /\ a \notin collected
    BY <1>1 DEF Fresh
  <2> QED BY <1>2, <2>2, <2>3, Typed DEF Mapped, Queued
<1> QED BY <1>4, <1>5, <1>6

LEMMA AutoLinkShape ==
    ASSUME Shape, AutoLink
    PROVE  Shape'
<1> USE DEF Shape
<1>1. TypeInv'
  BY AutoLinkTypes
<1>2. /\ lead = "spawn" /\ copy' = EmptyList /\ lead' \in {"done", "wait"}
      /\ handed' = {} /\ UNCHANGED <<agentStates, collected, idleQ, inbox>>
  BY DEF AutoLink, signals
<1>3. CASE Pair /\ Cardinality(Unlinked) = Cardinality(Orphaned)
  <2>1. PICK p : PairMoves(p)
    BY <1>3, Paired
  <2>2. \A a \in Agents : /\ taskMap'[a] = IF a \in Unlinked THEN p[a] ELSE taskMap[a]
                          /\ ~(a \in Unlinked /\ AtWork(a)) => loop'[a] = loop[a]
    BY <2>1 DEF PairMoves
  <2>3. Spawned' = Spawned
    BY <1>2 DEF Spawned
  <2>4. \A a \in Agents : Beginning(a)
    BY <1>2 DEF Phases
  <2>5. Enrolled'
    <3>1. \A a \in Agents \ Spawned : Fresh(a)'
      BY <1>2, <2>2 DEF Enrolled, Fresh, Queued, Unlinked
    <3> QED BY <2>3, <3>1 DEF Enrolled
  <2>7. Mapped'
    BY <1>2, <2>4, Typed DEF Mapped, Beginning, Idle
  <2>8. Phases'
    BY <1>2 DEF Phases, Deciding
  <2> QED BY <1>1, <2>5, <2>7, <2>8
<1>4. CASE UNCHANGED <<taskMap, loop, tasks, faults, lost>>
  BY <1>1, <1>2, <1>4, LeadShape
<1> QED BY <1>3, <1>4 DEF AutoLink

LEMMA OnIdleShape ==
    ASSUME Shape, OnIdle
    PROVE  Shape'
<1> USE DEF Shape
<1>1. TypeInv' /\ ForwardMoves
  BY OnIdleTypes
<1>2. PICK S : S = {idleQ[i] : i \in 1..Len(idleQ)}
  OBVIOUS
<1>3. S \in SUBSET Agents /\ \A a \in Agents : a \in S <=> Queued(a)
  BY <1>2, IdleQTyped
<1>4. /\ agentStates' = [a \in Agents |-> IF a \in S THEN "idle" ELSE agentStates[a]]
      /\ taskMap' = [a \in Agents |-> IF a \in S THEN NoTask ELSE taskMap[a]]
      /\ idleQ' = <<>> /\ lead = "wait" /\ lead' = "event"
      /\ UNCHANGED <<actions, copy, collected, loop, messages, handed>>
  BY <1>2 DEF OnIdle, choices
<1>5. \A a \in Agents : ~Queued(a)'
  BY <1>4, InEmpty DEF Queued
<1>6. Spawned' = Spawned
  BY <1>3, <1>4 DEF Spawned, Enrolled, Fresh
<1>7. Enrolled'
  <2>1. \A a \in Agents \ Spawned : Fresh(a)'
    BY <1>1, <1>3, <1>4, <1>5 DEF Enrolled, Fresh, ForwardMoves
  <2> QED BY <1>6, <2>1 DEF Enrolled
<1>8. Phases'
  BY <1>4 DEF Phases, Deciding
<1>9. Mapped'
  BY <1>3, <1>4, <1>5, Typed DEF Mapped, Idle
<1> QED BY <1>1, <1>7, <1>8, <1>9

LEMMA OnCompletionShape ==
    ASSUME Shape, NEW a \in Agents, OnCompletion(a)
    PROVE  Shape'
<1> USE DEF Shape
<1>1. TypeInv' /\ ForwardMoves /\ CollectMoves(a)
  BY OnCompletionTypes
<1>2. /\ lead = "wait" /\ lead' = "event" /\ idleQ = <<>>
      /\ agentStates' = [agentStates EXCEPT ![a] = "completed"]
      /\ UNCHANGED <<copy, handed, idleQ, loop>>
  BY DEF OnCompletion, choices
<1>3. /\ agentStates'[a] = "completed" /\ taskMap'[a] = NoTask
      /\ \A b \in Agents \ {a} : agentStates'[b] = agentStates[b] /\ taskMap'[b] = taskMap[b]
      /\ collected' = collected \cup {a}
  BY <1>1, <1>2, Typed DEF CollectMoves
<1>4. \A b \in Agents : ~Queued(b) /\ ~Queued(b)'
  BY <1>2, InEmpty DEF Queued
<1>5. loop[a].at = "closed" /\ a \in Spawned
  BY <1>1, NoLoopFields DEF CollectMoves, Enrolled, Fresh
<1>6. Spawned' = Spawned
  BY <1>3, <1>5 DEF Spawned
<1>7. Enrolled'
  <2>1. \A b \in Agents \ Spawned : Fresh(b)'
    BY <1>1, <1>2, <1>3, <1>4, <1>5 DEF Enrolled, Fresh, ForwardMoves
  <2> QED BY <1>6, <2>1 DEF Enrolled
<1>8. Phases'
  BY <1>2 DEF Phases, Deciding
<1>9. Mapped'
  BY <1>2, <1>3, <1>4, <1>5, Typed DEF Mapped, Idle
<1> QED BY <1>1, <1>7, <1>8, <1>9

LEMMA CheckpointShape ==
    ASSUME Shape, Checkpoint
    PROVE  Shape'
<1> USE DEF Shape
<1>1. TypeInv' /\ (StopMoves \/ inbox' = inbox)
  BY CheckpointTypes
<1>2. /\ lead = "checkpoint" /\ lead' \in {"wait", "event", "synthesis"}
      /\ UNCHANGED <<copy, agentStates, taskMap, collected, idleQ, loop, handed>>
  BY DEF Checkpoint, WrapUp, choices
<1>3. \A a \in Agents : /\ inbox'[a].tasks = inbox[a].tasks
                        /\ inbox'[a].stop => inbox[a].stop \/ Alive(a)
  BY <1>1 DEF StopMoves
<1> QED BY <1>1, <1>2, <1>3, LeadShape DEF Phases, Deciding

LEMMA AssignShape ==
    ASSUME Shape, NEW a \in Agents, NEW t \in Tasks, ActAssign(a, t), a \in Idle
    PROVE  Shape'
<1> USE DEF Shape
<1>1. t \in Tasks \cup {NoTask} /\ t # NoTask
  BY Bounds
<1>2. TypeInv'
  BY <1>1, AssignTypes
<1>3. \A b \in Agents \ {a} : inbox'[b] = inbox[b]
  BY <1>1, AssignTypes
<1>4. inbox'[a].stop = inbox[a].stop
  BY <1>1, AssignTypes
<1>5. /\ lead = "act" /\ UNCHANGED <<lead, copy, collected, idleQ, loop>>
      /\ taskMap' = [taskMap EXCEPT ![a] = t]
      /\ agentStates' = [agentStates EXCEPT ![a] = "running"] /\ a \in Spawned
  BY <1>1 DEF ActAssign, Act
<1>6. /\ agentStates'[a] = "running" /\ taskMap'[a] = t
      /\ \A b \in Agents \ {a} : agentStates'[b] = agentStates[b] /\ taskMap'[b] = taskMap[b]
  BY <1>5, Typed
<1>7. Spawned' = Spawned
  BY <1>5, <1>6 DEF Spawned
<1>8. Enrolled'
  <2>1. \A b \in Agents \ Spawned : Fresh(b)'
    BY <1>3, <1>5, <1>6 DEF Enrolled, Fresh, Queued
  <2> QED BY <1>7, <2>1 DEF Enrolled
<1>9. Phases'
  BY <1>5 DEF Phases, Deciding
<1>10. Mapped'
  <2>2. \A b \in Idle' : taskMap'[b] = NoTask
    BY <1>6 DEF Mapped, Idle
  <2>3. a \notin collected
    BY <1>5 DEF Mapped, Idle
  <2> QED BY <1>5, <1>6, <2>2, <2>3 DEF Mapped, Queued
<1> QED BY <1>2, <1>8, <1>9, <1>10

LEMMA ActShutdownShape ==
    ASSUME Shape, NEW a \in Agents, ActShutdown(a)
    PROVE  Shape'
<1> USE DEF Shape
<1>1. TypeInv' /\ ShutdownMoves(a)
  BY ActShutdownTypes
<1>2. /\ lead = "act" /\ UNCHANGED <<lead, collected, idleQ, loop, handed>> /\ a \in Spawned
  BY DEF ActShutdown, Act, choices
<1>3. /\ agentStates'[a] = "completed" /\ taskMap'[a] = NoTask
      /\ \A b \in Agents \ {a} : agentStates'[b] = agentStates[b] /\ taskMap'[b] = taskMap[b]
      /\ \A b \in Agents \ {a} : inbox'[b] = inbox[b]
  BY <1>1, Typed DEF ShutdownMoves
<1>4. Spawned' = Spawned
  BY <1>2, <1>3 DEF Spawned
<1>5. Enrolled'
  <2>1. \A b \in Agents \ Spawned : Fresh(b)'
    BY <1>2, <1>3 DEF Enrolled, Fresh, Queued
  <2> QED BY <1>4, <2>1 DEF Enrolled
<1>6. Phases'
  BY <1>2 DEF Phases, Deciding
<1>7. Mapped'
  BY <1>2, <1>3, Typed DEF Mapped, Idle, Queued
<1> QED BY <1>1, <1>5, <1>6, <1>7

LEMMA DrainShape ==
    ASSUME Shape, Drain
    PROVE  Shape'
<1> USE DEF Shape
<1>1. TypeInv'
  BY DrainTypes
<1>2. lead = "drain" /\ UNCHANGED <<copy, agentStates, inbox, loop, handed>> /\ handed = {}
  BY DEF Drain, choices, Phases, Deciding
<1>3. CASE (\E a \in Agents : CollectMoves(a)) /\ UNCHANGED <<lead, idleQ>>
  <2>1. PICK a \in Agents : CollectMoves(a)
    BY <1>3
  <2>2. /\ taskMap'[a] = NoTask /\ collected' = collected \cup {a}
        /\ \A b \in Agents \ {a} : taskMap'[b] = taskMap[b]
    BY <2>1, Typed DEF CollectMoves
  <2>3. a \in Spawned
    BY <2>1, NoLoopFields DEF CollectMoves, Enrolled, Fresh
  <2>4. Spawned' = Spawned /\ Idle' = Idle
    BY <1>2 DEF Spawned, Idle
  <2>5. Enrolled'
    <3>1. \A b \in Agents \ Spawned : Fresh(b)'
      BY <1>2, <1>3, <2>2, <2>3 DEF Enrolled, Fresh, Queued
    <3> QED BY <2>4, <3>1 DEF Enrolled
  <2>6. Mapped'
    <3>1. \A b \in collected : b \in Agents /\ taskMap[b] = NoTask
      BY <1>2, Typed DEF Mapped
    <3>2. \A b \in collected' : taskMap'[b] = NoTask
      BY <2>2, <3>1
    <3>3. \A b \in Idle' : taskMap'[b] = NoTask
      BY <2>2, <2>4 DEF Mapped, Idle
    <3> QED BY <1>2, <1>3, <3>2, <3>3 DEF Mapped
  <2> QED BY <1>1, <1>2, <1>3, <2>5, <2>6 DEF Phases, Deciding
<1>4. CASE /\ idleQ # <<>> /\ idleQ' = Tail(idleQ)
           /\ UNCHANGED <<lead, collected, taskMap, tasks, faults, lost>>
  <2>1. \A b \in Agents : Queued(b)' => Queued(b)
    BY <1>4, Typed, InTail DEF Queued
  <2>2. Spawned' = Spawned /\ Idle' = Idle
    BY <1>2, <1>4 DEF Spawned, Idle
  <2>3. Enrolled'
    <3>1. \A b \in Agents \ Spawned : Fresh(b)'
      BY <1>2, <1>4, <2>1 DEF Enrolled, Fresh
    <3> QED BY <2>2, <3>1 DEF Enrolled
  <2>4. Mapped'
    BY <1>2, <1>4, <2>1, <2>2 DEF Mapped
  <2> QED BY <1>1, <1>2, <1>4, <2>3, <2>4 DEF Phases, Deciding
<1>5. CASE lead' = "synthesis" /\ UNCHANGED <<idleQ, collected, taskMap, tasks, faults, lost>>
  BY <1>1, <1>2, <1>5, LeadShape
<1> QED BY <1>3, <1>4, <1>5, DrainTypes

LEMMA MoveOnShape ==
    ASSUME Shape,
           \/ OnCheckpoint \/ AfterEvent \/ ActMessage \/ ActRevisePlan \/ ActDone
           \/ EndOfActions \/ Synthesize
    PROVE  Shape'
<1> USE DEF Shape
<1>1. CASE OnCheckpoint
  <2>1. ForwardMoves
    BY <1>1, Forwarded DEF OnCheckpoint
  <2>2. lead = "wait" /\ lead' = "checkpoint"
    BY <1>1 DEF OnCheckpoint, Quiet
  <2>3. \A a \in Agents : /\ inbox'[a].tasks = inbox[a].tasks
                          /\ inbox'[a].stop => inbox[a].stop \/ Alive(a)
    BY <2>1 DEF ForwardMoves
  <2>4. TypeInv'
    BY <1>1, QuietTypes
  <2>5. UNCHANGED <<copy, agentStates, taskMap, collected, idleQ, loop, handed>>
    BY <1>1 DEF OnCheckpoint, leadVars, choices
  <2> QED BY <2>2, <2>3, <2>4, <2>5, LeadShape DEF Phases, Deciding
<1>2. CASE AfterEvent
  <2>1. /\ lead = "event" /\ lead' \in {"synthesis", "wait", "act"}
        /\ lead' = "wait" => copy' = copy
        /\ UNCHANGED <<agentStates, taskMap, collected, idleQ, inbox, loop, handed>>
    BY <1>2 DEF AfterEvent, Ask, signals, choices
  <2>2. TypeInv'
    BY <1>2, QuietTypes
  <2> QED BY <2>1, <2>2, LeadShape DEF Phases, Deciding
<1>3. CASE ActMessage
  <2>1. lead = "act" /\ UNCHANGED <<lead, copy, agentStates, taskMap, collected, idleQ, loop>>
    BY <1>3 DEF ActMessage, Act, leadVars
  <2> QED BY <1>3, <2>1, MessageTypes, LeadShape
<1>4. CASE ActRevisePlan
  <2>1. lead = "act" /\ UNCHANGED <<lead, copy, agentStates, taskMap, collected, idleQ, inbox,
                                    loop>>
    BY <1>4 DEF ActRevisePlan, Act, leadVars, signals
  <2> QED BY <1>4, <2>1, ReviseTypes, LeadShape
<1>5. CASE ActDone
  <2>1. lead = "act" /\ lead' = "drain" /\ handed' = {}
        /\ UNCHANGED <<copy, agentStates, taskMap, collected, idleQ, loop>>
    BY <1>5 DEF ActDone, Act, leadVars
  <2>2. StopMoves
    BY <1>5, Stopped DEF ActDone
  <2>3. \A a \in Agents : /\ inbox'[a].tasks = inbox[a].tasks
                          /\ inbox'[a].stop => inbox[a].stop \/ Alive(a)
    BY <2>2 DEF StopMoves
  <2>4. TypeInv'
    BY <1>5, QuietTypes
  <2> QED BY <2>1, <2>3, <2>4, LeadShape
<1>6. CASE EndOfActions
  <2>1. lead = "act" /\ lead' \in {"wait", "synthesis"} /\ copy' = EmptyList /\ handed' = {}
        /\ UNCHANGED <<agentStates, taskMap, collected, idleQ, inbox, loop>>
    BY <1>6 DEF EndOfActions, signals
  <2>2. TypeInv'
    BY <1>6, QuietTypes
  <2> QED BY <2>1, <2>2, LeadShape
<1>7. CASE Synthesize
  <2>1. lead' = "done" /\ handed' = {}
        /\ UNCHANGED <<agentStates, taskMap, collected, idleQ, inbox, loop>>
    BY <1>7 DEF Synthesize, signals, choices, Phases, Deciding
  <2> QED BY <1>7, <2>1, SynthesizeTypes, LeadShape
<1> QED BY <1>1, <1>2, <1>3, <1>4, <1>5, <1>6, <1>7

-----------------------------------------------------------------------------
(* Part 5.  Who holds a task, and what the lists say of it, in the three   *)
(* kinds of steps: those that give nothing out, those that settle what     *)
(* agents were given, and those that give tasks out.                       *)

Held == Marked /\ Unheld /\ Sole

LEMMA ListTypes ==
    ASSUME TypeInv
    PROVE  /\ \A t \in Tasks : tasks[t] \in Status /\ copy[t] \in Status /\ t # NoTask
           /\ \A t \in Tasks : EmptyList[t] = "absent"
BY Typed, Bounds DEF EmptyList

(* The holders of the next state, where a step gives nothing out.          *)
HoldsLess == \A t \in Tasks : \A a \in Agents : HeldBy(a, t)' => HeldBy(a, t)

LEMMA HoldsKept ==
    ASSUME loop' = loop,
           \A a \in Agents : /\ inbox'[a].tasks = inbox[a].tasks
                             /\ inbox[a].stop => inbox'[a].stop
    PROVE  HoldsLess
BY DEF HoldsLess, HeldBy, Alive, AtWork

LEMMA HoldsIs ==
    ASSUME TypeInv, NEW a \in Agents, NEW t \in Tasks
    PROVE  Holds(a, t) <=> HeldBy(a, t)
<1>1. InLimits(loop[a]) /\ t # NoTask
  BY Bounds DEF TypeInv
<1> QED BY <1>1 DEF Holds, HeldBy, In, InLimits, Alive, AtWork

(* Nothing is given out; what becomes completed is pending, or counts as   *)
(* cancelled, unless the swarm is over.                                    *)
LEMMA HeldKept ==
    ASSUME TypeInv, Held, HoldsLess, taskMap' = taskMap,
           messages' \in Nat, messages' >= messages,
           lost \subseteq lost', cancelled \subseteq cancelled',
           \A t \in Tasks : \/ tasks'[t] = tasks[t]
                            \/ tasks[t] = "absent" /\ tasks'[t] = "pending"
                            \/ tasks[t] = "pending" /\ tasks'[t] = "completed"
                            \/ tasks[t] = "in_progress" /\ tasks'[t] = "completed"
                               /\ (t \in cancelled' \/ lead' = "done"),
           \/ copy' = copy /\ handed' = handed /\ (Deciding' => Deciding)
           \/ copy' \in {copy, EmptyList} /\ handed' = {} /\ ~Deciding'
           \/ copy' \in {tasks, EmptyList} /\ handed' = {} /\ tasks' = tasks,
           lead = "done" => lead' = "done"
    PROVE  Held'
<1>1. \A t \in Tasks : /\ tasks[t] \in Status /\ copy[t] \in Status /\ t # NoTask
                       /\ EmptyList[t] = "absent"
  BY ListTypes
<1>2. \A t \in Tasks : \A a \in Agents : Has(a, t)' => Has(a, t)
  BY DEF HoldsLess, Has
<1>3. Marked'
  <2> SUFFICES ASSUME NEW t \in Tasks \ lost'
               PROVE  /\ copy'[t] # "absent" => tasks'[t] # "absent"
                      /\ \A a \in Agents : HeldBy(a, t)' => tasks'[t] \in {"in_progress", "completed"}
    BY DEF Marked
  <2>1. /\ copy[t] # "absent" => tasks[t] # "absent"
        /\ \A a \in Agents : HeldBy(a, t) => tasks[t] \in {"in_progress", "completed"}
    BY DEF Held, Marked
  <2>2. copy'[t] # "absent" => tasks[t] # "absent"
    BY <1>1, <2>1
  <2> QED BY <2>1, <2>2 DEF HoldsLess
<1>4. Unheld'
  <2> SUFFICES ASSUME Deciding', NEW t \in Tasks, copy'[t] = "pending"
               PROVE  /\ t \notin lost' \cup handed' => \A a \in Agents : ~HeldBy(a, t)'
                      /\ t \in handed' => t \in Given'
    BY DEF Unheld
  <2>1. CASE copy' = copy /\ handed' = handed /\ Deciding
    BY <2>1 DEF Held, Unheld, HoldsLess, Given
  <2>2. CASE copy' \in {tasks, EmptyList} /\ handed' = {}
    <3>1. tasks[t] = "pending"
      BY <1>1, <2>2
    <3> QED BY <2>2, <3>1 DEF Held, Marked, HoldsLess
  <2> QED BY <2>1, <2>2
<1>5. Sole'
  <2> SUFFICES ASSUME messages' = 0, NEW t \in Tasks \ (lost' \cup cancelled'),
                      NEW a \in Agents, Has(a, t)'
               PROVE  /\ \A b \in Agents : Has(b, t)' => a = b
                      /\ lead' # "done" => tasks'[t] = "in_progress"
                      /\ Deciding' /\ t \notin handed' => t \notin Shown'
    BY DEF Sole
  <2>1. messages = 0
    BY Typed
  <2>2. /\ \A b \in Agents : Has(b, t) => a = b
        /\ lead # "done" => tasks[t] = "in_progress"
        /\ Deciding /\ t \notin handed => t \notin Shown
    BY <1>2, <2>1 DEF Held, Sole
  <2>3. lead' # "done" => tasks'[t] = "in_progress"
    BY <2>2
  <2>4. ASSUME Deciding', t \notin handed' PROVE t \notin Shown'
    <3>1. lead' # "done"
      BY <2>4 DEF Deciding
    <3>2. CASE copy' = copy /\ handed' = handed /\ Deciding
      BY <2>2, <2>4, <3>2 DEF Shown
    <3>3. CASE copy' \in {tasks, EmptyList} /\ tasks' = tasks
      BY <1>1, <2>3, <3>1, <3>3 DEF Shown
    <3> QED BY <2>4, <3>2, <3>3
  <2> QED BY <1>2, <2>2, <2>3, <2>4
<1> QED BY <1>3, <1>4, <1>5 DEF Held

(* What the agents of S were given is settled, and they do not hold it.    *)
LEMMA HeldSettled ==
    ASSUME TypeInv, Held, NEW S \in SUBSET Agents, HoldsLess,
           StatusMoves(GivenTo(S), "completed"),
           \A a \in Agents : taskMap'[a] = IF a \in S THEN NoTask ELSE taskMap[a],
           messages' = 0 => \A a \in S : \A t \in Tasks : ~HeldBy(a, t)',
           UNCHANGED <<messages, cancelled, handed>>,
           lead # "done", Deciding' => Deciding,
           \A t \in Tasks : copy'[t] = copy[t] \/ (/\ t \in GivenTo(S) /\ copy[t] # "absent"
                                                   /\ copy'[t] = "completed"),
           Deciding' => \A t \in GivenTo(S) : copy'[t] # "pending"
    PROVE  Held'
<1>1. \A t \in Tasks : t # NoTask /\ tasks[t] \in Status
  BY ListTypes
<1>2. /\ lost' = lost
      /\ \A t \in Tasks \ GivenTo(S) : tasks'[t] = tasks[t]
      /\ \A t \in Tasks : tasks'[t] = tasks[t] \/ (tasks[t] # "absent" /\ tasks'[t] = "completed")
  BY DEF StatusMoves
<1>3. Marked'
  BY <1>2 DEF Held, Marked, HoldsLess
<1>4. Unheld'
  <2> SUFFICES ASSUME Deciding', NEW t \in Tasks, copy'[t] = "pending"
               PROVE  /\ t \notin lost' \cup handed' => \A a \in Agents : ~HeldBy(a, t)'
                      /\ t \in handed' => t \in Given'
    BY DEF Unheld
  <2>1. copy[t] = "pending" /\ t \notin GivenTo(S)
    OBVIOUS
  <2>2. /\ t \notin lost \cup handed => \A a \in Agents : ~HeldBy(a, t)
        /\ t \in handed => t \in Given
    BY <2>1 DEF Held, Unheld
  <2>3. t \in Given => t \in Given'
    BY <1>1, <2>1 DEF Given, GivenTo
  <2> QED BY <1>2, <2>2, <2>3 DEF HoldsLess
<1>5. Sole'
  <2> SUFFICES ASSUME messages' = 0, NEW t \in Tasks \ (lost' \cup cancelled'),
                      NEW a \in Agents, Has(a, t)'
               PROVE  /\ \A b \in Agents : Has(b, t)' => a = b
                      /\ lead' # "done" => tasks'[t] = "in_progress"
                      /\ Deciding' /\ t \notin handed' => t \notin Shown'
    BY DEF Sole
  <2>1. \A b \in Agents : Has(b, t)' => Has(b, t) /\ b \notin S
    BY <1>1 DEF Has, HoldsLess
  <2>2. /\ \A b \in Agents : Has(b, t) => a = b
        /\ tasks[t] = "in_progress"
        /\ Deciding /\ t \notin handed => t \notin Shown
    BY <1>2, <2>1 DEF Held, Sole
  <2>3. t \notin GivenTo(S)
    <3>1. \A b \in S : taskMap[b] # t
      BY <2>1, <2>2 DEF Has
    <3> QED BY <3>1 DEF GivenTo
  <2>4. tasks'[t] = tasks[t] /\ copy'[t] = copy[t]
    BY <1>2, <2>3
  <2> QED BY <2>1, <2>2, <2>4 DEF Shown
<1> QED BY <1>3, <1>4, <1>5 DEF Held

(* What a decision may give out.                                           *)
Givable(t) == t \in Shown /\ t \notin handed /\ t \notin Blocked

(* The agents of G are given a task each, n[a], which only they get to     *)
(* hold.                                                                   *)
GiveMoves(G, n) ==
    /\ G \in SUBSET Agents /\ n \in [G -> Tasks]
    /\ \A a \in G : Givable(n[a]) /\ taskMap[a] = NoTask
    /\ \A a, b \in G : n[a] = n[b] => a = b
    /\ \A a \in Agents : taskMap'[a] = IF a \in G THEN n[a] ELSE taskMap[a]
    /\ \A a \in Agents, t \in Tasks : HeldBy(a, t)' => HeldBy(a, t) \/ (a \in G /\ t = n[a])
    /\ StatusMoves({n[a] : a \in G}, "in_progress")
    /\ UNCHANGED <<messages, cancelled>>
    /\ Deciding
    /\ \/ copy' = copy /\ lead' = lead /\ handed' = handed \cup {n[a] : a \in G}
       \/ copy' = EmptyList /\ ~Deciding'

LEMMA HeldGiven ==
    ASSUME TypeInv, Held, NEW G, NEW n, GiveMoves(G, n)
    PROVE  Held'
<1> DEFINE Out == {n[a] : a \in G}
<1>1. \A t \in Tasks : /\ tasks[t] \in Status /\ copy[t] \in Status /\ t # NoTask
                       /\ EmptyList[t] = "absent"
  BY ListTypes
<1>2. /\ G \in SUBSET Agents /\ Out \subseteq Tasks
      /\ \A a \in G : n[a] \in Out /\ Givable(n[a]) /\ taskMap[a] = NoTask
      /\ \A t \in Out : \E a \in G : n[a] = t
      /\ \A a, b \in G : n[a] = n[b] => a = b
      /\ \A a \in Agents : taskMap'[a] = IF a \in G THEN n[a] ELSE taskMap[a]
      /\ \A a \in Agents, t \in Tasks : HeldBy(a, t)' => HeldBy(a, t) \/ (a \in G /\ t = n[a])
  BY DEF GiveMoves
<1>3. /\ Deciding /\ messages' = messages /\ cancelled' = cancelled
      /\ \/ copy' = copy /\ lead' = lead /\ handed' = handed \cup Out
         \/ copy' = EmptyList /\ ~Deciding'
  BY DEF GiveMoves
<1>4. /\ lost \subseteq lost'
      /\ \A t \in Tasks \ Out : tasks'[t] = tasks[t]
      /\ \A t \in Tasks : tasks'[t] = tasks[t] \/ (tasks[t] # "absent" /\ tasks'[t] = "in_progress")
      /\ \A t \in Out : tasks[t] = "absent" \/ tasks'[t] = "in_progress" \/ t \in lost'
  BY DEF GiveMoves, StatusMoves
<1> HIDE DEF Out
(* What is given out is known to the list.                                 *)
<1>5. \A t \in Out : t \notin lost' => tasks'[t] = "in_progress"
  <2> SUFFICES ASSUME NEW t \in Out, t \notin lost' PROVE tasks[t] # "absent"
    BY <1>4
  <2>1. t \in Shown /\ t \notin lost
    BY <1>2, <1>4 DEF Givable
  <2> QED BY <1>2, <2>1 DEF Held, Marked, Shown
<1>6. Marked'
  <2> SUFFICES ASSUME NEW t \in Tasks \ lost'
               PROVE  /\ copy'[t] # "absent" => tasks'[t] # "absent"
                      /\ \A a \in Agents : HeldBy(a, t)' => tasks'[t] \in {"in_progress", "completed"}
    BY DEF Marked
  <2>1. /\ copy[t] # "absent" => tasks[t] # "absent"
        /\ \A a \in Agents : HeldBy(a, t) => tasks[t] \in {"in_progress", "completed"}
    BY <1>4 DEF Held, Marked
  <2>2. copy'[t] # "absent" => copy[t] # "absent"
    BY <1>1, <1>3
  <2>3. CASE t \in Out
    BY <1>5, <2>3
  <2>4. CASE t \notin Out
    <3>1. \A a \in Agents : HeldBy(a, t)' => HeldBy(a, t)
      BY <1>2, <2>4
    <3> QED BY <1>4, <2>1, <2>2, <2>4, <3>1
  <2> QED BY <2>3, <2>4
<1>7. Unheld'
  <2> SUFFICES ASSUME Deciding', NEW t \in Tasks, copy'[t] = "pending"
               PROVE  /\ t \notin lost' \cup handed' => \A a \in Agents : ~HeldBy(a, t)'
                      /\ t \in handed' => t \in Given'
    BY DEF Unheld
  <2>1. copy' = copy /\ handed' = handed \cup Out /\ copy[t] = "pending"
    BY <1>3
  <2>2. /\ t \notin lost \cup handed => \A a \in Agents : ~HeldBy(a, t)
        /\ t \in handed => t \in Given
    BY <1>3, <2>1 DEF Held, Unheld
  <2>3. t \notin lost' \cup handed' => \A a \in Agents : ~HeldBy(a, t)'
    BY <1>2, <1>4, <2>1, <2>2
  <2>4. t \in Given => t \in Given'
    BY <1>1, <1>2 DEF Given
  <2>5. t \in Out => t \in Given'
    BY <1>1, <1>2 DEF Given
  <2> QED BY <2>1, <2>2, <2>3, <2>4, <2>5
<1>8. Sole'
  <2> SUFFICES ASSUME messages' = 0, NEW t \in Tasks \ (lost' \cup cancelled'),
                      NEW a \in Agents, Has(a, t)'
               PROVE  /\ \A b \in Agents : Has(b, t)' => a = b
                      /\ lead' # "done" => tasks'[t] = "in_progress"
                      /\ Deciding' /\ t \notin handed' => t \notin Shown'
    BY DEF Sole
  <2>1. \A b \in Agents : Has(b, t)' => Has(b, t) \/ (b \in G /\ t = n[b])
    BY <1>2 DEF Has
  <2>2. \A b \in Agents : Has(b, t) =>
            /\ \A c \in Agents : Has(c, t) => b = c
            /\ tasks[t] = "in_progress"
            /\ t \notin handed => t \notin Shown
    <3>1. messages = 0 /\ t \in Tasks \ (lost \cup cancelled) /\ lead # "done"
      BY <1>3, <1>4 DEF Deciding
    <3> QED BY <1>3, <3>1 DEF Held, Sole
  <2>3. CASE t \in Out
    <3>1. \A b \in Agents : ~Has(b, t)
      BY <1>2, <2>2, <2>3 DEF Givable
    <3>2. \A b \in Agents : Has(b, t)' => a = b
      BY <1>2, <2>1, <3>1
    <3> QED BY <1>3, <1>5, <2>3, <3>2
  <2>4. CASE t \notin Out
    <3>1. \A b \in Agents : Has(b, t)' => Has(b, t)
      BY <1>2, <2>1, <2>4
    <3>2. tasks'[t] = "in_progress"
      BY <1>4, <2>2, <2>4, <3>1
    <3>3. Deciding' /\ t \notin handed' => t \notin Shown'
      BY <1>3, <2>2, <3>1 DEF Shown
    <3> QED BY <2>2, <3>1, <3>2, <3>3
  <2> QED BY <2>3, <2>4
<1> QED BY <1>6, <1>7, <1>8 DEF Held

-----------------------------------------------------------------------------
(* What is in progress stays tracked, in the same three kinds of steps.    *)

LEMMA TrackedKept ==
    ASSUME TypeInv, Tracked, taskMap' = taskMap, faults' \in Nat, faults' >= faults,
           \A t \in Tasks : tasks'[t] = "in_progress" => tasks[t] = "in_progress",
           lead \in {"synthesis", "done"} => lead' \in {"synthesis", "done"}
    PROVE  Tracked'
<1> SUFFICES ASSUME faults' = 0, lead' \notin {"synthesis", "done"}, NEW t \in Tasks,
                    tasks'[t] = "in_progress"
             PROVE  \E a \in Agents : taskMap'[a] = t
  BY DEF Tracked
<1>1. faults = 0
  BY Typed
<1> QED BY <1>1 DEF Tracked

LEMMA TrackedSettled ==
    ASSUME TypeInv, Tracked, NEW S \in SUBSET Agents, StatusMoves(GivenTo(S), "completed"),
           \A a \in Agents : taskMap'[a] = IF a \in S THEN NoTask ELSE taskMap[a],
           lead \notin {"synthesis", "done"}
    PROVE  Tracked'
<1> SUFFICES ASSUME faults' = 0, NEW t \in Tasks, tasks'[t] = "in_progress"
             PROVE  \E a \in Agents : taskMap'[a] = t
  BY DEF Tracked
<1>1. faults = 0 /\ ~(faults' > faults)
  BY Typed DEF StatusMoves
<1>2. tasks[t] = "in_progress" /\ t \notin GivenTo(S)
  BY <1>1 DEF StatusMoves
<1>3. PICK a \in Agents : taskMap[a] = t
  BY <1>1, <1>2 DEF Tracked
<1>4. a \notin S
  BY <1>2, <1>3, Bounds DEF GivenTo
<1> QED BY <1>3, <1>4

LEMMA TrackedGiven ==
    ASSUME TypeInv, Tracked, NEW G, NEW n, GiveMoves(G, n)
    PROVE  Tracked'
<1> SUFFICES ASSUME faults' = 0, NEW t \in Tasks, tasks'[t] = "in_progress"
             PROVE  \E a \in Agents : taskMap'[a] = t
  BY DEF Tracked
<1>1. faults = 0 /\ lead \notin {"synthesis", "done"}
  BY Typed DEF GiveMoves, StatusMoves, Deciding
<1>2. CASE \E a \in G : t = n[a]
  BY <1>2 DEF GiveMoves
<1>3. CASE ~\E a \in G : t = n[a]
  <2>1. tasks[t] = "in_progress"
    <3>1. t \in Tasks \ {n[a] : a \in G}
      BY <1>3
    <3> QED BY <3>1 DEF GiveMoves, StatusMoves
  <2>2. PICK a \in Agents : taskMap[a] = t
    BY <1>1, <2>1 DEF Tracked
  <2>3. a \notin G
    BY <2>2, Bounds DEF GiveMoves
  <2> QED BY <2>2, <2>3 DEF GiveMoves
<1> QED BY <1>2, <1>3

-----------------------------------------------------------------------------
(* Part 6.  Which kind each step is of.                                    *)

GivesNothing == \A a \in Agents : taskMap'[a] \in {taskMap[a], NoTask}
Gives == \E G, n : GiveMoves(G, n)

LEMMA AgentHolds ==
    ASSUME Shape, NEW a \in Agents, AgentStep(a)
    PROVE  HoldsLess
<1>1. /\ \A b \in Agents \ {a} : loop'[b] = loop[b] /\ inbox'[b] = inbox[b]
      /\ Alive(a) /\ (Ends(a) \/ Works(a) \/ Rests(a) \/ Takes(a) \/ Wakes(a))
  BY DEF AgentStep, AgentMoves
<1>2. \A t \in Tasks : t # NoTask
  BY Bounds
<1>3. inbox[a].tasks \in Seq(Tasks \cup {NoTask})
  BY Typed DEF Shape, Inboxes
<1>4. inbox[a].tasks # <<>> =>
         /\ In(Head(inbox[a].tasks), inbox[a].tasks)
         /\ \A t \in Tasks : In(t, Tail(inbox[a].tasks)) => In(t, inbox[a].tasks)
  BY <1>3, InTail
<1>5. ASSUME NEW t \in Tasks PROVE In(t, inbox'[a].tasks) => In(t, inbox[a].tasks)
  BY <1>1, <1>4, NoLoopFields, InEmpty DEF Ends, Works, Rests, Takes, Wakes
<1>6. ASSUME NEW t \in Tasks, HeldBy(a, t)' PROVE HeldBy(a, t)
  <2>1. /\ Alive(a)' /\ ~inbox'[a].stop
        /\ (AtWork(a)' /\ loop'[a].work = t) \/ In(t, inbox'[a].tasks)
    BY <1>6 DEF HeldBy
  <2>2. ~inbox[a].stop
    BY <1>1, <2>1 DEF Ends, Works, Rests, Takes, Wakes, Alive, AtWork
  <2>3. (AtWork(a) /\ loop[a].work = t) \/ In(t, inbox[a].tasks)
    BY <1>1, <1>2, <1>4, <1>5, <2>1 DEF Ends, Works, Rests, Takes, Wakes, AtWork
  <2> QED BY <1>1, <2>2, <2>3 DEF HeldBy
<1> QED BY <1>1, <1>6 DEF HoldsLess, HeldBy, Alive, AtWork

LEMMA AgentHeld ==
    ASSUME Shape, Held, Tracked, NEW a \in Agents, AgentStep(a)
    PROVE  Held' /\ Tracked' /\ GivesNothing
<1>1. /\ UNCHANGED <<lead, copy, tasks, taskMap, handed, lost, cancelled, faults>>
      /\ messages' \in Nat /\ messages' >= messages
  BY DEF AgentStep, leadOnly, leadVars, choices
<1>2. HoldsLess
  BY AgentHolds
<1>3. TypeInv /\ faults' \in Nat /\ faults' >= faults /\ (Deciding' => Deciding)
  BY <1>1, Typed DEF Shape, Deciding
<1>4. Held'
  BY <1>1, <1>2, <1>3, HeldKept
<1>5. Tracked'
  BY <1>1, <1>3, TrackedKept
<1> QED BY <1>1, <1>4, <1>5 DEF GivesNothing

LEMMA NobodyHolds ==
    ASSUME Shape, Spawned = {}
    PROVE  \A t \in Tasks : \A a \in Agents : ~HeldBy(a, t) /\ taskMap[a] # t
<1>1. \A a \in Agents : Fresh(a)
  BY DEF Shape, Enrolled
<1> QED BY <1>1, NoLoopFields, Bounds DEF Fresh, HeldBy, Alive, AtWork

LEMMA PlanHeld ==
    ASSUME Shape, Held, Tracked, Plan
    PROVE  Held' /\ Tracked' /\ GivesNothing
<1>1. PICK S \in Plans :
        /\ copy' = InitTaskList(EmptyList, S)
        /\ \/ tasks' = InitTaskList(tasks, S) /\ UNCHANGED <<faults, lost>>
           \/ S # {} /\ Fails /\ lost' = lost \cup S /\ UNCHANGED tasks
  BY DEF Plan
<1>2. /\ lead = "plan" /\ lead' = "spawn"
      /\ UNCHANGED <<agentStates, taskMap, inbox, loop, messages, handed, cancelled>>
  BY DEF Plan, signals, choices
<1>3. Spawned = {} /\ handed = {}
  BY <1>2 DEF Shape, Phases, Deciding
<1>4. \A t \in Tasks : \A a \in Agents : ~HeldBy(a, t)' /\ taskMap'[a] # t
  BY <1>2, <1>3, NobodyHolds DEF HeldBy, Alive, AtWork
<1>5. \A t \in Tasks : /\ copy'[t] = IF t \in S THEN "pending" ELSE "absent"
                       /\ tasks'[t] # tasks[t] => tasks'[t] = "pending"
                       /\ t \in S => tasks'[t] = "pending" \/ t \in lost'
  BY <1>1, Typed DEF InitTaskList, EmptyList, Shape
<1>6. Marked'
  BY <1>4, <1>5 DEF Marked
<1>7. Unheld'
  BY <1>2, <1>3, <1>4 DEF Unheld
<1>8. Sole'
  BY <1>4 DEF Sole, Has
<1>9. Tracked'
  <2>1. TypeInv /\ faults' \in Nat /\ faults' >= faults
    BY <1>1, Typed DEF Fails, Shape
  <2>2. \A t \in Tasks : tasks'[t] = "in_progress" => tasks[t] = "in_progress"
    BY <1>5
  <2> QED BY <1>2, <2>1, <2>2, TrackedKept
<1> QED BY <1>2, <1>6, <1>7, <1>8, <1>9 DEF Held, GivesNothing

-----------------------------------------------------------------------------
(* The steps that give tasks out.                                          *)

LEMMA SpawnGives ==
    ASSUME Shape, NEW a \in Agents, NEW t \in Tasks \cup {NoTask}, SpawnMoves(a, t),
           t \in Tasks => Givable(t), StatusMoves({t} \ {NoTask}, "in_progress"), Deciding,
           handed' = handed \cup ({t} \ {NoTask}),
           UNCHANGED <<lead, copy, inbox, messages, cancelled>>
    PROVE  Gives
<1> DEFINE G == IF t = NoTask THEN {} ELSE {a}
           n == [b \in G |-> t]
<1>1. Fresh(a)
  BY DEF SpawnMoves, Shape, Enrolled
<1>2. /\ taskMap[a] = NoTask /\ taskMap'[a] = t
      /\ \A b \in Agents \ {a} : taskMap'[b] = taskMap[b] /\ loop'[b] = loop[b]
  BY <1>1, Typed DEF SpawnMoves, Shape, Fresh
<1>3. \A u \in Tasks : ~In(u, inbox[a].tasks) /\ u # NoTask
  BY <1>1, InEmpty, Bounds DEF Fresh
<1>4. ASSUME NEW u \in Tasks, HeldBy(a, u)' PROVE u = t
  BY <1>3, <1>4 DEF HeldBy, SpawnMoves
<1>5. ASSUME NEW u \in Tasks, NEW b \in Agents, HeldBy(b, u)', b # a PROVE HeldBy(b, u)
  BY <1>2, <1>5 DEF HeldBy, Alive, AtWork
<1>6. {n[b] : b \in G} = {t} \ {NoTask}
  OBVIOUS
<1>7. /\ G \in SUBSET Agents /\ n \in [G -> Tasks]
      /\ \A b \in G : b = a /\ t \in Tasks /\ n[b] = t
      /\ t # NoTask => a \in G /\ n[a] = t
  OBVIOUS
<1>8. /\ \A b \in Agents : taskMap'[b] = IF b \in G THEN n[b] ELSE taskMap[b]
      /\ \A b \in Agents, u \in Tasks :
            HeldBy(b, u)' => HeldBy(b, u) \/ (b \in G /\ u = n[b])
  <2> HIDE DEF G, n
  <2> QED BY <1>2, <1>3, <1>4, <1>5, <1>7
<1>9. GiveMoves(G, n)
  <2> HIDE DEF G, n
  <2> QED BY <1>2, <1>6, <1>7, <1>8 DEF GiveMoves
<1> QED BY <1>9 DEF Gives

LEMMA AssignGives ==
    ASSUME Shape, NEW a \in Agents, NEW t \in Tasks, ActAssign(a, t), a \in Idle, Givable(t)
    PROVE  Gives
<1> DEFINE G == {a}
           n == [b \in G |-> t]
<1>1. t \in Tasks \cup {NoTask} /\ t # NoTask /\ {t} \ {NoTask} = {t}
  BY Bounds
<1>2. StatusMoves({t}, "in_progress")
  <2>1. StatusMoves({t} \ {NoTask}, "in_progress")
    BY <1>1, AssignTypes DEF Shape
  <2> QED BY <1>1, <2>1
<1>3. inbox' = inbox \/ (/\ inbox'[a].tasks = Append(inbox[a].tasks, t)
                         /\ inbox'[a].stop = inbox[a].stop
                         /\ \A b \in Agents \ {a} : inbox'[b] = inbox[b])
  BY <1>1, AssignTypes DEF Shape
<1>4. /\ taskMap[a] = NoTask /\ taskMap'[a] = t /\ loop' = loop
      /\ \A b \in Agents \ {a} : taskMap'[b] = taskMap[b]
      /\ lead = "act" /\ handed' = handed \cup {t}
      /\ UNCHANGED <<lead, copy, messages, cancelled>>
  BY <1>1, Typed DEF ActAssign, Act, HandOut, Shape, Mapped
<1>5. inbox[a].tasks \in Seq(Tasks \cup {NoTask})
  BY Typed DEF Shape, Inboxes
<1>6. \A u \in Tasks : In(u, Append(inbox[a].tasks, t)) <=> In(u, inbox[a].tasks) \/ u = t
  BY <1>1, <1>5, InAppend
<1>7. \A u \in Tasks : \A b \in Agents :
         /\ inbox'[b].stop = inbox[b].stop
         /\ In(u, inbox'[b].tasks) => In(u, inbox[b].tasks) \/ (b = a /\ u = t)
  BY <1>3, <1>6
<1>8. ASSUME NEW u \in Tasks, NEW b \in Agents, HeldBy(b, u)' PROVE HeldBy(b, u) \/ (b = a /\ u = t)
  BY <1>4, <1>7, <1>8 DEF HeldBy, Alive, AtWork
<1>9. /\ {n[b] : b \in G} = {t} /\ G \in SUBSET Agents /\ n \in [G -> Tasks]
      /\ \A b : b \in G <=> b = a
      /\ n[a] = t
  OBVIOUS
<1>10. GiveMoves(G, n)
  <2> HIDE DEF G, n
  <2> QED BY <1>2, <1>4, <1>8, <1>9 DEF GiveMoves, Deciding
<1> QED BY <1>10 DEF Gives

(* A task that looks forgotten was not given out by the decision in hand.  *)
LEMMA OrphanedGivable ==
    ASSUME Held, Deciding, NEW t \in Orphaned
    PROVE  t \in Tasks /\ Givable(t)
BY DEF Orphaned, Held, Unheld, Givable, Shown

LEMMA PairGives ==
    ASSUME Shape, Held, AutoLink, Pair, Cardinality(Unlinked) = Cardinality(Orphaned)
    PROVE  Gives
<1>1. PICK p : PairMoves(p)
  BY Paired DEF Shape
<1>2. StatusMoves(Orphaned, "in_progress")
  BY Paired DEF Shape
<1>3. /\ lead = "spawn" /\ lead' \in {"done", "wait"} /\ copy' = EmptyList
      /\ UNCHANGED <<inbox, messages, cancelled>>
  BY DEF AutoLink, signals
<1>4. \A a \in Agents : ~\E t : In(t, inbox[a].tasks)
  BY <1>3, InEmpty DEF Shape, Phases, Beginning
<1>5. /\ p \in [Unlinked -> Orphaned] /\ \A t \in Orphaned : \E a \in Unlinked : p[a] = t
      /\ \A a, b \in Unlinked : p[a] = p[b] => a = b
      /\ \A a \in Agents : taskMap'[a] = IF a \in Unlinked THEN p[a] ELSE taskMap[a]
  BY <1>1 DEF PairMoves
<1>6. \A t \in Orphaned : t \in Tasks /\ Givable(t)
  BY <1>3, OrphanedGivable DEF Deciding
<1>7. Unlinked \in SUBSET Agents /\ \A a \in Unlinked : taskMap[a] = NoTask
  BY DEF Unlinked, Spawned
<1>8. {p[a] : a \in Unlinked} = Orphaned
  BY <1>5
<1>9. ASSUME NEW t \in Tasks, NEW a \in Agents, HeldBy(a, t)'
      PROVE  HeldBy(a, t) \/ (a \in Unlinked /\ t = p[a])
  <2>1. CASE a \in Unlinked /\ AtWork(a)
    <3>1. loop'[a].work = t
      BY <1>3, <1>4, <1>9 DEF HeldBy
    <3> QED BY <1>1, <2>1, <3>1 DEF PairMoves
  <2>2. CASE ~(a \in Unlinked /\ AtWork(a))
    BY <1>1, <1>3, <1>9, <2>2 DEF PairMoves, HeldBy, Alive, AtWork
  <2> QED BY <2>1, <2>2
<1>10. p \in [Unlinked -> Tasks]
  BY <1>5, <1>6
<1>11. GiveMoves(Unlinked, p)
  BY <1>2, <1>3, <1>5, <1>6, <1>7, <1>8, <1>9, <1>10 DEF GiveMoves, Deciding
<1> QED BY <1>11 DEF Gives

LEMMA AutoLinkHeld ==
    ASSUME Shape, Held, Tracked, AutoLink
    PROVE  Gives \/ (Held' /\ Tracked' /\ GivesNothing)
<1>1. CASE Pair /\ Cardinality(Unlinked) = Cardinality(Orphaned)
  BY <1>1, PairGives
<1>2. CASE UNCHANGED <<taskMap, loop, tasks, faults, lost>>
  <2>1. /\ copy' = EmptyList /\ handed' = {} /\ lead' \in {"done", "wait"}
        /\ lead = "spawn"
        /\ UNCHANGED <<inbox, messages, cancelled>>
    BY DEF AutoLink, signals
  <2>2. HoldsLess
    BY <1>2, <2>1, HoldsKept
  <2>3. TypeInv /\ messages' \in Nat /\ messages' >= messages /\ faults' \in Nat /\ faults' >= faults
    BY <1>2, <2>1, Typed DEF Shape
  <2>4. Held'
    BY <1>2, <2>1, <2>2, <2>3, HeldKept DEF Deciding
  <2>5. Tracked'
    BY <1>2, <2>1, <2>3, TrackedKept
  <2> QED BY <1>2, <2>4, <2>5 DEF GivesNothing
<1> QED BY <1>1, <1>2 DEF AutoLink

(* An obedient lead gives out what it sees pending or completed.           *)
LEMMA GivesShown ==
    ASSUME Obedient, NEW t \in Tasks, MayGive(t)
    PROVE  Givable(t)
BY Bounds DEF MayGive, Givable

LEMMA SpawnHeld ==
    ASSUME Obedient, Shape, Held, SpawnInitial \/ ActSpawn
    PROVE  Gives
<1>1. /\ lead \in {"spawn", "act"} /\ UNCHANGED <<lead, copy, inbox, messages>>
  BY DEF SpawnInitial, ActSpawn, Act, signals
<1>2. PICK t \in Tasks \cup {NoTask} : SpawnAgent(t) /\ (t \in Tasks => Givable(t))
  <2>1. CASE SpawnInitial
    BY <2>1, GivesShown DEF SpawnInitial
  <2>2. CASE ActSpawn
    <3>1. PICK u \in Tasks \cup {NoTask} : MayGive(u) /\ SpawnAgent(LinkOf(u))
      BY <2>2 DEF ActSpawn
    <3>2. CASE LinkOf(u) = u
      BY <3>1, <3>2, GivesShown
    <3>3. CASE LinkOf(u) \in Orphaned
      BY <1>1, <3>1, <3>3, OrphanedGivable DEF Deciding
    <3> QED BY <3>2, <3>3, LinkedTask
  <2> QED BY <2>1, <2>2
<1>3. StatusMoves({t} \ {NoTask}, "in_progress") /\ \E a \in Agents : SpawnMoves(a, t)
  BY <1>2, SpawnAgentMoves DEF Shape
<1>4. handed' = handed \cup ({t} \ {NoTask}) /\ cancelled' = cancelled
  BY <1>2 DEF SpawnAgent, HandOut
<1> QED BY <1>1, <1>2, <1>3, <1>4, SpawnGives DEF Deciding

LEMMA AssignHeld ==
    ASSUME Obedient, Shape, NEW a \in Agents, NEW t \in Tasks \cup {NoTask}, ActAssign(a, t)
    PROVE  Gives /\ t \in Tasks /\ a \in Idle
<1>1. t \in Tasks /\ a \in Idle /\ MayGive(t)
  BY DEF ActAssign
<1> QED BY <1>1, GivesShown, AssignGives

-----------------------------------------------------------------------------
(* The steps that settle tasks.                                            *)

LEMMA RestedHoldsNothing ==
    ASSUME TypeInv, NEW a \in Agents, ~AtWork(a), inbox[a].tasks = <<>>, NEW t \in Tasks
    PROVE  ~HeldBy(a, t)
BY InEmpty DEF HeldBy

LEMMA OnIdleHeld ==
    ASSUME Shape, Held, Tracked, Early, OnIdle
    PROVE  Held' /\ Tracked' /\ GivesNothing
<1>1. PICK S : S = {idleQ[i] : i \in 1..Len(idleQ)}
  OBVIOUS
<1>2. S \in SUBSET Agents /\ \A a \in Agents : a \in S <=> Queued(a)
  BY <1>1, IdleQTyped DEF Shape
<1>3. /\ SetStatus(GivenTo(S), "completed")
      /\ taskMap' = [a \in Agents |-> IF a \in S THEN NoTask ELSE taskMap[a]]
      /\ lead = "wait" /\ lead' = "event"
      /\ UNCHANGED <<copy, loop, messages, handed, cancelled>>
  BY <1>1 DEF OnIdle, choices
<1>4. StatusMoves(GivenTo(S), "completed") /\ TypeInv
  BY <1>2, <1>3, GivenToTasks, StatusSet DEF Shape
<1>5. ForwardMoves
  BY OnIdleTypes DEF Shape
<1>6. HoldsLess
  BY <1>3, <1>5, HoldsKept DEF ForwardMoves
<1>7. messages' = 0 => \A a \in S : \A t \in Tasks : ~HeldBy(a, t)'
  <2>1. messages' = 0 => \A a \in S : ~AtWork(a) /\ inbox[a].tasks = <<>>
    BY <1>2, <1>3 DEF Early, Rested
  <2>2. messages' = 0 => \A a \in S : \A t \in Tasks : ~HeldBy(a, t)
    BY <1>2, <1>4, <2>1, RestedHoldsNothing
  <2> QED BY <1>2, <1>6, <2>2 DEF HoldsLess
<1>8. Held'
  BY <1>2, <1>3, <1>4, <1>6, <1>7, HeldSettled DEF Deciding
<1>9. Tracked'
  BY <1>2, <1>3, <1>4, TrackedSettled
<1> QED BY <1>3, <1>8, <1>9 DEF GivesNothing

(* A result is collected of an agent that has ended.                       *)
LEMMA CollectHeld ==
    ASSUME Shape, Held, Tracked, NEW a \in Agents, CollectMoves(a), HoldsLess,
           UNCHANGED <<copy, loop, messages, handed, cancelled>>,
           lead \in {"wait", "drain"}, lead' \in {"event", "drain"}
    PROVE  Held' /\ Tracked' /\ GivesNothing
<1>1. {a} \in SUBSET Agents /\ TypeInv
  BY DEF Shape
<1>2. \A b \in Agents : taskMap'[b] = IF b \in {a} THEN NoTask ELSE taskMap[b]
  BY <1>1, Typed DEF CollectMoves
<1>3. StatusMoves(GivenTo({a}), "completed")
  BY DEF CollectMoves
<1>4. \A b \in {a} : \A t \in Tasks : ~HeldBy(b, t)'
  BY DEF CollectMoves, HeldBy, Alive, AtWork
<1>5. Held'
  BY <1>1, <1>2, <1>3, <1>4, HeldSettled DEF Deciding
<1>6. Tracked'
  BY <1>1, <1>2, <1>3, TrackedSettled
<1> QED BY <1>2, <1>5, <1>6 DEF GivesNothing

LEMMA OnCompletionHeld ==
    ASSUME Shape, Held, Tracked, NEW a \in Agents, OnCompletion(a)
    PROVE  Held' /\ Tracked' /\ GivesNothing
<1>1. ForwardMoves /\ CollectMoves(a)
  BY OnCompletionTypes DEF Shape
<1>2. /\ lead = "wait" /\ lead' = "event"
      /\ UNCHANGED <<copy, loop, messages, handed, cancelled>>
  BY DEF OnCompletion, choices
<1>3. HoldsLess
  BY <1>1, <1>2, HoldsKept DEF ForwardMoves
<1> QED BY <1>1, <1>2, <1>3, CollectHeld

LEMMA DrainHeld ==
    ASSUME Shape, Held, Tracked, Drain
    PROVE  Held' /\ Tracked' /\ GivesNothing
<1>1. lead = "drain" /\ UNCHANGED <<copy, inbox, loop, messages, handed, cancelled>> /\ handed = {}
  BY DEF Drain, choices, Shape, Phases, Deciding
<1>2. HoldsLess /\ TypeInv
  BY <1>1, HoldsKept DEF Shape
<1>3. CASE (\E a \in Agents : CollectMoves(a)) /\ UNCHANGED lead
  BY <1>1, <1>2, <1>3, CollectHeld
<1>4. CASE UNCHANGED <<taskMap, tasks, faults, lost>> /\ lead' \in {"drain", "synthesis"}
  <2>1. messages' \in Nat /\ messages' >= messages /\ faults' \in Nat /\ faults' >= faults
    BY <1>1, <1>2, <1>4, Typed
  <2>2. Held'
    BY <1>1, <1>2, <1>4, <2>1, HeldKept DEF Deciding
  <2>3. Tracked'
    BY <1>1, <1>2, <1>4, <2>1, TrackedKept
  <2> QED BY <1>4, <2>2, <2>3 DEF GivesNothing
<1> QED BY <1>1, <1>3, <1>4, DrainTypes DEF Shape

LEMMA ActShutdownHeld ==
    ASSUME Shape, Held, Tracked, NEW a \in Agents, ActShutdown(a)
    PROVE  Held' /\ Tracked' /\ GivesNothing
<1>1. ShutdownMoves(a) /\ TypeInv /\ {a} \in SUBSET Agents
  BY ActShutdownTypes DEF Shape
<1>2. lead = "act" /\ UNCHANGED <<lead, loop, messages, handed, cancelled>>
  BY DEF ActShutdown, Act, choices
<1>3. \A b \in Agents : taskMap'[b] = IF b \in {a} THEN NoTask ELSE taskMap[b]
  BY <1>1, Typed DEF ShutdownMoves
<1>4. StatusMoves(GivenTo({a}), "completed") /\ GivenTo({a}) \in SUBSET Tasks
  BY <1>1, GivenToTasks DEF ShutdownMoves
<1>5. \A t \in Tasks : copy'[t] = IF t \in GivenTo({a}) /\ copy[t] # "absent"
                                  THEN "completed" ELSE copy[t]
  BY <1>1 DEF ShutdownMoves
<1>6. HoldsLess
  BY <1>1, <1>2, HoldsKept DEF ShutdownMoves, StopMoves
<1>7. \A b \in {a} : \A t \in Tasks : ~HeldBy(b, t)'
  BY <1>1, <1>2 DEF ShutdownMoves, HeldBy, Alive, AtWork
<1>8. Held'
  BY <1>1, <1>2, <1>3, <1>4, <1>5, <1>6, <1>7, HeldSettled DEF Deciding
<1>9. Tracked'
  BY <1>1, <1>2, <1>3, <1>4, TrackedSettled
<1> QED BY <1>3, <1>8, <1>9 DEF GivesNothing

-----------------------------------------------------------------------------
(* The other steps.                                                        *)

LEMMA ReviseHeld ==
    ASSUME Shape, Held, Tracked, ActRevisePlan
    PROVE  Held' /\ Tracked' /\ GivesNothing
<1>1. UNCHANGED <<lead, copy, taskMap, inbox, loop, messages, handed>>
  BY DEF ActRevisePlan, leadVars, signals
<1>2. /\ lost' = lost /\ cancelled \subseteq cancelled' /\ faults' \in Nat /\ faults' >= faults
      /\ \A t \in Tasks : \/ tasks'[t] = tasks[t]
                          \/ tasks[t] = "absent" /\ tasks'[t] = "pending"
                          \/ tasks[t] = "pending" /\ tasks'[t] = "completed"
                          \/ tasks[t] = "in_progress" /\ tasks'[t] = "completed"
                             /\ t \in cancelled'
  BY ReviseMoves DEF Shape
<1>3. HoldsLess /\ TypeInv /\ messages' \in Nat /\ messages' >= messages /\ (Deciding' => Deciding)
  BY <1>1, HoldsKept, Typed DEF Shape, Deciding
<1>4. Held'
  BY <1>1, <1>2, <1>3, HeldKept
<1>5. Tracked'
  BY <1>1, <1>2, <1>3, TrackedKept
<1> QED BY <1>1, <1>4, <1>5 DEF GivesNothing

LEMMA SynthesizeHeld ==
    ASSUME Shape, Held, Tracked, Synthesize
    PROVE  Held' /\ Tracked' /\ GivesNothing
<1>1. /\ lead = "synthesis" /\ lead' = "done" /\ copy' = EmptyList
      /\ UNCHANGED <<taskMap, inbox, loop, messages, handed, cancelled>> /\ handed = {}
  BY DEF Synthesize, signals, choices, Shape, Phases, Deciding
<1>2. /\ lost' = lost
      /\ \A t \in Tasks : tasks'[t] = tasks[t] \/ (tasks[t] # "absent" /\ tasks'[t] = "completed")
  BY SynthesizeTypes DEF Shape, StatusMoves
<1>3. \A t \in Tasks : tasks[t] \in {"absent", "pending", "in_progress", "completed"}
  BY Typed DEF Shape, Status
<1>4. HoldsLess /\ TypeInv /\ messages' \in Nat /\ messages' >= messages
  BY <1>1, HoldsKept, Typed DEF Shape
<1>5. Held'
  BY <1>1, <1>2, <1>3, <1>4, HeldKept DEF Deciding
<1>6. Tracked'
  BY <1>1 DEF Tracked
<1> QED BY <1>1, <1>5, <1>6 DEF GivesNothing

LEMMA MoveOnHolds ==
    ASSUME Shape,
           \/ NoSwarm \/ OnCheckpoint \/ AfterEvent \/ Checkpoint \/ ActMessage \/ ActDone
           \/ EndOfActions
    PROVE  /\ HoldsLess /\ UNCHANGED <<tasks, taskMap, lost, cancelled>>
           /\ \/ copy' = copy /\ handed' = handed /\ (Deciding' => Deciding)
              \/ copy' \in {copy, EmptyList} /\ handed' = {} /\ ~Deciding'
              \/ copy' \in {tasks, EmptyList} /\ handed' = {}
           /\ faults' \in Nat /\ faults' >= faults
           /\ messages' \in Nat /\ messages' >= messages
           /\ lead # "done" /\ (lead = "synthesis" => lead' = "synthesis")
<1>1. UNCHANGED <<tasks, taskMap, loop, lost, cancelled>>
  BY DEF NoSwarm, OnCheckpoint, AfterEvent, Checkpoint, ActMessage, ActDone, EndOfActions,
         leadVars, signals, choices
<1>2. /\ \/ copy' = copy /\ handed' = handed /\ (Deciding' => Deciding)
         \/ copy' \in {copy, EmptyList} /\ handed' = {} /\ ~Deciding'
         \/ copy' \in {tasks, EmptyList} /\ handed' = {}
      /\ lead \notin {"synthesis", "done"}
  <2>1. CASE NoSwarm \/ OnCheckpoint \/ Checkpoint
    BY <2>1 DEF NoSwarm, OnCheckpoint, Quiet, Checkpoint, WrapUp, leadVars, choices, Deciding
  <2>2. CASE AfterEvent
    <3>1. lead = "event" /\ handed' = {}
      BY <2>2 DEF AfterEvent, choices, Shape, Phases, Deciding
    <3>2. \/ copy' = copy /\ lead' \in {"synthesis", "wait"}
          \/ copy' \in {tasks, EmptyList}
      BY <2>2 DEF AfterEvent, Ask
    <3> QED BY <3>1, <3>2 DEF Deciding
  <2>3. CASE ActMessage \/ ActDone \/ EndOfActions
    BY <2>3 DEF ActMessage, ActDone, EndOfActions, Act, leadVars, choices, Deciding
  <2> QED BY <2>1, <2>2, <2>3
<1>3. faults' = faults \/ Fails
  BY DEF NoSwarm, OnCheckpoint, AfterEvent, Checkpoint, ActMessage, ActDone, EndOfActions,
         bounds
<1>4. faults' \in Nat /\ faults' >= faults
  BY <1>3, Typed DEF Shape, Fails
<1>7. messages' \in Nat /\ messages' >= messages
  <2>1. messages' = messages \/ messages' = messages + 1
    BY DEF NoSwarm, OnCheckpoint, AfterEvent, Checkpoint, ActMessage, ActDone, EndOfActions,
           bounds
  <2> QED BY <2>1, Typed DEF Shape
<1>5. \A a \in Agents : /\ inbox'[a].tasks = inbox[a].tasks
                        /\ inbox[a].stop => inbox'[a].stop
  <2>1. CASE OnCheckpoint
    BY <2>1, Forwarded DEF OnCheckpoint, ForwardMoves, Shape
  <2>2. CASE Checkpoint
    BY <2>2, CheckpointTypes DEF StopMoves, Shape
  <2>3. CASE ActMessage
    BY <2>3, MessageTypes DEF Shape
  <2>4. CASE ActDone
    BY <2>4, Stopped DEF ActDone, StopMoves, Shape
  <2>5. CASE NoSwarm \/ AfterEvent \/ EndOfActions
    BY <2>5 DEF NoSwarm, AfterEvent, EndOfActions, signals
  <2> QED BY <2>1, <2>2, <2>3, <2>4, <2>5
<1>6. HoldsLess
  BY <1>1, <1>5, HoldsKept
<1> QED BY <1>1, <1>2, <1>4, <1>6, <1>7

LEMMA MoveOnHeld ==
    ASSUME Shape, Held, Tracked,
           \/ NoSwarm \/ OnCheckpoint \/ AfterEvent \/ Checkpoint \/ ActMessage \/ ActDone
           \/ EndOfActions
    PROVE  Held' /\ Tracked' /\ GivesNothing
<1>1. TypeInv
  BY DEF Shape
<1>2. Held'
  BY <1>1, MoveOnHolds, HeldKept
<1>3. Tracked'
  BY <1>1, MoveOnHolds, TrackedKept
<1> QED BY <1>2, <1>3, MoveOnHolds DEF GivesNothing

-----------------------------------------------------------------------------
(* Part 7.  Without messages an agent works only on what it was given.     *)

LEMMA RestedKept ==
    ASSUME NEW a \in Agents, Rested(a), loop'[a].at = loop[a].at,
           agentStates'[a] = agentStates[a], Queued(a)' => Queued(a),
           inbox'[a].tasks = inbox[a].tasks, inbox'[a].peer = inbox[a].peer,
           inbox[a].stop => inbox'[a].stop, sent'[a] = 0
    PROVE  Rested(a)'
BY DEF Rested, AtWork, Alive

LEMMA ForwardsNothing ==
    ASSUME ForwardMoves, Early, messages = 0
    PROVE  \A a \in Agents : /\ inbox'[a].tasks = inbox[a].tasks /\ inbox'[a].peer = 0
                             /\ inbox'[a].peer = inbox[a].peer
                             /\ inbox'[a].stop = inbox[a].stop /\ sent'[a] = 0
BY DEF ForwardMoves, Early, Rested

(* Nobody moves.                                                           *)
LEMMA EarlyKept ==
    ASSUME Early, messages' = 0 => messages = 0, UNCHANGED <<agentStates, sent>>,
           \A a \in Agents : Queued(a)' => Queued(a),
           \A a \in Agents : /\ loop'[a].at = loop[a].at
                             /\ inbox'[a].tasks = inbox[a].tasks
                             /\ inbox'[a].peer = inbox[a].peer
                             /\ inbox[a].stop => inbox'[a].stop
    PROVE  Early'
BY RestedKept DEF Early, Rested

LEMMA ShortTail ==
    ASSUME NEW S, NEW s \in Seq(S), s # <<>>, Len(s) <= 1
    PROVE  Tail(s) = <<>>
OBVIOUS

LEMMA AgentEarly ==
    ASSUME Shape, Early, NEW a \in Agents, AgentStep(a)
    PROVE  Early'
<1> SUFFICES ASSUME messages' = 0, NEW b \in Agents PROVE Rested(b)'
  BY DEF Early
<1>1. messages = 0 /\ sent' = sent /\ agentStates' = agentStates
  <2>1. messages' \in Nat /\ messages' >= messages
    BY DEF AgentStep
  <2>2. messages = 0
    BY <2>1, Typed DEF Shape
  <2> QED BY <2>2 DEF AgentStep, leadOnly, leadVars
<1>2. /\ \A c \in Agents \ {a} : loop'[c] = loop[c] /\ inbox'[c] = inbox[c]
      /\ Alive(a) /\ (Ends(a) \/ Works(a) \/ Rests(a) \/ Takes(a) \/ Wakes(a))
  BY DEF AgentStep, AgentMoves
<1>3. /\ \A c \in Agents \ {a} : Queued(c)' <=> Queued(c)
      /\ Queued(a)' => Queued(a) \/ Rests(a)
  BY AgentQueue
<1>4. Rested(a) /\ Rested(b) /\ inbox[a].peer = 0 /\ sent'[a] = 0 /\ sent'[b] = 0
  BY <1>1 DEF Early, Rested
<1>5. CASE b # a
  BY <1>1, <1>2, <1>3, <1>4, <1>5, RestedKept
<1>6. CASE b = a
  <2>1. CASE Ends(a)
    <3>1. ~AtWork(a)' /\ ~Alive(a)'
      BY <2>1 DEF Ends, AtWork, Alive
    <3>2. inbox'[a].tasks = <<>> /\ inbox'[a].peer = 0 /\ Len(<<>>) <= 1
      BY <2>1, NoLoopFields DEF Ends
    <3>3. agentStates'[a] = "idle" => ~Queued(a)'
      BY <1>1, <1>4, <2>1 DEF Rested, Ends, Queued
    <3> QED BY <1>4, <1>6, <3>1, <3>2, <3>3 DEF Rested
  <2>2. CASE Works(a)
    <3>1. ~Queued(a)' /\ agentStates'[a] # "idle" /\ agentStates'[a] = agentStates[a]
      BY <1>1, <1>4, <2>2 DEF Rested, Works, Queued
    <3> QED BY <1>4, <1>6, <2>2, <3>1 DEF Rested, Works, Alive
  <2>3. CASE Rests(a)
    <3>1. agentStates'[a] # "idle" /\ agentStates'[a] = agentStates[a]
      BY <1>1, <1>4, <2>3 DEF Rested, Rests
    <3>2. ~AtWork(a)' /\ inbox'[a] = inbox[a] /\ inbox[a].tasks = <<>>
      BY <1>4, <2>3 DEF Rested, Rests, AtWork
    <3> QED BY <1>2, <1>4, <1>6, <3>1, <3>2 DEF Rested
  <2>4. CASE Takes(a)
    <3>1. inbox[a].tasks \in Seq(Tasks \cup {NoTask})
      BY Typed DEF Shape, Inboxes
    <3>2. inbox'[a].tasks = <<>>
      BY <1>4, <2>4, <3>1, ShortTail DEF Takes, Rested
    <3>3. ~Queued(a)' /\ agentStates'[a] # "idle" /\ agentStates'[a] = agentStates[a]
      BY <1>1, <1>4, <2>4 DEF Rested, Takes, Queued
    <3>4. inbox'[a].peer = 0 /\ inbox'[a].stop = inbox[a].stop /\ Len(<<>>) <= 1
      BY <1>4, <2>4 DEF Takes
    <3> QED BY <1>2, <1>4, <1>6, <3>2, <3>3, <3>4 DEF Rested
  <2>5. CASE Wakes(a)
    BY <1>4, <2>5 DEF Wakes
  <2> QED BY <1>2, <2>1, <2>2, <2>3, <2>4, <2>5
<1> QED BY <1>5, <1>6

LEMMA SpawnEarly ==
    ASSUME Shape, Early, NEW a, NEW t, SpawnMoves(a, t), UNCHANGED <<inbox, sent, idleQ, messages>>
    PROVE  Early'
<1> SUFFICES ASSUME messages' = 0, NEW b \in Agents PROVE Rested(b)'
  BY DEF Early
<1>1. Rested(b) /\ sent'[b] = 0
  BY DEF Early, Rested
<1>2. CASE b # a
  <2>1. loop'[b] = loop[b] /\ agentStates'[b] = agentStates[b]
    BY <1>2, Typed DEF SpawnMoves, Shape
  <2> QED BY <1>1, <2>1, RestedKept DEF Queued
<1>3. CASE b = a
  <2>1. Fresh(b)
    BY <1>3 DEF SpawnMoves, Shape, Enrolled
  <2>2. agentStates'[b] = "running"
    BY <1>3, Typed DEF SpawnMoves, Shape
  <2> QED BY <1>1, <2>1, <2>2 DEF Rested, Fresh, Queued
<1> QED BY <1>2, <1>3

LEMMA AutoLinkEarly ==
    ASSUME Shape, Early, AutoLink
    PROVE  Early'
<1>1. UNCHANGED <<agentStates, sent, inbox, idleQ, messages>>
  BY DEF AutoLink, signals
<1>2. CASE Pair /\ Cardinality(Unlinked) = Cardinality(Orphaned)
  <2>1. PICK p : PairMoves(p)
    BY <1>2, Paired DEF Shape
  <2>2. \A a \in Agents : loop'[a].at = loop[a].at
    BY <2>1 DEF PairMoves
  <2> QED BY <1>1, <2>2, EarlyKept DEF Queued
<1>3. CASE UNCHANGED <<taskMap, loop, tasks, faults, lost>>
  BY <1>1, <1>3, EarlyKept DEF Queued
<1> QED BY <1>2, <1>3 DEF AutoLink

LEMMA OnIdleEarly ==
    ASSUME Shape, Early, OnIdle
    PROVE  Early'
<1> SUFFICES ASSUME messages' = 0, NEW a \in Agents PROVE Rested(a)'
  BY DEF Early
<1>1. PICK S : S = {idleQ[i] : i \in 1..Len(idleQ)}
  OBVIOUS
<1>2. a \in S <=> Queued(a)
  BY <1>1, IdleQTyped DEF Shape
<1>3. /\ agentStates' = [b \in Agents |-> IF b \in S THEN "idle" ELSE agentStates[b]]
      /\ idleQ' = <<>> /\ UNCHANGED <<loop, messages>>
  BY <1>1 DEF OnIdle
<1>4. ForwardMoves
  BY OnIdleTypes DEF Shape
<1>5. /\ Rested(a) /\ inbox'[a].tasks = inbox[a].tasks /\ inbox'[a].peer = inbox[a].peer
      /\ inbox'[a].stop = inbox[a].stop /\ sent'[a] = 0
  BY <1>3, <1>4, ForwardsNothing DEF Early
<1>6. ~Queued(a)'
  BY <1>3, InEmpty DEF Queued
<1>7. CASE a \notin S
  BY <1>3, <1>5, <1>6, <1>7, RestedKept
<1>8. CASE a \in S
  BY <1>2, <1>3, <1>5, <1>6, <1>8 DEF Rested, AtWork, Alive
<1> QED BY <1>7, <1>8

LEMMA OnCompletionEarly ==
    ASSUME Shape, Early, NEW a \in Agents, OnCompletion(a)
    PROVE  Early'
<1> SUFFICES ASSUME messages' = 0, NEW b \in Agents PROVE Rested(b)'
  BY DEF Early
<1>1. ForwardMoves /\ CollectMoves(a)
  BY OnCompletionTypes DEF Shape
<1>2. /\ agentStates' = [agentStates EXCEPT ![a] = "completed"]
      /\ UNCHANGED <<loop, idleQ, messages>>
  BY DEF OnCompletion
<1>3. /\ Rested(b) /\ inbox'[b].tasks = inbox[b].tasks /\ inbox'[b].peer = inbox[b].peer
      /\ inbox'[b].stop = inbox[b].stop /\ sent'[b] = 0
  BY <1>1, <1>2, ForwardsNothing DEF Early
<1>4. CASE b # a
  <2>1. agentStates'[b] = agentStates[b]
    BY <1>2, <1>4, Typed DEF Shape
  <2> QED BY <1>2, <1>3, <2>1, RestedKept DEF Queued
<1>5. CASE b = a
  <2>1. agentStates'[b] = "completed" /\ ~Alive(b)'
    BY <1>1, <1>2, <1>5, Typed DEF Shape, CollectMoves, Alive, AtWork
  <2> QED BY <1>2, <1>3, <2>1 DEF Rested, Queued, AtWork
<1> QED BY <1>4, <1>5

LEMMA AssignEarly ==
    ASSUME Shape, Early, NEW a \in Agents, NEW t \in Tasks, ActAssign(a, t), a \in Idle
    PROVE  Early'
<1> SUFFICES ASSUME messages' = 0, NEW b \in Agents PROVE Rested(b)'
  BY DEF Early
<1>1. t \in Tasks \cup {NoTask}
  OBVIOUS
<1>2. inbox' = inbox \/ (/\ Alive(a) /\ inbox'[a].tasks = Append(inbox[a].tasks, t)
                         /\ inbox'[a].stop = inbox[a].stop
                         /\ inbox'[a].peer = inbox[a].peer
                         /\ \A c \in Agents \ {a} : inbox'[c] = inbox[c])
  BY <1>1, AssignTypes DEF Shape
<1>3. /\ agentStates' = [agentStates EXCEPT ![a] = "running"]
      /\ UNCHANGED <<loop, idleQ, sent, messages>>
  BY DEF ActAssign
<1>4. Rested(a) /\ Rested(b) /\ sent'[b] = 0
  BY <1>3 DEF Early, Rested
<1>5. CASE b # a
  <2>1. agentStates'[b] = agentStates[b]
    BY <1>3, <1>5, Typed DEF Shape
  <2> QED BY <1>2, <1>3, <1>4, <1>5, <2>1, RestedKept DEF Queued
<1>6. CASE b = a
  <2>1. inbox[a].tasks = <<>> /\ ~AtWork(a) /\ ~Queued(a) /\ inbox[a].peer = 0
    BY <1>4 DEF Rested, Idle
  <2>2. agentStates'[a] = "running" /\ ~AtWork(a)' /\ ~Queued(a)'
    BY <1>3, <2>1, Typed DEF Shape, AtWork, Queued
  <2>3. inbox'[a].peer = 0 /\ Len(inbox'[a].tasks) <= 1
    <3>1. Len(Append(<<>>, t)) <= 1 /\ Len(<<>>) <= 1
      OBVIOUS
    <3>2. \/ inbox'[a].tasks = <<>> /\ inbox'[a].peer = 0
          \/ inbox'[a].tasks = Append(<<>>, t) /\ inbox'[a].peer = 0
      BY <1>2, <2>1
    <3> QED BY <3>1, <3>2, Zenon
  <2> QED BY <1>4, <1>6, <2>2, <2>3 DEF Rested
<1> QED BY <1>5, <1>6

LEMMA ActShutdownEarly ==
    ASSUME Shape, Early, NEW a \in Agents, ActShutdown(a)
    PROVE  Early'
<1> SUFFICES ASSUME messages' = 0, NEW b \in Agents PROVE Rested(b)'
  BY DEF Early
<1>1. ShutdownMoves(a) /\ UNCHANGED <<loop, idleQ, sent, messages>>
  BY ActShutdownTypes DEF Shape, ActShutdown
<1>2. Rested(b) /\ sent'[b] = 0
  BY <1>1 DEF Early, Rested
<1>3. /\ inbox'[b].tasks = inbox[b].tasks /\ inbox'[b].peer = inbox[b].peer
      /\ inbox[b].stop => inbox'[b].stop
  BY <1>1 DEF ShutdownMoves, StopMoves
<1>4. CASE b # a
  <2>1. agentStates'[b] = agentStates[b]
    BY <1>1, <1>4, Typed DEF Shape, ShutdownMoves
  <2> QED BY <1>1, <1>2, <1>3, <2>1, RestedKept DEF Queued
<1>5. CASE b = a
  <2>1. agentStates'[b] = "completed" /\ (Alive(b)' => inbox'[b].stop)
    BY <1>1, <1>5, Typed DEF Shape, ShutdownMoves, Alive, AtWork
  <2> QED BY <1>1, <1>2, <1>3, <2>1 DEF Rested, Queued, AtWork
<1> QED BY <1>4, <1>5

LEMMA DrainEarly ==
    ASSUME Shape, Early, Drain
    PROVE  Early'
<1>1. UNCHANGED <<agentStates, sent, inbox, loop, messages>>
  BY DEF Drain
<1>2. idleQ' = idleQ \/ (idleQ # <<>> /\ idleQ' = Tail(idleQ))
  BY DEF Drain
<1>3. \A b \in Agents : Queued(b)' => Queued(b)
  <2>1. idleQ \in Seq(Agents)
    BY Typed DEF Shape
  <2>2. CASE idleQ' = idleQ
    BY <2>2 DEF Queued
  <2>3. CASE idleQ # <<>> /\ idleQ' = Tail(idleQ)
    BY <2>1, <2>3, InTail DEF Queued
  <2> QED BY <1>2, <2>2, <2>3
<1> QED BY <1>1, <1>3, EarlyKept

LEMMA MoveOnEarly ==
    ASSUME Shape, Early,
           \/ NoSwarm \/ Plan \/ OnCheckpoint \/ AfterEvent \/ Checkpoint \/ ActMessage
           \/ ActRevisePlan \/ ActDone \/ EndOfActions \/ Synthesize
    PROVE  Early'
<1>1. CASE OnCheckpoint
  <2>1. ForwardMoves /\ UNCHANGED <<agentStates, loop, idleQ, messages>>
    BY <1>1, Forwarded DEF OnCheckpoint, Shape, leadVars, bounds
  <2> SUFFICES ASSUME messages' = 0, NEW a \in Agents PROVE Rested(a)'
    BY DEF Early
  <2>2. /\ Rested(a) /\ inbox'[a].tasks = inbox[a].tasks /\ inbox'[a].peer = inbox[a].peer
        /\ inbox'[a].stop = inbox[a].stop /\ sent'[a] = 0
    BY <2>1, ForwardsNothing DEF Early
  <2> QED BY <2>1, <2>2, RestedKept DEF Queued
<1>2. CASE ActMessage
  BY <1>2, MessageTypes DEF Early, Shape
<1>3. CASE Checkpoint
  <2>1. (StopMoves \/ inbox' = inbox) /\ UNCHANGED <<agentStates, loop, idleQ, sent, messages>>
    BY <1>3, CheckpointTypes DEF Checkpoint, Shape
  <2> QED BY <2>1, EarlyKept DEF Queued, StopMoves
<1>4. CASE ActDone
  <2>1. StopMoves /\ UNCHANGED <<agentStates, loop, idleQ, sent, messages>>
    BY <1>4, Stopped DEF ActDone, Shape, leadVars, bounds
  <2> QED BY <2>1, EarlyKept DEF Queued, StopMoves
<1>5. CASE NoSwarm \/ Plan \/ AfterEvent \/ ActRevisePlan \/ EndOfActions \/ Synthesize
  <2>1. UNCHANGED <<agentStates, loop, idleQ, sent, inbox, messages>>
    BY <1>5 DEF NoSwarm, Plan, AfterEvent, ActRevisePlan, EndOfActions, Synthesize, signals,
                bounds, leadVars
  <2> QED BY <2>1, EarlyKept DEF Queued
<1> QED BY <1>1, <1>2, <1>3, <1>4, <1>5

-----------------------------------------------------------------------------
(* Part 8.  The invariant is kept, and what follows from it.               *)

LEMMA InvIs ==
    IInv <=> Shape /\ Held /\ Tracked /\ Early
BY DEF IInv, Shape, Held

LEMMA InvNext ==
    ASSUME Shape', Held', Tracked', Early'
    PROVE  IInv'
BY DEF IInv, Shape, Held

LEMMA Initially ==
    ASSUME Init
    PROVE  IInv
<1>1. /\ \A a \in Agents : /\ loop[a] = NoLoop /\ inbox[a] = NoSignals /\ sent[a] = 0
                           /\ agentStates[a] = "none" /\ taskMap[a] = NoTask
      /\ lead = "plan" /\ copy = EmptyList /\ tasks = EmptyList /\ collected = {}
      /\ idleQ = <<>> /\ messages = 0 /\ faults = 0
      /\ handed = {} /\ lost = {} /\ cancelled = {}
  BY DEF Init
<1>2. \A a \in Agents : ~Queued(a) /\ ~AtWork(a) /\ ~Alive(a)
  BY <1>1, NoLoopFields, InEmpty DEF Queued, AtWork, Alive
<1>3. Spawned = {} /\ Idle = {} /\ Given = {}
  BY <1>1 DEF Spawned, Idle, Given
<1>4. TypeInv
  <2>1. loop \in [Agents -> Loops] /\ \A a \in Agents : InLimits(loop[a])
    BY NoLoopFields DEF Init
  <2>2. inbox \in [Agents -> [tasks : Seq(Tasks \cup {NoTask}), stop : BOOLEAN, peer : Nat]]
    BY NoLoopFields DEF Init, Inboxes
  <2>3. idleQ \in Seq(Agents) /\ sent \in [Agents -> Nat]
    BY DEF Init
  <2>4. /\ agentStates \in [Agents -> {"none", "running", "idle", "completed"}]
        /\ taskMap \in [Agents -> Tasks \cup {NoTask}]
        /\ collected \subseteq Agents
    BY DEF Init
  <2>5. actions \in 0..MaxActions /\ {messages, faults} \subseteq Nat
    BY Bounds DEF Init
  <2>6. \A a \in Agents :
          /\ loop[a].at \in {"none", "begin", "llm", "idle", "closed"}
          /\ loop[a].work \in Tasks \cup {NoTask}
          /\ loop[a].limit \in 1..MaxLimit
          /\ loop[a].iter \in 0..(loop[a].limit - 1)
    BY <2>1 DEF Loops, InLimits
  <2>7. /\ lead = "plan" /\ copy \in TaskLists /\ tasks \in TaskLists
        /\ {handed, lost, cancelled} \subseteq SUBSET Tasks
    BY EmptyListIs DEF Init
  <2> QED BY <2>1, <2>2, <2>3, <2>4, <2>5, <2>6, <2>7 DEF TypeInv, TypeOK, MaxLimit
<1>5. Enrolled
  <2>1. 0 \in Nat /\ 1..0 = {}
    OBVIOUS
  <2> QED BY <1>1, <1>2, <1>3, <2>1, NoLoopFields DEF Enrolled, Fresh
<1>6. Phases /\ Mapped
  BY <1>1, <1>2, <1>3, NoLoopFields DEF Phases, Beginning, Mapped
<1>7. \A t \in Tasks : \A a \in Agents : ~HeldBy(a, t) /\ ~Has(a, t)
  BY <1>1, <1>2, Bounds DEF HeldBy, Has
<1>8. Held /\ Tracked
  BY <1>1, <1>7 DEF Held, Marked, Unheld, Sole, Tracked, Deciding, EmptyList
<1>9. Early
  <2>1. Len(<<>>) <= 1
    OBVIOUS
  <2> QED BY <1>1, <1>2, <2>1, NoLoopFields DEF Early, Rested
<1> QED BY <1>4, <1>5, <1>6, <1>8, <1>9 DEF IInv, Held

LEMMA AgentInv ==
    ASSUME IInv, NEW a \in Agents, Step(a) \/ Killed(a)
    PROVE  IInv' /\ GivesNothing
<1>1. AgentStep(a)
  BY AgentSteps DEF IInv
<1>2. Shape' /\ Held' /\ Tracked' /\ Early' /\ GivesNothing
  BY <1>1, InvIs, AgentShape, AgentHeld, AgentEarly
<1> QED BY <1>2, InvNext

(* A step of an obedient lead gives out what the decision in hand may give *)
(* out, or it gives nothing.                                               *)
LEMMA LeadHeld ==
    ASSUME IInv, Obedient, Lead
    PROVE  Gives \/ (Held' /\ Tracked' /\ GivesNothing)
<1>1. Shape /\ Held /\ Tracked /\ Early
  BY InvIs
<1>2. CASE SpawnInitial \/ ActSpawn
  BY <1>1, <1>2, SpawnHeld
<1>3. CASE \E a \in Agents, t \in Tasks \cup {NoTask} : ActAssign(a, t)
  BY <1>1, <1>3, AssignHeld
<1>4. CASE AutoLink
  BY <1>1, <1>4, AutoLinkHeld
<1>5. CASE Plan \/ OnIdle \/ (\E a \in Agents : OnCompletion(a))
  BY <1>1, <1>5, PlanHeld, OnIdleHeld, OnCompletionHeld
<1>6. CASE (\E a \in Agents : ActShutdown(a)) \/ Drain
  BY <1>1, <1>6, ActShutdownHeld, DrainHeld
<1>7. CASE ActRevisePlan \/ Synthesize
  BY <1>1, <1>7, ReviseHeld, SynthesizeHeld
<1>8. CASE NoSwarm \/ OnCheckpoint \/ AfterEvent \/ Checkpoint \/ ActMessage \/ ActDone
           \/ EndOfActions
  BY <1>1, <1>8, MoveOnHeld
<1> QED BY <1>2, <1>3, <1>4, <1>5, <1>6, <1>7, <1>8 DEF Lead

LEMMA SpawnKept ==
    ASSUME Shape, Early, NEW t \in Tasks \cup {NoTask}, SpawnAgent(t),
           actions' \in 0..MaxActions, lead \in {"spawn", "act"},
           UNCHANGED <<lead, copy, collected, signals, messages>>
    PROVE  Shape' /\ Early'
<1>1. PICK a \in Agents : SpawnMoves(a, t)
  BY SpawnAgentMoves DEF Shape
<1>2. UNCHANGED <<inbox, idleQ, sent>>
  BY DEF signals
<1>3. TypeInv'
  BY SpawnAgentTypes DEF Shape
<1>4. Shape'
  BY <1>1, <1>2, <1>3, SpawnShape
<1>5. Early'
  BY <1>1, <1>2, SpawnEarly
<1> QED BY <1>4, <1>5

LEMMA LeadKept ==
    ASSUME IInv, Obedient, Lead
    PROVE  Shape' /\ Early'
<1>1. Shape /\ Early /\ Held /\ TypeInv
  BY InvIs DEF Shape
<1>2. CASE SpawnInitial
  <2>1. PICK t \in Tasks \cup {NoTask} : SpawnAgent(t)
    BY <1>2 DEF SpawnInitial
  <2>2. actions' \in 0..MaxActions
    BY <1>1, <1>2, Split DEF SpawnInitial
  <2> QED BY <1>1, <1>2, <2>1, <2>2, SpawnKept DEF SpawnInitial
<1>3. CASE ActSpawn
  <2>1. PICK t \in Tasks \cup {NoTask} : SpawnAgent(LinkOf(t))
    BY <1>3 DEF ActSpawn
  <2>2. LinkOf(t) \in Tasks \cup {NoTask}
    BY LinkedTask DEF Orphaned
  <2>3. actions' \in 0..MaxActions /\ lead = "act"
    BY <1>1, <1>3, ActionCounted DEF ActSpawn
  <2> QED BY <1>1, <1>3, <2>1, <2>2, <2>3, SpawnKept DEF ActSpawn
<1>4. CASE \E a \in Agents, t \in Tasks \cup {NoTask} : ActAssign(a, t)
  BY <1>1, <1>4, AssignHeld, AssignShape, AssignEarly
<1>5. CASE Plan \/ AutoLink
  BY <1>1, <1>5, PlanShape, AutoLinkShape, MoveOnEarly, AutoLinkEarly
<1>6. CASE OnIdle \/ (\E a \in Agents : OnCompletion(a))
  BY <1>1, <1>6, OnIdleShape, OnIdleEarly, OnCompletionShape, OnCompletionEarly
<1>7. CASE (\E a \in Agents : ActShutdown(a)) \/ Drain
  BY <1>1, <1>7, ActShutdownShape, ActShutdownEarly, DrainShape, DrainEarly
<1>8. CASE NoSwarm \/ OnCheckpoint \/ AfterEvent \/ Checkpoint \/ ActMessage \/ ActRevisePlan
           \/ ActDone \/ EndOfActions \/ Synthesize
  BY <1>1, <1>8, NoSwarmShape, CheckpointShape, MoveOnShape, MoveOnEarly
<1> QED BY <1>2, <1>3, <1>4, <1>5, <1>6, <1>7, <1>8 DEF Lead

LEMMA LeadInv ==
    ASSUME IInv, Obedient, Lead
    PROVE  IInv'
<1>1. Held' /\ Tracked'
  BY LeadHeld, InvIs, HeldGiven, TrackedGiven DEF Gives, Shape
<1> QED BY <1>1, LeadKept, InvNext

LEMMA InvStutters ==
    ASSUME IInv, UNCHANGED vars
    PROVE  IInv'
<1>1. UNCHANGED <<lead, actions, copy, agentStates, taskMap, collected, tasks, idleQ, sent,
                  inbox, loop, messages, faults, handed, lost, cancelled>>
  BY DEF vars, leadVars, signals, bounds, choices
<1>2. Shape'
  <2>1. TypeInv'
    BY <1>1 DEF IInv, TypeInv, TypeOK, InLimits
  <2>2. Enrolled'
    BY <1>1 DEF IInv, Enrolled, Spawned, Fresh, Queued
  <2>3. Phases' /\ Mapped'
    BY <1>1 DEF IInv, Phases, Deciding, Spawned, Beginning, Queued, AtWork, Mapped, Idle
  <2> QED BY <2>1, <2>2, <2>3 DEF Shape
<1>3. Tracked'
  BY <1>1, InvIs DEF Tracked
<1>4. /\ \A a \in Agents, t \in Tasks : /\ HeldBy(a, t)' <=> HeldBy(a, t)
                                        /\ Has(a, t)' <=> Has(a, t)
      /\ Given' = Given /\ Shown' = Shown /\ (Deciding' <=> Deciding)
  BY <1>1 DEF HeldBy, Has, Alive, AtWork, Given, Shown, Deciding
<1>5. Held'
  BY <1>1, <1>4, InvIs DEF Held, Marked, Unheld, Sole
<1>6. Early'
  BY <1>1, InvIs DEF Early, Rested, AtWork, Alive, Queued
<1> QED BY <1>2, <1>3, <1>5, <1>6, InvNext

LEMMA Invariance ==
    ASSUME Obedient
    PROVE  Spec => []IInv
<1>1. Init => IInv
  BY Initially
<1>2. IInv /\ [Next]_vars => IInv'
  BY LeadInv, AgentInv, InvStutters DEF Next
<1> QED BY <1>1, <1>2, PTL DEF Spec

-----------------------------------------------------------------------------
(* The types do not depend on what the lead's LLM gives out.               *)
LEMMA LeadTypes ==
    ASSUME TypeInv, Lead
    PROVE  TypeInv'
<1>1. CASE SpawnInitial
  <2>1. PICK t \in Tasks \cup {NoTask} : MayGive(t) /\ SpawnAgent(t)
    BY <1>1 DEF SpawnInitial
  <2> QED BY <1>1, <2>1, Split, SpawnAgentTypes DEF SpawnInitial
<1>2. CASE ActSpawn
  <2>1. PICK t \in Tasks \cup {NoTask} : SpawnAgent(LinkOf(t))
    BY <1>2 DEF ActSpawn
  <2>2. LinkOf(t) \in Tasks \cup {NoTask} /\ actions' \in 0..MaxActions
    BY <1>2, LinkedTask, ActionCounted DEF ActSpawn, Orphaned
  <2> QED BY <1>2, <2>1, <2>2, SpawnAgentTypes DEF ActSpawn
<1>3. CASE Plan \/ AutoLink \/ OnIdle \/ (\E a \in Agents : OnCompletion(a)) \/ Checkpoint
  BY <1>3, PlanTypes, AutoLinkTypes, OnIdleTypes, OnCompletionTypes, CheckpointTypes
<1>4. CASE \/ \E a \in Agents, t \in Tasks \cup {NoTask} : ActAssign(a, t)
           \/ ActMessage \/ ActRevisePlan \/ \E a \in Agents : ActShutdown(a)
  BY <1>4, AssignTypes, MessageTypes, ReviseTypes, ActShutdownTypes
<1>5. CASE Drain \/ Synthesize
  BY <1>5, DrainTypes, SynthesizeTypes
<1>6. CASE NoSwarm \/ OnCheckpoint \/ AfterEvent \/ ActDone \/ EndOfActions
  BY <1>6, QuietTypes
<1> QED BY <1>1, <1>2, <1>3, <1>4, <1>5, <1>6 DEF Lead

(* The state is of its type, whatever the lead's LLM does; in particular   *)
(* no agent begins an iteration beyond its limit.                          *)
THEOREM TypesHold == Spec => []TypeOK
<1>1. Init => TypeInv
  BY Initially DEF IInv
<1>2. TypeInv /\ [Next]_vars => TypeInv'
  <2>1. ASSUME TypeInv, UNCHANGED vars PROVE TypeInv'
    BY <2>1 DEF vars, leadVars, signals, bounds, choices, TypeInv, TypeOK, InLimits
  <2> QED BY <2>1, LeadTypes, AgentSteps, AgentTypes DEF Next
<1>3. TypeInv => TypeOK
  BY DEF TypeInv
<1> QED BY <1>1, <1>2, <1>3, PTL DEF Spec

(* A task in progress is never forgotten: the lead's map names an agent    *)
(* whose result is still to come, so that its next idle signal or its end  *)
(* settles the task.                                                       *)
THEOREM NothingIsForgotten ==
    ASSUME Obedient
    PROVE  Spec => []InProgressIsTracked
<1>1. IInv => InProgressIsTracked
  <2> SUFFICES ASSUME IInv, Monitoring, faults = 0, NEW t \in Tasks, tasks[t] = "in_progress"
               PROVE  \E a \in Agents : taskMap[a] = t /\ a \notin collected
    BY DEF InProgressIsTracked
  <2>1. lead \notin {"synthesis", "done"}
    BY DEF Monitoring
  <2>2. PICK a \in Agents : taskMap[a] = t
    BY <2>1 DEF IInv, Tracked
  <2>3. a \notin collected
    BY <2>1, <2>2, Bounds DEF IInv, Mapped
  <2> QED BY <2>2, <2>3
<1> QED BY <1>1, Invariance, PTL

(* Whatever is given out is given by the decision in hand, for the first   *)
(* time, with what it depends on completed in the list it was shown.       *)
LEMMA GivenOutIs ==
    ASSUME IInv, Obedient, Next, NEW a \in Agents, NEW t \in Tasks, GivenOut(a, t)
    PROVE  Deciding /\ Givable(t)
<1>1. ~GivesNothing
  BY Bounds DEF GivenOut, GivesNothing
<1>2. Gives
  BY <1>1, LeadHeld, AgentInv DEF Next
<1>3. PICK G, n : GiveMoves(G, n)
  BY <1>2 DEF Gives
<1>4. a \in G /\ n[a] = t
  BY <1>3 DEF GiveMoves, GivenOut
<1> QED BY <1>3, <1>4 DEF GiveMoves

(* No task is given to an agent while another has it, unless the list had  *)
(* not learnt that it was given out, or shows it completed under the hands *)
(* of the first because the lead had cancelled it or a message had woken   *)
(* an agent behind the lead's back.                                        *)
THEOREM WorkIsNotDoubled ==
    ASSUME Obedient
    PROVE  Spec => OneAgentPerTask
<1>1. IInv /\ [Next]_vars =>
        [\A t \in Tasks : \A a, b \in Agents :
            a # b /\ GivenOut(a, t) /\ Holds(b, t) =>
                t \in lost \/ (copy[t] = "completed" /\ (t \in cancelled \/ messages > 0))]_vars
  <2> SUFFICES ASSUME IInv, Next, NEW t \in Tasks, NEW a \in Agents, NEW b \in Agents,
                      GivenOut(a, t), Holds(b, t), t \notin lost
               PROVE  copy[t] = "completed" /\ (t \in cancelled \/ messages > 0)
    OBVIOUS
  <2>1. HeldBy(b, t) /\ TypeInv
    BY HoldsIs DEF IInv
  <2>2. Deciding /\ t \in Shown /\ t \notin handed
    BY GivenOutIs DEF Givable
  <2>3. copy[t] # "pending"
    BY <2>1, <2>2 DEF IInv, Unheld
  <2>4. t \in cancelled \/ messages # 0
    BY <2>1, <2>2 DEF IInv, Sole, Has
  <2> QED BY <2>1, <2>2, <2>3, <2>4, Typed DEF Shown
<1> QED BY <1>1, Invariance, PTL DEF Spec, OneAgentPerTask

(* No task is given out while somebody has a task it depends on, unless    *)
(* the lead had cancelled that one in progress, the list had not learnt    *)
(* that it was given out, or the decision in hand has given it out again;  *)
(* as long as no message was sent.                                         *)
THEOREM OrderIsKept ==
    ASSUME Obedient
    PROVE  Spec => DepsHonoured
<1>1. IInv /\ [Next]_vars =>
        [\A t, d \in Tasks : \A a, b \in Agents :
            messages = 0 /\ d \in Deps[t] /\ GivenOut(a, t) /\ Holds(b, d) =>
                d \in lost \cup cancelled \/ (d \in handed /\ copy[d] = "completed")]_vars
  <2> SUFFICES ASSUME IInv, Next, NEW t \in Tasks, NEW d \in Tasks, NEW a \in Agents,
                      NEW b \in Agents, messages = 0, d \in Deps[t], GivenOut(a, t),
                      Holds(b, d), d \notin lost \cup cancelled
               PROVE  d \in handed /\ copy[d] = "completed"
    OBVIOUS
  <2>1. HeldBy(b, d)
    BY HoldsIs DEF IInv
  <2>2. Deciding /\ t \in Shown /\ t \notin Blocked
    BY GivenOutIs DEF Givable
  <2>3. copy[d] = "completed"
    BY <2>2 DEF Blocked, Shown, TaskHasUnmetDeps
  <2>4. d \in Shown => d \in handed
    BY <2>1, <2>2 DEF IInv, Sole, Has
  <2> QED BY <2>3, <2>4 DEF Shown
<1> QED BY <1>1, Invariance, PTL DEF Spec, DepsHonoured

(* The lead takes its decision to be done only when nobody works, but for  *)
(* agents told to stop or woken by a message.                              *)
THEOREM DoneWhenQuiet ==
    ASSUME Obedient
    PROVE  Spec => DoneOnlyWhenQuiet
<1>1. IInv /\ [Next]_vars =>
        [lead = "act" /\ lead' = "drain" =>
            \A a \in Agents : AtWork(a) => inbox[a].stop \/ messages > 0]_vars
  <2> SUFFICES ASSUME IInv, Next, lead = "act", lead' = "drain", NEW a \in Agents, AtWork(a),
                      ~inbox[a].stop, ~(messages > 0)
               PROVE  FALSE
    OBVIOUS
  <2>1. Running = {}
    <3>1. ASSUME NEW b \in Agents, Step(b) \/ Killed(b) PROVE FALSE
      BY <3>1, AgentSteps DEF IInv, AgentStep, leadOnly
    <3>2. CASE Lead
      BY <3>2 DEF Lead, NoSwarm, Plan, SpawnInitial, AutoLink, OnIdle, OnCompletion, OnCheckpoint,
         Quiet, AfterEvent, Checkpoint, ActSpawn, ActAssign, ActMessage, ActRevisePlan,
         ActShutdown, ActDone, EndOfActions, Drain, Synthesize
    <3> QED BY <3>1, <3>2 DEF Next
  <2>2. messages = 0
    BY Typed DEF IInv
  <2>3. Rested(a)
    BY <2>2 DEF IInv, Early
  <2>4. agentStates[a] # "none"
    BY NoLoopFields DEF IInv, Enrolled, Fresh, Spawned, AtWork
  <2>5. agentStates[a] \in {"idle", "completed"}
    BY <2>1, <2>4, Typed DEF IInv, Running
  <2> QED BY <2>3, <2>5 DEF Rested, Alive
<1> QED BY <1>1, Invariance, PTL DEF Spec, DoneOnlyWhenQuiet
=============================================================================
