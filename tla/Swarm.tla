-------------------------------- MODULE Swarm --------------------------------
(***************************************************************************)
(* The swarm workflow (workflows/swarm_workflow.go): SwarmWorkflow, in     *)
(* which an LLM, the lead, plans tasks, spawns agents and steers them by   *)
(* events, and AgentLoop, the child workflow each agent runs.              *)
(*                                                                         *)
(* They share no memory.  An agent tells the lead that it is idle and that *)
(* it has sent a message, by signals, and its result, through a coroutine  *)
(* of the parent that waits for the child.  The lead tells an agent of a   *)
(* new task, of a message that waits for it, or to shut down, by signals.  *)
(* What the lead knows of the agents is what the signals it has received   *)
(* say; the task list it decides on is a copy taken before the decision.   *)
(*                                                                         *)
(* The LLM may answer anything its protocol allows, and it may cancel any  *)
(* task.  With Obedient it gives out only tasks that the list it is shown  *)
(* has as pending or, for its CONTINUE retry, as completed, each once in a *)
(* decision (the one that a spawn without a name is linked to included),   *)
(* and only to agents it sees idle, as its protocol tells it               *)
(* (llm_service/roles/swarm/lead_protocol.py:131-136, 447 "assign_task     *)
(* (reuse idle agent) ONLY when").  Tools, files, mailboxes, messages of   *)
(* the user, the I/O rounds of a decision and what results and answers say *)
(* are left out, and every idle signal carries a report.  Temporal, which  *)
(* is not in the repository, is taken at its documented behaviour.         *)
(*                                                                         *)
(* One step of the lead takes it from one point where it waits for others  *)
(* to the next: what it awaits in between, the task list and the delivery  *)
(* of signals, is touched by nobody else.                                  *)
(***************************************************************************)
EXTENDS Integers, Sequences, TaskList

CONSTANTS
    NoTask,
    Plans,            \* the task sets the lead may plan with
    MaxAgents,        \* cfg.SwarmMaxAgents
    MaxIterations,    \* cfg.SwarmMaxIterationsPerAgent
    PerReassign,      \* iterationsPerReassign
    TotalIterations,  \* maxTotalIterations
    MaxReassignments, \* maxReassignments
    Obedient,         \* the LLM keeps to its protocol when it gives out tasks
    MaxActions,       \* bound: actions in one decision
    MaxTroubles       \* bound: see Troubles

ASSUME SwarmAssumption ==
    /\ NoTask \notin Tasks
    /\ Plans \subseteq SUBSET Tasks
    /\ MaxAgents \in Nat \ {0} /\ MaxIterations \in Nat \ {0}
    /\ {PerReassign, TotalIterations, MaxReassignments} \subseteq Nat
    /\ {MaxActions, MaxTroubles} \subseteq Nat
    /\ Obedient \in BOOLEAN

Agents == 1..MaxAgents       \* in the order they are spawned

VARIABLES
    \* SwarmWorkflow
    lead,         \* where it stands
    actions,      \* actions the decision in hand may still hold
    copy,         \* planTasks, currentTaskList: what the decision is taken on
    handed,       \* tasks the decision in hand has given out: the LLM's own words
    agentStates,  \* its idea of each agent
    taskMap,      \* agentTaskMap: the task it has given each agent
    collected,    \* results: the agents it has the result of
    tasks,        \* the task list in Redis
    \* signals
    idleQ,        \* agent-idle: the agents, in the order they were sent
    sent,         \* agent-message-sent, by recipient
    inbox,        \* new-task, shutdown and peer-message of each agent
    \* AgentLoop
    loop,         \* where it stands, its task, iterations, limit, reassignments, result
    \* not in the code
    messages, faults,   \* messages to agents, failed activities
    lost,         \* tasks the list was not told of, or not that they were given out
    cancelled     \* tasks the lead cancelled while they were in progress

leadVars == <<copy, agentStates, taskMap, collected>>
signals == <<idleQ, sent, inbox>>
choices == <<handed, cancelled>>
bounds == <<messages, faults>>
vars == <<lead, actions, leadVars, tasks, signals, loop, bounds, choices, lost>>

NoLoop == [at |-> "none", work |-> NoTask, iter |-> 0, limit |-> MaxIterations,
           again |-> 0]
NoSignals == [tasks |-> <<>>, stop |-> FALSE, peer |-> 0]

Init ==
    /\ lead = "plan" /\ actions = 0
    /\ copy = EmptyList /\ tasks = EmptyList
    /\ agentStates = [a \in Agents |-> "none"]
    /\ taskMap = [a \in Agents |-> NoTask]
    /\ collected = {}
    /\ idleQ = <<>> /\ sent = [a \in Agents |-> 0]
    /\ inbox = [a \in Agents |-> NoSignals]
    /\ loop = [a \in Agents |-> NoLoop]
    /\ messages = 0 /\ faults = 0
    /\ handed = {} /\ lost = {} /\ cancelled = {}

Spawned == {a \in Agents : agentStates[a] # "none"}
Running == {a \in Agents : agentStates[a] = "running"}
Idle == {a \in Agents : agentStates[a] = "idle"}
AllCollected == Spawned \subseteq collected       \* completedCount >= totalExpected
Given == {taskMap[a] : a \in Agents} \ {NoTask}
GivenTo(S) == {taskMap[a] : a \in S} \ {NoTask}
AtWork(a) == loop[a].at \in {"begin", "llm"}
Alive(a) == AtWork(a) \/ loop[a].at = "idle"
Ended(a) == loop[a].at = "closed" /\ a \notin collected

-----------------------------------------------------------------------------
(* Messages to agents, task list activities that fail, and tasks cancelled *)
(* in progress, together.                                                  *)
Troubles == messages + faults + Cardinality(cancelled)

(* The lead's activities on the task list may fail: p2pCtx gives them one  *)
(* attempt, and their errors are ignored.                                  *)
SetStatus(S, to) ==
    \E failed \in SUBSET S :
        /\ Troubles + Cardinality(failed) <= MaxTroubles
        /\ faults' = faults + Cardinality(failed)
        /\ tasks' = UpdateTaskStatus(tasks, S \ failed, to)
        /\ lost' = IF to = "in_progress" THEN lost \cup failed ELSE lost

Fails == Troubles < MaxTroubles /\ faults' = faults + 1

-----------------------------------------------------------------------------
(* SwarmWorkflow: the plan and the first agents *)

NoSwarm ==
    /\ lead = "plan"
    /\ lead' = "done"
    /\ UNCHANGED <<actions, copy, agentStates, taskMap, collected, tasks, signals, loop,
                   bounds, choices, lost>>

(* planTasks, the lead's own list, holds what it asked for even when       *)
(* InitTaskList has failed.                                                *)
Plan ==
    /\ lead = "plan"
    /\ \E S \in Plans :
        /\ copy' = InitTaskList(EmptyList, S)
        /\ \/ tasks' = InitTaskList(tasks, S) /\ UNCHANGED <<faults, lost>>
           \/ S # {} /\ Fails /\ lost' = lost \cup S /\ UNCHANGED tasks
    /\ lead' = "spawn"
    /\ UNCHANGED <<actions, agentStates, taskMap, collected, signals, loop, messages,
                   choices>>

Blocked == {t \in Tasks : TaskHasUnmetDeps(t, copy)}
Shown == {t \in Tasks : copy[t] \in {"pending", "completed"}}
MayGive(t) == t \notin Blocked /\ (Obedient => t \in (Shown \ handed) \cup {NoTask})

HandOut(t) == handed' = handed \cup ({t} \ {NoTask}) /\ UNCHANGED cancelled

(* spawnAgent: the child is started, then its task is marked.              *)
SpawnAgent(t) ==
    LET a == Cardinality(Spawned) + 1
    IN  /\ a \in Agents
        /\ agentStates' = [agentStates EXCEPT ![a] = "running"]
        /\ taskMap' = [taskMap EXCEPT ![a] = t]
        /\ loop' = [loop EXCEPT ![a] = [NoLoop EXCEPT !.at = "begin", !.work = t]]
        /\ SetStatus({t} \ {NoTask}, "in_progress")
        /\ HandOut(t)

SpawnInitial ==
    /\ lead = "spawn"
    /\ \E t \in Tasks \cup {NoTask} : MayGive(t) /\ SpawnAgent(t)
    /\ UNCHANGED <<lead, actions, copy, collected, signals, messages>>

Unlinked == {a \in Spawned : taskMap[a] = NoTask}
Orphaned_Claimed == {t \in Tasks : copy[t] = "pending"} \ Blocked
Orphaned == {t \in Tasks : copy[t] = "pending" /\ t \notin Given} \ Blocked

(* Agents without a task and planned tasks without an agent are paired     *)
(* when there are as many of each, and these are the tasks they work on:   *)
(* the lead only forgot to name them.                                      *)
Pair ==
    \E pairing \in [Unlinked -> Orphaned] :
        /\ \A t \in Orphaned : \E a \in Unlinked : pairing[a] = t
        /\ taskMap' = [a \in Agents |-> IF a \in Unlinked THEN pairing[a] ELSE taskMap[a]]
        /\ loop' = [a \in Agents |-> IF a \in Unlinked /\ AtWork(a)
                                     THEN [loop[a] EXCEPT !.work = pairing[a]] ELSE loop[a]]
        /\ SetStatus(Orphaned, "in_progress")

AutoLink ==
    /\ lead = "spawn"
    /\ IF Unlinked # {} /\ Cardinality(Unlinked) = Cardinality(Orphaned)
       THEN Pair
       ELSE UNCHANGED <<taskMap, loop, tasks, faults, lost>>
    /\ copy' = EmptyList /\ handed' = {}
    /\ IF Spawned = {}
       THEN lead' = "done" ELSE lead' = "wait"
    /\ UNCHANGED <<actions, agentStates, collected, signals, messages, cancelled>>

-----------------------------------------------------------------------------
(* SwarmWorkflow: the events.  The selector takes the first that is ready, *)
(* in the order they were added: idle signals, results, the checkpoint.    *)
(* Then the agents that are idle in the lead's eyes, and have been sent a  *)
(* message, are woken; the other signals are dropped.                      *)

Forward(to) ==
    /\ inbox' = [a \in Agents |-> IF a \in to /\ Alive(a)
                                  THEN [inbox[a] EXCEPT !.peer = @ + sent[a]] ELSE inbox[a]]
    /\ sent' = [a \in Agents |-> 0]

(* All the idle signals that are there are taken at once, the messages     *)
(* after the first of them.                                                *)
OnIdle ==
    /\ lead = "wait" /\ ~AllCollected /\ idleQ # <<>>
    /\ LET S == {idleQ[i] : i \in 1..Len(idleQ)}
       IN  /\ agentStates' = [a \in Agents |-> IF a \in S THEN "idle" ELSE agentStates[a]]
           /\ SetStatus(GivenTo(S), "completed")
           /\ taskMap' = [a \in Agents |-> IF a \in S THEN NoTask ELSE taskMap[a]]
    /\ Forward(Idle \cup {Head(idleQ)})
    /\ idleQ' = <<>>
    /\ lead' = "event"
    /\ UNCHANGED <<actions, copy, collected, loop, messages, choices>>

Collect(a) ==
    /\ collected' = collected \cup {a}
    /\ SetStatus(GivenTo({a}), "completed")
    /\ taskMap' = [taskMap EXCEPT ![a] = NoTask]

OnCompletion(a) ==
    /\ lead = "wait" /\ idleQ = <<>> /\ Ended(a)
    /\ Collect(a)
    /\ agentStates' = [agentStates EXCEPT ![a] = "completed"]
    /\ Forward(Idle)
    /\ lead' = "event"
    /\ UNCHANGED <<actions, copy, idleQ, loop, messages, choices>>

(* When the lead is asked for a decision it may fail to give one.          *)
Ask(list) ==
    \/ lead' = "wait" /\ UNCHANGED <<actions, copy>>
    \/ lead' = "act" /\ actions' = MaxActions /\ copy' = list

(* The budget of calls, tokens or time may be used up, or all results be   *)
(* in; else the list is read and the lead asked.  A read that fails leaves *)
(* an empty list.                                                          *)
AfterEvent ==
    /\ lead = "event"
    /\ \/ lead' = "synthesis" /\ UNCHANGED <<actions, copy, faults>>
       \/ ~AllCollected /\ Ask(tasks) /\ UNCHANGED faults
       \/ ~AllCollected /\ Ask(EmptyList) /\ Fails
    /\ UNCHANGED <<agentStates, taskMap, collected, tasks, signals, loop, messages,
                   choices, lost>>

(* Every two minutes without an event: nobody idle and nothing to hand     *)
(* out, the lead is left alone; nobody running and nothing to hand out,    *)
(* the idle are shut down; their reports will do for results.              *)
Finished(list) == Running = {} /\ Idle # {} /\ ~HasAssignablePendingTask(list)

Shutdown ==
    inbox' = [a \in Agents |-> IF Alive(a) /\ agentStates[a] # "completed"
                               THEN [inbox[a] EXCEPT !.stop = TRUE] ELSE inbox[a]]

Quiet == lead = "wait" /\ idleQ = <<>> /\ ~AllCollected /\ ~\E a \in Agents : Ended(a)

OnCheckpoint ==
    /\ Quiet
    /\ Forward(Idle)
    /\ lead' = "checkpoint"
    /\ UNCHANGED <<actions, leadVars, tasks, idleQ, loop, bounds, choices, lost>>

WrapUp ==
    /\ Shutdown
    /\ lead' = "synthesis"

Checkpoint ==
    /\ lead = "checkpoint"
    /\ \E list \in {tasks, EmptyList} :
        /\ \/ list = tasks /\ UNCHANGED faults
           \/ list = EmptyList /\ Fails
        /\ \/ Finished(list) /\ WrapUp
           \/ /\ ~Finished(list)
              /\ lead' = IF Idle = {} /\ ~HasAssignablePendingTask(list) THEN "wait" ELSE "event"
              /\ UNCHANGED inbox
           \/ lead' = "synthesis" /\ UNCHANGED inbox        \* no budget
    /\ UNCHANGED <<actions, copy, agentStates, taskMap, collected, tasks, idleQ, sent,
                   loop, messages, choices, lost>>

-----------------------------------------------------------------------------
(* SwarmWorkflow: the actions of a decision *)

Act == lead = "act" /\ actions > 0 /\ actions' = actions - 1

(* A spawn that names no task gets the one task that is left, if just one  *)
(* is.                                                                     *)
LinkOf(t) == IF t = NoTask /\ Cardinality(Orphaned) = 1
             THEN CHOOSE o \in Orphaned : TRUE ELSE t

ActSpawn ==
    /\ Act
    /\ \E t \in Tasks \cup {NoTask} : MayGive(t) /\ SpawnAgent(LinkOf(t))
    /\ UNCHANGED <<lead, copy, collected, signals, messages>>

(* The list and the map are changed before the agent is signalled, and     *)
(* whether the signal arrives is not looked at.                            *)
ActAssign(a, t) ==
    /\ Act
    /\ a \in Spawned
    /\ MayGive(t) /\ (Obedient => t # NoTask /\ a \in Idle)
    /\ taskMap' = [taskMap EXCEPT ![a] = IF t = NoTask THEN @ ELSE t]
    /\ SetStatus({t} \ {NoTask}, "in_progress") /\ HandOut(t)
    /\ inbox' = IF Alive(a) THEN [inbox EXCEPT ![a].tasks = Append(@, t)] ELSE inbox
    /\ agentStates' = [agentStates EXCEPT ![a] = "running"]
    /\ UNCHANGED <<lead, copy, collected, idleQ, sent, loop, messages>>

(* send_message and broadcast: the addressees that are idle are woken.     *)
ActMessage ==
    /\ Act
    /\ Troubles < MaxTroubles /\ messages' = messages + 1
    /\ \E to \in SUBSET Idle \ {{}} :
        inbox' = [a \in Agents |-> IF a \in to /\ Alive(a)
                                   THEN [inbox[a] EXCEPT !.peer = @ + 1] ELSE inbox[a]]
    /\ UNCHANGED <<lead, leadVars, tasks, idleQ, sent, loop, faults, choices, lost>>

(* revise_plan: a task is created, or cancelled, which completes it        *)
(* whatever its status; an agent that works on it is not told.             *)
ActRevisePlan ==
    /\ Act
    /\ \E t \in Tasks :
        \/ /\ tasks[t] = "absent" /\ tasks' = CreateTask(tasks, t)
           /\ UNCHANGED <<faults, lost, cancelled>>
        \/ /\ tasks[t] = "in_progress" => Troubles < MaxTroubles
           /\ SetStatus({t}, "completed")
           /\ cancelled' = cancelled \cup
                    {o \in {t} : tasks[o] = "in_progress" /\ tasks'[o] # tasks[o]}
    /\ UNCHANGED <<lead, leadVars, signals, loop, messages, handed>>

ActShutdown_Unsettled(a) ==
    /\ Act
    /\ a \in Spawned
    /\ inbox' = IF Alive(a) THEN [inbox EXCEPT ![a].stop = TRUE] ELSE inbox
    /\ agentStates' = [agentStates EXCEPT ![a] = "completed"]
    /\ taskMap' = [taskMap EXCEPT ![a] = NoTask]
    /\ UNCHANGED <<lead, copy, collected, tasks, idleQ, sent, loop, bounds, choices, lost>>

ActShutdown(a) ==
    /\ Act
    /\ a \in Spawned
    /\ inbox' = IF Alive(a) THEN [inbox EXCEPT ![a].stop = TRUE] ELSE inbox
    /\ agentStates' = [agentStates EXCEPT ![a] = "completed"]
    /\ SetStatus(GivenTo({a}), "completed")
    /\ taskMap' = [taskMap EXCEPT ![a] = NoTask]
    /\ copy' = [t \in Tasks |-> IF t \in GivenTo({a}) /\ copy[t] # "absent"
                                THEN "completed" ELSE copy[t]]
    /\ UNCHANGED <<lead, collected, idleQ, sent, loop, messages, choices>>

ActDone_Unguarded ==
    /\ Act
    /\ Shutdown
    /\ lead' = "drain" /\ handed' = {}
    /\ UNCHANGED <<leadVars, tasks, idleQ, sent, loop, bounds, cancelled, lost>>

(* done or reply: passed over while the lead sees an agent running.        *)
ActDone ==
    /\ Act
    /\ Running = {}
    /\ Shutdown
    /\ lead' = "drain" /\ handed' = {}
    /\ UNCHANGED <<leadVars, tasks, idleQ, sent, loop, bounds, cancelled, lost>>

(* No action is left; the loop ends too when the workflow's history has    *)
(* grown long.                                                             *)
EndOfActions ==
    /\ lead = "act"
    /\ lead' \in {"wait", "synthesis"}
    /\ actions' = 0 /\ copy' = EmptyList /\ handed' = {}
    /\ UNCHANGED <<agentStates, taskMap, collected, tasks, signals, loop, bounds,
                   cancelled, lost>>

-----------------------------------------------------------------------------
(* SwarmWorkflow: the end *)

(* The results that come within a minute are taken in; idle signals are    *)
(* thrown away.                                                            *)
Drain ==
    /\ lead = "drain"
    /\ \/ /\ \E a \in Agents : Ended(a) /\ Collect(a)
          /\ UNCHANGED <<lead, idleQ>>
       \/ /\ ~AllCollected /\ idleQ # <<>>
          /\ idleQ' = Tail(idleQ)
          /\ UNCHANGED <<lead, collected, taskMap, tasks, faults, lost>>
       \/ /\ lead' = "synthesis"
          /\ UNCHANGED <<idleQ, collected, taskMap, tasks, faults, lost>>
    /\ UNCHANGED <<actions, copy, agentStates, sent, inbox, loop, messages, choices>>

Synthesize ==
    /\ lead = "synthesis"
    /\ \/ SetStatus(Unfinished(tasks), "completed")
       \/ Fails /\ UNCHANGED <<tasks, lost>>
    /\ lead' = "done"
    /\ actions' = 0 /\ copy' = EmptyList
    /\ UNCHANGED <<agentStates, taskMap, collected, signals, loop, messages, choices>>

-----------------------------------------------------------------------------
(* AgentLoop *)

Closed == [NoLoop EXCEPT !.at = "closed"]

Close(a) ==
    /\ loop' = [loop EXCEPT ![a] = Closed]
    /\ inbox' = [inbox EXCEPT ![a] = NoSignals]

Advance_KeepsCount(a, l) ==
    loop' = [loop EXCEPT ![a] = IF l.iter + 1 < l.limit THEN [l EXCEPT !.at = "begin"]
                                ELSE Closed]

(* The for loop: the next iteration, or the partial result at the limit.   *)
Advance(a, l) ==
    loop' = [loop EXCEPT ![a] = IF l.iter + 1 < l.limit
                                THEN [l EXCEPT !.at = "begin", !.iter = @ + 1]
                                ELSE Closed]

leadOnly == <<lead, actions, leadVars, tasks, faults, choices, lost>>

(* The shutdown check before an iteration; what is then read (mailbox,     *)
(* workspace, task list) only goes into the prompt.                        *)
BeginIteration(a) ==
    /\ loop[a].at = "begin"
    /\ IF inbox[a].stop
       THEN Close(a)
       ELSE loop' = [loop EXCEPT ![a].at = "llm"] /\ UNCHANGED inbox
    /\ UNCHANGED <<leadOnly, idleQ, sent, messages>>

LastIteration(a) == loop[a].iter + 1 = loop[a].limit

(* A tool call, or data published.                                         *)
StepWorks(a) ==
    /\ loop[a].at = "llm" /\ ~LastIteration(a)
    /\ Advance(a, loop[a])
    /\ UNCHANGED <<leadOnly, signals, messages>>

StepSends(a, b) ==
    /\ loop[a].at = "llm" /\ ~LastIteration(a)
    /\ Troubles < MaxTroubles /\ messages' = messages + 1
    /\ sent' = [sent EXCEPT ![b] = @ + 1]
    /\ Advance(a, loop[a])
    /\ UNCHANGED <<leadOnly, idleQ, inbox>>

(* The LLM step fails, or three iterations without progress or with        *)
(* failing tools have gone by: when exactly is left open.                  *)
StepReturns(a) ==
    /\ loop[a].at = "llm"
    /\ Close(a)
    /\ UNCHANGED <<leadOnly, idleQ, sent, messages>>

(* idle, or done, which is turned into idle, as is any action in the last  *)
(* iteration: the lead is told, unless a shutdown has come meanwhile.  The *)
(* task is behind it: one that a message wakes has no new one.             *)
StepIdles(a) ==
    /\ loop[a].at = "llm"
    /\ \/ inbox[a].stop /\ Close(a) /\ UNCHANGED idleQ
       \/ /\ inbox[a].stop => LastIteration(a)
          /\ loop' = [loop EXCEPT ![a].at = "idle", ![a].work = NoTask]
          /\ idleQ' = Append(idleQ, a)
          /\ UNCHANGED inbox
    /\ UNCHANGED <<leadOnly, sent, messages>>

(* The idle selector: a new task before a shutdown, before a message,      *)
(* before the ten minutes are over.  Past maxReassignments the limit is    *)
(* not extended, but the task has taken the place of the old one.          *)
Reassigned(l, t) ==
    LET longer == IF l.limit + PerReassign > TotalIterations
                  THEN TotalIterations ELSE l.limit + PerReassign
        limit == IF l.again < MaxReassignments /\ longer > l.limit THEN longer ELSE l.limit
    IN  [l EXCEPT !.work = t, !.limit = limit, !.again = @ + 1]

WakeNewTask(a) ==
    /\ loop[a].at = "idle" /\ inbox[a].tasks # <<>>
    /\ LET l == Reassigned(loop[a], Head(inbox[a].tasks))
       IN  IF l.iter + 1 < l.limit
           THEN Advance(a, l) /\ inbox' = [inbox EXCEPT ![a].tasks = Tail(@)]
           ELSE Close(a)
    /\ UNCHANGED <<leadOnly, idleQ, sent, messages>>

WakeShutdown(a) ==
    /\ loop[a].at = "idle" /\ inbox[a].tasks = <<>>
    /\ inbox[a].stop \/ inbox[a].peer = 0         \* or the timer, with nothing else
    /\ Close(a)
    /\ UNCHANGED <<leadOnly, idleQ, sent, messages>>

WakePeer(a) ==
    /\ loop[a].at = "idle" /\ inbox[a].tasks = <<>> /\ ~inbox[a].stop /\ inbox[a].peer > 0
    /\ IF LastIteration(a)
       THEN Close(a)
       ELSE Advance(a, loop[a]) /\ inbox' = [inbox EXCEPT ![a].peer = @ - 1]
    /\ UNCHANGED <<leadOnly, idleQ, sent, messages>>

(* WorkflowExecutionTimeout of the child, or the end of its parent.        *)
Killed(a) ==
    /\ Alive(a)
    /\ Close(a)
    /\ UNCHANGED <<leadOnly, idleQ, sent, messages>>

-----------------------------------------------------------------------------
Lead ==
    \/ NoSwarm \/ Plan \/ SpawnInitial \/ AutoLink
    \/ OnIdle \/ (\E a \in Agents : OnCompletion(a)) \/ OnCheckpoint
    \/ AfterEvent \/ Checkpoint
    \/ ActSpawn \/ (\E a \in Agents, t \in Tasks \cup {NoTask} : ActAssign(a, t))
    \/ ActMessage \/ ActRevisePlan \/ (\E a \in Agents : ActShutdown(a)) \/ ActDone
    \/ EndOfActions \/ Drain \/ Synthesize

Step(a) ==
    \/ BeginIteration(a) \/ StepWorks(a)
    \/ (\E b \in Spawned \ {a} : StepSends(a, b))
    \/ StepReturns(a)
    \/ StepIdles(a) \/ WakeNewTask(a) \/ WakeShutdown(a) \/ WakePeer(a)

Next == Lead \/ \E a \in Agents : Step(a) \/ Killed(a)

Spec == Init /\ [][Next]_vars
(* Temporal runs what can run; the idle timer ends an agent's wait.        *)
FairSpec == Spec /\ WF_vars(Lead) /\ \A a \in Agents : WF_vars(Step(a))

-----------------------------------------------------------------------------
(* Properties *)

TypeOK ==
    /\ lead \in {"plan", "spawn", "wait", "event", "checkpoint", "act", "drain", "synthesis",
                 "done"}
    /\ actions \in 0..MaxActions
    /\ copy \in TaskLists /\ tasks \in TaskLists
    /\ agentStates \in [Agents -> {"none", "running", "idle", "completed"}]
    /\ taskMap \in [Agents -> Tasks \cup {NoTask}]
    /\ collected \subseteq Agents
    /\ idleQ \in Seq(Agents) /\ sent \in [Agents -> Nat]
    /\ inbox \in [Agents -> [tasks : Seq(Tasks \cup {NoTask}), stop : BOOLEAN, peer : Nat]]
    /\ \A a \in Agents :
        /\ loop[a].at \in {"none", "begin", "llm", "idle", "closed"}
        /\ loop[a].work \in Tasks \cup {NoTask}
        /\ loop[a].limit \in 1..(IF TotalIterations > MaxIterations THEN TotalIterations
                                 ELSE MaxIterations)
        /\ loop[a].iter \in 0..(loop[a].limit - 1)
    /\ {messages, faults} \subseteq Nat
    /\ {handed, lost, cancelled} \subseteq SUBSET Tasks

(* The agent works on the task, or will when it next listens; one that has *)
(* been told to stop does not count.                                       *)
Holds(a, t) ==
    /\ Alive(a) /\ ~inbox[a].stop
    /\ loop[a].work = t \/ \E i \in 1..Len(inbox[a].tasks) : inbox[a].tasks[i] = t
GivenOut(a, t) == taskMap'[a] = t /\ taskMap[a] # t
Monitoring == lead \in {"wait", "event", "checkpoint", "act", "drain"}

(* A task that is in progress is never forgotten: while the lead runs its  *)
(* loop there is an agent whose next idle signal or result will settle it. *)
InProgressIsTracked ==
    Monitoring /\ faults = 0 =>
        \A t \in Tasks : tasks[t] = "in_progress" =>
            \E a \in Agents : taskMap[a] = t /\ a \notin collected

(* No task is given to an agent while another has it, unless the list did  *)
(* not learn that it was given out, or the lead gives it again because the *)
(* list shows it completed under the hands of the first: the lead had      *)
(* cancelled it, or an older idle signal of an agent that a message had    *)
(* woken had completed it.  So it is however stale the lead's view of the  *)
(* agents, and however often forgotten tasks are paired.                   *)
OneAgentPerTask ==
    [][\A t \in Tasks : \A a, b \in Agents :
        a # b /\ GivenOut(a, t) /\ Holds(b, t) =>
            t \in lost \/ (copy[t] = "completed" /\ (t \in cancelled \/ messages > 0))]_vars

(* The lead is done only when nobody works, but for agents that have been  *)
(* told to stop, or that a message has woken behind its back.              *)
DoneOnlyWhenQuiet ==
    [][lead = "act" /\ lead' = "drain" =>
        \A a \in Agents : AtWork(a) => inbox[a].stop \/ messages > 0]_vars

(* The swarm ends and leaves no agent behind, without any help from the    *)
(* budget: iterations are limited through every reassignment.              *)
EverythingEnds == <>[](lead = "done" /\ \A a \in Agents : ~Alive(a))

(* No task is given out while somebody has a task it depends on, whatever  *)
(* the lead spawns, assigns or reads late, unless the lead has cancelled   *)
(* that one in progress, the list had not learnt of it, or the decision    *)
(* has itself given it out again after the list was read; as long as no    *)
(* message wakes an idle agent behind the lead's back.                     *)
DepsHonoured ==
    [][\A t, d \in Tasks : \A a, b \in Agents :
        messages = 0 /\ d \in Deps[t] /\ GivenOut(a, t) /\ Holds(b, d) =>
            d \in lost \cup cancelled \/ (d \in handed /\ copy[d] = "completed")]_vars
=============================================================================
