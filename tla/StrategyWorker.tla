--------------------------- MODULE StrategyWorker ---------------------------
(***************************************************************************)
(* The Python strategy worker serving the RunStrategy, Cancel and          *)
(* ApproveDecision RPCs of one workflow id (servicer.py, runtime.py,       *)
(* budget.py, tools/loop.py and the strategies' graphs).                   *)
(*                                                                         *)
(* Everything runs in one asyncio loop, so a step below is the code from   *)
(* one suspension point to the next: an event published, a model or a tool *)
(* awaited, an event waited for.  The caller's own turns, the lead's, come *)
(* one after the other: sample has one, research plans, gathers, verifies  *)
(* and writes, swarm first makes a board of tasks.  dag and swarm fan out  *)
(* to agents, wave by wave (asyncio.gather), before the lead writes the    *)
(* answer.  asyncio.gather does not cancel the siblings of an agent that   *)
(* raises: they run on after the call has been answered.                   *)
(*                                                                         *)
(* Tools that need an approval of their own are in ToolApproval; here a    *)
(* tool is awaited and comes back.                                         *)
(***************************************************************************)
EXTENDS Integers, Sequences, FiniteSets, Functions

CONSTANTS
    Calls,        \* RunStrategy requests that carry the workflow id
    NoCall,
    Kinds,        \* the strategies they ask for
    Agents,       \* ids of the planned subtasks, of the tasks of the board
    Lead,         \* the turns of the caller itself
    Deps,         \* Deps[x]: the subtasks x depends on
    Budget,       \* request.budget.token_budget, 0 for none
    MaxUsage,     \* bound: the tokens one model reply uses
    MaxRounds,    \* max_rounds of run_llm_with_tools
    WorkerRounds, \* _WORKER_ROUNDS of swarm.py: turns, and rounds of a turn
    MaxReady,     \* _MAX_READY of swarm.py: workers in one wave
    WaveLimit,    \* the safety bound on the waves of "dag" and of "swarm"
    MaxCancels    \* bound: the Cancel RPCs that arrive

Strategies == {"sample", "dag", "research", "swarm"}

ASSUME ConstantsAssumption ==
    /\ NoCall \notin Calls
    /\ Kinds \subseteq Strategies
    /\ IsFiniteSet(Agents)
    /\ Lead \notin Agents
    /\ Deps \in [Agents -> SUBSET Agents]
    /\ Budget \in Nat
    /\ MaxUsage \in Nat
    /\ MaxRounds \in Nat \ {0}
    /\ WorkerRounds \in 1 .. MaxRounds
    /\ MaxReady \in Nat \ {0}
    /\ WaveLimit \in [{"dag", "swarm"} -> Nat]
    /\ MaxCancels \in Nat

Actors == Agents \cup {Lead}

VARIABLES
    registered,     \* TaskRegistry._tasks[workflow_id]
    pc,             \* where the coroutine of RunStrategy stands
    kind,           \* TaskState.strategy
    gated,          \* TaskState.require_approval
    status,         \* TaskState.status
    code,           \* TaskState.error_code
    cancelEvent,    \* TaskState.cancel_event
    approval,       \* TaskState.approval; approval_event is set iff it is not "none"
    allowDangerous, \* TaskState.allow_dangerous_tools
    tokens,         \* TaskState.tokens_used
    actor,          \* where each agent, and the lead, stands
    rounds,         \* rounds of run_llm_with_tools each has begun
    raised,         \* the first exception an agent raised, as gather keeps it
    stage,          \* which of its turns the lead takes, or takes next
    waves,          \* waves launched: the safety counter of execute_subtasks, workers
    turns,          \* turns of each worker of a swarm that came back empty
    answer,         \* the response of the call: its error code and tokens
    cancelling,     \* Cancel RPCs suspended in publish(WORKFLOW_FAILED)
    cancels,        \* Cancel RPCs so far
    stream          \* the terminal events of the workflow's stream, in order

task == <<kind, gated, status, code, cancelEvent, approval, allowDangerous, tokens>>
progress == <<stage, waves, turns>>
graph == <<actor, rounds, raised, progress>>
rpc == <<cancelling, cancels>>
vars == <<registered, pc, task, graph, answer, rpc, stream>>

NoAnswer == [code |-> "none", tokens |-> 0]
NoExc    == [type |-> "none", used |-> 0]

Statuses  == {"absent", "running", "waiting_approval", "completed", "failed",
              "cancelled", "timeout"}
Codes     == {"OK", "CANCELLED", "TIMEOUT", "BUDGET_EXCEEDED", "STRATEGY_FAILED",
              "UNKNOWN"}
Positions == {"idle", "pausing", "approval", "planned", "agents", "lead", "output",
              "completed", "failing", "answered", "aborted"}
Stages    == {"plan", "investigate", "verify", "gaps", "final"}
Places    == {"idle", "ready", "starting", "thinking", "acting", "done", "raised"}

Excs == {"InterruptedError", "BudgetExceeded", "Exception"}

Init ==
    /\ registered = NoCall
    /\ pc = [c \in Calls |-> "idle"]
    /\ kind = [c \in Calls |-> "sample"]
    /\ gated = [c \in Calls |-> FALSE]
    /\ status = [c \in Calls |-> "absent"]
    /\ code = [c \in Calls |-> "OK"]
    /\ cancelEvent = [c \in Calls |-> FALSE]
    /\ approval = [c \in Calls |-> "none"]
    /\ allowDangerous = [c \in Calls |-> FALSE]
    /\ tokens = [c \in Calls |-> 0]
    /\ actor = [c \in Calls |-> [x \in Actors |-> "idle"]]
    /\ rounds = [c \in Calls |-> [x \in Actors |-> 0]]
    /\ raised = [c \in Calls |-> NoExc]
    /\ stage = [c \in Calls |-> "final"]
    /\ waves = [c \in Calls |-> 0]
    /\ turns = [c \in Calls |-> [x \in Actors |-> 0]]
    /\ answer = [c \in Calls |-> NoAnswer]
    /\ cancelling = [c \in Calls |-> 0]
    /\ cancels = 0
    /\ stream = <<>>

-----------------------------------------------------------------------------
(* Helpers of the code. *)

OverBudget_Unset(n)    == FALSE                      \* the request's budget is not copied
OverBudget_OffByOne(n) == Budget > 0 /\ n > Budget
OverBudget(n) == Budget > 0 /\ n >= Budget

(* The agents whose dependencies are done, or, when no dependency can be   *)
(* met any more, the first one left.                                       *)
NextWave(done) ==
    LET left  == Agents \ done
        ready == {x \in left : Deps[x] \subseteq done}
    IN IF ready # {} THEN ready ELSE {CHOOSE x \in left : TRUE}

(* A swarm starts one task of each owner, in the order of the board, which *)
(* the model wrote: any few of them.                                       *)
Waves(k, done) ==
    IF k = "dag"
    THEN {NextWave(done)}
    ELSE {W \in SUBSET NextWave(done) : W # {} /\ Cardinality(W) <= MaxReady}

DoneAgents(c) == {x \in Agents : actor[c][x] = "done"}

Live(c, x) == actor[c][x] \in {"ready", "starting", "thinking", "acting"}

Gathered(c) == \A x \in Agents : ~Live(c, x)

FansOut(c) == kind[c] \in {"dag", "swarm"}
WavesOver(c) == DoneAgents(c) = Agents \/ waves[c] >= WaveLimit[kind[c]]

(* An agent starts from the top of its coroutine; the lead's turn begins   *)
(* inside the caller's own.                                                *)
Launch(c, who) ==
    actor' = [actor EXCEPT ![c] =
        [x \in Actors |-> IF x \in who
                          THEN IF x = Lead THEN "starting" ELSE "ready"
                          ELSE actor[c][x]]]

Respond(c, cd, used) ==
    /\ pc' = [pc EXCEPT ![c] = "answered"]
    /\ answer' = [answer EXCEPT ![c] = [code |-> cd, tokens |-> used]]

SetTask(c, st, cd) ==
    /\ status' = [status EXCEPT ![c] = st]
    /\ code' = [code EXCEPT ![c] = cd]

(* TaskRegistry.create: a new call takes the entry over. *)
Register(c) == registered' = c

(* strategy.run begins: dag has its plan, the others take a turn first. *)
BeginGraph(c) ==
    IF kind'[c] = "dag"
    THEN pc' = [pc EXCEPT ![c] = "planned"] /\ UNCHANGED actor
    ELSE pc' = [pc EXCEPT ![c] = "lead"] /\ Launch(c, {Lead})

(* The except clauses of _run_graph. *)
Except(c, exc) ==
    /\ CASE exc.type = "InterruptedError" ->
              /\ SetTask(c, "cancelled", "CANCELLED")
              /\ Respond(c, "CANCELLED", tokens'[c])
         [] exc.type = "BudgetExceeded" ->
              /\ SetTask(c, "failed", "BUDGET_EXCEEDED")
              /\ pc' = [pc EXCEPT ![c] = "failing"]
              /\ UNCHANGED answer
         [] OTHER ->
              /\ SetTask(c, "failed", "STRATEGY_FAILED")
              /\ pc' = [pc EXCEPT ![c] = "failing"]
              /\ UNCHANGED answer
    /\ UNCHANGED <<registered, kind, gated, cancelEvent, approval, allowDangerous, rpc, stream>>

(* Actor x leaves its coroutine with an exception.  The lead's reaches the *)
(* except clauses at once; an agent's is kept by gather, the first only,   *)
(* until the caller is resumed.                                            *)
Raise(c, x, type, used) ==
    /\ actor' = [actor EXCEPT ![c][x] = "raised"]
    /\ tokens' = [tokens EXCEPT ![c] = used]
    /\ UNCHANGED <<rounds, progress>>
    /\ IF x = Lead
       THEN Except(c, [type |-> type, used |-> used]) /\ UNCHANGED raised
       ELSE /\ raised' = IF raised[c] = NoExc
                         THEN [raised EXCEPT ![c] = [type |-> type, used |-> used]]
                         ELSE raised
            /\ UNCHANGED <<registered, pc, kind, gated, status, code, cancelEvent,
                           approval, allowDangerous, answer, rpc, stream>>

(* The checks before a step of an agent: cancelled first, then the budget. *)
MayProceed(c) == ~cancelEvent[c] /\ ~OverBudget(tokens[c])

Refuse(c, x) ==
    \/ /\ cancelEvent[c]
       /\ Raise(c, x, "InterruptedError", tokens[c])
    \/ /\ ~cancelEvent[c]
       /\ OverBudget(tokens[c])
       /\ Raise(c, x, "BudgetExceeded", tokens[c])

-----------------------------------------------------------------------------
(* RunStrategy *)

RunStrategy(c, k, g) ==
    /\ pc[c] = "idle"
    /\ Register(c)
    /\ kind' = [kind EXCEPT ![c] = k]
    /\ gated' = [gated EXCEPT ![c] = g]
    /\ stage' = [stage EXCEPT ![c] = IF k \in {"research", "swarm"} THEN "plan" ELSE "final"]
    /\ IF g
       THEN /\ pc' = [pc EXCEPT ![c] = "pausing"]
            /\ status' = [status EXCEPT ![c] = "waiting_approval"]
            /\ UNCHANGED actor
       ELSE /\ status' = [status EXCEPT ![c] = "running"]
            /\ BeginGraph(c)
    /\ UNCHANGED <<code, cancelEvent, approval, allowDangerous, tokens, rounds,
                   raised, waves, turns, answer, rpc, stream>>

(* _wait_approval has published WORKFLOW_PAUSED.                           *)
Pause(c) ==
    /\ pc[c] = "pausing"
    /\ pc' = [pc EXCEPT ![c] = "approval"]
    /\ UNCHANGED <<registered, task, graph, answer, rpc, stream>>

(* Its waiter is resumed by the event or by the timeout.  A timeout that   *)
(* fires between the decision and the resumption still wins.               *)
Approved_AnyDecision(c) == approval[c] # "none"
Approved(c) == approval[c] = "approved"

ApprovalGranted(c) ==
    /\ pc[c] = "approval"
    /\ Approved(c)
    /\ status' = [status EXCEPT ![c] = "running"]
    /\ allowDangerous' = [allowDangerous EXCEPT ![c] = TRUE]
    /\ UNCHANGED kind
    /\ BeginGraph(c)
    /\ UNCHANGED <<registered, gated, code, cancelEvent, approval, tokens, rounds,
                   raised, progress, answer, rpc, stream>>

ApprovalRejected(c) ==
    /\ pc[c] = "approval"
    /\ approval[c] = "rejected"
    /\ SetTask(c, "cancelled", "CANCELLED")
    /\ Respond(c, "CANCELLED", tokens[c])
    /\ UNCHANGED <<registered, kind, gated, cancelEvent, approval, allowDangerous,
                   tokens, graph, rpc, stream>>

ApprovalTimedOut_Never(c) == FALSE   \* wait() without wait_for
ApprovalTimedOut(c) ==
    /\ pc[c] = "approval"
    /\ SetTask(c, "timeout", "TIMEOUT")
    /\ Respond(c, "TIMEOUT", tokens[c])
    /\ UNCHANGED <<registered, kind, gated, cancelEvent, approval, allowDangerous,
                   tokens, graph, rpc, stream>>

(* The caller has its plan, or resumes from a gather whose agents are all  *)
(* done: the next wave starts, or the lead writes the answer, though tasks *)
(* be left when there have been waves enough.                              *)
WaveDone(c) ==
    /\ pc[c] \in {"planned", "agents"}
    /\ raised[c] = NoExc
    /\ Gathered(c)
    /\ \/ /\ WavesOver(c)
          /\ pc' = [pc EXCEPT ![c] = "lead"]
          /\ Launch(c, {Lead})
          /\ UNCHANGED waves
       \/ /\ ~WavesOver(c)
          /\ pc' = [pc EXCEPT ![c] = "agents"]
          /\ \E W \in Waves(kind[c], DoneAgents(c)) : Launch(c, W)
          /\ waves' = [waves EXCEPT ![c] = @ + 1]
    /\ UNCHANGED <<registered, task, rounds, raised, stage, turns, answer, rpc, stream>>

(* The caller resumes from a gather in which an agent raised: its siblings *)
(* are left running.  The task's tokens become those of the exception.     *)
WaveRaised(c) ==
    /\ pc[c] = "agents"
    /\ raised[c] # NoExc
    /\ tokens' = IF raised[c].type = "BudgetExceeded"
                 THEN [tokens EXCEPT ![c] = raised[c].used]
                 ELSE tokens
    /\ Except(c, raised[c])
    /\ UNCHANGED graph

(* WORKFLOW_FAILED is published, then the response is read off the task.   *)
AnswerFailure(c) ==
    /\ pc[c] = "failing"
    /\ stream' = Append(stream, [type |-> "FAILED", call |-> c])
    /\ Respond(c, code[c], tokens[c])
    /\ UNCHANGED <<registered, task, graph, rpc>>

(* finalize: WORKFLOW_COMPLETED is published ... *)
PublishCompleted(c) ==
    /\ pc[c] = "output"
    /\ stream' = Append(stream, [type |-> "COMPLETED", call |-> c])
    /\ pc' = [pc EXCEPT ![c] = "completed"]
    /\ UNCHANGED <<registered, task, graph, answer, rpc>>

(* ... and only then _run_graph looks at the cancel event a last time.     *)
Finish_NoLastCheck(c) ==
    /\ pc[c] = "completed"
    /\ SetTask(c, "completed", "OK")
    /\ Respond(c, "OK", tokens[c])
    /\ UNCHANGED <<registered, kind, gated, cancelEvent, approval, allowDangerous,
                   tokens, graph, rpc, stream>>

Finish(c) ==
    /\ pc[c] = "completed"
    /\ IF cancelEvent[c]
       THEN SetTask(c, "cancelled", "CANCELLED") /\ Respond(c, "CANCELLED", tokens[c])
       ELSE SetTask(c, "completed", "OK") /\ Respond(c, "OK", tokens[c])
    /\ UNCHANGED <<registered, kind, gated, cancelEvent, approval, allowDangerous,
                   tokens, graph, rpc, stream>>

(* Redis fails under a publish.  Within the strategy that is an exception  *)
(* of the strategy; outside of it the handler itself raises and gRPC tells *)
(* the client UNKNOWN.                                                     *)
PublishFails(c) ==
    \/ /\ pc[c] \in {"planned", "output", "completed"}
       /\ UNCHANGED <<tokens, graph>>
       /\ Except(c, [type |-> "Exception", used |-> 0])
    \/ /\ pc[c] \in {"pausing", "failing"}
       /\ Respond(c, "UNKNOWN", 0)
       /\ UNCHANGED <<registered, task, graph, rpc, stream>>

(* The client is gone: gRPC cancels the handler's coroutine, and a gather  *)
(* that still waits passes that on to its agents; the task keeps the       *)
(* status it had.                                                          *)
ClientGone(c) ==
    /\ pc[c] \notin {"idle", "answered", "aborted"}
    /\ pc' = [pc EXCEPT ![c] = "aborted"]
    /\ \E seen \in BOOLEAN :
          cancelEvent' = [cancelEvent EXCEPT ![c] = cancelEvent[c] \/ seen]
    /\ actor' = IF raised[c] = NoExc
                THEN [actor EXCEPT ![c] =
                        [x \in Actors |-> IF Live(c, x) THEN "raised" ELSE actor[c][x]]]
                ELSE actor
    /\ UNCHANGED <<registered, kind, gated, status, code, approval, allowDangerous,
                   tokens, rounds, raised, progress, answer, rpc, stream>>

-----------------------------------------------------------------------------
(* The agents and the lead: complete_turn, _run_one, _run_worker *)

StartAgent(c, x) ==
    /\ actor[c][x] = "ready"
    /\ \/ /\ MayProceed(c)
          /\ actor' = [actor EXCEPT ![c][x] = "starting"]
          /\ UNCHANGED <<registered, pc, task, rounds, raised, progress, answer, rpc, stream>>
       \/ Refuse(c, x)

CallModel(c, x) ==
    /\ actor[c][x] = "starting"
    /\ \/ /\ MayProceed(c)
          /\ actor' = [actor EXCEPT ![c][x] = "thinking"]
          /\ rounds' = [rounds EXCEPT ![c][x] = @ + 1]
          /\ UNCHANGED <<registered, pc, task, raised, progress, answer, rpc, stream>>
       \/ Refuse(c, x)

(* Who looks for a cancellation once complete_turn has returned.           *)
LooksAgain(c, x) == IF x = Lead THEN stage[c] = "final" ELSE kind[c] = "dag"

(* The actor's part is done: the answer is there when it is the lead's.    *)
TurnIsLast(c, x) ==
    /\ x = Lead => stage[c] = "final"
    /\ actor' = [actor EXCEPT ![c][x] = "done"]
    /\ pc' = IF x = Lead THEN [pc EXCEPT ![c] = "output"] ELSE pc
    /\ UNCHANGED <<rounds, stage, turns>>

(* The lead of a swarm has the board. *)
BoardIsMade(c, x) ==
    /\ x = Lead /\ kind[c] = "swarm" /\ stage[c] = "plan"
    /\ stage' = [stage EXCEPT ![c] = "final"]
    /\ actor' = [actor EXCEPT ![c][x] = "idle"]
    /\ rounds' = [rounds EXCEPT ![c][x] = 0]
    /\ pc' = [pc EXCEPT ![c] = "planned"]
    /\ UNCHANGED turns

(* The lead of a research goes on to its next node: there are weak claims  *)
(* to look at again, or none.                                              *)
Follows == [plan |-> {"investigate"}, investigate |-> {"verify"},
            verify |-> {"gaps", "final"}, gaps |-> {"final"}]

NextNode(c, x) ==
    /\ x = Lead /\ kind[c] = "research" /\ stage[c] # "final"
    /\ \E s \in Follows[stage[c]] : stage' = [stage EXCEPT ![c] = s]
    /\ actor' = [actor EXCEPT ![c][x] = "starting"]
    /\ rounds' = [rounds EXCEPT ![c][x] = 0]
    /\ UNCHANGED <<pc, turns>>

(* A worker of a swarm whose reply was empty asks again, a few times. *)
AsksAgain(c, x) ==
    /\ x # Lead /\ kind[c] = "swarm"
    /\ turns[c][x] + 1 < WorkerRounds
    /\ turns' = [turns EXCEPT ![c][x] = @ + 1]
    /\ actor' = [actor EXCEPT ![c][x] = "starting"]
    /\ rounds' = [rounds EXCEPT ![c][x] = 0]
    /\ UNCHANGED <<pc, stage>>

(* complete_turn returns to the actor.  The AGENT_COMPLETED it then        *)
(* publishes is the end of the turn: nothing is decided behind it.         *)
EndTurn(c, x, used) ==
    \/ /\ LooksAgain(c, x) /\ cancelEvent[c]
       /\ Raise(c, x, "InterruptedError", used)
    \/ /\ ~(LooksAgain(c, x) /\ cancelEvent[c])
       /\ tokens' = [tokens EXCEPT ![c] = used]
       /\ TurnIsLast(c, x) \/ BoardIsMade(c, x) \/ NextNode(c, x) \/ AsksAgain(c, x)
       /\ UNCHANGED <<registered, kind, gated, status, code, cancelEvent, approval,
                      allowDangerous, raised, waves, answer, rpc, stream>>

(* The planning and the verifying turn offer the model no tools. *)
HasTools(c, x) == x = Lead => stage[c] \notin {"plan", "verify"}

(* The model replies: tokens are added, the budget checked, and the turn   *)
(* ends unless the reply asks for a tool.                                  *)
ModelReplies(c, x, n, wantsTool) ==
    LET used == tokens[c] + n
    IN /\ actor[c][x] = "thinking"
       /\ wantsTool => HasTools(c, x)
       /\ IF OverBudget(used)
          THEN Raise(c, x, "BudgetExceeded", used)
          ELSE IF ~wantsTool
          THEN EndTurn(c, x, used)
          ELSE \/ /\ cancelEvent[c]
                  /\ Raise(c, x, "InterruptedError", used)
               \/ /\ ~cancelEvent[c]
                  /\ actor' = [actor EXCEPT ![c][x] = "acting"]
                  /\ tokens' = [tokens EXCEPT ![c] = used]
                  /\ UNCHANGED <<registered, pc, kind, gated, status, code, cancelEvent,
                                 approval, allowDangerous, rounds, raised, progress,
                                 answer, rpc, stream>>

(* What the actor awaits raises: the completion client (an HTTP error, its *)
(* own timeout) or a publish.                                              *)
StepFails(c, x) ==
    /\ actor[c][x] \in {"starting", "thinking", "acting"}
    /\ Raise(c, x, "Exception", tokens[c])

(* The tool returns, well or not: the next round, or the last reply when   *)
(* the rounds are used up.                                                 *)
RoundLimit(c, x) == IF x # Lead /\ kind[c] = "swarm" THEN WorkerRounds ELSE MaxRounds
RoundsLeft_OffByOne(c, x) == rounds[c][x] <= RoundLimit(c, x)
RoundsLeft(c, x) == rounds[c][x] < RoundLimit(c, x)

ToolReturns(c, x) ==
    /\ actor[c][x] = "acting"
    /\ IF RoundsLeft(c, x)
       THEN /\ actor' = [actor EXCEPT ![c][x] = "starting"]
            /\ UNCHANGED <<registered, pc, task, rounds, raised, progress, answer, rpc, stream>>
       ELSE EndTurn(c, x, tokens[c])

(* A reply may ask for several tools: before each of them the task is      *)
(* looked at, and a cancelled one goes no further.                         *)
AnotherTool(c, x) ==
    /\ actor[c][x] = "acting"
    /\ cancelEvent[c]
    /\ Raise(c, x, "InterruptedError", tokens[c])

-----------------------------------------------------------------------------
(* Cancel and ApproveDecision act on the task the registry holds.          *)

RequestCancel ==
    /\ registered # NoCall
    /\ cancels < MaxCancels
    /\ cancels' = cancels + 1
    /\ cancelEvent' = [cancelEvent EXCEPT ![registered] = TRUE]
    /\ IF status[registered] \in {"running", "waiting_approval"}
       THEN SetTask(registered, "cancelled", "CANCELLED")
       ELSE UNCHANGED <<status, code>>
    /\ cancelling' = [cancelling EXCEPT ![registered] = @ + 1]
    /\ UNCHANGED <<registered, pc, kind, gated, approval, allowDangerous, tokens,
                   graph, answer, stream>>

(* The second half of the Cancel RPC: its WORKFLOW_FAILED is published.    *)
PublishCancelled(c) ==
    /\ cancelling[c] > 0
    /\ cancelling' = [cancelling EXCEPT ![c] = @ - 1]
    /\ stream' = Append(stream, [type |-> "FAILED", call |-> c])
    /\ UNCHANGED <<registered, pc, task, graph, answer, cancels>>

(* A decision that names another approval is turned away and changes       *)
(* nothing, so every decision here is one that is taken.                   *)
ApproveDecision(d) ==
    /\ registered # NoCall
    /\ approval' = [approval EXCEPT ![registered] = d]
    /\ IF d = "approved"
       THEN /\ status' = IF status[registered] = "waiting_approval"
                         THEN [status EXCEPT ![registered] = "running"]
                         ELSE status
            /\ UNCHANGED <<code, cancelEvent>>
       ELSE /\ SetTask(registered, "cancelled", "CANCELLED")
            /\ cancelEvent' = [cancelEvent EXCEPT ![registered] = TRUE]
    /\ UNCHANGED <<registered, pc, kind, gated, allowDangerous, tokens, graph,
                   answer, rpc, stream>>

-----------------------------------------------------------------------------
Handler(c) ==
    \/ Pause(c) \/ ApprovalGranted(c) \/ ApprovalRejected(c) \/ ApprovalTimedOut(c)
    \/ WaveDone(c) \/ WaveRaised(c)
    \/ AnswerFailure(c) \/ PublishCompleted(c) \/ Finish(c)

Actor(c, x) ==
    \/ StartAgent(c, x) \/ CallModel(c, x)
    \/ \E n \in 0 .. MaxUsage, more \in BOOLEAN : ModelReplies(c, x, n, more)
    \/ StepFails(c, x) \/ AnotherTool(c, x) \/ ToolReturns(c, x)

Next ==
    \/ \E c \in Calls, k \in Kinds, g \in BOOLEAN : RunStrategy(c, k, g)
    \/ \E c \in Calls : Handler(c) \/ PublishFails(c) \/ ClientGone(c) \/ PublishCancelled(c)
    \/ \E c \in Calls, x \in Actors : Actor(c, x)
    \/ RequestCancel
    \/ \E d \in {"approved", "rejected"} : ApproveDecision(d)

Spec == Init /\ [][Next]_vars

(***************************************************************************)
(* Fairness: the asyncio loop resumes every coroutine that can run, the    *)
(* approval wait has a timeout (wait_for), the completion client has one   *)
(* (httpx) and so has every tool (wait_for).  Nothing is assumed of the    *)
(* clients, the reviewers or of the RPCs they may send.                    *)
(***************************************************************************)
Fairness ==
    /\ \A c \in Calls : WF_vars(Handler(c)) /\ WF_vars(PublishCancelled(c))
    /\ \A c \in Calls, x \in Actors : WF_vars(Actor(c, x))

FairSpec == Spec /\ Fairness
-----------------------------------------------------------------------------
(* Properties *)

(* Every variable keeps to its type: the TaskState fields of runtime.py.   *)
TypeOK ==
    /\ registered \in Calls \cup {NoCall}
    /\ pc \in [Calls -> Positions]
    /\ kind \in [Calls -> Strategies]
    /\ gated \in [Calls -> BOOLEAN]
    /\ status \in [Calls -> Statuses]
    /\ code \in [Calls -> Codes]
    /\ cancelEvent \in [Calls -> BOOLEAN]
    /\ approval \in [Calls -> {"none", "approved", "rejected"}]
    /\ allowDangerous \in [Calls -> BOOLEAN]
    /\ tokens \in [Calls -> Nat]
    /\ actor \in [Calls -> [Actors -> Places]]
    /\ rounds \in [Calls -> [Actors -> 0 .. MaxRounds]]
    /\ raised \in [Calls -> [type : Excs \cup {"none"}, used : Nat]]
    /\ stage \in [Calls -> Stages]
    /\ waves \in [Calls -> Nat]
    /\ turns \in [Calls -> [Actors -> Nat]]
    /\ answer \in [Calls -> [code : Codes \cup {"none"}, tokens : Nat]]
    /\ cancelling \in [Calls -> Nat]
    /\ cancels \in 0 .. MaxCancels
    /\ stream \in Seq([type : {"COMPLETED", "FAILED"}, call : Calls])

(* The budget is checked before a model call and the reply is paid after   *)
(* it, so the agents of a wave can overshoot it together, but only by one  *)
(* reply each, siblings left behind by a raising agent included.           *)
Fanout == IF Agents = {} THEN 1 ELSE Cardinality(Agents)

BoundedOvershoot ==
    Budget > 0 => \A c \in Calls : tokens[c] <= Budget - 1 + Fanout * MaxUsage

(* A strategy that asked for approval calls no model and no tool before a  *)
(* reviewer's approval reached this very call.                             *)
NoWorkBeforeApproval ==
    [][\A c \in Calls, x \in Actors :
          gated'[c] /\ actor[c][x] = "idle" /\ actor'[c][x] # "idle" =>
              allowDangerous[c] \/ approval[c] = "approved"]_vars

(* A call answered OK left nothing running and nothing of its plan undone, *)
(* but for what its waves did not get to before their limit; its tokens    *)
(* are all in the response and under the budget, and WORKFLOW_COMPLETED is *)
(* in the stream.                                                          *)
OkIsFinal ==
    \A c \in Calls : answer[c].code = "OK" =>
        /\ \A x \in Actors : actor[c][x] \in {"idle", "done"}
        /\ FansOut(c) => WavesOver(c)
        /\ answer[c].tokens = tokens[c]
        /\ Budget > 0 => answer[c].tokens < Budget
        /\ \E i \in DOMAIN stream : stream[i] = [type |-> "COMPLETED", call |-> c]

(* Every call is answered or abandoned, cancelled or not, though agents    *)
(* raise, tools and models fail and the reviewer never decides, and no     *)
(* agent of it is left running, those its response did not wait for        *)
(* included.                                                               *)
EveryCallEnds ==
    \A c \in Calls :
        pc[c] # "idle" ~> /\ pc[c] \in {"answered", "aborted"}
                          /\ \A x \in Actors : ~Live(c, x)

(* What the orchestrator sees of the worker is StrategyRpc.                *)
RpcPhase(p) == CASE p = "idle" -> "idle"
                 [] p \in {"answered", "aborted"} -> p
                 [] OTHER -> "open"

rpcPhase  == [c \in Calls |-> RpcPhase(pc[c])]
rpcAnswer == [c \in Calls |-> answer[c].code]

Rpc == INSTANCE StrategyRpc WITH
    phase     <- rpcPhase,
    cancelled <- cancelEvent,
    answer    <- rpcAnswer

RpcSpec == Rpc!Spec
=============================================================================
