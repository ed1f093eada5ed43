# PuerFlow in TLA+

PuerFlow runs multi-agent tasks. A Go orchestrator on Temporal decides what to
run and keeps the workflow's state; a Python worker (LangGraph) runs one strategy
for one workflow and calls models and tools; a gateway connects clients and user
"daemons" over HTTP and WebSocket; Redis carries events, claims and approvals.
This directory holds TLA+ modules of the parts whose correctness depends on the
order in which things happen, the TLC runs that check them on small instances,
and TLAPS proofs of what matters most for every instance.

Running things, inside this directory:

    tlc -config StrategyWorker_one.cfg MCStrategyWorker
    tlapm StrategyWorker_proofs.tla

`PROJECT.json` lists the components, the runs, the map from definitions to source
lines, the hazards, the findings and the theorems.

## 1. Inventory

Paths are relative to `src/`; `O` is `go/orchestrator/internal`, `W` is
`python/langgraph-worker/puerflow_worker`, `F` is `rust/firecracker-executor/src`.

| Component | Code | State it keeps | Operations |
|---|---|---|---|
| Strategy worker | `W/servicer.py`, `runtime.py`, `budget.py`, `tools/loop.py`, `strategies/{sample,dag,research,swarm}.py` | a registry: one `TaskState` per workflow id (status, error code, tokens, approval, events) | RunStrategy, Cancel, ApproveDecision; inside a run: approval gate, the lead's turns, waves of agents, model and tool rounds, budget, final answer |
| Tool approvals | `W/tools/registry.py` | the task's one slot: request, decision, event | execute, `_wait_approval`, ApproveDecision, Cancel |
| LangGraph bridge | `O/activities/langgraph.go`, `O/strategyworker/{failover,client}.go`, `O/workflows/langgraph_bridge.go` | nothing of its own: Temporal's attempts, the RPC in flight | the activity, its failover, its retry, the goroutine that cancels the worker |
| Control signals | `O/workflows/control/handler.go`, `O/workflows/orchestrator_router.go`, `O/server/service.go` | per workflow: paused, cancelled, registered children, signals waiting | PauseTask, ResumeTask, CancelTask; handling and propagation; starting, registering and following a child |
| Circuit breaker | `O/circuitbreaker/circuit_breaker.go` | state, generation, counts, expiry | beforeRequest, afterRequest, timers |
| Daemon hub and claims | `O/daemon/{hub,claims,conn_handler}.go` | connections, sticky sessions, metadata of dispatches; claims in Redis | register, unregister, Dispatch, claim, progress, reply, TTL |
| Daemon approvals | `O/daemon/approvals.go`, `go/orchestrator/cmd/gateway/internal/handlers/daemon.go` | approval requests in Redis | Store, Resolve, deliver, restore, UpdateChannelMsg, CancelByConn |
| Event stream | `W/events.py`, `O/streaming/manager.go`, `O/httpapi/{streaming,websocket}.go`, `O/server/streaming_service.go` | a sequence counter and a capped Redis stream per workflow; a channel per subscriber | publish (INCR, then XADD), replay by id or number, subscribe, read, forward, and how SSE, gRPC and WebSocket connections end |
| Swarm workflow and its task list | `O/workflows/swarm_workflow.go`, `O/activities/p2p.go` | the lead: its idea of each agent, who has which task, reports and results; each agent: task, iterations, limits; the list in Redis | plan, spawn, link, assign, message, revise, checkpoint, shut down, synthesise; iterate, report, idle, wake, be reassigned |
| VM pool and executor | `F/{vm_pool,vm_runner,workspace_sync,main}.rs` | warm VMs, a VM per session, a count of all, a lock and a marker per workspace | acquire, boot, run, release, copy back, maintain, evict, clean up |
| Budget manager, schedules, gateway idempotency and rate limit (no module yet) | see `PROJECT.json` | rows, keys, counters | see `PROJECT.json` |
| Legacy workflows, persistence, sessions, policy, health, OpenAI API, llm-service, agent-core, playwright, desktop, clients (not planned) | see `PROJECT.json` | prompts, SQL, caches, user interface | see `PROJECT.json` |

### How they interact

    user --HTTP--> gateway --gRPC--> orchestrator service --signal--> workflow
                                                               |  control handler
                                     children  <---signals-----+
                                                               |  activity (2 attempts)
                                     worker    <---gRPC--------+  RunStrategy, then
                                       |                          perhaps a fallback
                                       +--XADD--> event stream
    swarm lead <--signals, results--> agents (child workflows), task list in Redis
    event stream --XREAD--> reader --channel--> SSE, gRPC, WebSocket handler --> client
    a tool --HTTP--> executor --> VM of the pool, on the ext4 file of the session
    workflow --dispatch--> hub --WebSocket--> daemons --claim, progress, reply--> hub

- *Activity and worker.* One attempt of the activity makes one RunStrategy call
  and, if a heavy strategy fails, a second one with the light strategy; Temporal
  retries the attempt once. All these calls carry one workflow id, and the worker
  has one registry entry for it: a newer call takes the entry over, and a Cancel
  reaches whoever holds it when it arrives.
- *Control and everything else.* Pause, resume and cancel are signals; a workflow
  passes them on to the children it has registered. Cancel also calls the worker's
  Cancel and, 100 ms later, Temporal's native cancellation.
- *Lead and agents* share no memory: what the lead knows of an agent is what its signals
  have said so far, and the task list it decides on is a copy.
- *Hub and Redis.* Connections are goroutines; each Redis command is atomic and
  nothing else is.

### What is hard, and what correct means

| Component | Hard | Correct |
|---|---|---|
| Strategy worker | `asyncio.gather` leaves siblings of a failed agent running; a Cancel, a rejection, a timeout, a failed publish or a second call at any await; a budget checked before and paid after a model call | each call is answered once; success only to a call nobody cancelled, with nothing left running and the plan done or its limit of waves reached; nothing runs before its approval; overshoot is bounded; a cancelled call comes to rest |
| Tool approvals | one slot for many branches; decisions that are early, late or unbound; one event that wakes all | an approval runs one tool, the one it was given for; every wait ends |
| Bridge | deadline, retry, failover, connections cut while a call runs and two sorts of Cancel, all with one workflow id | calls overlap only when the earlier one's client was cut off or past its deadline; a Cancel has a cause; the workflow returns |
| Control | signals of different names lose their order; children appear and disappear while a signal is handled | no child left paused under a resumed root; a cancelled task ends |
| Breaker | a call runs outside of the mutex across several states | slots are neither lost nor reused; an old result changes nothing; it recovers |
| Hub | read-then-write on claims, TTLs, disconnects, progress and replies that name no owner | one owner of a message; one signal; nothing left of a dead connection; each but for the races the code leaves open, and no other |
| Daemon approvals | take out, fail to deliver, put back, beside a scan, over Redis commands that fail | decided once; lost only to a command that failed |
| Event stream | number and entry written in two steps by many publishers; a bounded channel; trimming; a seam between replay and subscription | each event once and in order; nothing skipped but what the code gives up; a connection closes after its last event |
| Swarm | late signals, a stale copy of the list, messages that wake idle agents, failing activities, tasks cancelled under an agent's hands, killed agents | no second agent for a task and none before its dependencies, unless the lead itself or a lost call made it so; no task forgotten; it ends and leaves nobody |
| VM pool | a count changed by compare-and-swap beside maps with locks of their own; tasks dropped at any await; boots that fail half-way; a file two may want | the count is the VMs there are; one user of a drive among the VMs the code knows of; clean means copied; no lock left behind |

`PROJECT.json` lists 40 hazards, each at the line where it bites and with the
properties that would notice. A hazard without a property has a note.

## 2. Modules and plan

| # | Module | Models | Checked | Proved | State |
|---|---|---|---|---|---|
| 1 | `StrategyRpc` | the abstract worker, RPC by RPC | as `RpcSpec` | `Refinement` | done |
| 1 | `StrategyWorker` | the worker with its four strategies, from one suspension point to the next | `worker_one` | `StrategyWorker_proofs` | done |
| 2 | `LangGraphBridge` | activity, failover, retry, cancel, over `StrategyRpc` | `bridge`, `bridge_cancel` | `LangGraphBridge_proofs` | done |
| 3 | `CircuitBreaker` | the breaker and its callers | `breaker` | `Orchestrator_proofs` | done |
| 4 | `ToolApproval` | the approval slot inside a run | `tool_approval` | `Approvals_proofs` | done |
| 5 | `DaemonHub` | connections, dispatch and claims | `daemon_hub`, `daemon_routing` | `DaemonHub_proofs` | done |
| 5 | `DaemonApprovals` | approval requests of a daemon | `approvals` | `Approvals_proofs` | done |
| 6 | `ControlSignals` | pause, resume, cancel across a tree | `control` | `Orchestrator_proofs` | done |
| 7 | `EventStream` | publishers, the stream, a client with its handler and reader | `stream` | `EventStream_proofs` | done |
| 8 | `TaskList` | the hash of tasks and the questions asked of a copy of it | with `Swarm` | with `Swarm` | done |
| 8 | `Swarm` | the lead and the agents of a swarm, over `TaskList` | `swarm` | `Swarm_proofs` | done |
| 9 | `VmPool` | the pool, its maintainer, requests and workspaces | `vm_pool` | `VmPool_proofs` | done |
| 10 | schedules, budget manager, gateway idempotency | two stores changed in turn; reservations; a key in Redis around a request | | | not begun |

*Composition.* `LangGraphBridge` does not repeat the worker: it instantiates
`StrategyRpc` (`Worker == INSTANCE StrategyRpc`) and synchronises with its actions.
`StrategyWorker` is shown to implement that same `StrategyRpc` (run `worker_one` and, for
any number of overlapping calls, theorem `Refinement`), so what `bridge` establishes of the
orchestrator holds with the worker as it is coded. `Swarm` extends `TaskList`.

*Layout.* `M.tla` is the model with its properties at the end; `MCM.tla` instantiates it
for TLC; `M_proofs.tla` holds its theorems, `Orchestrator_proofs` those of the control
signals and of the breaker, `Approvals_proofs` those of both sorts of approvals. As such a
module extends two models, the smaller one's `Init`, `Next`, `Spec` and `TypeOK` have a prefix:
`BreakerSpec`, `ToolSpec`. A definition `X_Something` standing
just before `X` is a plausible bug in the same code; replacing `X` by it must make
the property named in `PROJECT.json` "mutants" fail. Such definitions are used by
nothing else.

*Next proofs.* Every safety and action property and the refinement that the runs check is a
theorem; the liveness properties cannot be. What is left to state and to prove: what remains of
`DepsHonoured` once messages were sent, and the modules of row 10 once they exist.

## 3. The modules and the code

### StrategyWorker

The worker is one asyncio loop, so nothing is interleaved inside a stretch without
`await`. An action is such a stretch: `Pause` is the code after `publish(WORKFLOW_PAUSED)`,
`ModelReplies` the code after the model's `await`, with the budget's `add` and the
decision on a further round. `pc[c]` is where the RunStrategy coroutine of call `c`
stands, `actor[c][x]` where agent `x` of its plan, or the lead that writes the answer,
stands. `cancelling` counts the Cancel RPCs suspended in their own publish.

- *Turns.* A lead has one turn (sample, and dag after its waves) or several: a research plans,
  investigates, verifies, fills gaps if the claims were weak, and writes; a swarm makes its
  board, sends out its workers and writes. `stage` is the turn the lead takes, or takes
  next. The planning and the verifying turn have no tools (`HasTools`), and only the agents of
  a dag and the last turn of a lead look for a cancellation after the turn (`LooksAgain`).
- *Waves.* `NextWave` is the ready set of `execute_subtasks` and of `ready_tasks`: the tasks
  whose dependencies are done, or the first left when there is none (a cycle). A dag starts all
  of them; a swarm starts one of each owner, three at most, and as the owners are the
  model's choice `Waves` offers every such set. Both stop after a fixed number of
  waves, 16 and 8 in the code, with whatever is left undone. A worker of a swarm whose reply was
  empty repeats its turn. That the model's reply, the number of its tokens, the wish for a
  tool and every failure are chosen freely is the abstraction of model and tools.
- *Tools.* The tools of one reply run one after the other inside `acting`, with a look for a Cancel
  before each: `AnotherTool` is such a look that finds one. What the tools did is not told apart.
- *Failures.* `StepFails` raises at any await of an agent; `PublishFails` is Redis
  failing under a publish of the servicer, which ends the RPC as gRPC UNKNOWN; the
  publishes inside a strategy fail as strategy failures.
- *Cancellation* is cooperative: `cancel_event` is looked at where the code looks at it
  and nowhere else. `ClientGone` is the gRPC context's end: `CancelledError` at the
  await, and a `gather` that is still pending is cancelled with its agents; agents left behind
  by one that has already raised are not.
- *Two calls* with one workflow id share `registered`, the registry's entry, as
  `TaskRegistry.create` overwrites it.
- `wait_for` may return the timeout although the event is set in the same iteration of
  the loop: `ApprovalTimedOut` does not ask that the event is unset.
- Two simplifications. An agent's publish of AGENT_COMPLETED (dag.py:176, swarm.py:203) is part of the
  end of its turn: it comes back to nothing that was read before it. And a decision is always for the task that asks:
  `ApproveDecision` refuses one whose binding does not match (servicer.py:285-290), which leaves the
  state as it is. `ToolApproval` has the bindings.

### StrategyRpc

Open, a Cancel that reaches the holder of the entry, an honest reply, an abandoned
call. `Honest` is the promise: OK only if the call was not cancelled, CANCELLED only if it
was.

### ToolApproval

The same loop, seen from two branches of one task. `Execute` looks for an approval that
matches, `Asked` writes the slot and waits, `ApproveDecision` fills the decision and sets the
event, which makes every waiting branch runnable (`Wake`); `Resume` is each of them going
on. A call is its binding id (the hash of tool, parameters and session), so two
equal calls have one id. `decidedFor`, `grants` and `runs` are history variables. The
specification is `ToolSpec` here.

### LangGraphBridge

`act[a]` is where attempt `a` of the activity stands: in its primary RPC, in the hint
RPC, in its fallback, returned. `Serve` is the request reaching the worker, `PrimaryReturns` the
classification in `failover.go`. `ConnectionLost` cuts the connection of a call that is waited for, at
any point: before the worker has read the request, while it works, before its answer is read. The client
sees UNAVAILABLE then, as it does when it cannot dial at all (`PrimaryUnavailable`,
`FallbackUnavailable`), and goes on to its hint, its error or its retry while the worker may still be at
work. The worker notices when it notices (`WorkerAbandons`: its gRPC watcher cancels the call), before
the client or never; and a request that was on its way may be served yet as long as its client has not given it up. `cut`
is the set of such calls, at most `MaxCuts`.
`DeadlineExpires` is StartToClose; `StaleCancel` is the goroutine that sends a Cancel
after its context has ended, whichever call holds the registry by then. `CancelSignal` and
`UserCancel` are the control handler's CancelLangGraphStrategy activity, `NativeCancel` is
Temporal's cancellation. `hit` remembers the open call the user's Cancel reached.

### CircuitBreaker

The mutex makes beforeRequest and afterRequest atomic; the call in between is not.
Of the generation only equality is ever read, so a running caller is `current` or
`stale`, which removes the one unbounded counter. Time is a timer that lapses;
`CurrentState` is what the next caller then finds. A caller's return is `AfterRequest`.

### DaemonHub

One action per Redis command and per lock section. `handler[c]` is what the message
loop of connection `c` is in the middle of (a loop handles one message at a time),
`view` what the daemon behind it knows. `claims` is Redis. Messages belong to one thread of
one user: the hub's maps are keyed by tenant, user and thread, and entries of
different keys do not interact. Claims, progress and replies carry a message id and no owner, so
`HandleProgress` and `HandleReply` take any message on any open connection: a
daemon that has connected again sends them through its new connection while the loop of the old
one still runs. Both read the claim and write or delete it in a later command, and three history variables
say what such pairs leave open: `replied`, a reply has read the claim and will delete it; `raced`, a
reply read it between another reply's read and its delete; `revived`, an update wrote back a claim that
was no longer there or was another's. The properties hold for every message outside these sets, and TLC
finds a violation inside each. A claim may fail as a Redis error; other Redis errors are not modelled.

### DaemonApprovals

The requests of one connection. `Resolve` is the atomic Lua script, `SendDecision` the send that
may fail, `Restore` the Store in the failure path; `ScanKey` and `CancelByConn` are a SCAN that
returns each key that was there throughout and perhaps others. `UpdateChannelMsg` is its read
and its write. Any of these commands may fail: the store, which loses the request; the script,
before it has taken the request or after, with the answer lost; the re-store of a failed delivery
("re-store also failed" in the handler), which loses it too; a command of the scan, which then leaves keys behind. `dropped`
and `skipped` remember what was lost and left in these ways. That the gateway stops between taking a
request out and putting it back is not modelled.

### ControlSignals

Two coroutines for each workflow: `main` and `handler`. `inbox[w][s]` counts the signals of
name `s` waiting, since a channel per name keeps no order between names; `Handle` takes from
the first channel that has one, in the order the selector was built. `handler.at`
is the activity the handler awaits (`emit`, `worker`) or the children it has yet
to tell (`propagate`). The root starts and follows one child at a time and
registers it only once it runs; a child does no such thing. The child of the `skip_synthesis` route and
that of an agent named in the context are followed without ever being registered
(`FollowUnregistered`): they get none of the root's pauses and resumes, and a cancel reaches them as Temporal's
own. `ctxDone` is a cancelled context.

### EventStream

`Number` and `Add` are INCR and XADD of a publisher, which other publishers come between; a
failed INCR publishes with number 0. The id of an entry is its place in `log`; `first` moves up as
the stream is trimmed, which Redis does approximately, so never further than the cap asks for. A
connection replays (`Replay`) what is after the client's id, or has a number above the
client's; `Subscribe` starts the reader goroutine where the replay ended, or at `$` when
nothing was replayed to a client that resumed. An XRANGE that fails replays nothing either (`ReadMissed`), and
counts as a fault. `ReadNew` and `Read` are XREAD, `Forward` the
send into the channel, which drops what does not fit; `Receive` is the handler writing to
its client and closing the connection where SSE, gRPC and WebSocket do. `lost` and `passed`
remember what the code gave up.

### Swarm and TaskList

One action of the lead goes from one point where it waits for others to the next:
`OnIdle`, `Collect` with `OnCompletion`, `OnCheckpoint` are the cases of its selector, `Ask` the LLM's
decision on a copy of the list, `Act...` one action of that decision each, `AutoLink` the pairing of agents
without a task with tasks without an agent, `Drain` and `Synthesize` the end. An agent's actions
are `BeginIteration`, the outcomes of a step of its LLM (`StepWorks`, `StepSends`, `StepReturns`,
`StepIdles`), and the three signals that wake it. `Reassigned` is the extension of its
iterations by a new task. `collected` are the agents whose result the lead has; what results and
answers say is left out. The budgets of calls, tokens and time are one free choice to wrap up.

`Obedient` says that the lead's LLM gives tasks out as its protocol tells it: tasks that the list it is
shown has as pending, or as completed for a CONTINUE retry (`Shown`), each once in a decision
(`handed`), and to agents it sees idle. It has the list and its own decision to go by, never
`agentTaskMap`: only `AutoLink`, which is code, looks there. Spawning, shutting down, messages, the
moment it calls it done and its revisions are free; a revision completes ("cancels") any task, one in
progress included.

Three histories say how a task can come to be given out twice: `lost`, the list was not told of it, or
not that it was given out, as an activity failed; `cancelled`, the lead completed it while it was in progress;
`handed`, this decision has given it out again after the list was read.

### VmPool

One action per stretch between awaits, and per atomic operation on the count: `Load` and
`CountUp` are the load and the compare-exchange, `CountWarm` and `CountActive` the
maintainer's two reads. A request goes lock, kept VM, warm VM, slot, spawn, configure, run, store (release), sync;
`Dropped` is its task dropped at any of the awaits, which releases its lock and forgets its VM
without killing the process (`lost`). A boot can fail at any call to the VM's API, before the drive is
attached or after (`PreparedInPart`), and leaves its process behind all the same, uncounted (`orphans`);
the VMs of these two sets are the `Strays`. A session id is optional: a request may name a
workspace without it (`ArriveWithoutSession`), takes no lock then, and its workspace is remembered as `loose`.
`drive` is the ext4 file a VM has open, `mark` the marker file, `ahead`
whether the ext4 holds what the directory does not.

### What the outside is taken to do

- *Temporal*: signals are delivered and coroutines of a workflow scheduled; a
  cancelled context fails whatever waits on it; children get a cancel request when
  their parent closes; StartToClose is enforced, attempts follow the retry policy;
  an error's type is that of the Go value returned (so a gRPC status of CANCELLED is
  not a `CanceledError`).
- *gRPC*: a connection may be cut at any time, and either side may learn of it first, or the worker never. A call
  that could not be dialled and one that was cut look the same to the client. Once the activity's context
  has ended, the goroutine that sends the Cancel has reached its select before the RPC returns.
- *Redis*: a command is atomic, a key may expire at any time after it was set. Where a command may
  fail is said with each module.
- *asyncio*: `gather` raises the first exception and leaves the siblings running; every
  `await` that really suspends lets any other coroutine of the loop run first.
- *tokio and axum*: the future of a request is dropped when its client goes; dropping a
  `std::process::Child` leaves the process running.
- *Callers of the executor*: a request that names a workspace and a session names the workspace of that
  session.
- *Time* has no length: a timer may run out at any point where it is running. Nothing
  is said about the 100 ms that CancelTask sleeps.

## 4. The runs

| Run | Instance | States | Shows |
|---|---|---|---|
| `worker_one` | one call of any strategy, a wave of `a` and `b`, then `d`, and the lead's turns; budget 2, replies of 0 or 1 token, 2 rounds, 2 turns of a worker, 2 waves of a swarm, 1 Cancel | 616 k | `TypeOK`, `BoundedOvershoot`, `OkIsFinal`, `NoWorkBeforeApproval`, `EveryCallEnds`, `RpcSpec` |
| `bridge` | `MaximumAttempts` 2, both modes, 1 connection cut | 1.95 M | `OverlapOnlyAfterLoss`, `CancelHasACause`, `SuccessIsAnotherCall`, `WorkflowReturns` |
| `bridge_cancel` | as `bridge` | | finding 1 |
| `breaker` | 4 callers, `MaxRequests` and both thresholds 2 | 464 | `BreakerTypeOK`, `SlotsAccounted`, `StaleResultsIgnored`, `Recovers` |
| `tool_approval` | 2 branches, 2 calls, 2 rounds, 3 decisions | 98 k | `OneRunPerApproval`, `RunsWhatWasDecided`, `EveryAskEnds` |
| `daemon_hub` | 3 connections, 1 message, up to symmetry | 986 k | `GrantIsBacked`, `SignalledOnce`, `DisconnectReleases` |
| `daemon_routing` | 2 connections, 1 message | | finding 2 |
| `approvals` | 2 requests, 2 responders, 1 update, any command failing | 140 k | `DecidedOnce`, `NeverLost`, `OnlyRestoredRemain` |
| `control` | a root with 2 children one after the other, 1 checkpoint each, any 3 requests; children of the routes that register and of those that do not | 231 k | `NoChildLeftPaused`, `ResumeFrees`, `CancelEnds` |
| `swarm` | 2 agents, 2 tasks of which one depends on the other, 1 action in a decision, 1 reassignment, 1 trouble: a message, a failing activity or a task cancelled in progress | 752 k | `InProgressIsTracked`, `OneAgentPerTask`, `DepsHonoured`, `DoneOnlyWhenQuiet`, `EverythingEnds` |
| `stream` | 2 publishers with 3 events, cap 2, channel 1, 3 connections, 1 fault (an INCR or an XRANGE that fails); both ways to resume, the three handlers, two filters | 265 k | `TypeOK`, `InOrder`, `NothingSkipped`, `EndCloses` |
| `vm_pool` | 2 requests of any kind, 1 session, 1 warm VM, 2 VMs, 1 failed boot | 279 k | `EverySlotIsAVm`, `DriveIsExclusive`, `CleanIsSynced`, `EveryRequestEnds` |

### Why the bounds are enough

- *Three agents and a lead* are the least with two agents in one wave, one of which can raise while
  the other runs, and a dependent that must wait for both. A budget of 2 with
  replies of 1 lets an agent pass the check when another's reply is about to exhaust it.
  Two rounds are the least in which an agent meets a limit while it wants another tool.
  A Cancel more than one adds only further publishes. `BoundedOvershoot` and the
  refinement do not depend on the bounds: they are proved.
  One call is enough for TLC: that `RpcSpec` and `OkIsFinal` survive a
  second call that takes the registry entry over is proved for any number of calls.
- *A swarm of two waves* in the worker, where the code has eight, lets the limit come before the plan is
  done; the 16 of a dag are never reached by three tasks, so there success means all done.
- `MaximumAttempts` is 2 in the code; that instance is the deployment. One cut is enough for a call that is
  left open beside a fallback or a retry; the safety properties are proved for any number of
  attempts and cuts.
- *Four callers*: a stale one, two probes, and one that finds no slot. The safety
  properties are proved for every number.
- *Two branches, two calls*: overwriting a request takes two of each; three decisions
  allow one early, one wrong, one right.
- *Three connections, one message*: a winner, a loser, and a third that sends progress or a reply for what the
  first was granted. A second message matters to the scan only, which has another key to look at; the properties are proved for
  any number of both.
- *Daemon approvals*: two responders race for one request while the scan and an update see another.
- *Two children, three requests*: a signal on its way to a child that has closed while its
  sibling is being started; pause, resume and cancel once each, in any order or the same
  one repeated.
- *Swarm*: two agents are a worker and one that idles, two tasks a dependency. One iteration and a
  limit of three over all reassignments let an agent run out of both; the code's 25 are the
  same counter. One trouble is the least at which each exemption of `OneAgentPerTask` and of `DepsHonoured` but the last is
  needed. One action per decision leaves out what the copy no longer says after the first of several
  actions, which is what that last exemption (`handed`) is for; with `MaxActions = 2` in the cfg the safety properties hold
  as well (1.5 M states), and they are proved for any number of actions and troubles.
- *Stream*: three events are one more than the cap; one entry fills the channel; the third
  connection resumes after a resumed one. The safety properties are proved for every size.
- *VM pool*: two requests race for the last slot, for the session's VM and for its lock; the
  maintainer is the third. The safety properties are proved for any number of each.

### Fairness

- Worker and tool approvals: the loop resumes a coroutine that can run (weak fairness of
  each call's handler, each actor, each branch). The awaits inside those
  actions come back: the approval wait is a `wait_for`, the completion client has an httpx timeout
  and tools run under `wait_for`. Users and reviewers owe nothing.
- Bridge: Temporal schedules the attempt, enforces StartToClose and records its
  outcome. The worker owes nothing: it may be gone, and `WorkflowReturns` still holds.
- Breaker: time passes, admitted calls return (the wrapped clients have timeouts) and the
  service keeps calling. `Recovers` also needs SuccessThreshold ≤ MaxRequests, as in the code's
  configurations: with more successes asked for than probes allowed the breaker would
  stay half-open.
- Control: Temporal schedules the coroutines, the handler's activities have
  timeouts, and a ResumeTask or CancelTask that has begun goes on. Nobody is obliged to resume:
  `ResumeFrees` speaks of behaviours in which the root ends up not paused.
- Swarm: the lead's workflow and each agent's are scheduled; their activities have timeouts and
  come back. No LLM owes anything but an answer, whatever it says.
- Stream: the reader goroutine reads what is new, forwards what it has read, and the handler
  goes on. Publishers and the client owe nothing, and `$` is evaluated at some time or never.
- VM pool: the runtime polls a request that can go on; waits for a booting VM and for the guest have timeouts,
  a copy to the directory is local and ends.
  Nothing is assumed of the maintainer, the eviction or the clean-up.
- Hub and daemon approvals have safety properties only, and no fairness.

`CHECK_DEADLOCK FALSE` stands in every cfg but the breaker's: a task that has ended, a
connection that is closed, a workflow that has returned does nothing more, and the bounds on
requests end the rest.

### Exemptions

Some properties hold but for races or failures that the code leaves open, which history variables and `cut`,
`expired`, `messages` single out. Each exemption is as narrow as the code allows: leave out `replied`,
`revived` or `raced` of the hub, `dropped` or `skipped` of the approvals, `cut` of the bridge,
`orphans` or `loose` of the pool, `lost`, `cancelled` or `messages` of `OneAgentPerTask`, `lost` or
`cancelled` of `DepsHonoured`, and the same run finds the property violated. Each of these is described in
section 6.

## 5. What is proved

Each theorem holds for every value of the constants that meets the named assumptions. These give
types (numbers, finite sets of callers, agents and tasks as in any run of the code, dependencies
between tasks), say that the values meaning "none" are none of the others, and ask for at least one of
what the code has at least one of: attempts, rounds, checkpoints, agents of a swarm and
iterations, a success or a failure to reach a threshold, a place in a stream. No fairness is used.
Four theorems about the swarm have the hypothesis `Obedient`, explained there.

| Module | Theorems |
|---|---|
| `StrategyWorker_proofs` | `TypeCorrect`, `Overshoot`, `Refinement` (`Spec => RpcSpec`), `OkFinal`, `WorkIsApproved` |
| `LangGraphBridge_proofs` | `TypesHold`, `OverlapHolds`, `CancelsHaveACause`, `SuccessHolds` |
| `Swarm_proofs` | `TypesHold`; if obedient `NothingIsForgotten`, `WorkIsNotDoubled`, `OrderIsKept`, `DoneWhenQuiet` |
| `Orchestrator_proofs` | control: `TypesHold`, `ChildrenFollow`; breaker: `BreakerTypesHold`, `Slots`, `StaleIgnored` |
| `Approvals_proofs` | tools: `ToolTypesHold`, `ApprovalsAreUsedOnce`, `DecidedRuns`; daemons: `TypesHold`, `FirstCallerWins`, `NothingIsLost`, `LeftoversWereRestored` |
| `DaemonHub_proofs` | `TypesHold`, `GrantsAreBacked`, `SignalsHold`, `DisconnectsRelease` |
| `EventStream_proofs` | `TypesHold`, `OrderHolds`, `NothingIsSkipped` |
| `VmPool_proofs` | `TypesHold`, `SlotsHold`, `DriveHolds`, `SyncHolds` |

`PROJECT.json` says which property each states.

### `StrategyWorker_proofs`

*Types and the budget.* `IInv` adds three parts to `TypeOK` for each call: `Phases` (where the
actors can be given where the coroutine stands; in particular the lead runs alone), `HasRounds`
(whoever is about to begin has a round left), and `Paid`:

    Budget > 0 => tokens + (replies awaited) * MaxUsage <= Budget - 1 + Fanout * MaxUsage

A model call adds a reply that is awaited and needs `tokens < Budget`; at most `Fanout` actors
can be waiting at once (`WaveBound`; this needs `Phases`, or the lead would count on top of
the agents); a reply turns at most `MaxUsage` awaited tokens into counted ones. Dropping
the awaited replies from the formula leaves the bound, which alone would say nothing
of the replies on their way.

*Refinement.* An exception and its response lie several awaits apart, and anything may write
to the task between them. `Lawful(c)` says what it can have come to: a recorded rejection,
`InterruptedError` or code CANCELLED implies a set cancel event; a call that is failing has a
code other than OK; nothing has been raised before agents run; the coroutine is at its lead exactly
when the lead is live. `Seen` lists what a step can be to the orchestrator (a call opens, goes
on, is answered, is aborted; the holder is cancelled; nothing), `StepLawful` shows that
each step keeps `Lawful` and is one of them, `SeenIsRpc` maps each to a step of `StrategyRpc`
or a stutter.

*After OK.* Between the lead's last reply and the answer the call publishes twice, and
anything still running could spend tokens behind the response. `Final` says that from the last
turn on no other actor is live and that a lead that waits for a tool is under its
budget; `Covers` that a lead on its last turn of a dag or a swarm has the waves over,
which stays true since the agents stand still beside it.

*Approval.* `Gate(c)`: the coroutine of a gated call is past its gate only if `allowDangerous` was
set, which only its own approval does. `Holds(c)` is shown of every step: it keeps the gate, and
an actor leaves idle only in a step of a call whose gate is open.

### `LangGraphBridge_proofs`

All rests on `OpenIsAwaited`: a call that is open on the worker is the one its attempt
waits for, unless its connection was cut or the deadline of that attempt has passed. As attempts come in turn
(`InTurn`), a call that is served while an earlier one is open means that the earlier one was left in one of these
ways; and the worker, which abandons only what is cut or not waited for, never abandons
another call before a deadline. `HitNeverSucceeds` carries the user's Cancel through
the worker's promise (`Honest`, which the worker is proved to keep): the call it reached is marked
and is never answered OK; `OkWasAnswered`, which says of an attempt that succeeded that one of its calls
was answered OK and the answer read, and `WonByAttempt` lead from the workflow's success back
to a call that was.

### `Swarm_proofs`

*What an agent does.* `AgentStep` is what one step of an agent may change, in five forms; the rest of the
proof sees agents through it. `Enrolled`, `Phases` and `Mapped` hold the lead's books together: agents are
spawned in order and nothing is known of the others, only a decision in hand has given anything out, an agent that is idle or
collected has no task in the map.

*Who holds a task.* A task is held by an agent that works on it or will once it reads its signals
(`HeldBy`). `Marked`: unless its news were lost, a held task is in progress or completed in the list.
`Unheld`: what a decision is shown as pending and has not given out, nobody holds; so an obedient
lead, which goes by that list and its own words, gives a pending task out twice only after lost news.
`Sole`: without messages, a task whose news came through and that was not cancelled under its agent's hands is one
agent's, by what the agents do and by the lead's map alike, is in progress, and is not offered
to the decision at all. From these follow both action properties: who gives out a task that another
holds was shown it as completed, for one of the causes that `OneAgentPerTask` names, and who gives one out was
shown what it depends on as completed, which `Sole` excludes while that is held.

The proof goes by three kinds of steps: those that give nothing out, those that settle what agents were
given, and those that give tasks out (`GiveMoves`: which tasks, to whom, and whose news were lost). Each part of
the invariant is shown for each kind once, and each action to be of one kind.

*No task forgotten, and the end.* `Tracked`: as long as no call failed, a task in progress is in the map.
`Early`: without messages an agent that is idle in the lead's eyes rests, or has only what the
lead gave it. An agent at work is thus running in the lead's eyes, so a lead that is done is quiet.

*`Obedient`.* The code checks neither that a task the LLM gives out is pending nor that the agent it names is
idle; the prompt asks for it. With `Obedient = FALSE` TLC finds these properties
violated within a few steps: the LLM gives one task to two agents. Types hold regardless.

### `Orchestrator_proofs`

*Control.* A child's channels lose the order between pause and resume, but the root passes both on
in the order in which it handled them, and a child takes its pauses before its resumes. So
(`Followed`) a child that is paused, or has a pause before it (`PauseAhead`), has a resume before it
too (`ResumeAhead`) unless the root is paused. `Registered` says that only a child that was started
was ever told anything and that one that was told is registered as long as it runs, so that a resume
reaches all that a pause did. A child that never registers is told nothing.

*Breaker.* `SlotsAccounted` is not inductive alone: that half-open starts with nobody running rests on
`OpenAdmitsNobody`. The three together are.

### `Approvals_proofs`

*Tools.* `DecisionIsOfRequest`: an approving decision in the slot is for the request in the
slot. Whoever overwrites or consumes the request clears the decision in the same stretch between
awaits, and a decision is bound to the request it finds; so a branch that wakes late may read any
decision and still runs only what was decided.

*Daemons.* `InOnePlace(r)`: the key is in Redis, or one responder has taken it out, or it has been
decided, or a failing command has lost it. It holds of every request that no `UpdateChannelMsg` has written back
(`Once`). `Swept` says what the scan of a closing connection has yet to see: every key that was there is on its
list, was left by a command that failed, was written back, or is put back by a responder whose send failed.

### `DaemonHub_proofs`

*Grants.* A loop that has read a claim writes or deletes it some steps later, and it need not be its own. `Mine`:
until it lapses, a reply reads it or an update of another's claim writes over it, a claim names the connection it was
granted to. What keeps it is that only its own closing loop deletes it, and that no step but such an
update gives a claim to a connection other than the one that claims. `Closes` follows a closing
connection's scan: every claim still its own is on the list of keys to delete.

*Signals.* `Routed(m)`: the metadata of a message is one token. It is with the hub, in the hands of one loop,
in the claim, or spent on the signal; so there is one signal at most. Between the read and the delete
of a reply it is in two places, the loop and the claim, and a second reply in between is what `raced` records.

### `EventStream_proofs`

An event that was wanted is with the client, still to be replayed, in the channel, or in what the
reader has read: four places in a row, and before each nothing wanted is unaccounted for (`Base`,
`Backlog`, `Front`). For a client that resumes by id each place begins after the one before it
(`Ahead`), which is what excludes a second delivery at the seam. `Queue` says that the channel is
in order and empty unless a reader runs; `Window` that trimming never passes the
stream's end.

### `VmPool_proofs`

`Apart` says that a VM is in one place only: warm, kept, in the hands of one request, with the
maintainer, lost, or left by a boot that failed, and that only the last is not counted. On it rest the count
(`EverySlotIsAVm`, by the cardinality of each of these sets changing by one), `Locks` (who runs in a workspace holds
its lock, unless the workspace was used without its session's id), `Drives` (a VM with a
drive is in the hands of a request that runs in that workspace, or is a stray), `Marks` (a
workspace in use under its lock is marked dirty) and `Checked` (the value a compare-exchange compares
with was below the maximum).

### Only model-checked

The nine liveness properties (`EveryCallEnds`, `WorkflowReturns`, `Recovers`, `EveryAskEnds`, `ResumeFrees`,
`CancelEnds`, `EverythingEnds`, `EndCloses`, `EveryRequestEnds`): the prover does neither liveness
under fairness nor ENABLED. The two findings are counterexamples of TLC.

## 6. Findings

Each is a violation run whose one property quotes what the repository says.

1. `bridge_cancel` / `CancelTakesEffect`. A cancel signal sets the event of the task that is
   registered at that moment; the fallback or the retry opens another, and the workflow
   ends in success, where tests/e2e/45_control_signals_test.sh:241 waits for CANCELLED.
2. `daemon_routing` / `RoutingPreserved`. `HandleClaim` consumes the metadata before it
   knows whether it has won; the loser takes it along, the winner's claim names no
   workflow and its reply is signalled to nobody (hub.go:289-292 says it is preserved).

Seen while modelling, and without a run of their own:

Worker and bridge:

- A Cancel does not wake a call that waits for its approval, so it is answered TIMEOUT when the
  wait ends (servicer.py:181), and a cancelled call whose model or publish raises is
  answered STRATEGY_FAILED; the orchestrator fails over from both, where
  docs/架构与契约.md:70 and servicer.py:75 say that a cancelled run is not failed over.
- A dag and a swarm that reach their limit of waves answer with success, tasks undone.
- A worker of a swarm and the nodes of a research look for a Cancel before their turn but not
  after it: the next look is up to a turn away.
- A call whose connection is cut after the worker has begun it is UNAVAILABLE to the client
  (client.go:194-198), which fails over or is retried at once, while the worker may go on with it until it notices: two calls of
  one workflow run together, and the Cancel its watcher then makes is one nobody asked for.
  `OverlapOnlyAfterLoss` and `CancelHasACause` say that it takes such a cut or a deadline.
- A run that exceeded its budget is an error like any other to Temporal, so the second
  attempt runs it again with a fresh budget.

Control, hub and approvals:

- "Propagate pause to all child workflows" (handler.go:114) reaches those registered at that
  moment: a child that is being started works on under a paused parent.
- `UpdateChannelMsg` reads and writes back without a condition, and a failed delivery
  stores the request again without asking whether the connection was cleaned up:
  either can leave a request behind its connection. `DecidedOnce` and `OnlyRestoredRemain`
  say what remains true. Nothing in the repository calls `UpdateChannelMsg`.
- CancelTask's native cancellation may overtake the cancel signal, and then the handler
  never passes it on; the task ends all the same (`CancelEnds`).
- The routes for `skip_synthesis` (orchestrator_router.go:256-266) and for an agent named in the context (901-905)
  start a child without registering it: a pause does not reach it.
- Neither progress nor a reply asks who owns the claim (hub.go:364-404). Two replies of a message, one of them sent again
  through a second connection, may both read the claim before either deletes it, and the workflow is
  signalled twice. A reply deletes a claim another connection was granted. A progress event that has read a claim
  writes it back after a disconnect has released it, or over that of a new owner: claims.go:92 writes what it read.
- A re-store that fails as well (handlers/daemon.go:237-243 logs it) loses the request, as does a script
  whose answer is lost; a failing command of the scan leaves requests of a closed connection to their TTL.
- A daemon that claims a message after it has been answered is granted it again, without
  routing, as the key is gone.
- Dispatch guards against a sticky entry that names a connection which is gone; since a
  disconnect removes such entries (`DisconnectReleases`), that branch is never taken.

Event stream:

- A client that resumes, has nothing to replay and is subscribed at `$` misses what is added
  before the reader evaluates it.
- A STREAM_END that is replayed does not close the connection; a completion hidden by
  the filter closes it before later events that were asked for.

Swarm:

- An idle signal names no task. When a message has woken an idle agent and it goes idle
  again, the second signal may be read after the agent was given its next task: the lead
  then completes a task that is being worked on, and gives out what depends on it
  (swarm_workflow.go:2499-2501 says otherwise). `DepsHonoured` speaks of swarms without such messages.
- A task that is cancelled while an agent works on it is completed in the list (swarm_workflow.go:3429-3436), and
  nobody tells the agent: what depends on it may begin, and a CONTINUE retry gives it to a second agent.
- An in_progress update that fails is ignored (2272-2278): the list goes on showing the task as pending, and as neither the
  assignment nor the LLM looks at `agentTaskMap`, it may be given to a second agent.
- Within one decision the list is not read again: a task the decision itself has reopened by a CONTINUE retry
  still counts as completed for what depends on it.
- A GetTaskList that fails gives an empty list, in which no task has unmet dependencies.

Executor:

- When its client goes, a request's VM is forgotten: its process runs on, its slot is never
  given back, and as its lock is released the next VM of the session boots from the same file.
- A boot that fails after the workspace drive was attached (vm_pool.rs:470-479), at the vsock (485-492) or at the start
  of the instance (343), returns an error and kills nothing: the process keeps the ext4 file open while the
  lock is released, and the next request of the session boots a second VM on it.
- A request that names a workspace without a session id takes no lock (vm_runner.rs:73-82).
- A request that stores its VM for a session overwrites the one another has stored
  (vm_pool.rs:158): that VM and its slot are lost.
- After a copy to the directory that failed, the next boot copies the older directory over the
  file the last run wrote, though "Files must persist even if Python execution failed"
  (vm_runner.rs:93-95).

## 7. What is left out

- Of the worker: InjectSessionContext and GetStatus (they touch nothing modelled), the content of
  plans, prompts and messages. The stream keeps the terminal events only.
- Of the bridge: the building of requests, metrics, the choice of a strategy for a query.
- Of control: the router's planning, review and templates; grandchildren (a child that is
  itself a router behaves as the root does).
- Of the hub: ping and pong, system messages, event streams to the daemon, and the
  dispatch bridge, which acknowledges each message whatever becomes of it.
- Of the event stream: the queue in front of PostgreSQL, the notification stream, the 24 h expiry,
  the in-memory mode, heartbeats, Shutdown.
- Of the swarm: messages of the user, mailbox contents, tools and files, what results and answers say, the
  I/O rounds of a decision, idle signals without a report, a failing GetChildWorkflowExecution, an
  assignment to an agent that does not exist.
- Of the executor: the guest's protocol, file transfer, paths, statistics; a marker that
  cannot be written; whether strays end one day.
- The budget manager, schedules and the gateway's idempotency and rate limit have no module
  yet.
- Everything under "not planned" above, for the reasons given in `PROJECT.json`:
  SQL, prompts, caches, formats, user interfaces, services that are stateless between
  calls.
