------------------------------- MODULE VmPool -------------------------------
(***************************************************************************)
(* The executor of Python code in Firecracker VMs (rust/firecracker-       *)
(* executor): the pool of VMs with its warm VMs and its VMs kept for a     *)
(* session (vm_pool.rs), the request that runs code in one of them         *)
(* (vm_runner.rs), the clean-up of a workspace (main.rs), and the marker   *)
(* that says whether a workspace is in step (workspace_sync.rs).           *)
(*                                                                         *)
(* Requests and the maintainer are tasks of a multi-threaded runtime; they *)
(* share the pool's maps, each behind a lock of its own, and an atomic     *)
(* count of the VMs there are.  The server drops the task of a request     *)
(* whose client has gone, at whatever await it stands.  Dropping a VM does *)
(* not end its process: std::process::Child does not kill.                 *)
(*                                                                         *)
(* A VM is known by a number, which is used again when its process has     *)
(* ended.  A workspace is the ext4 file of a session and the directory     *)
(* that mirrors it; of their contents only this is kept, whether the file  *)
(* holds what the directory does not.  The marker can always be written:   *)
(* the code goes on when it cannot, and then the marker says nothing.      *)
(***************************************************************************)
EXTENDS Integers, FiniteSets

CONSTANTS
    Requests,
    Sessions,
    None,
    WarmCount,   \* pool_warm_count
    MaxCount,    \* pool_max_count
    MaxFailures  \* bound: VMs that fail to boot

ASSUME PoolAssumption ==
    /\ IsFiniteSet(Requests) /\ IsFiniteSet(Sessions)
    /\ WarmCount \in Nat /\ MaxCount \in Nat /\ MaxFailures \in Nat
    /\ None \notin Sessions /\ None \notin Requests

(* Enough for the VMs that are counted and for those that are left behind. *)
Vms == 1 .. MaxCount + MaxFailures

VARIABLES
    warm,        \* warm_pool
    kept,        \* session_map
    active,      \* active_count
    request,     \* what each request asks for and where it stands
    holder,      \* workspace_locks: the request that holds the session's lock
    maintainer,  \* maintain_warm_pool
    running,     \* VMs whose process runs
    drive,       \* the session whose ext4 file a VM has as its drive
    mark,        \* the .state file of a workspace
    ahead,       \* sessions whose ext4 file is ahead of the directory
    lost,        \* history: VMs dropped without being released or terminated
    orphans,     \* history: VMs whose boot failed after their process was started
    loose,       \* history: sessions whose workspace was used without their id
    failures     \* VMs that failed to boot

pool == <<warm, kept, active>>
files == <<drive, mark, ahead>>
history == <<lost, orphans, loose>>
vars == <<pool, request, holder, maintainer, running, files, history, failures>>

NoRequest == [at |-> "idle", session |-> None, workspace |-> FALSE, vm |-> 0, seen |-> 0]
AtRest == [at |-> "idle", left |-> 0, vm |-> 0, seen |-> 0]

Init ==
    /\ warm = {}
    /\ kept = [s \in Sessions |-> 0]
    /\ active = 0
    /\ request = [r \in Requests |-> NoRequest]
    /\ holder = [s \in Sessions |-> None]
    /\ maintainer = AtRest
    /\ running = {}
    /\ drive = [v \in Vms |-> None]
    /\ mark = [s \in Sessions |-> "none"]
    /\ ahead = {}
    /\ lost = {} /\ orphans = {} /\ loose = {}
    /\ failures = 0

Go(r, step) == request' = [request EXCEPT ![r].at = step]
GoWith(r, step, v) == request' = [request EXCEPT ![r].at = step, ![r].vm = v]

(* The guard of the workspace lock lives as long as the request. *)
Unlock(r) == holder' = [s \in Sessions |-> IF holder[s] = r THEN None ELSE holder[s]]
End(r) == request' = [request EXCEPT ![r] = [NoRequest EXCEPT !.at = "done"]] /\ Unlock(r)

-----------------------------------------------------------------------------
(* execute: the workspace lock, then acquire *)

(* A workspace is the directory of a session.  A request that names both   *)
(* names the directory of that session.                                    *)
Arrive(r, s, w) ==
    /\ request[r].at = "idle"
    /\ w => s # None
    /\ request' = [request EXCEPT ![r] =
            [NoRequest EXCEPT !.session = s, !.workspace = w,
                              !.at = IF w THEN "lock" ELSE IF s # None THEN "kept" ELSE "warm"]]
    /\ UNCHANGED <<pool, holder, maintainer, running, files, history, failures>>

(* The session's id is optional, and without it there is no lock.          *)
ArriveWithoutSession(r, s) ==
    /\ request[r].at = "idle"
    /\ request' = [request EXCEPT ![r] =
            [NoRequest EXCEPT !.session = s, !.workspace = TRUE, !.at = "count"]]
    /\ loose' = loose \cup {s}
    /\ UNCHANGED <<pool, holder, maintainer, running, files, lost, orphans, failures>>

LockWorkspace_Shared(r) ==
    /\ request[r].at = "lock"
    /\ holder' = [holder EXCEPT ![request[r].session] = r]
    /\ Go(r, "count")
    /\ UNCHANGED <<pool, maintainer, running, files, history, failures>>

LockWorkspace(r) ==
    /\ request[r].at = "lock"
    /\ holder[request[r].session] = None
    /\ holder' = [holder EXCEPT ![request[r].session] = r]
    /\ Go(r, "count")
    /\ UNCHANGED <<pool, maintainer, running, files, history, failures>>

TakeKept(r) ==
    LET s == request[r].session
    IN  /\ request[r].at = "kept"
        /\ IF kept[s] # 0
           THEN GoWith(r, "run", kept[s]) /\ kept' = [kept EXCEPT ![s] = 0]
           ELSE Go(r, "warm") /\ UNCHANGED kept
        /\ UNCHANGED <<warm, active, holder, maintainer, running, files, history, failures>>

TakeWarm(r) ==
    /\ request[r].at = "warm"
    /\ \/ \E v \in warm : GoWith(r, "run", v) /\ warm' = warm \ {v}
       \/ warm = {} /\ Go(r, "count") /\ UNCHANGED warm
    /\ UNCHANGED <<kept, active, holder, maintainer, running, files, history, failures>>

(* "Atomic check-and-increment": load, then compare and exchange. *)
Load(r) ==
    /\ request[r].at = "count"
    /\ IF active >= MaxCount
       THEN End(r)
       ELSE request' = [request EXCEPT ![r].at = "cas", ![r].seen = active] /\ UNCHANGED holder
    /\ UNCHANGED <<pool, maintainer, running, files, history, failures>>

CountUp_Unchecked(r) ==
    /\ request[r].at = "cas"
    /\ active' = active + 1 /\ Go(r, "spawn")
    /\ UNCHANGED <<warm, kept, holder, maintainer, running, files, history, failures>>

CountUp(r) ==
    /\ request[r].at = "cas"
    /\ IF active = request[r].seen
       THEN active' = active + 1 /\ Go(r, "spawn")
       ELSE Go(r, "count") /\ UNCHANGED active
    /\ UNCHANGED <<warm, kept, holder, maintainer, running, files, history, failures>>

-----------------------------------------------------------------------------
(* spawn_vm: the process, its configuration, the workspace, the start.     *)
(* What fails after the process was started leaves it behind: nobody kills *)
(* it, and it is not counted any more.                                     *)

Started(v) ==
    /\ v \in Vms \ running
    /\ \A u \in Vms \ running : v <= u
    /\ running' = running \cup {v}
    /\ drive' = [drive EXCEPT ![v] = None]

Fails == failures < MaxFailures /\ failures' = failures + 1 /\ active' = active - 1

Spawn(r) ==
    /\ request[r].at = "spawn"
    /\ \/ /\ \E v \in Vms : Started(v) /\ GoWith(r, "configure", v)
          /\ UNCHANGED <<active, holder, failures>>
       \/ Fails /\ End(r) /\ UNCHANGED <<running, drive>>
    /\ UNCHANGED <<warm, kept, maintainer, mark, ahead, history>>

Own(r) == IF request[r].workspace THEN {request[r].session} ELSE {}
Dirty(r) == [s \in Sessions |-> IF s \in Own(r) THEN "dirty" ELSE mark[s]]

(* The ext4 file of the workspace becomes a drive of the VM, the workspace  *)
(* is marked dirty, and the directory is copied over the file, whatever is *)
(* ahead there.                                                            *)
Attached(r) ==
    [drive EXCEPT ![request[r].vm] = IF request[r].workspace THEN request[r].session ELSE None]

Prepared(r) ==
    /\ drive' = Attached(r)
    /\ mark' = Dirty(r)
    /\ ahead' \in {ahead, ahead \ Own(r)}

PreparedInPart(r) ==
    \/ UNCHANGED files
    \/ drive' = Attached(r) /\ UNCHANGED <<mark, ahead>>
    \/ Prepared(r)

(* The VM boots.  A call to its API can fail before and after it was given *)
(* the drive, the one that starts it among them.                           *)
Boot(r) ==
    /\ request[r].at = "configure"
    /\ \/ Prepared(r) /\ Go(r, "run") /\ UNCHANGED <<active, holder, orphans, failures>>
       \/ /\ PreparedInPart(r)
          /\ Fails /\ End(r)
          /\ orphans' = orphans \cup {request[r].vm}
    /\ UNCHANGED <<warm, kept, maintainer, running, lost, loose>>

-----------------------------------------------------------------------------
(* The code runs.  One that fails, or runs into the timeout, taints its    *)
(* VM; a workspace takes it down in any case, to free its drive.           *)

GuestWrites(v) ==
    /\ v \in running
    /\ drive[v] # None
    /\ \A r \in Requests : request[r].vm = v => request[r].at = "run"
    /\ ahead' = ahead \cup {drive[v]}
    /\ UNCHANGED <<pool, request, holder, maintainer, running, drive, mark, history, failures>>

Terminate(v) == running' = running \ {v} /\ active' = active - 1

Run(r) ==
    LET v == request[r].vm
    IN  /\ request[r].at = "run"
        /\ \/ /\ Terminate(v)
              /\ IF request[r].workspace
                 THEN GoWith(r, "sync", 0) /\ UNCHANGED holder
                 ELSE End(r)
           \/ /\ ~request[r].workspace
              /\ Go(r, "store")
              /\ UNCHANGED <<active, running, holder>>
        /\ UNCHANGED <<warm, kept, maintainer, files, history, failures>>

(* release: to the session's entry, whatever is there, or to the warm VMs. *)
Store(r) ==
    LET v == request[r].vm
        s == request[r].session
    IN  /\ request[r].at = "store"
        /\ IF s # None
           THEN /\ kept' = [kept EXCEPT ![s] = v]
                /\ lost' = lost \cup ({kept[s]} \ {0})
                /\ UNCHANGED <<warm, active, running>>
           ELSE IF Cardinality(warm) < WarmCount
           THEN warm' = warm \cup {v} /\ UNCHANGED <<kept, active, running, lost>>
           ELSE Terminate(v) /\ UNCHANGED <<kept, warm, lost>>
        /\ End(r)
        /\ UNCHANGED <<maintainer, files, orphans, loose, failures>>

Sync_MarksAlways(r) ==
    LET s == request[r].session
    IN  /\ request[r].at = "sync"
        /\ ahead' \in {ahead, ahead \ {s}} /\ mark' = [mark EXCEPT ![s] = "clean"]
        /\ End(r)
        /\ UNCHANGED <<pool, maintainer, running, drive, history, failures>>

(* After the VM has gone the file is copied to the directory, in up to     *)
(* four tries; only then is the workspace clean.                           *)
Sync(r) ==
    LET s == request[r].session
    IN  /\ request[r].at = "sync"
        /\ \/ ahead' = ahead \ {s} /\ mark' = [mark EXCEPT ![s] = "clean"]
           \/ UNCHANGED <<ahead, mark>>     \* no try succeeds
        /\ End(r)
        /\ UNCHANGED <<pool, maintainer, running, drive, history, failures>>

(* The client has gone: the task is dropped where it awaits something, and *)
(* with it the guard of the lock and the VM.                               *)
Awaits == {"lock", "kept", "warm", "configure", "run", "store", "sync"}

Dropped_KeepsLock(r) ==
    /\ request[r].at \in Awaits
    /\ request' = [request EXCEPT ![r] = [NoRequest EXCEPT !.at = "done"]]
    /\ lost' = lost \cup ({request[r].vm} \ {0})
    /\ UNCHANGED <<pool, holder, maintainer, running, files, orphans, loose, failures>>

Dropped(r) ==
    /\ request[r].at \in Awaits
    /\ End(r)
    /\ lost' = lost \cup ({request[r].vm} \ {0})
    /\ IF request[r].at = "configure" THEN PreparedInPart(r) ELSE UNCHANGED files
    /\ UNCHANGED <<pool, maintainer, running, orphans, loose, failures>>

(* cleanup_handler: under the lock, and in one go. *)
Cleanup(s) ==
    /\ holder[s] = None
    /\ mark[s] # "none"
    /\ mark' = [mark EXCEPT ![s] = "none"]
    /\ ahead' = ahead \ {s}
    /\ UNCHANGED <<pool, request, holder, maintainer, running, drive, history, failures>>

-----------------------------------------------------------------------------
(* maintain_warm_pool, every five seconds *)

(* A kept VM that has been idle for too long becomes a warm one if there   *)
(* is room for it.                                                         *)
Evict(s) ==
    /\ maintainer.at = "idle"
    /\ kept[s] # 0
    /\ kept' = [kept EXCEPT ![s] = 0]
    /\ IF Cardinality(warm) < WarmCount
       THEN warm' = warm \cup {kept[s]} /\ UNCHANGED <<active, running>>
       ELSE Terminate(kept[s]) /\ UNCHANGED warm
    /\ UNCHANGED <<request, holder, maintainer, files, history, failures>>

(* The two counts are read one after the other. *)
CountWarm ==
    /\ maintainer.at = "idle"
    /\ Cardinality(warm) < WarmCount
    /\ maintainer' = [AtRest EXCEPT !.at = "size", !.left = WarmCount - Cardinality(warm)]
    /\ UNCHANGED <<pool, request, holder, running, files, history, failures>>

CountActive ==
    /\ maintainer.at = "size"
    /\ IF active < MaxCount
       THEN maintainer' = [maintainer EXCEPT !.at = "count",
                               !.left = IF @ < MaxCount - active THEN @ ELSE MaxCount - active]
       ELSE maintainer' = AtRest
    /\ UNCHANGED <<pool, request, holder, running, files, history, failures>>

Again == maintainer' = IF maintainer.left > 1
                       THEN [AtRest EXCEPT !.at = "count", !.left = maintainer.left - 1]
                       ELSE AtRest

MaintainerLoads ==
    /\ maintainer.at = "count"
    /\ maintainer' = IF active >= MaxCount THEN AtRest
                     ELSE [maintainer EXCEPT !.at = "cas", !.seen = active]
    /\ UNCHANGED <<pool, request, holder, running, files, history, failures>>

MaintainerCountsUp ==
    /\ maintainer.at = "cas"
    /\ IF active = maintainer.seen
       THEN active' = active + 1 /\ maintainer' = [maintainer EXCEPT !.at = "spawn"]
       ELSE Again /\ UNCHANGED active
    /\ UNCHANGED <<warm, kept, request, holder, running, files, history, failures>>

Has(v) == maintainer' = [maintainer EXCEPT !.at = "configure", !.vm = v]

MaintainerSpawns ==
    /\ maintainer.at = "spawn"
    /\ \/ /\ \E v \in Vms : Started(v) /\ Has(v)
          /\ UNCHANGED <<active, failures>>
       \/ Fails /\ Again /\ UNCHANGED <<running, drive>>
    /\ UNCHANGED <<warm, kept, request, holder, mark, ahead, history>>

(* The new VM is pushed without another look at how many there are. *)
MaintainerPushes ==
    /\ maintainer.at = "configure"
    /\ \/ warm' = warm \cup {maintainer.vm} /\ UNCHANGED <<active, orphans, failures>>
       \/ Fails /\ orphans' = orphans \cup {maintainer.vm} /\ UNCHANGED warm
    /\ Again
    /\ UNCHANGED <<kept, request, holder, running, files, lost, loose>>

-----------------------------------------------------------------------------
Step(r) ==
    \/ LockWorkspace(r) \/ TakeKept(r) \/ TakeWarm(r) \/ Load(r) \/ CountUp(r)
    \/ Spawn(r) \/ Boot(r) \/ Run(r) \/ Store(r) \/ Sync(r)

Maintain ==
    \/ (\E s \in Sessions : Evict(s)) \/ CountWarm \/ CountActive
    \/ MaintainerLoads \/ MaintainerCountsUp \/ MaintainerSpawns \/ MaintainerPushes

Next ==
    \/ \E r \in Requests, s \in Sessions \cup {None}, w \in BOOLEAN : Arrive(r, s, w)
    \/ \E r \in Requests, s \in Sessions : ArriveWithoutSession(r, s)
    \/ \E r \in Requests : Step(r) \/ Dropped(r)
    \/ \E v \in Vms : GuestWrites(v)
    \/ \E s \in Sessions : Cleanup(s)
    \/ Maintain

Spec == Init /\ [][Next]_vars

(* The runtime goes on with every task; the calls to Firecracker and to    *)
(* the guest have timeouts.                                                *)
FairSpec == Spec /\ \A r \in Requests : WF_vars(Step(r))

-----------------------------------------------------------------------------
(* Properties *)

(* The types of the variables.  The count is a usize, which would wrap     *)
(* round: that it is never below zero follows from EverySlotIsAVm.         *)
Steps == {"idle", "lock", "kept", "warm", "count", "cas", "spawn", "configure", "run",
          "store", "sync", "done"}
RequestType == [at : Steps, session : Sessions \cup {None}, workspace : BOOLEAN,
                vm : {0} \cup Vms, seen : Int]
MaintainerType == [at : {"idle", "size", "count", "cas", "spawn", "configure"},
                   left : Nat, vm : {0} \cup Vms, seen : Int]

TypeOK ==
    /\ warm \in SUBSET Vms
    /\ kept \in [Sessions -> {0} \cup Vms]
    /\ active \in Int
    /\ request \in [Requests -> RequestType]
    /\ holder \in [Sessions -> Requests \cup {None}]
    /\ maintainer \in MaintainerType
    /\ running \in SUBSET Vms
    /\ drive \in [Vms -> Sessions \cup {None}]
    /\ mark \in [Sessions -> {"none", "dirty", "clean"}]
    /\ ahead \in SUBSET Sessions
    /\ lost \in SUBSET Vms /\ orphans \in SUBSET Vms /\ loose \in SUBSET Sessions
    /\ failures \in 0 .. MaxFailures

(* Whoever has a slot of the count: it spawns a VM, or has it in hand. *)
InHand == {"spawn", "configure", "run", "store"}
Holding == {r \in Requests : request[r].at \in InHand}
Keeping == {s \in Sessions : kept[s] # 0}
Spawning == IF maintainer.at \in {"spawn", "configure"} THEN 1 ELSE 0

(* The pool never has more VMs than it may, and it forgets none: each slot *)
(* is that of a warm VM, a kept VM or one in hand, but for those of VMs    *)
(* that were dropped, by a request whose client had gone or by another     *)
(* put in their place.  Those never come back.                             *)
EverySlotIsAVm ==
    /\ active = Cardinality(warm) + Cardinality(Keeping) + Cardinality(Holding) + Spawning
                + Cardinality(lost)
    /\ active <= MaxCount

(* Processes nobody holds a VM of any more.                                *)
Strays == lost \cup orphans

(* "This prevents concurrent python_executor calls for the same session    *)
(* from corrupting ext4" (vm_runner.rs): two VMs never have one drive, nor *)
(* does a VM have it while the host mounts the file to copy it.  So it is  *)
(* of sessions whose id comes with each request for their workspace, and   *)
(* of VMs not dropped by a request whose client had gone and not left      *)
(* behind by a boot that failed: of those the code knows nothing any more. *)
DriveIsExclusive ==
    /\ \A v, u \in running \ Strays :
          v # u /\ drive[v] \notin {None} \cup loose => drive[v] # drive[u]
    /\ \A v \in running \ Strays, r \in Requests :
          request[r].at = "sync" /\ request[r].session \notin loose
             => drive[v] # request[r].session

(* "mark_clean depends on post-sync succeeded" (vm_runner.rs): a workspace *)
(* that says it is clean has all that was written in its directory, unless *)
(* a VM that was dropped or left behind still writes to it, or a request   *)
(* without the session's id used it.                                       *)
CleanIsSynced ==
    \A s \in Sessions \ loose :
        mark[s] = "clean" /\ s \in ahead => \E v \in Strays : drive[v] = s

(* Every request is answered or dropped: no workspace stays locked, by a   *)
(* request that was dropped least of all.                                  *)
EveryRequestEnds == \A r \in Requests : request[r].at # "idle" ~> request[r].at = "done"
=============================================================================
