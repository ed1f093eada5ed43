--------------------------- MODULE VmPool_proofs ---------------------------
(***************************************************************************)
(* The safety of VmPool for any number of requests, sessions and VMs.      *)
(*                                                                         *)
(* None of the three properties is inductive alone.  They rest on the      *)
(* types and on five facts, each shown on top of those before it:          *)
(*   Apart:  a VM is in one place, and there its process runs;             *)
(*   Locks:  who runs in a workspace has its lock, unless the workspace    *)
(*           was used without the id of its session;                       *)
(*   Drives: a VM with a drive is in the hands of a request of the         *)
(*           session, unless it was dropped or left behind;                *)
(*   Marks:  a workspace in use under the lock is dirty;                   *)
(*   Checked: what a compare and exchange expects is below the limit.      *)
(***************************************************************************)
EXTENDS VmPool, FiniteSetTheorems, TLAPS

InVm == {"configure", "run", "store"}
Free(v) == v \in running /\ v \notin warm /\ v \notin Strays

Idle ==
    /\ warm \subseteq running
    /\ Strays \subseteq running
    /\ \A v \in warm : v \notin Strays

InHands ==
    /\ \A r \in Requests :
          IF request[r].at \in InVm THEN Free(request[r].vm) ELSE request[r].vm = 0
    /\ \A r, q \in Requests : request[r].vm # 0 /\ request[r].vm = request[q].vm => r = q

InMap ==
    /\ \A s \in Sessions : kept[s] # 0 => Free(kept[s])
    /\ \A s, t \in Sessions : kept[s] # 0 /\ kept[s] = kept[t] => s = t
    /\ \A s \in Sessions, r \in Requests : kept[s] # 0 => kept[s] # request[r].vm

InMaking ==
    IF maintainer.at = "configure"
    THEN /\ Free(maintainer.vm)
         /\ \A r \in Requests : request[r].vm # maintainer.vm
         /\ \A s \in Sessions : kept[s] # maintainer.vm
    ELSE maintainer.vm = 0

Apart == Idle /\ InHands /\ InMap /\ InMaking

Unlocked == {"idle", "lock", "done"}

Locks ==
    \A r \in Requests :
        /\ request[r].workspace =>
              /\ request[r].session \in Sessions
              /\ \/ request[r].at \in Unlocked
                 \/ request[r].session \in loose
                 \/ holder[request[r].session] = r
        /\ request[r].at \in {"lock", "sync"} => request[r].workspace
        /\ request[r].at \in {"kept", "warm", "store"} => ~request[r].workspace
        /\ request[r].at = "kept" => request[r].session \in Sessions

(* Request r runs in VM v, which has the request's workspace as drive.     *)
Uses(r, v) ==
    /\ request[r].vm = v /\ request[r].at = "run" /\ request[r].workspace
    /\ request[r].session = drive[v]

Drives ==
    \A v \in running : v \in Strays \/ drive[v] = None \/ \E r \in Requests : Uses(r, v)

Marks ==
    \A r \in Requests :
        request[r].at = "run" /\ request[r].workspace /\ request[r].session \notin loose
           => mark[request[r].session] = "dirty"

Checked ==
    /\ \A r \in Requests : request[r].at = "cas" => request[r].seen < MaxCount
    /\ maintainer.at = "cas" => maintainer.seen < MaxCount

(* The inductive invariant. *)
IInv == /\ TypeOK /\ Apart /\ Locks /\ Drives /\ Marks /\ Checked
        /\ EverySlotIsAVm /\ CleanIsSynced

USE PoolAssumption DEF history, Strays

Same(r) == \A q \in Requests \ {r} : request'[q] = request[q]
Kind(r) == request'[r].session = request[r].session /\ request'[r].workspace = request[r].workspace

(* The records the code starts from. *)
LEMMA Blank ==
    /\ NoRequest \in RequestType
    /\ NoRequest.at = "idle" /\ NoRequest.vm = 0 /\ ~NoRequest.workspace
  BY DEF NoRequest, RequestType, Steps

LEMMA GoFacts ==
    ASSUME request \in [Requests -> RequestType], NEW r \in Requests, NEW step \in Steps,
           Go(r, step)
    PROVE  /\ request' \in [Requests -> RequestType]
           /\ request'[r].at = step /\ request'[r].vm = request[r].vm
           /\ Kind(r) /\ Same(r)
  BY DEF Go, RequestType, Same, Kind

LEMMA GoWithFacts ==
    ASSUME request \in [Requests -> RequestType], NEW r \in Requests, NEW step \in Steps,
           NEW v \in {0} \cup Vms, GoWith(r, step, v)
    PROVE  /\ request' \in [Requests -> RequestType]
           /\ request'[r].at = step /\ request'[r].vm = v
           /\ Kind(r) /\ Same(r)
<1>1. request' = [request EXCEPT ![r] = [request[r] EXCEPT !.at = step, !.vm = v]]
  BY DEF GoWith
<1> QED BY <1>1 DEF GoWith, RequestType, Same, Kind

LEMMA EndFacts ==
    ASSUME request \in [Requests -> RequestType], NEW r \in Requests, End(r)
    PROVE  /\ request' \in [Requests -> RequestType]
           /\ request'[r].at = "done" /\ request'[r].vm = 0 /\ ~request'[r].workspace
           /\ Same(r)
           /\ holder' = [s \in Sessions |-> IF holder[s] = r THEN None ELSE holder[s]]
<1> DEFINE new == [NoRequest EXCEPT !.at = "done"]
<1>1. /\ new \in RequestType /\ new.at = "done" /\ new.vm = 0 /\ ~new.workspace
  BY Blank DEF RequestType, Steps
<1>2. request' = [request EXCEPT ![r] = new]
  BY DEF End
<1> HIDE DEF new
<1>3. request' \in [Requests -> RequestType] /\ request'[r] = new /\ Same(r)
  BY <1>1, <1>2 DEF Same
<1> QED BY <1>1, <1>3 DEF End, Unlock

LEMMA ArriveFacts ==
    ASSUME request \in [Requests -> RequestType], NEW r \in Requests,
           NEW s \in Sessions \cup {None}, NEW w \in BOOLEAN, Arrive(r, s, w)
    PROVE  /\ request' \in [Requests -> RequestType]
           /\ request'[r].at \in {"lock", "kept", "warm"} /\ request'[r].vm = 0
           /\ request'[r].session = s /\ request'[r].workspace = w
           /\ request'[r].at = "lock" <=> w
           /\ request'[r].at = "kept" => s # None
           /\ Same(r)
<1> DEFINE step == IF w THEN "lock" ELSE IF s # None THEN "kept" ELSE "warm"
           new == [NoRequest EXCEPT !.session = s, !.workspace = w, !.at = step]
<1>1. request' = [request EXCEPT ![r] = new]
  BY DEF Arrive
<1>2. /\ new \in RequestType /\ new.at = step /\ new.vm = 0
      /\ new.session = s /\ new.workspace = w
  BY Blank DEF RequestType, Steps
<1> HIDE DEF new
<1>3. /\ request' \in [Requests -> RequestType] /\ request'[r] = new /\ Same(r)
  BY <1>1, <1>2 DEF Same
<1> QED BY <1>2, <1>3

LEMMA ArriveLooseFacts ==
    ASSUME request \in [Requests -> RequestType], NEW r \in Requests, NEW s \in Sessions,
           ArriveWithoutSession(r, s)
    PROVE  /\ request' \in [Requests -> RequestType]
           /\ request'[r].at = "count" /\ request'[r].vm = 0
           /\ request'[r].session = s /\ request'[r].workspace
           /\ Same(r)
<1> DEFINE new == [NoRequest EXCEPT !.session = s, !.workspace = TRUE, !.at = "count"]
<1>1. request' = [request EXCEPT ![r] = new]
  BY DEF ArriveWithoutSession
<1>2. /\ new \in RequestType /\ new.at = "count" /\ new.vm = 0
      /\ new.session = s /\ new.workspace
  BY Blank DEF RequestType, Steps
<1> HIDE DEF new
<1>3. request' \in [Requests -> RequestType] /\ request'[r] = new /\ Same(r)
  BY <1>1, <1>2 DEF Same
<1> QED BY <1>2, <1>3

LEMMA LoadFacts ==
    ASSUME request \in [Requests -> RequestType], active \in Int, NEW r \in Requests, Load(r)
    PROVE  /\ request' \in [Requests -> RequestType]
           /\ request[r].at = "count" /\ Same(r)
           /\ \/ End(r)
              \/ /\ request'[r].at = "cas" /\ request'[r].seen = active /\ active < MaxCount
                 /\ request'[r].vm = request[r].vm /\ Kind(r) /\ holder' = holder
<1>1. CASE active >= MaxCount
  BY <1>1, EndFacts DEF Load
<1>2. CASE ~(active >= MaxCount)
  <2> DEFINE new == [request[r] EXCEPT !.at = "cas", !.seen = active]
  <2>1. request' = [request EXCEPT ![r] = new] /\ holder' = holder
    BY <1>2 DEF Load
  <2>2. /\ new \in RequestType /\ new.at = "cas" /\ new.seen = active
        /\ new.vm = request[r].vm /\ new.session = request[r].session
        /\ new.workspace = request[r].workspace
    BY DEF RequestType, Steps
  <2> HIDE DEF new
  <2>3. /\ request' \in [Requests -> RequestType] /\ request'[r] = new /\ Same(r)
    BY <2>1, <2>2 DEF Same
  <2> QED BY <2>1, <2>2, <2>3, <1>2 DEF Load, Kind, PoolAssumption
<1> QED BY <1>1, <1>2

LEMMA RestBlank == AtRest \in MaintainerType /\ AtRest.at = "idle" /\ AtRest.vm = 0
  BY DEF AtRest, MaintainerType

LEMMA AgainFacts ==
    ASSUME maintainer \in MaintainerType, Again
    PROVE  maintainer' \in MaintainerType /\ maintainer'.at \in {"idle", "count"} /\ maintainer'.vm = 0
<1>1. CASE maintainer.left > 1
  <2> DEFINE new == [AtRest EXCEPT !.at = "count", !.left = maintainer.left - 1]
  <2>0. maintainer.left - 1 \in Nat
    BY <1>1 DEF MaintainerType
  <2>1. new \in MaintainerType /\ new.at = "count" /\ new.vm = 0
    BY <2>0, RestBlank DEF MaintainerType
  <2> QED BY <1>1, <2>1 DEF Again
<1>2. CASE ~(maintainer.left > 1)
  BY <1>2, RestBlank DEF Again
<1> QED BY <1>1, <1>2

-----------------------------------------------------------------------------
(* Finiteness *)

LEMMA VmNumbers == IsFiniteSet(Vms) /\ Vms \subseteq Nat /\ 0 \notin Vms
  BY FS_Interval DEF Vms, PoolAssumption

LEMMA WarmFinite == warm \in SUBSET Vms => IsFiniteSet(warm) /\ Cardinality(warm) \in Nat
  BY VmNumbers, FS_Subset, FS_CardinalityType

-----------------------------------------------------------------------------
(* The types *)

LEMMA InitTypes == Init => TypeOK
  BY Blank, RestBlank DEF Init, TypeOK, RequestType, Steps, MaintainerType, PoolAssumption

(* What the places of a VM and the locks add to the types.                 *)
LEMMA Placed ==
    ASSUME TypeOK, Apart, Locks
    PROVE  /\ \A r \in Requests : request[r].at \in InVm => request[r].vm \in running
           /\ \A r \in Requests : request[r].vm \in {0} \cup Vms
           /\ \A r \in Requests : request[r].session # None => request[r].session \in Sessions
           /\ \A r \in Requests : request[r].at = "kept" => request[r].session \in Sessions
           /\ \A s \in Sessions : kept[s] \in {0} \cup Vms
           /\ maintainer.at = "configure" => maintainer.vm \in running
           /\ maintainer.vm \in {0} \cup Vms
           /\ running \subseteq Vms
           /\ Sessions \subseteq DOMAIN kept /\ None \notin Sessions
  BY DEF TypeOK, Apart, Idle, InHands, InMap, InMaking, Locks, Free, RequestType, MaintainerType

LEMMA CountActiveFacts ==
    ASSUME TypeOK, CountActive
    PROVE  /\ maintainer' \in MaintainerType /\ maintainer'.at \in {"idle", "count"}
           /\ maintainer'.vm \in {0, maintainer.vm}
<1> DEFINE left == IF maintainer.left < MaxCount - active THEN maintainer.left
                   ELSE MaxCount - active
           new == [maintainer EXCEPT !.at = "count", !.left = left]
<1>1. CASE active < MaxCount
  <2>1. left \in Nat
    BY <1>1 DEF TypeOK, MaintainerType, PoolAssumption
  <2>2. maintainer' = new
    BY <1>1 DEF CountActive
  <2> HIDE DEF left
  <2> QED BY <2>1, <2>2 DEF TypeOK, MaintainerType
<1>2. CASE ~(active < MaxCount)
  BY <1>2, RestBlank DEF CountActive
<1> QED BY <1>1, <1>2

LEMMA MaintainerSpawnsFacts ==
    ASSUME TypeOK, MaintainerSpawns
    PROVE  /\ maintainer' \in MaintainerType
           /\ UNCHANGED <<warm, kept, history>> /\ maintainer.at # "configure"
           /\ \/ /\ \E v \in Vms : /\ Started(v)
                                   /\ maintainer'.at = "configure" /\ maintainer'.vm = v
                 /\ UNCHANGED <<active, failures>>
              \/ Fails /\ Again /\ UNCHANGED <<running, drive>>
<1>1. ASSUME NEW v \in Vms, Has(v)
      PROVE  /\ maintainer' \in MaintainerType
             /\ maintainer'.at = "configure" /\ maintainer'.vm = v
  BY <1>1 DEF Has, TypeOK, MaintainerType
<1>2. UNCHANGED <<warm, kept, history>> /\ maintainer.at # "configure"
  BY DEF MaintainerSpawns
<1> QED BY <1>1, <1>2, AgainFacts DEF MaintainerSpawns, TypeOK

LEMMA MaintainKeeps ==
    ASSUME Maintain
    PROVE  UNCHANGED <<request, holder, mark, ahead, lost, loose>> /\ orphans \subseteq orphans'
<1> DEFINE Kept == /\ UNCHANGED <<request, holder, mark, ahead, lost, loose>>
                   /\ orphans \subseteq orphans'
<1>1. ASSUME NEW s \in Sessions, Evict(s) PROVE Kept
  BY <1>1 DEF Evict, files
<1>2. CASE CountWarm
  BY <1>2 DEF CountWarm, files
<1>3. CASE CountActive
  BY <1>3 DEF CountActive, files
<1>4. CASE MaintainerLoads
  BY <1>4 DEF MaintainerLoads, files
<1>5. CASE MaintainerCountsUp
  BY <1>5 DEF MaintainerCountsUp, files
<1>6. CASE MaintainerSpawns
  BY <1>6 DEF MaintainerSpawns
<1>7. CASE MaintainerPushes
  BY <1>7 DEF MaintainerPushes, files
<1> QED BY <1>1, <1>2, <1>3, <1>4, <1>5, <1>6, <1>7 DEF Maintain

(* A step of a request knows no workspace to be loose.                     *)
LEMMA StepKeeps ==
    ASSUME NEW r \in Requests, Step(r)
    PROVE  UNCHANGED <<loose, maintainer>> /\ orphans \subseteq orphans'
  BY DEF Step, LockWorkspace, TakeKept, TakeWarm, Load, CountUp, Spawn, Boot, Run, Store, Sync

LEMMA FailsTypes ==
    ASSUME TypeOK, Fails \/ UNCHANGED <<active, failures>>
    PROVE  active' \in Int /\ failures' \in 0 .. MaxFailures
  BY DEF TypeOK, Fails, PoolAssumption

LEMMA StartedTypes ==
    ASSUME TypeOK, (\E v \in Vms : Started(v)) \/ UNCHANGED <<running, drive>>
    PROVE  running' \in SUBSET Vms /\ drive' \in [Vms -> Sessions \cup {None}]
  BY DEF TypeOK, Started

LEMMA PreparedTypes ==
    ASSUME TypeOK, Apart, Locks, NEW r \in Requests, PreparedInPart(r)
    PROVE  /\ drive' \in [Vms -> Sessions \cup {None}] /\ ahead' \in SUBSET Sessions
           /\ mark' \in [Sessions -> {"none", "dirty", "clean"}]
<1>1. /\ drive' \in {drive, Attached(r)} /\ mark' \in {mark, Dirty(r)}
      /\ ahead' \in {ahead, ahead \ Own(r)}
  BY DEF PreparedInPart, Prepared, files
<1>2. Attached(r) \in [Vms -> Sessions \cup {None}]
  BY Placed DEF TypeOK, Attached, RequestType
<1>3. Dirty(r) \in [Sessions -> {"none", "dirty", "clean"}]
  BY DEF TypeOK, Dirty
<1> QED BY <1>1, <1>2, <1>3 DEF TypeOK

LEMMA StepTypes ==
    ASSUME TypeOK, Apart, Locks, NEW r \in Requests, Step(r)
    PROVE  TypeOK'
<1>1. CASE LockWorkspace(r)
  BY <1>1, GoFacts DEF TypeOK, LockWorkspace, pool, files, Steps, RequestType
<1>2. CASE TakeKept(r)
  <2>1. request' \in [Requests -> RequestType]
    BY <1>2, Placed, GoFacts, GoWithFacts DEF TypeOK, TakeKept, Steps
  <2> QED BY <1>2, <2>1 DEF TypeOK, TakeKept, files
<1>3. CASE TakeWarm(r)
  BY <1>3, GoFacts, GoWithFacts DEF TypeOK, TakeWarm, files, Steps
<1>4. CASE Load(r)
  <2>1. request' \in [Requests -> RequestType] /\ holder' \in [Sessions -> Requests \cup {None}]
    BY <1>4, LoadFacts, EndFacts DEF TypeOK
  <2> QED BY <1>4, <2>1 DEF TypeOK, Load, pool, files
<1>5. CASE CountUp(r)
  BY <1>5, GoFacts DEF TypeOK, CountUp, files, Steps
<1>6. CASE Spawn(r)
  <2>1. request' \in [Requests -> RequestType] /\ holder' \in [Sessions -> Requests \cup {None}]
    <3>1. CASE End(r)
      BY <3>1, EndFacts DEF TypeOK
    <3>2. ASSUME NEW v \in Vms, GoWith(r, "configure", v), holder' = holder
          PROVE  request' \in [Requests -> RequestType] /\ holder' \in [Sessions -> Requests \cup {None}]
      BY <3>2, GoWithFacts DEF TypeOK, Steps
    <3> QED BY <1>6, <3>1, <3>2 DEF Spawn
  <2> QED BY <1>6, <2>1, FailsTypes, StartedTypes DEF TypeOK, Spawn
<1>7. CASE Boot(r)
  <2>1. request' \in [Requests -> RequestType] /\ holder' \in [Sessions -> Requests \cup {None}]
    BY <1>7, GoFacts, EndFacts DEF TypeOK, Boot, Steps
  <2>2. /\ drive' \in [Vms -> Sessions \cup {None}] /\ ahead' \in SUBSET Sessions
        /\ mark' \in [Sessions -> {"none", "dirty", "clean"}]
    BY <1>7, PreparedTypes DEF Boot, PreparedInPart
  <2>3. orphans' \in SUBSET Vms
    BY <1>7, Placed DEF TypeOK, Boot, InVm
  <2> QED BY <1>7, <2>1, <2>2, <2>3, FailsTypes DEF TypeOK, Boot
<1>8. CASE Run(r)
  BY <1>8, GoFacts, GoWithFacts, EndFacts DEF TypeOK, Run, Terminate, files, Steps
<1>9. CASE Store(r)
  <2>1. kept' \in [Sessions -> {0} \cup Vms]
    BY <1>9, Placed DEF TypeOK, Store, Terminate
  <2>2. lost' \in SUBSET Vms /\ warm' \in SUBSET Vms
    <3>1. request[r].vm \in Vms
      BY <1>9, Placed DEF Store, InVm
    <3> QED BY <1>9, <3>1, Placed DEF TypeOK, Store, Terminate
  <2>3. running' \in SUBSET Vms /\ active' \in Int
    BY <1>9 DEF TypeOK, Store, Terminate
  <2> QED BY <1>9, <2>1, <2>2, <2>3, EndFacts DEF TypeOK, Store, files
<1>10. CASE Sync(r)
  BY <1>10, EndFacts DEF TypeOK, Sync, pool
<1> QED BY <1>1, <1>2, <1>3, <1>4, <1>5, <1>6, <1>7, <1>8, <1>9, <1>10 DEF Step

LEMMA MaintainTypes ==
    ASSUME TypeOK, Apart, Locks, Maintain
    PROVE  TypeOK'
<1>1. ASSUME NEW s \in Sessions, Evict(s) PROVE TypeOK'
  BY <1>1 DEF TypeOK, Evict, Terminate, files
<1>2. CASE CountWarm
  <2>1. WarmCount - Cardinality(warm) \in Nat
    BY <1>2, WarmFinite DEF TypeOK, CountWarm, PoolAssumption
  <2> QED BY <1>2, <2>1, RestBlank DEF TypeOK, CountWarm, MaintainerType, pool, files
<1>3. CASE CountActive
  BY <1>3, CountActiveFacts DEF TypeOK, CountActive, pool, files
<1>4. CASE MaintainerLoads
  BY <1>4, RestBlank DEF TypeOK, MaintainerLoads, MaintainerType, pool, files
<1>5. CASE MaintainerCountsUp
  BY <1>5, AgainFacts DEF TypeOK, MaintainerCountsUp, MaintainerType, files
<1>6. CASE MaintainerSpawns
  <2>1. maintainer' \in MaintainerType
    BY <1>6, MaintainerSpawnsFacts
  <2> QED BY <1>6, <2>1, FailsTypes, StartedTypes DEF TypeOK, MaintainerSpawns
<1>7. CASE MaintainerPushes
  <2>1. warm' \in SUBSET Vms /\ orphans' \in SUBSET Vms
    BY <1>7, Placed DEF TypeOK, MaintainerPushes
  <2> QED BY <1>7, <2>1, FailsTypes, AgainFacts DEF TypeOK, MaintainerPushes, files
<1> QED BY <1>1, <1>2, <1>3, <1>4, <1>5, <1>6, <1>7 DEF Maintain

LEMMA NextTypes ==
    ASSUME TypeOK, Apart, Locks, [Next]_vars
    PROVE  TypeOK'
<1>1. ASSUME NEW r \in Requests, NEW s \in Sessions \cup {None}, NEW w \in BOOLEAN,
             Arrive(r, s, w)
      PROVE  TypeOK'
  <2>1. request' \in [Requests -> RequestType]
    BY <1>1, ArriveFacts DEF TypeOK
  <2> QED BY <1>1, <2>1 DEF TypeOK, Arrive, pool, files
<1>l. ASSUME NEW r \in Requests, NEW s \in Sessions, ArriveWithoutSession(r, s)
      PROVE  TypeOK'
  BY <1>l, ArriveLooseFacts DEF TypeOK, ArriveWithoutSession, pool, files
<1>2. ASSUME NEW r \in Requests, Dropped(r) PROVE TypeOK'
  <2>1. lost' \in SUBSET Vms
    BY <1>2, Placed DEF TypeOK, Dropped
  <2>2. /\ mark' \in [Sessions -> {"none", "dirty", "clean"}] /\ ahead' \in SUBSET Sessions
        /\ drive' \in [Vms -> Sessions \cup {None}]
    BY <1>2, PreparedTypes DEF TypeOK, Dropped, files
  <2> QED BY <1>2, <2>1, <2>2, EndFacts DEF TypeOK, Dropped, pool
<1>3. ASSUME NEW v \in Vms, GuestWrites(v) PROVE TypeOK'
  BY <1>3 DEF TypeOK, GuestWrites, pool
<1>4. ASSUME NEW s \in Sessions, Cleanup(s) PROVE TypeOK'
  BY <1>4 DEF TypeOK, Cleanup, pool
<1>5. CASE UNCHANGED vars
  BY <1>5 DEF TypeOK, vars, pool, files
<1> QED BY <1>1, <1>l, <1>2, <1>3, <1>4, <1>5, StepTypes, MaintainTypes DEF Next

-----------------------------------------------------------------------------
(* A VM is in one place *)

LEMMA StartedFacts ==
    ASSUME TypeOK, NEW v \in Vms, Started(v)
    PROVE  /\ v # 0 /\ v \notin running /\ running' = running \cup {v}
           /\ drive' \in [Vms -> Sessions \cup {None}]
           /\ drive'[v] = None /\ \A u \in Vms \ {v} : drive'[u] = drive[u]
  BY VmNumbers DEF TypeOK, Started

LEMMA RunsIn ==
    ASSUME request \in [Requests -> RequestType], NEW r \in Requests, NEW v \in {0} \cup Vms,
           GoWith(r, "run", v)
    PROVE  request'[r].at = "run" /\ request'[r].vm = v /\ Kind(r) /\ Same(r)
  BY GoWithFacts DEF Steps

LEMMA StepApart ==
    ASSUME TypeOK, TypeOK', Apart, Locks, NEW r \in Requests, Step(r)
    PROVE  Apart'
<1> USE DEF InVm, Free, Apart, Idle, InHands, InMap, InMaking
<1>0. request \in [Requests -> RequestType] /\ 0 \notin running
  BY VmNumbers DEF TypeOK
<1>1. CASE LockWorkspace(r)
  BY <1>0, <1>1, GoFacts DEF LockWorkspace, pool, Steps, Same
<1>2. CASE TakeKept(r)
  <2>1. CASE kept[request[r].session] # 0
    <3>1. /\ request'[r].at = "run" /\ request'[r].vm = kept[request[r].session] /\ Same(r)
      <4>1. /\ request[r].session \in Sessions
            /\ GoWith(r, "run", kept[request[r].session])
        BY <1>2, <2>1, Placed DEF TakeKept
      <4>2. PICK v \in {0} \cup Vms : v = kept[request[r].session]
        BY <4>1, Placed
      <4>3. GoWith(r, "run", v)
        BY <4>1, <4>2
      <4> QED BY <1>0, <4>2, <4>3, RunsIn
    <3>2. kept'[request[r].session] = 0
          /\ \A s \in Sessions : s # request[r].session => kept'[s] = kept[s]
      BY <1>2, <2>1, Placed DEF TakeKept, TypeOK
    <3> QED BY <1>0, <1>2, <2>1, <3>1, <3>2, Placed DEF TakeKept, Same
  <2>2. CASE ~(kept[request[r].session] # 0)
    BY <1>0, <1>2, <2>2, GoFacts DEF TakeKept, Steps, Same
  <2> QED BY <2>1, <2>2
<1>3. CASE TakeWarm(r)
  <2>1. ASSUME NEW v \in warm, GoWith(r, "run", v), warm' = warm \ {v} PROVE Apart'
    <3>1. request'[r].at = "run" /\ request'[r].vm = v /\ Same(r) /\ v # 0
      <4>1. v \in {0} \cup Vms /\ v # 0
        BY <1>0, <2>1 DEF TypeOK
      <4> QED BY <1>0, <2>1, <4>1, RunsIn
    <3> QED BY <1>0, <1>3, <2>1, <3>1, Placed DEF TakeWarm, Same
  <2>2. CASE Go(r, "count") /\ UNCHANGED warm
    BY <1>0, <1>3, <2>2, GoFacts DEF TakeWarm, Steps, Same
  <2> QED BY <1>3, <2>1, <2>2 DEF TakeWarm
<1>4. CASE Load(r)
  BY <1>0, <1>4, LoadFacts, EndFacts DEF TypeOK, Apart, Free, Load, pool, Same
<1>5. CASE CountUp(r)
  BY <1>0, <1>5, GoFacts DEF CountUp, Steps, Same
<1>6. CASE Spawn(r)
  <2>1. ASSUME NEW v \in Vms, Started(v), GoWith(r, "configure", v) PROVE Apart'
    <3>1. request'[r].at = "configure" /\ request'[r].vm = v /\ Same(r)
      BY <1>0, <2>1, GoWithFacts DEF Steps
    <3> QED BY <1>0, <1>6, <2>1, <3>1, StartedFacts, Placed DEF Spawn, Same
  <2>2. CASE End(r) /\ UNCHANGED <<running, drive>>
    BY <1>0, <1>6, <2>2, EndFacts DEF Spawn, Same
  <2> QED BY <1>6, <2>1, <2>2 DEF Spawn
<1>7. CASE Boot(r)
  <2>1. CASE Go(r, "run") /\ UNCHANGED orphans
    BY <1>0, <1>7, <2>1, GoFacts DEF Boot, Steps, Same
  <2>2. CASE End(r)
    <3>1. /\ request'[r].at = "done" /\ request'[r].vm = 0 /\ Same(r)
          /\ UNCHANGED <<warm, kept, maintainer, running, lost>>
          /\ orphans' \subseteq orphans \cup {request[r].vm} /\ request[r].vm \in running
      BY <1>0, <1>7, <2>2, EndFacts DEF Boot
    <3>2. Idle'
      BY <1>0, <3>1
    <3>3. InHands'
      BY <1>0, <1>7, <3>1 DEF Same, Boot
    <3>4. InMap'
      BY <1>0, <3>1 DEF Same
    <3>5. InMaking'
      BY <1>0, <3>1 DEF Same
    <3> QED BY <3>2, <3>3, <3>4, <3>5
  <2> QED BY <1>7, <2>1, <2>2 DEF Boot
<1>8. CASE Run(r)
  <2>1. CASE Terminate(request[r].vm)
             /\ IF request[r].workspace THEN GoWith(r, "sync", 0) /\ UNCHANGED holder ELSE End(r)
    <3>1. request'[r].at \in {"sync", "done"} /\ request'[r].vm = 0 /\ Same(r)
      BY <1>0, <2>1, GoWithFacts, EndFacts DEF Steps
    <3>2. running' = running \ {request[r].vm} /\ UNCHANGED <<warm, kept, maintainer, lost, orphans>>
      BY <1>8, <2>1 DEF Run, Terminate
    <3>3. request[r].vm # 0 /\ Free(request[r].vm)
      BY <1>0, <1>8, Placed DEF Run
    <3>4. Idle'
      BY <1>0, <3>1, <3>2, <3>3 DEF Same
    <3>5. InHands'
      BY <1>0, <3>1, <3>2, <3>3 DEF Same
    <3>6. InMap'
      BY <1>0, <3>1, <3>2, <3>3 DEF Same
    <3>7. InMaking'
      BY <1>0, <3>1, <3>2, <3>3 DEF Same
    <3> QED BY <3>4, <3>5, <3>6, <3>7
  <2>2. CASE Go(r, "store") /\ UNCHANGED <<active, running, holder>>
    BY <1>0, <1>8, <2>2, GoFacts DEF Run, Steps, Same
  <2> QED BY <1>8, <2>1, <2>2 DEF Run
<1>9. CASE Store(r)
  <2>1. /\ request'[r].at = "done" /\ request'[r].vm = 0 /\ Same(r)
        /\ request[r].vm # 0 /\ Free(request[r].vm)
    BY <1>0, <1>9, EndFacts, VmNumbers, Placed DEF Store, Apart
  <2>2. CASE request[r].session # None
    <3>1. /\ request[r].session \in Sessions
          /\ kept'[request[r].session] = request[r].vm
          /\ \A s \in Sessions : s # request[r].session => kept'[s] = kept[s]
          /\ lost' = lost \cup ({kept[request[r].session]} \ {0})
          /\ UNCHANGED <<warm, running, maintainer, orphans>>
      BY <1>9, <2>2, Placed DEF Store, TypeOK
    <3>2. Idle'
      BY <1>0, <2>1, <3>1 DEF Same
    <3>3. InHands'
      BY <1>0, <2>1, <3>1 DEF Same
    <3>4. InMap'
      BY <1>0, <2>1, <3>1 DEF Same
    <3>5. InMaking'
      BY <1>0, <2>1, <3>1 DEF Same
    <3> QED BY <3>2, <3>3, <3>4, <3>5
  <2>3. CASE ~(request[r].session # None) /\ Cardinality(warm) < WarmCount
    <3>1. warm' = warm \cup {request[r].vm} /\ UNCHANGED <<kept, running, maintainer, lost, orphans>>
      BY <1>9, <2>3 DEF Store
    <3>2. Idle'
      BY <1>0, <2>1, <3>1 DEF Same
    <3>3. InHands'
      BY <1>0, <2>1, <3>1 DEF Same
    <3>4. InMap'
      BY <1>0, <2>1, <3>1 DEF Same
    <3>5. InMaking'
      BY <1>0, <2>1, <3>1 DEF Same
    <3> QED BY <3>2, <3>3, <3>4, <3>5
  <2>4. CASE ~(request[r].session # None) /\ ~(Cardinality(warm) < WarmCount)
    <3>1. running' = running \ {request[r].vm} /\ UNCHANGED <<warm, kept, maintainer, lost, orphans>>
      BY <1>9, <2>4 DEF Store, Terminate
    <3>2. Idle'
      BY <1>0, <2>1, <3>1 DEF Same
    <3>3. InHands'
      BY <1>0, <2>1, <3>1 DEF Same
    <3>4. InMap'
      BY <1>0, <2>1, <3>1 DEF Same
    <3>5. InMaking'
      BY <1>0, <2>1, <3>1 DEF Same
    <3> QED BY <3>2, <3>3, <3>4, <3>5
  <2> QED BY <2>2, <2>3, <2>4
<1>10. CASE Sync(r)
  BY <1>0, <1>10, EndFacts DEF Sync, pool, Same
<1> QED BY <1>1, <1>2, <1>3, <1>4, <1>5, <1>6, <1>7, <1>8, <1>9, <1>10 DEF Step

LEMMA MaintainApart ==
    ASSUME TypeOK, TypeOK', Apart, Locks, Maintain
    PROVE  Apart'
<1> USE DEF InVm, Free, Apart, Idle, InHands, InMap, InMaking
<1>a. 0 \notin running
  BY VmNumbers DEF TypeOK
<1>0. 0 \notin running /\ UNCHANGED request
  BY <1>a, MaintainKeeps
<1>1. ASSUME NEW s \in Sessions, Evict(s) PROVE Apart'
  <2>1. /\ kept'[s] = 0 /\ \A t \in Sessions : t # s => kept'[t] = kept[t]
        /\ kept[s] # 0 /\ Free(kept[s]) /\ UNCHANGED <<maintainer, history>>
    BY <1>1 DEF Evict, TypeOK, files
  <2>2. CASE warm' = warm \cup {kept[s]} /\ UNCHANGED running
    BY <1>0, <2>1, <2>2
  <2>3. CASE running' = running \ {kept[s]} /\ UNCHANGED warm
    BY <1>0, <2>1, <2>3
  <2> QED BY <1>1, <2>2, <2>3 DEF Evict, Terminate
<1>2. CASE CountWarm
  BY <1>2, RestBlank DEF CountWarm, pool, files, TypeOK, MaintainerType, AtRest
<1>3. CASE CountActive
  <2>1. maintainer'.at # "configure" /\ maintainer'.vm = 0
    BY <1>3, CountActiveFacts DEF CountActive, TypeOK
  <2> QED BY <1>0, <1>3, <2>1 DEF CountActive, pool, files
<1>4. CASE MaintainerLoads
  BY <1>4, RestBlank DEF MaintainerLoads, pool, files, TypeOK, MaintainerType
<1>5. CASE MaintainerCountsUp
  BY <1>5, AgainFacts DEF MaintainerCountsUp, files, TypeOK, MaintainerType
<1>6. CASE MaintainerSpawns
  <2>0. UNCHANGED <<warm, kept, history>> /\ maintainer.at # "configure"
    BY <1>6, MaintainerSpawnsFacts
  <2>1. ASSUME NEW v \in Vms, Started(v), maintainer'.at = "configure" /\ maintainer'.vm = v
        PROVE  Apart'
    <3>1. maintainer'.at = "configure" /\ maintainer'.vm = v
      BY <2>1
    <3>2. v \notin running /\ running' = running \cup {v} /\ v # 0
      BY <2>1, StartedFacts
    <3>3. Idle' /\ InHands'
      BY <1>0, <2>0, <3>2
    <3>4. InMap'
      BY <1>0, <2>0, <3>2
    <3>5. v \notin warm' /\ v \notin Strays'
      BY <2>0, <3>2
    <3>6. \A r \in Requests : request'[r].vm # v
      BY <1>0, <3>2
    <3>7. \A s \in Sessions : kept'[s] # v
      BY <2>0, <3>2
    <3> QED BY <3>1, <3>2, <3>3, <3>4, <3>5, <3>6, <3>7
  <2>2. CASE Again /\ UNCHANGED <<running, drive>>
    <3>1. maintainer'.at # "configure" /\ maintainer'.vm = 0
      BY <2>2, AgainFacts DEF TypeOK
    <3> QED BY <1>0, <2>0, <2>2, <3>1
  <2> QED BY <1>6, <2>1, <2>2, MaintainerSpawnsFacts
<1>7. CASE MaintainerPushes
  <2>1. maintainer'.at # "configure" /\ maintainer'.vm = 0 /\ UNCHANGED <<kept, running, lost>>
    BY <1>7, AgainFacts DEF MaintainerPushes, TypeOK
  <2>2. \/ warm' = warm \cup {maintainer.vm} /\ orphans' = orphans
        \/ warm' = warm /\ orphans' = orphans \cup {maintainer.vm}
    BY <1>7 DEF MaintainerPushes
  <2> QED BY <1>0, <1>7, <2>1, <2>2 DEF MaintainerPushes
<1> QED BY <1>1, <1>2, <1>3, <1>4, <1>5, <1>6, <1>7 DEF Maintain

LEMMA NextApart ==
    ASSUME TypeOK, TypeOK', Apart, Locks, [Next]_vars
    PROVE  Apart'
<1> USE DEF InVm, Free, Apart, Idle, InHands, InMap, InMaking
<1>0. request \in [Requests -> RequestType] /\ 0 \notin running
  BY VmNumbers DEF TypeOK
<1>1. ASSUME NEW r \in Requests, NEW s \in Sessions \cup {None}, NEW w \in BOOLEAN,
             Arrive(r, s, w)
      PROVE  Apart'
  <2>1. /\ request'[r].at \notin InVm /\ request'[r].vm = 0 /\ Same(r)
        /\ UNCHANGED <<warm, kept, maintainer, running, lost, orphans>>
    <3>1. /\ request'[r].at \in {"lock", "kept", "warm"} /\ request'[r].vm = 0 /\ Same(r)
      BY <1>0, <1>1, ArriveFacts
    <3>2. UNCHANGED <<warm, kept, maintainer, running, lost, orphans>>
      BY <1>1 DEF Arrive, pool
    <3> QED BY <3>1, <3>2
  <2> QED BY <1>0, <2>1 DEF Same
<1>l. ASSUME NEW r \in Requests, NEW s \in Sessions, ArriveWithoutSession(r, s)
      PROVE  Apart'
  <2>1. /\ request'[r].at \notin InVm /\ request'[r].vm = 0 /\ Same(r)
        /\ UNCHANGED <<warm, kept, maintainer, running, lost, orphans>>
    BY <1>0, <1>l, ArriveLooseFacts DEF ArriveWithoutSession, pool
  <2> QED BY <1>0, <2>1 DEF Same
<1>2. ASSUME NEW r \in Requests, Dropped(r) PROVE Apart'
  <2>1. /\ request'[r].at = "done" /\ request'[r].vm = 0 /\ Same(r)
        /\ lost' = lost \cup ({request[r].vm} \ {0})
        /\ UNCHANGED <<warm, kept, maintainer, running, orphans>>
    BY <1>0, <1>2, EndFacts DEF Dropped, pool
  <2>2. Idle'
    BY <1>0, <2>1
  <2>3. InHands'
    BY <1>0, <2>1 DEF Same
  <2>4. InMap'
    BY <1>0, <2>1 DEF Same
  <2>5. InMaking'
    BY <1>0, <2>1 DEF Same
  <2> QED BY <2>2, <2>3, <2>4, <2>5
<1>3. ASSUME NEW v \in Vms, GuestWrites(v) PROVE Apart'
  BY <1>3 DEF GuestWrites, pool
<1>4. ASSUME NEW s \in Sessions, Cleanup(s) PROVE Apart'
  BY <1>4 DEF Cleanup, pool
<1>5. CASE UNCHANGED vars
  BY <1>5 DEF vars, pool, files
<1> QED BY <1>1, <1>2, <1>3, <1>4, <1>5, <1>l, StepApart, MaintainApart DEF Next

-----------------------------------------------------------------------------
(* Who runs in a workspace has its lock *)

(* At the end of a request the lock it had, if any, is free.               *)
LEMMA EndLocks ==
    ASSUME TypeOK, Locks, NEW r \in Requests, End(r), UNCHANGED loose
    PROVE  Locks'
<1>1. /\ request'[r].at = "done" /\ ~request'[r].workspace /\ Same(r)
      /\ holder' = [s \in Sessions |-> IF holder[s] = r THEN None ELSE holder[s]]
  BY EndFacts DEF TypeOK
<1>2. ASSUME NEW q \in Requests \ {r} PROVE
        /\ request'[q] = request[q]
        /\ request[q].session \in Sessions /\ holder[request[q].session] = q
              => holder'[request[q].session] = q
  BY <1>1, <1>2 DEF Same
<1> QED BY <1>1, <1>2 DEF Locks, Unlocked

(* A step of a request that leaves the lock alone.                         *)
LEMMA KeepLocks ==
    ASSUME Locks, NEW r \in Requests, Same(r), Kind(r), UNCHANGED <<holder, loose>>,
           request[r].at \notin Unlocked,
           request'[r].at \in {"lock", "sync"} => request[r].workspace,
           request'[r].at \in {"warm", "store"} => ~request[r].workspace,
           request'[r].at # "kept"
    PROVE  Locks'
  BY DEF Locks, Same, Kind

LEMMA StepLocks ==
    ASSUME TypeOK, Apart, Locks, NEW r \in Requests, Step(r)
    PROVE  Locks'
<1>0. /\ request \in [Requests -> RequestType] /\ holder \in [Sessions -> Requests \cup {None}]
      /\ UNCHANGED loose
  BY StepKeeps DEF TypeOK
<1>1. CASE LockWorkspace(r)
  <2>1. /\ request'[r].at = "count" /\ Kind(r) /\ Same(r)
        /\ request[r].workspace /\ request[r].session \in Sessions
        /\ holder[request[r].session] = None
        /\ holder' = [holder EXCEPT ![request[r].session] = r]
    BY <1>0, <1>1, GoFacts DEF LockWorkspace, Locks, Steps
  <2>2. ASSUME NEW q \in Requests \ {r} PROVE
          /\ request'[q] = request[q]
          /\ request[q].session \in Sessions /\ holder[request[q].session] = q
                => holder'[request[q].session] = q
    BY <1>0, <2>1 DEF Same
  <2> QED BY <1>0, <2>1, <2>2 DEF Locks, Unlocked, Kind
<1>2. CASE TakeKept(r)
  <2>1. \/ Go(r, "warm")
        \/ GoWith(r, "run", kept[request[r].session])
    BY <1>2 DEF TakeKept
  <2>2. request[r].at = "kept" /\ ~request[r].workspace /\ UNCHANGED holder
    BY <1>2 DEF TakeKept, Locks
  <2>3. CASE Go(r, "warm")
    BY <1>0, <2>2, <2>3, GoFacts, KeepLocks DEF Unlocked, Steps
  <2>4. CASE GoWith(r, "run", kept[request[r].session])
    <3>1. PICK v \in {0} \cup Vms : v = kept[request[r].session]
      BY <2>2, Placed
    <3>2. request'[r].at = "run" /\ Kind(r) /\ Same(r)
      BY <1>0, <2>4, <3>1, RunsIn
    <3> QED BY <1>0, <2>2, <3>2, KeepLocks DEF Unlocked
  <2> QED BY <2>1, <2>3, <2>4
<1>3. CASE TakeWarm(r)
  <2>1. request[r].at = "warm" /\ ~request[r].workspace /\ UNCHANGED holder
    BY <1>3 DEF TakeWarm, Locks
  <2>2. CASE Go(r, "count")
    BY <1>0, <2>1, <2>2, GoFacts, KeepLocks DEF Unlocked, Steps
  <2>3. ASSUME NEW v \in warm, GoWith(r, "run", v) PROVE Locks'
    <3>1. v \in {0} \cup Vms
      BY DEF TypeOK
    <3>2. request'[r].at = "run" /\ Kind(r) /\ Same(r)
      BY <1>0, <2>3, <3>1, RunsIn
    <3> QED BY <1>0, <2>1, <3>2, KeepLocks DEF Unlocked
  <2> QED BY <1>3, <2>2, <2>3 DEF TakeWarm
<1>4. CASE Load(r)
  <2>1. CASE End(r)
    BY <1>0, <2>1, EndLocks
  <2>2. CASE ~End(r)
    BY <1>0, <1>4, <2>2, LoadFacts, KeepLocks DEF TypeOK, Unlocked
  <2> QED BY <2>1, <2>2
<1>5. CASE CountUp(r)
  BY <1>0, <1>5, GoFacts, KeepLocks DEF CountUp, Unlocked, Steps
<1>6. CASE Spawn(r)
  <2>1. ASSUME NEW v \in Vms, GoWith(r, "configure", v), UNCHANGED holder PROVE Locks'
    BY <1>0, <1>6, <2>1, GoWithFacts, KeepLocks DEF Spawn, Unlocked, Steps
  <2> QED BY <1>0, <1>6, <2>1, EndLocks DEF Spawn
<1>7. CASE Boot(r)
  <2>1. CASE Go(r, "run") /\ UNCHANGED holder
    BY <1>0, <1>7, <2>1, GoFacts, KeepLocks DEF Boot, Unlocked, Steps
  <2> QED BY <1>0, <1>7, <2>1, EndLocks DEF Boot
<1>8. CASE Run(r)
  <2>1. CASE request[r].workspace /\ GoWith(r, "sync", 0) /\ UNCHANGED holder
    BY <1>0, <1>8, <2>1, GoWithFacts, KeepLocks DEF Run, Unlocked, Steps
  <2>2. CASE ~request[r].workspace /\ Go(r, "store") /\ UNCHANGED holder
    BY <1>0, <1>8, <2>2, GoFacts, KeepLocks DEF Run, Unlocked, Steps
  <2> QED BY <1>0, <1>8, <2>1, <2>2, EndLocks DEF Run
<1>9. CASE Store(r)
  BY <1>0, <1>9, EndLocks DEF Store
<1>10. CASE Sync(r)
  BY <1>0, <1>10, EndLocks DEF Sync
<1> QED BY <1>1, <1>2, <1>3, <1>4, <1>5, <1>6, <1>7, <1>8, <1>9, <1>10 DEF Step

LEMMA NextLocks ==
    ASSUME TypeOK, Apart, Locks, [Next]_vars
    PROVE  Locks'
<1>1. ASSUME NEW r \in Requests, NEW s \in Sessions \cup {None}, NEW w \in BOOLEAN,
             Arrive(r, s, w)
      PROVE  Locks'
  <2>1. /\ request'[r].at \in {"lock", "kept", "warm"}
        /\ request'[r].session = s /\ request'[r].workspace = w
        /\ request'[r].at = "lock" <=> w
        /\ Same(r)
    BY <1>1, ArriveFacts DEF TypeOK
  <2>2. (w => s # None) /\ UNCHANGED holder
    BY <1>1 DEF Arrive
  <2>3. request'[r].at = "kept" => s # None
    BY <1>1, ArriveFacts DEF TypeOK
  <2> QED BY <1>1, <2>1, <2>2, <2>3 DEF Locks, Same, Unlocked, Arrive
<1>l. ASSUME NEW r \in Requests, NEW s \in Sessions, ArriveWithoutSession(r, s)
      PROVE  Locks'
  <2>1. /\ request'[r].at = "count" /\ request'[r].session = s /\ request'[r].workspace
        /\ Same(r)
    BY <1>l, ArriveLooseFacts DEF TypeOK
  <2>2. loose' = loose \cup {s} /\ UNCHANGED holder
    BY <1>l DEF ArriveWithoutSession
  <2> QED BY <2>1, <2>2 DEF Locks, Same, Unlocked
<1>2. ASSUME NEW r \in Requests, Dropped(r) PROVE Locks'
  BY <1>2, EndLocks DEF Dropped
<1>3. ASSUME NEW v \in Vms, GuestWrites(v) PROVE Locks'
  BY <1>3 DEF GuestWrites, Locks
<1>4. ASSUME NEW s \in Sessions, Cleanup(s) PROVE Locks'
  BY <1>4 DEF Cleanup, Locks
<1>5. CASE UNCHANGED vars
  BY <1>5 DEF vars, Locks
<1>6. CASE Maintain
  BY <1>6, MaintainKeeps DEF Locks
<1> QED BY <1>1, <1>l, <1>2, <1>3, <1>4, <1>5, <1>6, StepLocks DEF Next

-----------------------------------------------------------------------------
(* A VM with a drive is in the hands of a request of its session *)

(* A step of a request that gives a drive to no VM but one it drops.       *)
LEMMA KeepDrives ==
    ASSUME Drives, NEW r \in Requests, Same(r), running' \subseteq running,
           Strays \subseteq Strays', \A v \in running' \ Strays' : drive'[v] = drive[v],
           \/ request[r].at # "run" \/ ~request[r].workspace
           \/ request[r].vm \notin running' \/ request[r].vm \in Strays'
    PROVE  Drives'
<1>1. ASSUME NEW v \in running', v \notin Strays', drive'[v] # None
      PROVE  \E q \in Requests : Uses(q, v)'
  <2>1. PICK q \in Requests : Uses(q, v)
    BY <1>1 DEF Drives
  <2>2. q # r
    BY <1>1, <2>1 DEF Uses
  <2> QED BY <1>1, <2>1, <2>2 DEF Uses, Same
<1> QED BY <1>1 DEF Drives

(* The step that starts a VM: it has no drive yet.                         *)
LEMMA StartDrives ==
    ASSUME TypeOK, Drives, NEW v \in Vms, Started(v), UNCHANGED <<lost, orphans>>,
           \A q \in Requests : request[q].at = "run" => request'[q] = request[q]
    PROVE  Drives'
<1>1. /\ running' = running \cup {v} /\ drive'[v] = None
      /\ \A u \in Vms \ {v} : drive'[u] = drive[u]
  BY StartedFacts
<1>2. ASSUME NEW u \in running', u \notin Strays', drive'[u] # None
      PROVE  \E q \in Requests : Uses(q, u)'
  <2>1. u \in running /\ u # v /\ drive'[u] = drive[u]
    BY <1>1, <1>2 DEF TypeOK
  <2>2. PICK q \in Requests : Uses(q, u)
    BY <1>2, <2>1 DEF Drives
  <2> QED BY <2>1, <2>2 DEF Uses
<1> QED BY <1>2 DEF Drives

(* What is prepared for a VM is prepared for no other.                     *)
LEMMA PreparedDrives ==
    ASSUME TypeOK, NEW r \in Requests, PreparedInPart(r)
    PROVE  \A v \in Vms \ {request[r].vm} : drive'[v] = drive[v]
  BY DEF TypeOK, PreparedInPart, Prepared, Attached, files

LEMMA StepDrives ==
    ASSUME TypeOK, Apart, Locks, Drives, NEW r \in Requests, Step(r)
    PROVE  Drives'
<1>0. request \in [Requests -> RequestType]
  BY DEF TypeOK
<1>1. CASE LockWorkspace(r)
  BY <1>0, <1>1, GoFacts, KeepDrives DEF LockWorkspace, pool, files, Steps
<1>2. CASE TakeKept(r)
  <2>1. Same(r)
    BY <1>2 DEF TakeKept, Go, GoWith, Same, TypeOK
  <2> QED BY <1>2, <2>1, KeepDrives DEF TakeKept, files
<1>3. CASE TakeWarm(r)
  <2>1. Same(r)
    BY <1>3 DEF TakeWarm, Go, GoWith, Same, TypeOK
  <2> QED BY <1>3, <2>1, KeepDrives DEF TakeWarm, files
<1>4. CASE Load(r)
  BY <1>0, <1>4, LoadFacts, KeepDrives DEF Load, pool, files, TypeOK
<1>5. CASE CountUp(r)
  BY <1>0, <1>5, GoFacts, KeepDrives DEF CountUp, files, Steps
<1>6. CASE Spawn(r)
  <2>1. ASSUME NEW v \in Vms, Started(v), GoWith(r, "configure", v) PROVE Drives'
    <3>1. Same(r) /\ request[r].at # "run" /\ UNCHANGED <<lost, orphans>>
      BY <1>0, <1>6, <2>1, GoWithFacts DEF Spawn, Steps
    <3> QED BY <2>1, <3>1, StartDrives DEF Same
  <2>2. CASE End(r) /\ UNCHANGED <<running, drive>>
    BY <1>0, <1>6, <2>2, EndFacts, KeepDrives DEF Spawn
  <2> QED BY <1>6, <2>1, <2>2 DEF Spawn
<1>7. CASE Boot(r)
  <2> DEFINE new == IF request[r].workspace THEN request[r].session ELSE None
  <2>0. /\ request[r].at = "configure" /\ request[r].vm \in Vms
        /\ UNCHANGED <<running, lost>>
    BY <1>7, Placed DEF Boot, InVm
  <2>1. CASE drive' = [drive EXCEPT ![request[r].vm] = new] /\ Go(r, "run") /\ UNCHANGED orphans
    <3>1. /\ request'[r].at = "run" /\ request'[r].vm = request[r].vm /\ Kind(r) /\ Same(r)
      BY <1>0, <2>1, GoFacts DEF Steps
    <3>2. ASSUME NEW u \in running', u \notin Strays', drive'[u] # None
          PROVE  \E q \in Requests : Uses(q, u)'
      <4>1. CASE u = request[r].vm
        <5>1. drive'[u] = request[r].session /\ request[r].workspace
          BY <2>0, <2>1, <3>2, <4>1 DEF TypeOK
        <5> QED BY <3>1, <4>1, <5>1 DEF Uses, Kind
      <4>2. CASE u # request[r].vm
        <5>1. u \in Vms /\ drive'[u] = drive[u]
          BY <2>0, <2>1, <3>2, <4>2 DEF TypeOK
        <5>2. PICK q \in Requests : Uses(q, u)
          BY <2>0, <2>1, <3>2, <5>1 DEF Drives
        <5>3. q # r
          BY <2>0, <5>2 DEF Uses
        <5> QED BY <3>1, <5>1, <5>2, <5>3 DEF Uses, Same
      <4> QED BY <4>1, <4>2
    <3> QED BY <3>2 DEF Drives
  <2>2. CASE End(r) /\ PreparedInPart(r) /\ orphans' = orphans \cup {request[r].vm}
    <3>1. Strays \subseteq Strays' /\ \A v \in running' \ Strays' : drive'[v] = drive[v]
      BY <2>0, <2>2, PreparedDrives DEF TypeOK
    <3> QED BY <1>0, <2>0, <2>2, <3>1, EndFacts, KeepDrives
  <2> QED BY <1>7, <2>1, <2>2 DEF Boot, Prepared, Attached
<1>8. CASE Run(r)
  <2>1. Same(r) /\ UNCHANGED <<drive, lost, orphans>> /\ running' \subseteq running
    BY <1>8 DEF Run, Terminate, End, Go, GoWith, Same, TypeOK, files
  <2>2. ~request[r].workspace \/ request[r].vm \notin running'
    BY <1>8 DEF Run, Terminate
  <2> QED BY <2>1, <2>2, KeepDrives
<1>9. CASE Store(r)
  <2>1. /\ request[r].at # "run" /\ UNCHANGED drive
        /\ running' \subseteq running /\ lost \subseteq lost' /\ UNCHANGED orphans
    BY <1>9 DEF Store, Terminate, files
  <2> QED BY <1>0, <1>9, <2>1, EndFacts, KeepDrives DEF Store
<1>10. CASE Sync(r)
  BY <1>0, <1>10, EndFacts, KeepDrives DEF Sync, pool
<1> QED BY <1>1, <1>2, <1>3, <1>4, <1>5, <1>6, <1>7, <1>8, <1>9, <1>10 DEF Step

LEMMA MaintainDrives ==
    ASSUME TypeOK, Drives, Maintain
    PROVE  Drives'
<1>0. UNCHANGED <<request, lost>> /\ orphans \subseteq orphans'
  BY MaintainKeeps
<1>1. CASE running' \subseteq running /\ UNCHANGED drive
  BY <1>0, <1>1 DEF Drives, Uses
<1>2. ASSUME NEW v \in Vms, Started(v), UNCHANGED history PROVE Drives'
  BY <1>0, <1>2, StartDrives
<1>3. ASSUME NEW s \in Sessions, Evict(s) PROVE running' \subseteq running /\ UNCHANGED drive
  BY <1>3 DEF Evict, Terminate, files
<1>4. CASE MaintainerSpawns
  BY <1>1, <1>2, <1>4, MaintainerSpawnsFacts
<1>5. CASE CountWarm \/ CountActive \/ MaintainerLoads
  BY <1>1, <1>5 DEF CountWarm, CountActive, MaintainerLoads, pool, files
<1>6. CASE MaintainerCountsUp \/ MaintainerPushes
  BY <1>1, <1>6 DEF MaintainerCountsUp, MaintainerPushes, files
<1> QED BY <1>1, <1>3, <1>4, <1>5, <1>6 DEF Maintain

LEMMA NextDrives ==
    ASSUME TypeOK, Apart, Locks, Drives, [Next]_vars
    PROVE  Drives'
<1>0. request \in [Requests -> RequestType]
  BY DEF TypeOK
<1>1. ASSUME NEW r \in Requests, NEW s \in Sessions \cup {None}, NEW w \in BOOLEAN,
             Arrive(r, s, w)
      PROVE  Drives'
  <2>1. Same(r) /\ request[r].at # "run" /\ UNCHANGED <<running, drive, lost, orphans>>
    <3>1. Same(r)
      BY <1>0, <1>1, ArriveFacts
    <3> QED BY <1>1, <3>1 DEF Arrive, files
  <2> QED BY <2>1, KeepDrives
<1>l. ASSUME NEW r \in Requests, NEW s \in Sessions, ArriveWithoutSession(r, s)
      PROVE  Drives'
  <2>1. Same(r) /\ request[r].at # "run" /\ UNCHANGED <<running, drive, lost, orphans>>
    BY <1>0, <1>l, ArriveLooseFacts DEF ArriveWithoutSession, files
  <2> QED BY <2>1, KeepDrives
<1>2. ASSUME NEW r \in Requests, Dropped(r) PROVE Drives'
  <2>1. /\ Same(r) /\ UNCHANGED <<running, orphans>>
        /\ lost' = lost \cup ({request[r].vm} \ {0}) /\ running \subseteq Vms
    BY <1>0, <1>2, EndFacts DEF Dropped, TypeOK
  <2>2. request[r].vm \in lost' \/ request[r].vm \notin running'
    BY <2>1, VmNumbers
  <2>3. \A v \in running' \ Strays' : drive'[v] = drive[v]
    BY <1>2, <2>1, <2>2, PreparedDrives DEF Dropped, files
  <2> QED BY <2>1, <2>2, <2>3, KeepDrives
<1>3. ASSUME NEW v \in Vms, GuestWrites(v) PROVE Drives'
  BY <1>3 DEF GuestWrites, Drives, Uses
<1>4. ASSUME NEW s \in Sessions, Cleanup(s) PROVE Drives'
  BY <1>4 DEF Cleanup, Drives, Uses
<1>5. CASE UNCHANGED vars
  BY <1>5 DEF vars, files, Drives, Uses
<1> QED BY <1>1, <1>2, <1>3, <1>4, <1>5, <1>l, StepDrives, MaintainDrives DEF Next

-----------------------------------------------------------------------------
(* A workspace in use is dirty *)

(* A step of a request that cleans nothing and boots nothing.              *)
LEMMA KeepMarks ==
    ASSUME Marks, NEW r \in Requests, Same(r), loose \subseteq loose',
           \A q \in Requests \ {r} : request[q].at = "run" /\ request[q].workspace
               /\ request[q].session \notin loose
               /\ mark[request[q].session] = "dirty" => mark'[request[q].session] = "dirty",
           request'[r].at # "run" \/ ~request'[r].workspace
    PROVE  Marks'
  BY DEF Marks, Same

LEMMA DirtyMarks ==
    ASSUME TypeOK, Locks, NEW r \in Requests, mark' \in {mark, Dirty(r)}
    PROVE  \A s \in Sessions : /\ mark[s] = "dirty" => mark'[s] = "dirty"
                               /\ mark'[s] = "clean" => mark[s] = "clean"
  BY DEF TypeOK, Dirty

LEMMA StepMarks ==
    ASSUME TypeOK, Apart, Locks, Marks, NEW r \in Requests, Step(r)
    PROVE  Marks'
<1>0. /\ request \in [Requests -> RequestType]
      /\ \A q \in Requests : request[q].workspace => request[q].session \in Sessions
      /\ UNCHANGED loose
  BY StepKeeps DEF TypeOK, Locks
<1>1. CASE LockWorkspace(r)
  BY <1>0, <1>1, GoFacts, KeepMarks DEF LockWorkspace, files, Steps
<1>2. CASE TakeKept(r)
  <2>1. ~request[r].workspace /\ UNCHANGED mark
    BY <1>2 DEF TakeKept, files, Locks
  <2>2. CASE Go(r, "warm")
    BY <1>0, <2>1, <2>2, GoFacts, KeepMarks DEF Steps
  <2>3. CASE GoWith(r, "run", kept[request[r].session])
    <3>1. PICK v \in {0} \cup Vms : v = kept[request[r].session]
      BY <1>2, Placed DEF TakeKept
    <3>2. Kind(r) /\ Same(r)
      BY <1>0, <2>3, <3>1, RunsIn
    <3> QED BY <1>0, <2>1, <3>2, KeepMarks DEF Kind
  <2> QED BY <1>2, <2>2, <2>3 DEF TakeKept
<1>3. CASE TakeWarm(r)
  <2>1. ~request[r].workspace /\ UNCHANGED mark
    BY <1>3 DEF TakeWarm, files, Locks
  <2>2. CASE Go(r, "count")
    BY <1>0, <2>1, <2>2, GoFacts, KeepMarks DEF Steps
  <2>3. ASSUME NEW v \in warm, GoWith(r, "run", v) PROVE Marks'
    <3>1. v \in {0} \cup Vms
      BY DEF TypeOK
    <3>2. Kind(r) /\ Same(r)
      BY <1>0, <2>3, <3>1, RunsIn
    <3> QED BY <1>0, <2>1, <3>2, KeepMarks DEF Kind
  <2> QED BY <1>3, <2>2, <2>3 DEF TakeWarm
<1>4. CASE Load(r)
  <2>1. Same(r) /\ request'[r].at # "run"
    BY <1>0, <1>4, LoadFacts, EndFacts DEF TypeOK
  <2> QED BY <1>0, <1>4, <2>1, KeepMarks DEF Load, files
<1>5. CASE CountUp(r)
  BY <1>0, <1>5, GoFacts, KeepMarks DEF CountUp, files, Steps
<1>6. CASE Spawn(r)
  <2>1. ASSUME NEW v \in Vms, GoWith(r, "configure", v) PROVE Same(r) /\ request'[r].at # "run"
    BY <1>0, <2>1, GoWithFacts DEF Steps
  <2>2. Same(r) /\ request'[r].at # "run" /\ UNCHANGED mark
    BY <1>0, <1>6, <2>1, EndFacts DEF Spawn
  <2> QED BY <1>0, <2>2, KeepMarks
<1>7. CASE Boot(r)
  <2>1. CASE Go(r, "run") /\ Prepared(r)
    <3>1. Kind(r) /\ Same(r)
      BY <1>0, <2>1, GoFacts DEF Steps
    <3>2. request[r].workspace => mark'[request[r].session] = "dirty"
      BY <1>0, <2>1 DEF Prepared, Dirty, Own
    <3>3. ASSUME NEW q \in Requests \ {r}, request[q].at = "run", request[q].workspace,
                 request[q].session \notin loose
          PROVE  mark'[request[q].session] = "dirty"
      BY <1>0, <2>1, <3>3, DirtyMarks DEF Marks, Prepared
    <3> QED BY <1>0, <3>1, <3>2, <3>3 DEF Marks, Kind, Same
  <2>2. CASE End(r) /\ PreparedInPart(r)
    <3>1. mark' \in {mark, Dirty(r)}
      BY <2>2 DEF PreparedInPart, Prepared, files
    <3> QED BY <1>0, <2>2, <3>1, EndFacts, DirtyMarks, KeepMarks
  <2> QED BY <1>7, <2>1, <2>2 DEF Boot
<1>8. CASE Run(r)
  <2>1. Same(r) /\ request'[r].at # "run"
    BY <1>0, <1>8, GoFacts, GoWithFacts, EndFacts DEF Run, Steps
  <2> QED BY <1>0, <1>8, <2>1, KeepMarks DEF Run, files
<1>9. CASE Store(r)
  BY <1>0, <1>9, EndFacts, KeepMarks DEF Store, files
<1>10. CASE Sync(r)
  <2>1. Same(r) /\ request'[r].at # "run" /\ request[r].at = "sync"
    BY <1>0, <1>10, EndFacts DEF Sync
  <2>2. mark' \in {mark, [mark EXCEPT ![request[r].session] = "clean"]}
    BY <1>10 DEF Sync
  <2>3. /\ request[r].workspace
        /\ holder[request[r].session] = r \/ request[r].session \in loose
    BY <2>1 DEF Locks, Unlocked
  <2>4. ASSUME NEW q \in Requests \ {r}, request[q].at = "run", request[q].workspace,
                 request[q].session \notin loose
        PROVE  request[q].session # request[r].session
    BY <2>3, <2>4 DEF Locks, Unlocked
  <2>5. ASSUME NEW q \in Requests \ {r}, request[q].at = "run", request[q].workspace,
                 request[q].session \notin loose
        PROVE  mark'[request[q].session] = mark[request[q].session]
    BY <1>0, <2>2, <2>4, <2>5 DEF TypeOK
  <2> QED BY <1>0, <2>1, <2>5, KeepMarks
<1> QED BY <1>1, <1>2, <1>3, <1>4, <1>5, <1>6, <1>7, <1>8, <1>9, <1>10 DEF Step

LEMMA NextMarks ==
    ASSUME TypeOK, Apart, Locks, Marks, [Next]_vars
    PROVE  Marks'
<1>0. /\ request \in [Requests -> RequestType]
      /\ \A q \in Requests : request[q].workspace => request[q].session \in Sessions
  BY DEF TypeOK, Locks
<1>1. ASSUME NEW r \in Requests, NEW s \in Sessions \cup {None}, NEW w \in BOOLEAN,
             Arrive(r, s, w)
      PROVE  Marks'
  <2>1. Same(r) /\ request'[r].at # "run"
    BY <1>0, <1>1, ArriveFacts
  <2> QED BY <1>1, <2>1, KeepMarks DEF Arrive, files
<1>l. ASSUME NEW r \in Requests, NEW s \in Sessions, ArriveWithoutSession(r, s)
      PROVE  Marks'
  <2>1. Same(r) /\ request'[r].at # "run"
    BY <1>0, <1>l, ArriveLooseFacts
  <2> QED BY <1>l, <2>1, KeepMarks DEF ArriveWithoutSession, files
<1>2. ASSUME NEW r \in Requests, Dropped(r) PROVE Marks'
  <2>1. Same(r) /\ request'[r].at # "run" /\ mark' \in {mark, Dirty(r)} /\ UNCHANGED loose
    BY <1>0, <1>2, EndFacts DEF Dropped, PreparedInPart, Prepared, files
  <2> QED BY <1>0, <2>1, DirtyMarks, KeepMarks
<1>3. ASSUME NEW v \in Vms, GuestWrites(v) PROVE Marks'
  BY <1>3 DEF GuestWrites, Marks
<1>4. ASSUME NEW s \in Sessions, Cleanup(s) PROVE Marks'
  <2>1. ASSUME NEW q \in Requests, request[q].at = "run", request[q].workspace,
               request[q].session \notin loose
        PROVE  request[q].session # s /\ request[q].session \in Sessions
    BY <1>4, <2>1 DEF Cleanup, Locks, Unlocked
  <2> QED BY <1>4, <2>1 DEF Cleanup, Marks, TypeOK
<1>5. CASE UNCHANGED vars
  BY <1>5 DEF vars, files, Marks
<1>6. CASE Maintain
  BY <1>6, MaintainKeeps DEF Marks
<1> QED BY <1>1, <1>2, <1>3, <1>4, <1>5, <1>6, <1>l, StepMarks DEF Next

-----------------------------------------------------------------------------
(* What a compare and exchange succeeds with is below the limit *)

LEMMA NextChecked ==
    ASSUME TypeOK, Apart, Locks, Checked, [Next]_vars
    PROVE  Checked'
<1>0. request \in [Requests -> RequestType] /\ MaxCount' = MaxCount
  BY DEF TypeOK
<1> DEFINE OK(r) == request'[r].at = "cas" => request'[r].seen < MaxCount
<1>1. ASSUME NEW r \in Requests, Same(r), OK(r), UNCHANGED maintainer PROVE Checked'
  BY <1>1 DEF Checked, Same
<1>2. ASSUME NEW r \in Requests, Step(r) PROVE Same(r) /\ OK(r) /\ UNCHANGED maintainer
  <2>1. CASE LockWorkspace(r)
    BY <1>0, <2>1, GoFacts DEF LockWorkspace, Steps
  <2>2. CASE TakeKept(r)
    <3>1. PICK v \in {0} \cup Vms : v = kept[request[r].session]
      BY <2>2, Placed DEF TakeKept
    <3> QED BY <1>0, <2>2, <3>1, GoFacts, RunsIn DEF TakeKept, Steps
  <2>3. CASE TakeWarm(r)
    <3>1. \A v \in warm : v \in {0} \cup Vms
      BY DEF TypeOK
    <3> QED BY <1>0, <2>3, <3>1, GoFacts, RunsIn DEF TakeWarm, Steps
  <2>4. CASE Load(r)
    BY <1>0, <2>4, LoadFacts, EndFacts DEF Load, TypeOK
  <2>5. CASE CountUp(r)
    BY <1>0, <2>5, GoFacts DEF CountUp, Steps
  <2>6. CASE Spawn(r)
    <3>1. ASSUME NEW v \in Vms, GoWith(r, "configure", v) PROVE Same(r) /\ OK(r)
      BY <1>0, <3>1, GoWithFacts DEF Steps
    <3> QED BY <1>0, <2>6, <3>1, EndFacts DEF Spawn
  <2>7. CASE Boot(r)
    BY <1>0, <2>7, GoFacts, EndFacts DEF Boot, Steps
  <2>8. CASE Run(r)
    BY <1>0, <2>8, GoFacts, GoWithFacts, EndFacts DEF Run, Steps
  <2>9. CASE Store(r)
    BY <1>0, <2>9, EndFacts DEF Store
  <2>10. CASE Sync(r)
    BY <1>0, <2>10, EndFacts DEF Sync
  <2> QED BY <1>2, <2>1, <2>2, <2>3, <2>4, <2>5, <2>6, <2>7, <2>8, <2>9, <2>10 DEF Step
<1>3. ASSUME NEW r \in Requests, NEW s \in Sessions \cup {None}, NEW w \in BOOLEAN,
             Arrive(r, s, w)
      PROVE  Same(r) /\ OK(r) /\ UNCHANGED maintainer
  <2>1. Same(r) /\ request'[r].at \in {"lock", "kept", "warm"}
    BY <1>0, <1>3, ArriveFacts
  <2> QED BY <1>3, <2>1 DEF Arrive
<1>l. ASSUME NEW r \in Requests, NEW s \in Sessions, ArriveWithoutSession(r, s)
      PROVE  Same(r) /\ OK(r) /\ UNCHANGED maintainer
  BY <1>0, <1>l, ArriveLooseFacts DEF ArriveWithoutSession
<1>4. ASSUME NEW r \in Requests, Dropped(r) PROVE Same(r) /\ OK(r) /\ UNCHANGED maintainer
  BY <1>0, <1>4, EndFacts DEF Dropped
<1>5. ASSUME NEW v \in Vms, GuestWrites(v) PROVE Checked'
  BY <1>5 DEF GuestWrites, Checked
<1>6. ASSUME NEW s \in Sessions, Cleanup(s) PROVE Checked'
  BY <1>6 DEF Cleanup, Checked
<1>7. CASE UNCHANGED vars
  BY <1>7 DEF vars, Checked
<1>8. CASE Maintain
  <2>0. UNCHANGED request
    BY <1>8, MaintainKeeps
  <2>1. CASE maintainer'.at # "cas" \/ maintainer'.seen < MaxCount
    BY <2>0, <2>1 DEF Checked
  <2>2. ASSUME NEW s \in Sessions, Evict(s) PROVE Checked'
    BY <2>0, <2>2 DEF Evict, Checked
  <2>3. CASE CountWarm
    BY <2>1, <2>3, RestBlank DEF CountWarm, MaintainerType
  <2>4. CASE CountActive
    BY <2>1, <2>4, CountActiveFacts
  <2>5. CASE MaintainerLoads
    BY <2>1, <2>5, RestBlank DEF MaintainerLoads, TypeOK, MaintainerType
  <2>6. CASE MaintainerCountsUp
    BY <2>1, <2>6, AgainFacts DEF MaintainerCountsUp, TypeOK, MaintainerType
  <2>7. CASE MaintainerSpawns
    BY <2>1, <2>7, MaintainerSpawnsFacts, AgainFacts DEF TypeOK
  <2>8. CASE MaintainerPushes
    BY <2>1, <2>8, AgainFacts DEF MaintainerPushes, TypeOK
  <2> QED BY <1>8, <2>2, <2>3, <2>4, <2>5, <2>6, <2>7, <2>8 DEF Maintain
<1> QED BY <1>1, <1>2, <1>3, <1>4, <1>5, <1>6, <1>7, <1>8, <1>l DEF Next

-----------------------------------------------------------------------------
(* A clean workspace is in step *)

(* A step that makes no workspace clean and puts no file ahead.            *)
LEMMA KeepSynced ==
    ASSUME CleanIsSynced, loose \subseteq loose',
           \A s \in Sessions : mark'[s] = "clean" /\ s \in ahead' => mark[s] = "clean" /\ s \in ahead,
           \A v \in Strays : v \in Strays' /\ drive'[v] = drive[v]
    PROVE  CleanIsSynced'
  BY DEF CleanIsSynced

LEMMA StartedKeeps ==
    ASSUME TypeOK, Apart, NEW v \in Vms, Started(v), UNCHANGED <<lost, orphans>>
    PROVE  \A u \in Strays : u \in Strays' /\ drive'[u] = drive[u]
  BY StartedFacts DEF TypeOK, Apart, Idle

LEMMA PreparedSynced ==
    ASSUME TypeOK, Apart, Locks, CleanIsSynced, NEW r \in Requests,
           request[r].at = "configure", PreparedInPart(r),
           lost \subseteq lost', orphans \subseteq orphans', UNCHANGED loose
    PROVE  CleanIsSynced'
<1>1. mark' \in {mark, Dirty(r)} /\ ahead' \subseteq ahead
  BY DEF PreparedInPart, Prepared, files
<1>2. request[r].vm \notin Strays /\ Strays \subseteq Vms
  BY DEF TypeOK, Apart, InHands, InVm, Free
<1>3. \A v \in Strays : v \in Strays' /\ drive'[v] = drive[v]
  BY <1>2, PreparedDrives
<1> QED BY <1>1, <1>3, DirtyMarks, KeepSynced

LEMMA StepSynced ==
    ASSUME TypeOK, Apart, Locks, CleanIsSynced, NEW r \in Requests, Step(r)
    PROVE  CleanIsSynced'
<1>1. CASE /\ UNCHANGED files /\ loose \subseteq loose'
           /\ lost \subseteq lost' /\ orphans \subseteq orphans'
  BY <1>1, KeepSynced DEF files
<1>2. CASE LockWorkspace(r) \/ TakeKept(r) \/ TakeWarm(r) \/ Load(r) \/ CountUp(r) \/ Run(r)
  BY <1>1, <1>2 DEF LockWorkspace, TakeKept, TakeWarm, Load, CountUp, Run
<1>3. CASE Store(r)
  BY <1>1, <1>3 DEF Store
<1>4. CASE Spawn(r)
  <2>1. UNCHANGED <<mark, ahead, history>>
    BY <1>4 DEF Spawn
  <2>2. ASSUME NEW v \in Vms, Started(v) PROVE CleanIsSynced'
    BY <2>1, <2>2, StartedKeeps, KeepSynced
  <2> QED BY <1>1, <1>4, <2>1, <2>2 DEF Spawn, files
<1>5. CASE Boot(r)
  <2>1. /\ request[r].at = "configure" /\ PreparedInPart(r) /\ UNCHANGED <<lost, loose>>
        /\ orphans \subseteq orphans'
    BY <1>5 DEF Boot, PreparedInPart
  <2> QED BY <2>1, PreparedSynced
<1>6. CASE Sync(r)
  <2>1. request[r].session \in Sessions
    BY <1>6 DEF Sync, Locks
  <2>2. \A s \in Sessions : mark'[s] = "clean" /\ s \in ahead' => mark[s] = "clean" /\ s \in ahead
    BY <1>6, <2>1 DEF Sync, TypeOK
  <2> QED BY <1>6, <2>2, KeepSynced DEF Sync
<1> QED BY <1>2, <1>3, <1>4, <1>5, <1>6 DEF Step

LEMMA NextSynced ==
    ASSUME TypeOK, Apart, Locks, Drives, Marks, CleanIsSynced, [Next]_vars
    PROVE  CleanIsSynced'
<1>1. CASE /\ UNCHANGED files /\ loose \subseteq loose'
           /\ lost \subseteq lost' /\ orphans \subseteq orphans'
  BY <1>1, KeepSynced DEF files
<1>2. ASSUME NEW r \in Requests, NEW s \in Sessions \cup {None}, NEW w \in BOOLEAN,
             Arrive(r, s, w)
      PROVE  CleanIsSynced'
  BY <1>1, <1>2 DEF Arrive
<1>l. ASSUME NEW r \in Requests, NEW s \in Sessions, ArriveWithoutSession(r, s)
      PROVE  CleanIsSynced'
  BY <1>1, <1>l DEF ArriveWithoutSession
<1>3. ASSUME NEW r \in Requests, Dropped(r) PROVE CleanIsSynced'
  <2>1. lost \subseteq lost' /\ UNCHANGED <<orphans, loose>>
    BY <1>3 DEF Dropped
  <2> QED BY <1>1, <1>3, <2>1, PreparedSynced DEF Dropped
<1>4. ASSUME NEW v \in Vms, GuestWrites(v) PROVE CleanIsSynced'
  <2>1. /\ v \in running /\ drive[v] # None /\ ahead' = ahead \cup {drive[v]}
        /\ UNCHANGED <<drive, mark, history>>
    BY <1>4 DEF GuestWrites
  <2>2. CASE v \in Strays
    BY <2>1, <2>2 DEF CleanIsSynced
  <2>3. CASE v \notin Strays
    <3>1. PICK r \in Requests : Uses(r, v)
      BY <2>1, <2>3 DEF Drives
    <3>2. mark[drive[v]] = "dirty" \/ drive[v] \in loose
      BY <3>1 DEF Uses, Marks
    <3> QED BY <2>1, <3>2 DEF CleanIsSynced
  <2> QED BY <2>2, <2>3
<1>5. ASSUME NEW s \in Sessions, Cleanup(s) PROVE CleanIsSynced'
  <2>1. \A t \in Sessions : mark'[t] = "clean" /\ t \in ahead' => mark[t] = "clean" /\ t \in ahead
    BY <1>5 DEF Cleanup, TypeOK
  <2> QED BY <1>5, <2>1, KeepSynced DEF Cleanup
<1>6. CASE UNCHANGED vars
  BY <1>1, <1>6 DEF vars
<1>7. CASE Maintain
  <2>1. UNCHANGED <<mark, ahead, lost, loose>> /\ orphans \subseteq orphans'
    BY <1>7, MaintainKeeps
  <2>2. ASSUME NEW v \in Vms, Started(v), UNCHANGED history PROVE CleanIsSynced'
    BY <2>1, <2>2, StartedKeeps, KeepSynced
  <2>3. CASE UNCHANGED drive
    BY <1>1, <2>1, <2>3 DEF files
  <2>4. ASSUME NEW s \in Sessions, Evict(s) PROVE UNCHANGED drive
    BY <2>4 DEF Evict, files
  <2>5. CASE MaintainerSpawns
    BY <2>2, <2>3, <2>5, MaintainerSpawnsFacts
  <2>6. CASE CountWarm \/ CountActive \/ MaintainerLoads \/ MaintainerCountsUp \/ MaintainerPushes
    BY <2>3, <2>6 DEF CountWarm, CountActive, MaintainerLoads, MaintainerCountsUp,
                      MaintainerPushes, files
  <2> QED BY <1>7, <2>3, <2>4, <2>5, <2>6 DEF Maintain
<1> QED BY <1>2, <1>3, <1>4, <1>5, <1>6, <1>7, <1>l, StepSynced DEF Next

-----------------------------------------------------------------------------
(* Every slot is a VM *)

LEMMA Finite ==
    ASSUME TypeOK
    PROVE  /\ IsFiniteSet(warm) /\ Cardinality(warm) \in Nat
           /\ IsFiniteSet(lost) /\ Cardinality(lost) \in Nat
           /\ IsFiniteSet(Keeping) /\ Cardinality(Keeping) \in Nat
           /\ IsFiniteSet(Holding) /\ Cardinality(Holding) \in Nat
           /\ Spawning \in {0, 1}
<1>1. warm \subseteq Vms /\ lost \subseteq Vms /\ Keeping \subseteq Sessions /\ Holding \subseteq Requests
  BY DEF TypeOK, Keeping, Holding
<1>2. IsFiniteSet(Vms) /\ IsFiniteSet(Sessions) /\ IsFiniteSet(Requests)
  BY VmNumbers DEF PoolAssumption
<1>3. IsFiniteSet(warm) /\ IsFiniteSet(lost) /\ IsFiniteSet(Keeping) /\ IsFiniteSet(Holding)
  BY <1>1, <1>2, FS_Subset
<1> QED BY <1>3, FS_CardinalityType DEF Spawning

LEMMA OneMore ==
    ASSUME NEW S, IsFiniteSet(S), NEW x, x \notin S
    PROVE  Cardinality(S \cup {x}) = Cardinality(S) + 1
  BY FS_AddElement

LEMMA OneLess ==
    ASSUME NEW S, IsFiniteSet(S), NEW x, x \in S
    PROVE  Cardinality(S \ {x}) = Cardinality(S) - 1
  BY FS_RemoveElement

(* How many requests hold a slot, after a step of request r.               *)
LEMMA HoldersCount ==
    ASSUME TypeOK, NEW r \in Requests, Same(r)
    PROVE  /\ request[r].at \in InHand /\ request'[r].at \notin InHand
                 => Cardinality(Holding') = Cardinality(Holding) - 1
           /\ request[r].at \notin InHand /\ request'[r].at \in InHand
                 => Cardinality(Holding') = Cardinality(Holding) + 1
           /\ (request[r].at \in InHand <=> request'[r].at \in InHand) => Holding' = Holding
<1>1. CASE request[r].at \in InHand /\ request'[r].at \notin InHand
  <2>1. r \in Holding /\ Holding' = Holding \ {r}
    BY <1>1 DEF Holding, Same
  <2> QED BY <1>1, <2>1, Finite, OneLess
<1>2. CASE request[r].at \notin InHand /\ request'[r].at \in InHand
  <2>1. r \notin Holding /\ Holding' = Holding \cup {r}
    BY <1>2 DEF Holding, Same
  <2> QED BY <1>2, <2>1, Finite, OneMore
<1>3. CASE request[r].at \in InHand <=> request'[r].at \in InHand
  <2>1. Holding' = Holding
    BY <1>3 DEF Holding, Same
  <2> QED BY <1>3, <2>1
<1> QED BY <1>1, <1>2, <1>3

(* How many sessions keep a VM, after a step that changes the entry of s.  *)
LEMMA KeepersCount ==
    ASSUME TypeOK, NEW s \in Sessions, NEW v \in {0} \cup Vms, kept' = [kept EXCEPT ![s] = v]
    PROVE  /\ kept[s] # 0 /\ v = 0 => Cardinality(Keeping') = Cardinality(Keeping) - 1
           /\ kept[s] = 0 /\ v # 0 => Cardinality(Keeping') = Cardinality(Keeping) + 1
           /\ (kept[s] = 0 <=> v = 0) => Keeping' = Keeping
<1>0. kept'[s] = v /\ \A t \in Sessions : t # s => kept'[t] = kept[t]
  BY DEF TypeOK
<1>1. CASE kept[s] # 0 /\ v = 0
  <2>1. s \in Keeping /\ Keeping' = Keeping \ {s}
    BY <1>0, <1>1 DEF Keeping
  <2> QED BY <1>1, <2>1, Finite, OneLess
<1>2. CASE kept[s] = 0 /\ v # 0
  <2>1. s \notin Keeping /\ Keeping' = Keeping \cup {s}
    BY <1>0, <1>2 DEF Keeping
  <2> QED BY <1>2, <2>1, Finite, OneMore
<1>3. CASE kept[s] = 0 <=> v = 0
  <2>1. Keeping' = Keeping
    BY <1>0, <1>3 DEF Keeping
  <2> QED BY <1>3, <2>1
<1> QED BY <1>1, <1>2, <1>3

LEMMA StepSlots ==
    ASSUME TypeOK, Apart, Locks, Checked, EverySlotIsAVm, NEW r \in Requests, Step(r)
    PROVE  EverySlotIsAVm'
<1> DEFINE W == Cardinality(warm)
           K == Cardinality(Keeping)
           H == Cardinality(Holding)
           L == Cardinality(lost)
<1>0. /\ request \in [Requests -> RequestType] /\ active \in Int
      /\ W \in Nat /\ K \in Nat /\ H \in Nat /\ L \in Nat /\ Spawning \in {0, 1}
      /\ active = W + K + H + Spawning + L /\ active <= MaxCount /\ MaxCount \in Nat
  BY Finite DEF TypeOK, EverySlotIsAVm, PoolAssumption
<1>a. UNCHANGED maintainer /\ Spawning' = Spawning
  <2>1. UNCHANGED maintainer
    BY DEF Step, LockWorkspace, TakeKept, TakeWarm, Load, CountUp, Spawn, Boot, Run, Store, Sync
  <2> QED BY <2>1 DEF Spawning
<1>b. kept' = kept => Keeping' = Keeping
  BY DEF Keeping
<1>s. ASSUME Same(r), UNCHANGED <<warm, kept, active, lost>>,
             request[r].at \in InHand <=> request'[r].at \in InHand
      PROVE  EverySlotIsAVm'
  BY <1>0, <1>a, <1>b, <1>s, HoldersCount DEF EverySlotIsAVm
<1>f. ASSUME Same(r), UNCHANGED <<warm, kept, lost>>, active' = active - 1,
             request[r].at \in InHand, request'[r].at \notin InHand
      PROVE  EverySlotIsAVm'
  BY <1>0, <1>a, <1>b, <1>f, HoldersCount DEF EverySlotIsAVm
<1>1. CASE LockWorkspace(r)
  BY <1>0, <1>1, <1>s, GoFacts DEF LockWorkspace, pool, files, Steps, InHand
<1>2. CASE TakeKept(r)
  <2>0. request[r].at = "kept" /\ request[r].session \in Sessions /\ UNCHANGED <<warm, active, lost>>
    BY <1>2, Placed DEF TakeKept
  <2>1. CASE Go(r, "warm") /\ UNCHANGED kept
    BY <1>0, <1>s, <2>0, <2>1, GoFacts DEF Steps, InHand
  <2>2. CASE /\ GoWith(r, "run", kept[request[r].session]) /\ kept[request[r].session] # 0
             /\ kept' = [kept EXCEPT ![request[r].session] = 0]
    <3>1. PICK v \in {0} \cup Vms : v = kept[request[r].session]
      BY <2>0, Placed
    <3>2. request'[r].at = "run" /\ Same(r)
      BY <1>0, <2>2, <3>1, RunsIn
    <3>3. Cardinality(Holding') = H + 1
      BY <2>0, <3>2, HoldersCount DEF InHand
    <3>4. Cardinality(Keeping') = K - 1
      BY <2>0, <2>2, KeepersCount
    <3> QED BY <1>0, <1>a, <2>0, <3>3, <3>4 DEF EverySlotIsAVm
  <2> QED BY <1>2, <2>1, <2>2 DEF TakeKept
<1>3. CASE TakeWarm(r)
  <2>0. request[r].at = "warm" /\ UNCHANGED <<kept, active, lost>>
    BY <1>3 DEF TakeWarm
  <2>1. CASE Go(r, "count") /\ UNCHANGED warm
    BY <1>0, <1>s, <2>0, <2>1, GoFacts DEF Steps, InHand
  <2>2. ASSUME NEW v \in warm, GoWith(r, "run", v), warm' = warm \ {v} PROVE EverySlotIsAVm'
    <3>1. v \in {0} \cup Vms
      BY DEF TypeOK
    <3>2. request'[r].at = "run" /\ Same(r)
      BY <1>0, <2>2, <3>1, RunsIn
    <3>3. Cardinality(Holding') = H + 1
      BY <2>0, <3>2, HoldersCount DEF InHand
    <3>4. Cardinality(warm') = W - 1
      BY <2>2, Finite, OneLess
    <3> QED BY <1>0, <1>a, <1>b, <2>0, <3>3, <3>4 DEF EverySlotIsAVm
  <2> QED BY <1>3, <2>1, <2>2 DEF TakeWarm
<1>4. CASE Load(r)
  <2>1. /\ Same(r) /\ request[r].at \notin InHand /\ request'[r].at \notin InHand
    BY <1>0, <1>4, LoadFacts, EndFacts DEF InHand
  <2> QED BY <1>4, <1>s, <2>1 DEF Load, pool
<1>5. CASE CountUp(r)
  <2>1. CASE active = request[r].seen /\ active' = active + 1 /\ Go(r, "spawn")
    <3>1. /\ request'[r].at = "spawn" /\ Same(r) /\ request[r].at = "cas"
          /\ UNCHANGED <<warm, kept, lost>>
      BY <1>0, <1>5, <2>1, GoFacts DEF CountUp, Steps
    <3>2. Cardinality(Holding') = H + 1
      BY <3>1, HoldersCount DEF InHand
    <3>3. active < MaxCount
      BY <2>1, <3>1 DEF Checked
    <3> QED BY <1>0, <1>a, <1>b, <2>1, <3>1, <3>2, <3>3 DEF EverySlotIsAVm
  <2>2. CASE Go(r, "count") /\ UNCHANGED active
    BY <1>0, <1>5, <1>s, <2>2, GoFacts DEF CountUp, Steps, InHand
  <2> QED BY <1>5, <2>1, <2>2 DEF CountUp
<1>6. CASE Spawn(r)
  <2>0. request[r].at \in InHand /\ UNCHANGED <<warm, kept, lost>>
    BY <1>6 DEF Spawn, InHand
  <2>1. ASSUME NEW v \in Vms, GoWith(r, "configure", v), UNCHANGED active PROVE EverySlotIsAVm'
    BY <1>0, <1>s, <2>0, <2>1, GoWithFacts DEF Steps, InHand
  <2>2. CASE Fails /\ End(r)
    BY <1>0, <1>f, <2>0, <2>2, EndFacts DEF Fails, InHand
  <2> QED BY <1>6, <2>1, <2>2 DEF Spawn
<1>7. CASE Boot(r)
  <2>0. request[r].at \in InHand /\ UNCHANGED <<warm, kept, lost>>
    BY <1>7 DEF Boot, InHand
  <2>1. CASE Go(r, "run") /\ UNCHANGED active
    BY <1>0, <1>s, <2>0, <2>1, GoFacts DEF Steps, InHand
  <2>2. CASE Fails /\ End(r)
    BY <1>0, <1>f, <2>0, <2>2, EndFacts DEF Fails, InHand
  <2> QED BY <1>7, <2>1, <2>2 DEF Boot
<1>8. CASE Run(r)
  <2>0. request[r].at \in InHand /\ UNCHANGED <<warm, kept, lost>>
    BY <1>8 DEF Run, InHand, files
  <2>1. CASE active' = active - 1 /\ (GoWith(r, "sync", 0) \/ End(r))
    BY <1>0, <1>f, <2>0, <2>1, GoWithFacts, EndFacts DEF Steps, InHand
  <2>2. CASE Go(r, "store") /\ UNCHANGED active
    BY <1>0, <1>s, <2>0, <2>2, GoFacts DEF Steps, InHand
  <2> QED BY <1>8, <2>1, <2>2 DEF Run, Terminate
<1>9. CASE Store(r)
  <2>0. /\ request[r].at = "store" /\ request'[r].at = "done" /\ Same(r)
        /\ Free(request[r].vm) /\ request[r].vm \in Vms /\ request[r].vm # 0
    BY <1>0, <1>9, EndFacts, VmNumbers, Placed DEF Store, Apart, InHands, InVm
  <2>1. Cardinality(Holding') = H - 1
    BY <2>0, HoldersCount DEF InHand
  <2>2. CASE request[r].session # None
    <3>1. /\ request[r].session \in Sessions
          /\ kept' = [kept EXCEPT ![request[r].session] = request[r].vm]
          /\ lost' = lost \cup ({kept[request[r].session]} \ {0})
          /\ UNCHANGED <<warm, active>>
      BY <1>9, <2>2, Placed DEF Store
    <3>2. CASE kept[request[r].session] = 0
      <4>1. lost' = lost
        BY <3>1, <3>2
      <4>2. Cardinality(Keeping') = K + 1
        BY <2>0, <3>1, <3>2, KeepersCount
      <4>3. Cardinality(warm') = W /\ Cardinality(lost') = L /\ active' = active
        BY <3>1, <4>1
      <4> QED BY <1>0, <1>a, <2>1, <4>2, <4>3 DEF EverySlotIsAVm
    <3>3. CASE kept[request[r].session] # 0
      <4>a. {kept[request[r].session]} \ {0} = {kept[request[r].session]}
        BY <3>3
      <4>b. kept[request[r].session] \notin lost
        BY <3>1, <3>3 DEF Apart, InMap, Free
      <4>1. lost' = lost \cup {kept[request[r].session]} /\ kept[request[r].session] \notin lost
        BY <3>1, <4>a, <4>b
      <4>2. Cardinality(lost') = L + 1
        BY <4>1, Finite, OneMore
      <4>3. Keeping' = Keeping
        BY <2>0, <3>1, <3>3, KeepersCount
      <4> QED BY <1>0, <1>a, <2>1, <3>1, <4>2, <4>3 DEF EverySlotIsAVm
    <3> QED BY <3>2, <3>3
  <2>3. CASE warm' = warm \cup {request[r].vm} /\ UNCHANGED <<kept, active, lost>>
    <3>1. Cardinality(warm') = W + 1
      BY <2>0, <2>3, Finite, OneMore DEF Free
    <3> QED BY <1>0, <1>a, <1>b, <2>1, <2>3, <3>1 DEF EverySlotIsAVm
  <2>4. CASE active' = active - 1 /\ UNCHANGED <<kept, warm, lost>>
    BY <1>0, <1>a, <1>b, <2>1, <2>4 DEF EverySlotIsAVm
  <2> QED BY <1>9, <2>2, <2>3, <2>4 DEF Store, Terminate
<1>10. CASE Sync(r)
  BY <1>0, <1>10, <1>s, EndFacts DEF Sync, pool, InHand
<1> QED BY <1>1, <1>2, <1>3, <1>4, <1>5, <1>6, <1>7, <1>8, <1>9, <1>10 DEF Step

LEMMA MaintainSlots ==
    ASSUME TypeOK, Apart, Checked, EverySlotIsAVm, Maintain
    PROVE  EverySlotIsAVm'
<1> DEFINE W == Cardinality(warm)
           K == Cardinality(Keeping)
           H == Cardinality(Holding)
           L == Cardinality(lost)
<1>0. /\ active \in Int
      /\ W \in Nat /\ K \in Nat /\ H \in Nat /\ L \in Nat /\ Spawning \in {0, 1}
      /\ active = W + K + H + Spawning + L /\ active <= MaxCount /\ MaxCount \in Nat
  BY Finite DEF TypeOK, EverySlotIsAVm, PoolAssumption
<1>a. UNCHANGED lost /\ Holding' = Holding
  BY MaintainKeeps DEF Holding
<1>b. kept' = kept => Keeping' = Keeping
  BY DEF Keeping
<1>s. ASSUME UNCHANGED <<warm, kept, active>>, Spawning' = Spawning PROVE EverySlotIsAVm'
  BY <1>0, <1>a, <1>b, <1>s DEF EverySlotIsAVm
<1>f. ASSUME UNCHANGED <<warm, kept>>, Spawning = 1, Spawning' = 0, active' = active - 1
      PROVE  EverySlotIsAVm'
  BY <1>0, <1>a, <1>b, <1>f DEF EverySlotIsAVm
<1>1. ASSUME NEW s \in Sessions, Evict(s) PROVE EverySlotIsAVm'
  <2>1. /\ kept[s] # 0 /\ kept' = [kept EXCEPT ![s] = 0] /\ Spawning' = Spawning
        /\ Free(kept[s])
    BY <1>1 DEF Evict, Spawning, Apart, InMap
  <2>2. Cardinality(Keeping') = K - 1
    BY <2>1, KeepersCount
  <2>3. CASE warm' = warm \cup {kept[s]} /\ UNCHANGED active
    <3>1. Cardinality(warm') = W + 1
      BY <2>1, <2>3, Finite, OneMore DEF Free
    <3> QED BY <1>0, <1>a, <2>1, <2>2, <2>3, <3>1 DEF EverySlotIsAVm
  <2>4. CASE active' = active - 1 /\ UNCHANGED warm
    BY <1>0, <1>a, <2>1, <2>2, <2>4 DEF EverySlotIsAVm
  <2> QED BY <1>1, <2>3, <2>4 DEF Evict, Terminate
<1>2. CASE CountWarm
  <2>1. maintainer'.at = "size"
    BY <1>2, RestBlank DEF CountWarm, MaintainerType
  <2> QED BY <1>2, <1>s, <2>1 DEF CountWarm, pool, Spawning
<1>3. CASE CountActive
  <2>1. maintainer.at = "size" /\ maintainer'.at \in {"idle", "count"}
    BY <1>3, CountActiveFacts DEF CountActive
  <2> QED BY <1>3, <1>s, <2>1 DEF CountActive, pool, Spawning
<1>4. CASE MaintainerLoads
  <2>1. maintainer.at = "count" /\ maintainer'.at \in {"idle", "cas"}
    BY <1>4, RestBlank DEF MaintainerLoads, TypeOK, MaintainerType
  <2> QED BY <1>4, <1>s, <2>1 DEF MaintainerLoads, pool, Spawning
<1>5. CASE MaintainerCountsUp
  <2>0. maintainer.at = "cas" /\ UNCHANGED <<warm, kept>>
    BY <1>5 DEF MaintainerCountsUp
  <2>1. CASE /\ active = maintainer.seen /\ active' = active + 1
             /\ maintainer' = [maintainer EXCEPT !.at = "spawn"]
    <3>1. Spawning = 0 /\ Spawning' = 1
      BY <2>0, <2>1 DEF TypeOK, MaintainerType, Spawning
    <3>2. active < MaxCount
      BY <2>0, <2>1 DEF Checked
    <3> QED BY <1>0, <1>a, <1>b, <2>0, <2>1, <3>1, <3>2 DEF EverySlotIsAVm
  <2>2. CASE Again /\ UNCHANGED active
    BY <1>s, <2>0, <2>2, AgainFacts DEF TypeOK, Spawning
  <2> QED BY <1>5, <2>1, <2>2 DEF MaintainerCountsUp
<1>6. CASE MaintainerSpawns
  <2>0. maintainer.at = "spawn" /\ UNCHANGED <<warm, kept>>
    BY <1>6 DEF MaintainerSpawns
  <2>1. CASE maintainer'.at = "configure" /\ UNCHANGED active
    BY <1>s, <2>0, <2>1 DEF Spawning
  <2>2. CASE Fails /\ Again
    BY <1>f, <2>0, <2>2, AgainFacts DEF Fails, TypeOK, Spawning
  <2> QED BY <1>6, <2>1, <2>2, MaintainerSpawnsFacts
<1>7. CASE MaintainerPushes
  <2>0. maintainer.at = "configure" /\ Spawning = 1 /\ Spawning' = 0 /\ UNCHANGED kept
    BY <1>7, AgainFacts DEF MaintainerPushes, TypeOK, Spawning
  <2>1. CASE warm' = warm \cup {maintainer.vm} /\ UNCHANGED active
    <3>1. maintainer.vm \notin warm
      BY <2>0 DEF Apart, InMaking, Free
    <3>2. Cardinality(warm') = W + 1
      BY <2>1, <3>1, Finite, OneMore
    <3> QED BY <1>0, <1>a, <1>b, <2>0, <2>1, <3>2 DEF EverySlotIsAVm
  <2>2. CASE Fails /\ UNCHANGED warm
    BY <1>f, <2>0, <2>2 DEF Fails
  <2> QED BY <1>7, <2>1, <2>2 DEF MaintainerPushes
<1> QED BY <1>1, <1>2, <1>3, <1>4, <1>5, <1>6, <1>7 DEF Maintain

LEMMA NextSlots ==
    ASSUME TypeOK, Apart, Locks, Checked, EverySlotIsAVm, [Next]_vars
    PROVE  EverySlotIsAVm'
<1>0. request \in [Requests -> RequestType] /\ MaxCount' = MaxCount
  BY DEF TypeOK
<1>1. ASSUME Holding' = Holding, UNCHANGED <<pool, maintainer, lost>> PROVE EverySlotIsAVm'
  BY <1>1 DEF EverySlotIsAVm, pool, Keeping, Spawning
<1>2. ASSUME NEW r \in Requests, NEW s \in Sessions \cup {None}, NEW w \in BOOLEAN,
             Arrive(r, s, w)
      PROVE  EverySlotIsAVm'
  <2>1. Same(r) /\ request'[r].at \in {"lock", "kept", "warm"}
    BY <1>0, <1>2, ArriveFacts
  <2>2. request[r].at = "idle" /\ UNCHANGED <<pool, maintainer, lost>>
    BY <1>2 DEF Arrive
  <2> QED BY <1>1, <2>1, <2>2, HoldersCount DEF InHand
<1>l. ASSUME NEW r \in Requests, NEW s \in Sessions, ArriveWithoutSession(r, s)
      PROVE  EverySlotIsAVm'
  <2>1. Same(r) /\ request'[r].at = "count"
    BY <1>0, <1>l, ArriveLooseFacts
  <2>2. request[r].at = "idle" /\ UNCHANGED <<pool, maintainer, lost>>
    BY <1>l DEF ArriveWithoutSession
  <2> QED BY <1>1, <2>1, <2>2, HoldersCount DEF InHand
<1>3. ASSUME NEW r \in Requests, Dropped(r) PROVE EverySlotIsAVm'
  <2>1. /\ Same(r) /\ request'[r].at \notin InHand /\ request[r].at \in Awaits
        /\ UNCHANGED <<pool, maintainer>> /\ lost' = lost \cup ({request[r].vm} \ {0})
    BY <1>0, <1>3, EndFacts DEF Dropped, InHand
  <2>2. CASE request[r].at \in InVm
    <3>1. request[r].vm \notin lost /\ request[r].vm # 0
      BY <2>2, Placed, VmNumbers DEF Apart, InHands, Free
    <3>2. lost' = lost \cup {request[r].vm}
      BY <2>1, <3>1
    <3>3. Cardinality(lost') = Cardinality(lost) + 1
      BY <3>1, <3>2, Finite, OneMore
    <3>4. Cardinality(Holding') = Cardinality(Holding) - 1
      BY <2>1, <2>2, HoldersCount DEF InHand, InVm
    <3>5. UNCHANGED <<warm, active>> /\ Keeping' = Keeping /\ Spawning' = Spawning
      BY <2>1 DEF pool, Keeping, Spawning
    <3> QED BY <3>3, <3>4, <3>5, Finite DEF EverySlotIsAVm
  <2>3. CASE request[r].at \notin InVm
    <3>1. request[r].vm = 0 /\ request[r].at \notin InHand
      BY <2>1, <2>3 DEF Apart, InHands, InVm, InHand, Awaits
    <3> QED BY <1>1, <2>1, <3>1, HoldersCount
  <2> QED BY <2>2, <2>3
<1>4. ASSUME NEW v \in Vms, GuestWrites(v) PROVE EverySlotIsAVm'
  BY <1>1, <1>4 DEF GuestWrites, Holding
<1>5. ASSUME NEW s \in Sessions, Cleanup(s) PROVE EverySlotIsAVm'
  BY <1>1, <1>5 DEF Cleanup, Holding
<1>6. CASE UNCHANGED vars
  BY <1>1, <1>6 DEF vars, Holding
<1> QED BY <1>2, <1>3, <1>4, <1>5, <1>6, <1>l, StepSlots, MaintainSlots DEF Next

-----------------------------------------------------------------------------
(* No drive is shared *)

(* Who uses a VM, and who copies a workspace, has the lock of the session: *)
(* two VMs with one drive would be with one request.                       *)
LEMMA Excluded ==
    ASSUME TypeOK, Apart, Locks, Drives
    PROVE  DriveIsExclusive
<1>1. ASSUME NEW v \in running \ Strays, drive[v] \notin {None} \cup loose
      PROVE  \E r \in Requests : Uses(r, v) /\ holder[drive[v]] = r
  BY <1>1 DEF Drives, Uses, Locks, Unlocked
<1>2. ASSUME NEW v \in running \ Strays, NEW u \in running \ Strays, v # u, drive[v] \notin {None} \cup loose
      PROVE  drive[v] # drive[u]
  BY <1>1, <1>2 DEF Uses
<1>3. ASSUME NEW v \in running \ Strays, NEW r \in Requests, request[r].at = "sync",
             request[r].session \notin loose
      PROVE  drive[v] # request[r].session
  <2>1. request[r].session \in Sessions /\ holder[request[r].session] = r
    BY <1>3 DEF Locks, Unlocked
  <2> QED BY <1>1, <1>3, <2>1 DEF Uses
<1> QED BY <1>2, <1>3 DEF DriveIsExclusive

-----------------------------------------------------------------------------
(* The inductive invariant *)

LEMMA InitInv == Init => IInv
<1> SUFFICES ASSUME Init PROVE IInv
  OBVIOUS
<1>1. TypeOK
  BY InitTypes
<1>2. Apart /\ Locks /\ Drives /\ Marks /\ Checked /\ CleanIsSynced
  BY Blank, RestBlank DEF Init, Apart, Idle, InHands, InMap, InMaking, InVm, Locks, Unlocked,
                          Drives, Marks, Checked, CleanIsSynced
<1>3. warm = {} /\ lost = {} /\ Keeping = {} /\ Holding = {} /\ Spawning = 0 /\ active = 0
  BY Blank, RestBlank DEF Init, Keeping, Holding, Spawning, InHand
<1>4. EverySlotIsAVm
  BY <1>3, FS_EmptySet DEF EverySlotIsAVm, PoolAssumption
<1> QED BY <1>1, <1>2, <1>4 DEF IInv

LEMMA NextInv == IInv /\ [Next]_vars => IInv'
<1> SUFFICES ASSUME IInv, [Next]_vars PROVE IInv'
  OBVIOUS
<1>0. /\ TypeOK /\ Apart /\ Locks /\ Drives /\ Marks /\ Checked
      /\ EverySlotIsAVm /\ CleanIsSynced
  BY DEF IInv
<1>1. TypeOK'
  BY <1>0, NextTypes
<1>2. Apart' /\ Locks'
  BY <1>0, <1>1, NextApart, NextLocks
<1>3. Drives' /\ Marks' /\ Checked'
  BY <1>0, NextDrives, NextMarks, NextChecked
<1>4. EverySlotIsAVm' /\ CleanIsSynced'
  BY <1>0, NextSlots, NextSynced
<1> QED BY <1>1, <1>2, <1>3, <1>4 DEF IInv

LEMMA Invariant == Spec => []IInv
<1>1. IInv /\ UNCHANGED vars => IInv'
  BY NextInv
<1> QED BY InitInv, NextInv, PTL DEF Spec

-----------------------------------------------------------------------------
(* The theorems *)

(* Every variable of the pool keeps its type (vm_pool.rs, vm_runner.rs).   *)
THEOREM TypesHold == Spec => []TypeOK
<1>1. IInv => TypeOK
  BY DEF IInv
<1> QED BY <1>1, Invariant, PTL

(* The pool never counts more VMs than it may have, and each slot is that  *)
(* of a VM somebody has or that was dropped: the count and the maps behind *)
(* their separate locks agree after every step, failed boots included.     *)
THEOREM SlotsHold == Spec => []EverySlotIsAVm
<1>1. IInv => EverySlotIsAVm
  BY DEF IInv
<1> QED BY <1>1, Invariant, PTL

(* The lock of the workspace keeps its ext4 file from being the drive of   *)
(* two VMs, and from being mounted by the host under a VM, unless one of   *)
(* the VMs was dropped by a request whose client had gone or left behind   *)
(* by a boot that failed, or the workspace was used without the lock.      *)
THEOREM DriveHolds == Spec => []DriveIsExclusive
<1>1. IInv => DriveIsExclusive
  BY Excluded DEF IInv
<1> QED BY <1>1, Invariant, PTL

(* A workspace whose marker says it is clean, and which was never used     *)
(* without the lock, has everything in its directory, unless a VM that was *)
(* dropped or left behind still writes to its file.                        *)
THEOREM SyncHolds == Spec => []CleanIsSynced
<1>1. IInv => CleanIsSynced
  BY DEF IInv
<1> QED BY <1>1, Invariant, PTL

=============================================================================
