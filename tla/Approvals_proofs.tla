------------------------- MODULE Approvals_proofs --------------------------
(***************************************************************************)
(* Proofs about the approvals: those of dangerous tools inside a strategy  *)
(* (ToolApproval) and those a daemon asks for (DaemonApprovals).           *)
(***************************************************************************)
EXTENDS ToolApproval, DaemonApprovals, TLAPS

-----------------------------------------------------------------------------
(***************************************************************************)
(* Proofs about ToolApproval, for any number of branches, calls, rounds    *)
(* and decisions: type correctness, one run for each approval, and that a  *)
(* tool runs only on the approval of its own request.                      *)
(*                                                                         *)
(* The slot of the task is shared by its branches, and a branch reads the  *)
(* decision long after it was woken.  What makes that safe is that request *)
(* and decision change together: whoever puts another request in the slot  *)
(* clears the decision, and whoever uses an approval clears both.  So an   *)
(* approval that is still there was applied to the request that is there.  *)
(***************************************************************************)

DecisionIsOfRequest == decision.verdict = "approved" => decidedFor = request

ToolInv ==
    /\ ToolTypeOK
    /\ OneRunPerApproval
    /\ DecisionIsOfRequest

-----------------------------------------------------------------------------
(* The step that uses an approval                                          *)

LEMMA NoDecisionIsOne ==
    NoDecision \in [id : Bindings \cup {NoBinding}, verdict : {"none", "approved", "rejected"}]
BY DEF NoDecision

(* It leaves none, so it may run one tool and still owe nothing.           *)
LEMMA RunConsumes ==
    ASSUME ToolInv, NEW b \in Branches, NEW x, Matches(x), Run(b), UNCHANGED grants
    PROVE  /\ request' = NoBinding
           /\ decision' = NoDecision
           /\ runs' \in Nat
           /\ place' \in [Branches -> {"idle", "asking", "waiting", "woken", "running", "failed"}]
           /\ OneRunPerApproval'
           /\ DecisionIsOfRequest'
<1>1. request' = NoBinding /\ decision' = NoDecision
  BY DEF Run, Consume
<1>2. decision'.verdict = "none"
  BY <1>1 DEF NoDecision
<1>3. runs' \in {runs, runs + 1} /\ runs \in Nat /\ grants \in Nat
  BY DEF Run, ToolInv, ToolTypeOK
<1>4. runs + 1 <= grants
  BY <1>3 DEF Matches, ToolInv, OneRunPerApproval, Pending
<1>5. place' \in [Branches -> {"idle", "asking", "waiting", "woken", "running", "failed"}]
  BY DEF Run, ToolInv, ToolTypeOK
<1>6. OneRunPerApproval'
  <2>1. Pending' = 0
    BY <1>2 DEF Pending
  <2>2. runs' \in Nat /\ runs' <= runs + 1 /\ grants' = grants
    BY <1>3
  <2>3. runs' <= grants'
    BY <1>3, <1>4, <2>2
  <2> QED BY <2>1, <2>2, <2>3 DEF OneRunPerApproval
<1> QED BY <1>1, <1>2, <1>3, <1>5, <1>6 DEF DecisionIsOfRequest

(* A branch that begins to run has just used an approval of its own call.  *)
Begins(b) == place[b] # "running" /\ place'[b] = "running"

LEMMA RunIsDecided ==
    ASSUME ToolInv, NEW x, Matches(x)
    PROVE  decision.verdict = "approved" /\ decidedFor = x
BY DEF Matches, ToolInv, DecisionIsOfRequest

-----------------------------------------------------------------------------
(* The steps                                                               *)

LEMMA ExecuteStep ==
    ASSUME ToolInv, NEW b \in Branches, NEW x \in Bindings, Execute(b, x)
    PROVE  ToolInv'
<1>1. /\ calls' \in [Branches -> 0 .. MaxRounds]
      /\ call' \in [Branches -> Bindings \cup {NoBinding}]
  BY ConstantsAssumption DEF ConstantsAssumption, Execute, RoundsLeft, ToolInv, ToolTypeOK
<1>2. UNCHANGED <<cancelEvent, decisions, decidedFor, grants>>
  BY DEF Execute
<1>3. CASE Matches(x)
  <2>1. Run(b) /\ UNCHANGED <<event, status>>
    BY <1>3 DEF Execute
  <2>2. /\ request' = NoBinding /\ decision' = NoDecision /\ runs' \in Nat
        /\ place' \in [Branches ->
               {"idle", "asking", "waiting", "woken", "running", "failed"}]
        /\ OneRunPerApproval' /\ DecisionIsOfRequest'
    BY <1>2, <1>3, <2>1, RunConsumes
  <2>3. ToolTypeOK'
    BY <1>1, <1>2, <2>1, <2>2, NoDecisionIsOne DEF ToolInv, ToolTypeOK
  <2> QED BY <2>2, <2>3 DEF ToolInv
<1>4. CASE ~Matches(x)
  <2>1. /\ request' = x /\ decision' = NoDecision /\ event' = FALSE
        /\ status' = "waiting_approval"
        /\ place' = [place EXCEPT ![b] = "asking"]
        /\ runs' = runs
    BY <1>4 DEF Execute
  <2>2. ToolTypeOK'
    BY <1>1, <1>2, <2>1, NoDecisionIsOne DEF ToolInv, ToolTypeOK
  <2>3. decision'.verdict = "none"
    BY <2>1 DEF NoDecision
  <2>4. runs <= grants
    BY DEF ToolInv, ToolTypeOK, OneRunPerApproval, Pending
  <2>5. OneRunPerApproval'
    BY <1>2, <2>1, <2>3, <2>4 DEF ToolInv, ToolTypeOK, OneRunPerApproval, Pending
  <2> QED BY <2>2, <2>3, <2>5 DEF ToolInv, DecisionIsOfRequest
<1> QED BY <1>3, <1>4

LEMMA ResumeStep ==
    ASSUME ToolInv, NEW b \in Branches, Resume(b)
    PROVE  ToolInv'
<1>1. /\ status' \in {"running", "waiting_approval", "cancelled"}
      /\ UNCHANGED <<event, cancelEvent, call, calls, decisions, decidedFor, grants>>
  BY DEF Resume, ToolInv, ToolTypeOK
<1>2. CASE Matches(call[b]) /\ Run(b)
  <2>1. /\ request' = NoBinding /\ decision' = NoDecision /\ runs' \in Nat
        /\ place' \in [Branches ->
               {"idle", "asking", "waiting", "woken", "running", "failed"}]
        /\ OneRunPerApproval' /\ DecisionIsOfRequest'
    BY <1>1, <1>2, RunConsumes
  <2>2. ToolTypeOK'
    BY <1>1, <2>1, NoDecisionIsOne DEF ToolInv, ToolTypeOK
  <2> QED BY <2>1, <2>2 DEF ToolInv
<1>3. CASE ~Matches(call[b])
  <2>1. place' = [place EXCEPT ![b] = "idle"] /\ UNCHANGED <<request, decision, runs>>
    BY <1>3 DEF Resume
  <2> QED BY <1>1, <2>1 DEF ToolInv, ToolTypeOK, OneRunPerApproval, Pending, DecisionIsOfRequest
<1> QED BY <1>2, <1>3 DEF Resume

LEMMA DecisionStep ==
    ASSUME ToolInv, NEW x \in Bindings \cup {NoBinding}, NEW v \in {"approved", "rejected"},
           ApproveDecision(x, v)
    PROVE  ToolInv'
<1>1. decisions' \in 0 .. MaxDecisions /\ UNCHANGED <<call, calls>>
  BY ConstantsAssumption DEF ConstantsAssumption, ApproveDecision, ToolInv, ToolTypeOK
<1>2. CASE ~Bound(x)
  BY <1>1, <1>2 DEF ApproveDecision, task, toolHistory, ToolInv, ToolTypeOK, OneRunPerApproval,
                    Pending, DecisionIsOfRequest
<1>3. CASE Bound(x)
  <2>1. /\ decision' = [id |-> x, verdict |-> v] /\ event' = TRUE /\ Wake
        /\ decidedFor' = request /\ UNCHANGED <<request, runs>>
    BY <1>3 DEF ApproveDecision
  <2>2. /\ grants' = IF v = "approved" THEN grants + 1 ELSE grants
        /\ status' \in {"running", "waiting_approval", "cancelled"}
        /\ cancelEvent' \in BOOLEAN
    BY <1>3 DEF ApproveDecision, ToolInv, ToolTypeOK
  <2>3. place' \in [Branches -> {"idle", "asking", "waiting", "woken", "running", "failed"}]
    BY <2>1 DEF Wake, ToolInv, ToolTypeOK
  <2>4. ToolTypeOK'
    BY <1>1, <2>1, <2>2, <2>3 DEF ToolInv, ToolTypeOK
  <2>5. decision'.verdict = v
    BY <2>1
  <2>6. runs <= grants
    BY DEF ToolInv, ToolTypeOK, OneRunPerApproval, Pending
  <2>7. OneRunPerApproval'
    BY <2>1, <2>2, <2>5, <2>6 DEF ToolInv, ToolTypeOK, OneRunPerApproval, Pending
  <2> QED BY <2>1, <2>4, <2>7 DEF ToolInv, DecisionIsOfRequest
<1> QED BY <1>2, <1>3

(* The other steps of a branch move it, and nothing else. *)
LEMMA MoveStep ==
    ASSUME ToolInv, NEW b \in Branches,
           Asked(b) \/ PublishFails(b) \/ TimedOut(b) \/ ToolReturns(b)
    PROVE  ToolInv'
<1>1. /\ UNCHANGED <<task, call, calls, decisions, toolHistory>>
      /\ \E p \in {"waiting", "woken", "failed", "idle"} : place' = [place EXCEPT ![b] = p]
  BY DEF Asked, PublishFails, TimedOut, ToolReturns
<1> QED BY <1>1 DEF task, toolHistory, ToolInv, ToolTypeOK, OneRunPerApproval, Pending,
                    DecisionIsOfRequest

LEMMA CancelStep ==
    ASSUME ToolInv, RequestCancel
    PROVE  ToolInv'
BY DEF RequestCancel, branch, toolHistory, ToolInv, ToolTypeOK, OneRunPerApproval, Pending,
       DecisionIsOfRequest

LEMMA ToolInitially == ToolInit => ToolInv
<1> SUFFICES ASSUME ToolInit PROVE ToolInv
  OBVIOUS
<1>1. ToolTypeOK
  <2>1. decision \in [id : Bindings \cup {NoBinding}, verdict : {"none", "approved", "rejected"}]
    BY NoDecisionIsOne DEF ToolInit
  <2>2. 0 \in 0 .. MaxRounds /\ 0 \in 0 .. MaxDecisions
    BY ConstantsAssumption DEF ConstantsAssumption
  <2> QED BY <2>1, <2>2 DEF ToolInit, ToolTypeOK
<1>2. decision.verdict = "none"
  BY DEF ToolInit, NoDecision
<1> QED BY <1>1, <1>2 DEF ToolInit, ToolInv, OneRunPerApproval, Pending, DecisionIsOfRequest

LEMMA ToolInductive == ToolInv /\ [ToolNext]_toolVars => ToolInv'
<1> SUFFICES ASSUME ToolInv, [ToolNext]_toolVars PROVE ToolInv'
  OBVIOUS
<1>1. CASE UNCHANGED toolVars
  BY <1>1 DEF toolVars, task, branch, toolHistory, ToolInv, ToolTypeOK, OneRunPerApproval, Pending,
              DecisionIsOfRequest
<1> QED BY <1>1, ExecuteStep, ResumeStep, DecisionStep, MoveStep, CancelStep DEF ToolNext, Branch

LEMMA ToolInvariance == ToolSpec => []ToolInv
BY ToolInitially, ToolInductive, PTL DEF ToolSpec

-----------------------------------------------------------------------------
(* The task's and the branches' variables keep their types. *)
THEOREM ToolTypesHold == ToolSpec => []ToolTypeOK
<1>1. ToolInv => ToolTypeOK
  BY DEF ToolInv
<1> QED BY <1>1, ToolInvariance, PTL

(* One approval runs one tool, however many branches it wakes. *)
THEOREM ApprovalsAreUsedOnce == ToolSpec => []OneRunPerApproval
<1>1. ToolInv => OneRunPerApproval
  BY DEF ToolInv
<1> QED BY <1>1, ToolInvariance, PTL

(* A dangerous tool runs only on an approval that was applied while its    *)
(* own call was the request in the slot.                                   *)
THEOREM DecidedRuns == ToolSpec => RunsWhatWasDecided
<1>1. ASSUME ToolInv, [ToolNext]_toolVars, NEW b \in Branches, Begins(b)
      PROVE  decision.verdict = "approved" /\ decidedFor = call'[b]
  <2>1. ASSUME NEW c \in Branches, NEW x \in Bindings, Execute(c, x)
        PROVE  decision.verdict = "approved" /\ decidedFor = call'[b]
    <3>1. \E p \in {"idle", "running", "asking"} :
             /\ place' = [place EXCEPT ![c] = p]
             /\ p = "running" => Matches(x)
      BY <2>1 DEF Execute, Run
    <3>2. c = b /\ Matches(x)
      BY <1>1, <3>1 DEF Begins, ToolInv, ToolTypeOK
    <3>3. call'[b] = x
      BY <1>1, <2>1, <3>2 DEF Execute, ToolInv, ToolTypeOK
    <3> QED BY <1>1, <3>2, <3>3, RunIsDecided
  <2>2. ASSUME NEW c \in Branches, Resume(c)
        PROVE  decision.verdict = "approved" /\ decidedFor = call'[b]
    <3>1. \E p \in {"idle", "running"} :
             /\ place' = [place EXCEPT ![c] = p]
             /\ p = "running" => Matches(call[c])
      BY <2>2 DEF Resume, Run
    <3>2. c = b /\ Matches(call[b])
      BY <1>1, <3>1 DEF Begins, ToolInv, ToolTypeOK
    <3>3. call'[b] = call[b]
      BY <2>2 DEF Resume
    <3> QED BY <1>1, <3>2, <3>3, RunIsDecided
  <2>3. ASSUME NEW c \in Branches,
               Asked(c) \/ PublishFails(c) \/ TimedOut(c) \/ ToolReturns(c)
        PROVE  FALSE
    <3>1. \E p \in {"waiting", "woken", "failed", "idle"} : place' = [place EXCEPT ![c] = p]
      BY <2>3 DEF Asked, PublishFails, TimedOut, ToolReturns
    <3> QED BY <1>1, <3>1 DEF Begins, ToolInv, ToolTypeOK
  <2>4. ASSUME NEW x, NEW v, ApproveDecision(x, v) PROVE FALSE
    BY <1>1, <2>4 DEF ApproveDecision, Wake, Begins, ToolInv, ToolTypeOK
  <2>5. CASE RequestCancel \/ UNCHANGED toolVars
    BY <1>1, <2>5 DEF RequestCancel, toolVars, branch, Begins
  <2> QED BY <1>1, <2>1, <2>2, <2>3, <2>4, <2>5 DEF ToolNext, Branch
<1>2. ToolInv /\ [ToolNext]_toolVars =>
         [\A b \in Branches : place[b] # "running" /\ place'[b] = "running" =>
             /\ decision.verdict = "approved"
             /\ decidedFor = call'[b]]_toolVars
  BY <1>1 DEF Begins
<1> QED BY <1>2, ToolInvariance, PTL DEF ToolSpec, RunsWhatWasDecided

-----------------------------------------------------------------------------
(***************************************************************************)
(* Proofs about DaemonApprovals, for any requests, responders and          *)
(* notifiers: type correctness, a request is decided once, none gets lost, *)
(* and what a closed connection leaves behind.                             *)
(*                                                                         *)
(* A request that UpdateChannelMsg did not write back is in ONE place: its *)
(* key is in Redis, or one responder holds it, or it has been decided, or  *)
(* it is gone.  The atomic script takes it from Redis into the hands of a  *)
(* responder, SendToConn to the daemon, and a failure puts it back.  What  *)
(* a failing command of Redis loses or leaves is set apart by the history. *)
(***************************************************************************)

(* Responder u took the request out and has not got rid of it yet.         *)
HasTaken(u, r) == responder[u].request = r /\ responder[u].step \in {"sending", "failed"}

(* Whoever has begun has a request that was asked for.                     *)
Named ==
    /\ \A u \in Responders : responder[u].step # "idle" => responder[u].request \in asked
    /\ \A n \in Notifiers : notifier[n].step # "idle" => notifier[n].request \in asked
    /\ \A r \in Requests \ asked : sent[r] = 0

InOnePlace(r) ==
    /\ sent[r] <= 1
    /\ r \in key => sent[r] = 0
    /\ \A u \in Responders : HasTaken(u, r) => r \notin key /\ sent[r] = 0
    /\ \A u, v \in Responders : HasTaken(u, r) /\ HasTaken(v, r) => u = v

Once == \A r \in Requests : r \notin revived => InOnePlace(r)

(* What the scan of a closing connection has yet to see, or will leave.    *)
Requeued(r) == \E u \in Responders : responder[u] = At("requeued", r)

Swept ==
    /\ life # "open" =>
           key \subseteq todo \cup {found} \cup revived \cup skipped
                          \cup {r \in Requests : Requeued(r)}
    /\ life = "closed" => todo = {} /\ found = None

IInv ==
    /\ TypeOK
    /\ Named
    /\ Once
    /\ NeverLost
    /\ Swept

-----------------------------------------------------------------------------
(* The record that says where a responder or a notifier stands             *)

LEMMA AtFields ==
    ASSUME NEW step, NEW r
    PROVE  At(step, r).step = step /\ At(step, r).request = r
BY DEF At

LEMMA RespondsSets ==
    ASSUME TypeOK, NEW u \in Responders, NEW r \in Requests \cup {None},
           NEW step \in {"idle", "sending", "failed", "refused", "requeued", "done"},
           Responds(u, step, r)
    PROVE  /\ responder' \in [Responders ->
                  [step : {"idle", "sending", "failed", "refused", "requeued", "done"},
                   request : Requests \cup {None}]]
           /\ responder'[u] = At(step, r)
           /\ \A v \in Responders \ {u} : responder'[v] = responder[v]
<1>1. responder \in [Responders ->
          [step : {"idle", "sending", "failed", "refused", "requeued", "done"},
           request : Requests \cup {None}]]
  BY DEF TypeOK
<1>2. At(step, r) \in [step : {"idle", "sending", "failed", "refused", "requeued", "done"},
                       request : Requests \cup {None}]
  BY DEF At
<1> QED BY <1>1, <1>2 DEF Responds

(* Who holds what after a responder has moved. *)
LEMMA HoldersMove ==
    ASSUME TypeOK, NEW u \in Responders, NEW r \in Requests \cup {None},
           NEW step \in {"idle", "sending", "failed", "refused", "requeued", "done"},
           Responds(u, step, r), NEW v \in Responders, NEW q
    PROVE  HasTaken(v, q)' <=>
               IF v = u THEN q = r /\ step \in {"sending", "failed"} ELSE HasTaken(v, q)
BY RespondsSets, AtFields DEF HasTaken

LEMMA NotifiesSets ==
    ASSUME TypeOK, NEW n \in Notifiers, NEW r \in Requests \cup {None},
           NEW step \in {"idle", "writing", "done"}, Notifies(n, step, r)
    PROVE  /\ notifier' \in [Notifiers ->
                  [step : {"idle", "writing", "done"}, request : Requests \cup {None}]]
           /\ notifier'[n] = At(step, r)
           /\ \A m \in Notifiers \ {n} : notifier'[m] = notifier[m]
<1>1. notifier \in [Notifiers ->
          [step : {"idle", "writing", "done"}, request : Requests \cup {None}]]
  BY DEF TypeOK
<1>2. At(step, r) \in [step : {"idle", "writing", "done"}, request : Requests \cup {None}]
  BY DEF At
<1> QED BY <1>1, <1>2 DEF Notifies

(* A request that is in one place stays there while nobody moves it, and   *)
(* stays so when its key goes.                                             *)
LEMMA KeptInPlace ==
    ASSUME Once, UNCHANGED <<responder, sent>>, key' \subseteq key, revived \subseteq revived'
    PROVE  Once'
BY DEF Once, InOnePlace, HasTaken

-----------------------------------------------------------------------------
(* The steps of the daemon and of the scan                                 *)

LEMMA StoreStep ==
    ASSUME IInv, NEW r \in Requests, Store(r)
    PROVE  IInv'
<1>1. /\ life = "open" /\ r \notin asked
      /\ asked' = asked \cup {r}
      /\ \/ key' = key \cup {r} /\ UNCHANGED dropped
         \/ dropped' = dropped \cup {r} /\ UNCHANGED key
      /\ UNCHANGED <<life, responder, notifier, todo, found, sent, closed, revived, skipped>>
  BY DEF Store, scan
<1>2. TypeOK /\ Named /\ Once /\ NeverLost
  BY DEF IInv
<1>3. TypeOK'
  BY <1>1, <1>2 DEF TypeOK
<1>4. Named'
  BY <1>1, <1>2 DEF Named
<1>5. Once'
  <2> SUFFICES ASSUME NEW q \in Requests, q \notin revived PROVE InOnePlace(q)'
    BY <1>1 DEF Once
  <2>1. InOnePlace(q)
    BY <1>2 DEF Once
  <2>2. \A u \in Responders : ~HasTaken(u, r)
    BY <1>1, <1>2 DEF Named, HasTaken
  <2>3. sent[r] = 0
    BY <1>1, <1>2 DEF Named
  <2> QED BY <1>1, <2>1, <2>2, <2>3 DEF InOnePlace, HasTaken
<1>6. NeverLost'
  BY <1>1, <1>2 DEF NeverLost
<1>7. Swept'
  BY <1>1 DEF Swept
<1> QED BY <1>3, <1>4, <1>5, <1>6, <1>7 DEF IInv

(* The key of a request goes with it: resolved by the daemon, expired, or  *)
(* found by the scan.                                                      *)
LEMMA KeyGoes ==
    ASSUME IInv, NEW r \in Requests, r \in asked, key' = key \ {r},
           closed' = closed \cup {r},
           found' = found \/ (r = found /\ found' = None),
           UNCHANGED <<life, asked, responder, notifier, todo, sent, revived, dropped, skipped>>
    PROVE  IInv'
<1>1. TypeOK /\ Named /\ Once /\ NeverLost /\ Swept
  BY DEF IInv
<1>2. TypeOK'
  BY <1>1, NoneAssumption DEF TypeOK
<1>3. Named' /\ Once'
  BY <1>1, KeptInPlace DEF Named
<1>4. NeverLost'
  BY <1>1 DEF NeverLost
<1>5. Swept'
  BY <1>1 DEF Swept, Requeued
<1> QED BY <1>2, <1>3, <1>4, <1>5 DEF IInv

(* The scan could not delete a key that it had found. *)
LEMMA KeyIsLeft ==
    ASSUME IInv, found \in asked, skipped' = skipped \cup {found},
           closed' = closed \cup {found}, found' = None,
           UNCHANGED <<life, asked, key, responder, notifier, todo, sent, revived, dropped>>
    PROVE  IInv'
<1>1. TypeOK /\ Named /\ Once /\ NeverLost /\ Swept
  BY DEF IInv
<1>2. TypeOK' /\ Named' /\ NeverLost'
  BY <1>1 DEF TypeOK, Named, NeverLost
<1>3. Once' /\ Swept'
  BY <1>1, KeptInPlace DEF Swept, Requeued
<1> QED BY <1>2, <1>3 DEF IInv

LEMMA DisconnectStep ==
    ASSUME IInv, Disconnect
    PROVE  IInv'
<1>1. TypeOK /\ Named /\ Once /\ NeverLost
  BY DEF IInv
<1>2. /\ life = "open" /\ life' = "closing" /\ todo' = key
      /\ UNCHANGED <<asked, key, responder, notifier, found, sent, closed, revived>>
      /\ UNCHANGED <<dropped, skipped>>
  BY DEF Disconnect, history, errors
<1>3. TypeOK' /\ Named' /\ NeverLost' /\ Swept'
  BY <1>1, <1>2 DEF TypeOK, Named, NeverLost, Swept
<1>4. Once'
  BY <1>1, <1>2, KeptInPlace
<1> QED BY <1>3, <1>4 DEF IInv

LEMMA ScanKeyStep ==
    ASSUME IInv, NEW r \in Requests, ScanKey(r)
    PROVE  IInv'
<1>1. TypeOK /\ Named /\ Once /\ NeverLost /\ Swept
  BY DEF IInv
<1>2. /\ life = "closing" /\ found = None /\ r \in todo \cup key
      /\ todo' = todo \ {r}
      /\ \/ found' = (IF r \in key THEN r ELSE None) /\ UNCHANGED skipped
         \/ skipped' = skipped \cup {r} /\ UNCHANGED found
      /\ UNCHANGED <<life, asked, key, responder, notifier, sent, closed, revived, dropped>>
  BY DEF ScanKey, daemon
<1>3. TypeOK' /\ Named' /\ NeverLost'
  BY <1>1, <1>2 DEF TypeOK, Named, NeverLost
<1>4. Once'
  BY <1>1, <1>2, KeptInPlace
<1>5. Swept'
  <2>1. None \notin key
    BY <1>1, NoneAssumption DEF TypeOK
  <2> QED BY <1>1, <1>2, <2>1 DEF Swept, Requeued
<1> QED BY <1>3, <1>4, <1>5 DEF IInv

LEMMA ScanDoneStep ==
    ASSUME IInv, ScanDone
    PROVE  IInv'
<1>1. TypeOK /\ Named /\ Once /\ NeverLost /\ Swept
  BY DEF IInv
<1>2. /\ life = "closing" /\ found = None /\ life' = "closed"
      /\ todo' = {} /\ skipped' = skipped \cup todo
      /\ UNCHANGED <<asked, key, responder, notifier, found, sent, closed, revived, dropped>>
  BY DEF ScanDone
<1>3. TypeOK' /\ Named' /\ NeverLost'
  BY <1>1, <1>2 DEF TypeOK, Named, NeverLost
<1>4. Once' /\ Swept'
  BY <1>1, <1>2, KeptInPlace DEF Swept, Requeued
<1> QED BY <1>3, <1>4 DEF IInv

-----------------------------------------------------------------------------
(* The steps of the responders                                             *)

LEMMA ResolveStep ==
    ASSUME IInv, NEW u \in Responders, NEW r \in Requests, Resolve(u, r)
    PROVE  IInv'
<1>1. TypeOK /\ Named /\ Once /\ NeverLost /\ Swept
  BY DEF IInv
<1>2. /\ responder[u].step = "idle" /\ r \in asked
      /\ UNCHANGED <<life, asked, notifier, todo, found, sent, closed, revived, skipped>>
  BY DEF Resolve, daemon, scan
<1>3. PICK step \in {"sending", "refused"} :
         /\ Responds(u, step, r)
         /\ step = "sending" => r \in key /\ key' = key \ {r} /\ dropped' = dropped
         /\ step = "refused" => \/ key' = key /\ dropped' = dropped
                                \/ key' = key \ {r} /\ dropped' = dropped \cup {r}
  BY DEF Resolve, Take
<1>4. /\ responder' \in [Responders ->
             [step : {"idle", "sending", "failed", "refused", "requeued", "done"},
              request : Requests \cup {None}]]
      /\ responder'[u] = At(step, r)
      /\ \A v \in Responders \ {u} : responder'[v] = responder[v]
  BY <1>1, <1>3, RespondsSets
<1>5. \A v \in Responders, q \in Requests :
         HasTaken(v, q)' <=> IF v = u THEN q = r /\ step = "sending" ELSE HasTaken(v, q)
  BY <1>1, <1>3, HoldersMove
<1>6. \A q : ~HasTaken(u, q)
  BY <1>2 DEF HasTaken
<1>7. TypeOK'
  BY <1>1, <1>2, <1>3, <1>4 DEF TypeOK
<1>8. Named'
  BY <1>1, <1>2, <1>4, AtFields DEF Named
<1>9. Once'
  <2> SUFFICES ASSUME NEW q \in Requests, q \notin revived PROVE InOnePlace(q)'
    BY <1>2 DEF Once
  <2>1. InOnePlace(q)
    BY <1>1 DEF Once
  <2>2. key' \subseteq key /\ (step = "sending" => r \in key /\ r \notin key')
    BY <1>3
  <2> QED BY <1>2, <1>3, <1>5, <2>1, <2>2 DEF InOnePlace
<1>10. NeverLost'
  <2> SUFFICES ASSUME NEW q \in asked \ dropped', q \notin closed, sent[q] = 0
               PROVE  q \in key' \/ \E v \in Responders : HasTaken(v, q)'
    BY <1>2 DEF NeverLost, HasTaken
  <2>1. q \in key \/ \E v \in Responders : HasTaken(v, q)
    BY <1>1, <1>3 DEF NeverLost, HasTaken
  <2>2. q \in Requests
    BY <1>1 DEF TypeOK
  <2> QED BY <1>3, <1>5, <1>6, <2>1, <2>2
<1>11. Swept'
  <2>1. key' \subseteq key
    BY <1>3
  <2>2. \A q : Requeued(q) => Requeued(q)'
    BY <1>2, <1>4, AtFields DEF Requeued
  <2> QED BY <1>1, <1>2, <2>1, <2>2 DEF Swept
<1> QED BY <1>7, <1>8, <1>9, <1>10, <1>11 DEF IInv

LEMMA SendStep ==
    ASSUME IInv, NEW u \in Responders, SendDecision(u)
    PROVE  IInv'
<1> DEFINE r == responder[u].request
<1>1. TypeOK /\ Named /\ Once /\ NeverLost /\ Swept
  BY DEF IInv
<1>2. /\ responder[u].step = "sending"
      /\ UNCHANGED <<life, asked, key, notifier, todo, found, closed, revived, dropped, skipped>>
  BY DEF SendDecision, daemon, scan, history, errors
<1>3. r \in asked /\ r \in Requests
  BY <1>1, <1>2 DEF Named, TypeOK
<1>4. PICK step \in {"done", "failed"} :
         /\ Responds(u, step, r)
         /\ step = "done" => sent' = [sent EXCEPT ![r] = @ + 1]
         /\ step = "failed" => sent' = sent
  BY DEF SendDecision
<1>5. /\ responder' \in [Responders ->
             [step : {"idle", "sending", "failed", "refused", "requeued", "done"},
              request : Requests \cup {None}]]
      /\ responder'[u] = At(step, r)
      /\ \A v \in Responders \ {u} : responder'[v] = responder[v]
  BY <1>1, <1>3, <1>4, RespondsSets
<1>6. \A v \in Responders, q \in Requests :
         HasTaken(v, q)' <=> IF v = u THEN q = r /\ step = "failed" ELSE HasTaken(v, q)
  BY <1>1, <1>3, <1>4, HoldersMove
<1>7. HasTaken(u, r) /\ \A q : HasTaken(u, q) => q = r
  BY <1>2 DEF HasTaken
<1>8. /\ sent \in [Requests -> Nat] /\ sent' \in [Requests -> Nat]
      /\ \A q \in Requests \ {r} : sent'[q] = sent[q]
      /\ step = "done" => sent'[r] = sent[r] + 1
      /\ step = "failed" => sent'[r] = sent[r]
  <2>1. sent \in [Requests -> Nat]
    BY <1>1 DEF TypeOK
  <2> QED BY <1>3, <1>4, <2>1
<1>9. TypeOK'
  BY <1>1, <1>2, <1>5, <1>8 DEF TypeOK
<1>10. Named'
  BY <1>1, <1>2, <1>3, <1>5, <1>8, AtFields DEF Named
<1>11. Once'
  <2> SUFFICES ASSUME NEW q \in Requests, q \notin revived PROVE InOnePlace(q)'
    BY <1>2 DEF Once
  <2>1. InOnePlace(q)
    BY <1>1 DEF Once
  <2>2. CASE q # r
    BY <1>2, <1>6, <1>7, <1>8, <2>1, <2>2 DEF InOnePlace
  <2>3. CASE q = r
    <3>1. r \notin key /\ sent[r] = 0 /\ \A v \in Responders : HasTaken(v, r) => v = u
      BY <1>7, <2>1, <2>3 DEF InOnePlace
    <3>2. CASE step = "done"
      BY <1>2, <1>3, <1>6, <1>8, <2>3, <3>1, <3>2 DEF InOnePlace
    <3>3. CASE step = "failed"
      BY <1>2, <1>3, <1>6, <1>8, <2>3, <3>1, <3>3 DEF InOnePlace
    <3> QED BY <3>2, <3>3
  <2> QED BY <2>2, <2>3
<1>12. NeverLost'
  <2> SUFFICES ASSUME NEW q \in asked \ dropped, q \notin closed, sent'[q] = 0
               PROVE  q \in key \/ \E v \in Responders : HasTaken(v, q)'
    BY <1>2 DEF NeverLost, HasTaken
  <2>1. q \in Requests
    BY <1>1 DEF TypeOK
  <2>2. sent[q] = 0 /\ (q = r => step = "failed")
    BY <1>3, <1>8, <2>1
  <2>3. q \in key \/ \E v \in Responders : HasTaken(v, q)
    BY <1>1, <2>2 DEF NeverLost, HasTaken
  <2> QED BY <1>6, <1>7, <2>1, <2>2, <2>3
<1>13. Swept'
  <2>1. \A q : Requeued(q) => Requeued(q)'
    BY <1>2, <1>5, AtFields DEF Requeued
  <2> QED BY <1>1, <1>2, <2>1 DEF Swept
<1> QED BY <1>9, <1>10, <1>11, <1>12, <1>13 DEF IInv

LEMMA RestoreStep ==
    ASSUME IInv, NEW u \in Responders, Restore(u)
    PROVE  IInv'
<1> DEFINE r == responder[u].request
<1>1. TypeOK /\ Named /\ Once /\ NeverLost /\ Swept
  BY DEF IInv
<1>2. /\ responder[u].step = "failed" /\ Responds(u, "requeued", r)
      /\ \/ key' = key \cup {r} /\ UNCHANGED dropped
         \/ dropped' = dropped \cup {r} /\ UNCHANGED key
      /\ UNCHANGED <<life, asked, notifier, todo, found, sent, closed, revived, skipped>>
  BY DEF Restore, StoreBack, daemon, scan
<1>3. r \in asked /\ r \in Requests
  BY <1>1, <1>2 DEF Named, TypeOK
<1>4. /\ responder' \in [Responders ->
             [step : {"idle", "sending", "failed", "refused", "requeued", "done"},
              request : Requests \cup {None}]]
      /\ responder'[u] = At("requeued", r)
      /\ \A v \in Responders \ {u} : responder'[v] = responder[v]
  BY <1>1, <1>2, <1>3, RespondsSets
<1>5. \A v \in Responders, q \in Requests :
         HasTaken(v, q)' <=> v # u /\ HasTaken(v, q)
  BY <1>1, <1>2, <1>3, HoldersMove
<1>6. HasTaken(u, r) /\ \A q : HasTaken(u, q) => q = r
  BY <1>2 DEF HasTaken
<1>7. TypeOK'
  BY <1>1, <1>2, <1>3, <1>4 DEF TypeOK
<1>8. Named'
  BY <1>1, <1>2, <1>3, <1>4, AtFields DEF Named
<1>9. Once'
  <2> SUFFICES ASSUME NEW q \in Requests, q \notin revived PROVE InOnePlace(q)'
    BY <1>2 DEF Once
  <2>1. InOnePlace(q)
    BY <1>1 DEF Once
  <2> QED BY <1>2, <1>5, <1>6, <2>1 DEF InOnePlace
<1>10. NeverLost'
  <2> SUFFICES ASSUME NEW q \in asked \ dropped', q \notin closed, sent[q] = 0
               PROVE  q \in key' \/ \E v \in Responders : HasTaken(v, q)'
    BY <1>2 DEF NeverLost, HasTaken
  <2>1. q \in key \/ \E v \in Responders : HasTaken(v, q)
    BY <1>1, <1>2 DEF NeverLost, HasTaken
  <2>2. q \in Requests
    BY <1>1 DEF TypeOK
  <2> QED BY <1>2, <1>5, <1>6, <2>1, <2>2
<1>11. Swept'
  <2>1. \A q : Requeued(q) => Requeued(q)'
    BY <1>2, <1>4, AtFields DEF Requeued
  <2>2. \A q : q = r => Requeued(q)'
    BY <1>4 DEF Requeued
  <2> HIDE DEF r
  <2> QED BY <1>1, <1>2, <1>3, <2>1, <2>2 DEF Swept
<1> QED BY <1>7, <1>8, <1>9, <1>10, <1>11 DEF IInv

-----------------------------------------------------------------------------
(* The steps of the notifiers                                              *)

LEMMA ReadStep ==
    ASSUME IInv, NEW n \in Notifiers, NEW r \in Requests, ReadForUpdate(n, r)
    PROVE  IInv'
<1>1. TypeOK /\ Named /\ Once /\ NeverLost /\ Swept
  BY DEF IInv
<1>2. /\ r \in key /\ Notifies(n, "writing", r)
      /\ UNCHANGED <<life, asked, key, responder, todo, found, sent, closed, revived>>
      /\ UNCHANGED <<dropped, skipped>>
  BY DEF ReadForUpdate, daemon, scan, history, errors
<1>3. /\ notifier' \in [Notifiers ->
             [step : {"idle", "writing", "done"}, request : Requests \cup {None}]]
      /\ notifier'[n] = At("writing", r)
      /\ \A m \in Notifiers \ {n} : notifier'[m] = notifier[m]
  BY <1>1, <1>2, NotifiesSets
<1>4. TypeOK' /\ Named'
  <2>1. r \in asked
    BY <1>1, <1>2 DEF TypeOK
  <2>2. TypeOK'
    BY <1>1, <1>2, <1>3 DEF TypeOK
  <2> QED BY <1>1, <1>2, <1>3, <2>1, <2>2, AtFields DEF Named
<1>5. Once' /\ NeverLost' /\ Swept'
  BY <1>1, <1>2, KeptInPlace DEF NeverLost, Swept, Requeued
<1> QED BY <1>4, <1>5 DEF IInv

LEMMA WriteStep ==
    ASSUME IInv, NEW n \in Notifiers, WriteUpdate(n)
    PROVE  IInv'
<1> DEFINE r == notifier[n].request
<1>1. TypeOK /\ Named /\ Once /\ NeverLost /\ Swept
  BY DEF IInv
<1>2. /\ notifier[n].step = "writing" /\ Notifies(n, "done", r)
      /\ \/ /\ key' = key \cup {r}
            /\ revived' = IF r \in key THEN revived ELSE revived \cup {r}
         \/ UNCHANGED <<key, revived>>
      /\ UNCHANGED <<life, asked, responder, todo, found, sent, closed, dropped, skipped>>
  BY DEF WriteUpdate, daemon, scan, errors
<1>3. r \in asked /\ r \in Requests
  BY <1>1, <1>2 DEF Named, TypeOK
<1>4. /\ notifier' \in [Notifiers ->
             [step : {"idle", "writing", "done"}, request : Requests \cup {None}]]
      /\ notifier'[n] = At("done", r)
      /\ \A m \in Notifiers \ {n} : notifier'[m] = notifier[m]
  BY <1>1, <1>2, <1>3, NotifiesSets
<1>5. TypeOK' /\ Named'
  <2>1. TypeOK'
    BY <1>1, <1>2, <1>3, <1>4 DEF TypeOK
  <2> QED BY <1>1, <1>2, <1>3, <1>4, <2>1, AtFields DEF Named
<1>6. Once'
  <2> SUFFICES ASSUME NEW q \in Requests, q \notin revived' PROVE InOnePlace(q)'
    BY DEF Once
  <2>1. q \notin revived /\ (q \in key' <=> q \in key)
    BY <1>2
  <2>2. InOnePlace(q)
    BY <1>1, <2>1 DEF Once
  <2> QED BY <1>2, <2>1, <2>2 DEF InOnePlace, HasTaken
<1>7. NeverLost' /\ Swept'
  BY <1>1, <1>2 DEF NeverLost, Swept, Requeued
<1> QED BY <1>5, <1>6, <1>7 DEF IInv

-----------------------------------------------------------------------------
LEMMA Initially == Init => IInv
<1> SUFFICES ASSUME Init PROVE IInv
  OBVIOUS
<1>1. /\ At("idle", None).step = "idle" /\ At("idle", None).request = None
      /\ \A u \in Responders : responder[u] = At("idle", None)
      /\ \A n \in Notifiers : notifier[n] = At("idle", None)
  BY AtFields DEF Init
<1>2. TypeOK
  BY DEF Init, TypeOK, At
<1>3. Named /\ Once
  BY <1>1 DEF Init, Named, Once, InOnePlace, HasTaken
<1>4. NeverLost /\ Swept
  BY DEF Init, NeverLost, Swept
<1> QED BY <1>2, <1>3, <1>4 DEF IInv

LEMMA Inductive == IInv /\ [Next]_vars => IInv'
<1> SUFFICES ASSUME IInv, [Next]_vars PROVE IInv'
  OBVIOUS
<1>1. TypeOK
  BY DEF IInv
<1>2. CASE UNCHANGED vars
  <2>1. /\ UNCHANGED <<life, asked, key, responder, notifier, todo, found, sent>>
        /\ UNCHANGED <<closed, revived, dropped, skipped>>
    BY <1>2 DEF vars, daemon, scan, history, errors
  <2> QED BY <2>1, KeptInPlace DEF IInv, TypeOK, Named, NeverLost, Swept, Requeued
<1>3. ASSUME NEW r \in Requests, ResolvedLocally(r) \/ Expire(r) PROVE IInv'
  <2>1. /\ r \in asked /\ key' = key \ {r} /\ closed' = closed \cup {r}
        /\ UNCHANGED <<life, asked, responder, notifier, todo, found, sent, revived>>
        /\ UNCHANGED <<dropped, skipped>>
    BY <1>1, <1>3 DEF ResolvedLocally, Expire, TypeOK, daemon, scan, errors
  <2> QED BY <2>1, KeyGoes
<1>4. CASE CancelByConn
  <2>1. /\ found # None /\ closed' = closed \cup {found} /\ found' = None
        /\ \/ key' = key \ {found} /\ UNCHANGED skipped
           \/ skipped' = skipped \cup {found} /\ UNCHANGED key
        /\ UNCHANGED <<life, asked, responder, notifier, todo, sent, revived, dropped>>
    BY <1>4 DEF CancelByConn, Delete, daemon
  <2>2. found \in asked /\ found \in Requests
    BY <1>1, <2>1 DEF TypeOK
  <2>3. CASE key' = key \ {found} /\ UNCHANGED skipped
    BY <2>1, <2>2, <2>3, KeyGoes
  <2>4. CASE skipped' = skipped \cup {found} /\ UNCHANGED key
    BY <2>1, <2>2, <2>4, KeyIsLeft
  <2> QED BY <2>1, <2>3, <2>4
<1> QED BY <1>2, <1>3, <1>4, StoreStep, DisconnectStep, ScanKeyStep, ScanDoneStep,
           ResolveStep, SendStep, RestoreStep, ReadStep, WriteStep DEF Next

LEMMA Invariance == Spec => []IInv
BY Initially, Inductive, PTL DEF Spec

-----------------------------------------------------------------------------
(* The variables keep their types; no key is there for what was not asked. *)
THEOREM TypesHold == Spec => []TypeOK
<1>1. IInv => TypeOK
  BY DEF IInv
<1> QED BY <1>1, Invariance, PTL

(* A request that UpdateChannelMsg did not write back is decided once.     *)
THEOREM FirstCallerWins == Spec => []DecidedOnce
<1>1. IInv => DecidedOnce
  BY DEF IInv, Once, InOnePlace, DecidedOnce
<1> QED BY <1>1, Invariance, PTL

(* An open request is in Redis or in the hands of a responder, unless a    *)
(* command of Redis failed on it.                                          *)
THEOREM NothingIsLost == Spec => []NeverLost
<1>1. IInv => NeverLost
  BY DEF IInv
<1> QED BY <1>1, Invariance, PTL

(* A closed connection leaves only what was brought back while it closed,  *)
(* and what the scan could not read or delete.                             *)
THEOREM LeftoversWereRestored == Spec => []OnlyRestoredRemain
<1>1. IInv => OnlyRestoredRemain
  <2> SUFFICES ASSUME IInv, life = "closed", NEW r \in key \ skipped
                PROVE  r \in revived \/ Requeued(r)
    BY DEF OnlyRestoredRemain, Requeued
  <2>1. todo = {} /\ found = None /\ r # None
    BY NoneAssumption DEF IInv, Swept, TypeOK
  <2> QED BY <2>1 DEF IInv, Swept
<1> QED BY <1>1, Invariance, PTL

=============================================================================
