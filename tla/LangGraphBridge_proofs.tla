----------------------- MODULE LangGraphBridge_proofs -----------------------
(***************************************************************************)
(* Proofs about LangGraphBridge, for any number of attempts: which calls   *)
(* of a workflow can be in flight together, that no call is cancelled      *)
(* without a cause, and that success never comes from the call the user's  *)
(* Cancel reached.                                                         *)
(*                                                                         *)
(* All three rest on one fact about the activity: a call that is open on   *)
(* the worker is the one its attempt waits for, unless its connection was  *)
(* cut or the deadline of the attempt has passed.  The attempts follow one *)
(* another, so there is one such call; and the worker abandons only what   *)
(* is cut or not waited for, so a call is never abandoned before either.   *)
(***************************************************************************)
EXTENDS LangGraphBridge, TLAPS

(* The attempts come one after the other. *)
InTurn ==
    \A a \in Attempts :
        /\ act[a] = "idle" <=> a > attempt
        /\ a < attempt => act[a] = "returned"
        /\ outcome[a] = "none" <=> act[a] # "returned"

(* Only a scheduled attempt has calls. *)
ServedWasScheduled == \A c \in Calls : phase[c] # "idle" => act[c[1]] # "idle"

(* A primary call is served before its attempt goes on, a fallback after.  *)
FallbackComesLater ==
    \A a \in Attempts :
        act[a] \in {"idle", "primary", "hint"} => phase[Fallback(a)] = "idle"

Left(c) == c \in cut \/ c[1] \in expired

OpenIsAwaited == \A c \in Calls : phase[c] = "open" => Waits(c[1], c) \/ Left(c)

UnansweredHasNone == \A c \in Calls : phase[c] \in {"idle", "open"} => answer[c] = "none"

HitNeverSucceeds == hit # NoCall => cancelled[hit] /\ answer[hit] # "OK"

OkWasAnswered ==
    \A a \in Attempts :
        outcome[a] = "ok" =>
            \E c \in Calls : c[1] = a /\ answer[c] = "OK" /\ c \notin cut

WonByAttempt == wf = "ok" => attempt > 0 /\ outcome[attempt] = "ok"

IInv ==
    /\ TypeOK
    /\ InTurn
    /\ ServedWasScheduled
    /\ FallbackComesLater
    /\ OpenIsAwaited
    /\ stale \subseteq expired
    /\ CancelHasACause
    /\ UnansweredHasNone
    /\ HitNeverSucceeds
    /\ OkWasAnswered
    /\ WonByAttempt

-----------------------------------------------------------------------------
(* Calls and attempts                                                      *)

LEMMA CallsOfAttempts ==
    /\ \A c \in Calls : c[1] \in Attempts
    /\ \A a \in Attempts :
          /\ Primary(a) \in Calls /\ Primary(a)[1] = a
          /\ Fallback(a) \in Calls /\ Fallback(a)[1] = a
BY DEF Calls, Primary, Fallback

LEMMA WaitsForItsOwn ==
    ASSUME NEW a \in Attempts, NEW c \in Calls, Waits(a, c)
    PROVE  c[1] = a /\ act[a] \in {"primary", "fallback"}
BY CallsOfAttempts DEF Waits

LEMMA AttemptNumbers ==
    /\ \A a \in Attempts : a \in Nat /\ a > 0 /\ a <= MaximumAttempts
    /\ \A n \in Nat : n > 0 /\ n <= MaximumAttempts => n \in Attempts
    /\ 0 \notin Attempts
BY AttemptsAssumption DEF Attempts

(* The properties that follow from where the calls and attempts stand.     *)
LEMMA Parts ==
    ASSUME IInv
    PROVE  /\ TypeOK /\ InTurn /\ ServedWasScheduled /\ FallbackComesLater
           /\ OpenIsAwaited /\ stale \subseteq expired
           /\ CancelHasACause /\ UnansweredHasNone /\ HitNeverSucceeds /\ OkWasAnswered /\ WonByAttempt
BY DEF IInv

-----------------------------------------------------------------------------
(* The workflow and the activity                                           *)

LEMMA ScheduleStep ==
    ASSUME IInv, Schedule
    PROVE  IInv'
<1> USE Parts
<1> DEFINE n == attempt + 1
<1>1. /\ attempt < MaximumAttempts
      /\ attempt > 0 => outcome[attempt] = "error"
      /\ attempt' = n
      /\ act' = [act EXCEPT ![n] = "primary"]
      /\ UNCHANGED <<registered, phase, cancelled, answer, mode, outcome, primaryErr>>
      /\ UNCHANGED <<expired, cut, stale, userCancel, hit, wf>>
      /\ wf = "running"
  BY DEF Schedule, MayAttempt, worker
<1>2. attempt \in Nat /\ n \in Attempts
  BY <1>1, AttemptNumbers, AttemptsAssumption DEF TypeOK
<1>3. /\ act'[n] = "primary"
      /\ \A a \in Attempts \ {n} : act'[a] = act[a]
  BY <1>1, <1>2 DEF TypeOK
<1>4. TypeOK'
  BY <1>1, <1>2, AttemptsAssumption DEF TypeOK, Attempts
<1>5. act[n] = "idle" /\ (attempt > 0 => act[attempt] = "returned")
  <2>1. n > attempt
    BY <1>2
  <2>2. act[n] = "idle"
    BY <1>2, <2>1 DEF InTurn
  <2>3. attempt > 0 => attempt \in Attempts
    BY <1>2, AttemptNumbers DEF TypeOK
  <2> QED BY <1>1, <2>2, <2>3 DEF InTurn
<1>6. InTurn'
  <2> SUFFICES ASSUME NEW a \in Attempts
               PROVE  /\ act'[a] = "idle" <=> a > n
                      /\ a < n => act'[a] = "returned"
                      /\ outcome[a] = "none" <=> act'[a] # "returned"
    BY <1>1 DEF InTurn
  <2>1. a \in Nat /\ a > 0
    BY AttemptNumbers
  <2>2. CASE a = n
    BY <1>2, <1>3, <1>5, <2>2 DEF InTurn
  <2>3. CASE a # n
    BY <1>2, <1>3, <1>5, <2>1, <2>3 DEF InTurn
  <2> QED BY <2>2, <2>3
<1>7. ServedWasScheduled' /\ FallbackComesLater'
  BY <1>1, <1>3, <1>5, CallsOfAttempts DEF ServedWasScheduled, FallbackComesLater
<1>8. OpenIsAwaited'
  <2> SUFFICES ASSUME NEW c \in Calls, phase[c] = "open"
               PROVE  Waits(c[1], c)' \/ Left(c)
    BY <1>1 DEF OpenIsAwaited, Left
  <2>1. c[1] \in Attempts /\ c[1] # n
    BY <1>5, CallsOfAttempts DEF ServedWasScheduled
  <2> QED BY <1>3, <2>1 DEF OpenIsAwaited, Waits
<1>9. /\ CancelHasACause' /\ UnansweredHasNone' /\ HitNeverSucceeds' /\ OkWasAnswered'
      /\ WonByAttempt' /\ (stale \subseteq expired)'
  BY <1>1 DEF CancelHasACause, UnansweredHasNone, HitNeverSucceeds, OkWasAnswered, WonByAttempt
<1> QED BY <1>4, <1>6, <1>7, <1>8, <1>9 DEF IInv

LEMMA CompleteStep ==
    ASSUME IInv, Complete
    PROVE  IInv'
<1> USE Parts
<1>1. /\ UNCHANGED <<registered, phase, cancelled, answer, mode, attempt, act, outcome>>
      /\ UNCHANGED <<primaryErr, expired, cut, stale, userCancel, hit>>
      /\ wf' \in {"ok", "failed"}
      /\ wf' = "ok" => attempt > 0 /\ outcome[attempt] = "ok"
  BY DEF Complete, worker, activity
<1> QED BY <1>1 DEF IInv, TypeOK, InTurn, ServedWasScheduled, FallbackComesLater, OpenIsAwaited, Left, Waits,
                    CancelHasACause, UnansweredHasNone, HitNeverSucceeds, OkWasAnswered,
                    WonByAttempt

(* An attempt goes on to p, or returns; if the call it waited for is open  *)
(* still, its deadline has passed.                                         *)
LEMMA AttemptMoves ==
    ASSUME IInv, NEW a \in Attempts, act[a] \in {"primary", "hint", "fallback"},
           NEW p \in {"hint", "fallback", "returned"}, p = "hint" => act[a] = "primary", act' = [act EXCEPT ![a] = p],
           \/ p # "returned" /\ outcome' = outcome
           \/ /\ p = "returned"
              /\ \E o \in {"ok", "fail", "error"} :
                    /\ outcome' = [outcome EXCEPT ![a] = o]
                    /\ o = "ok" => \E c \in Calls : c[1] = a /\ answer[c] = "OK" /\ c \notin cut,
           primaryErr' \in [Attempts -> BOOLEAN],
           expired' \in {expired, expired \cup {a}}, stale' \subseteq expired',
           \/ a \in expired'
           \/ \A c \in Calls : Waits(a, c) => phase[c] # "open" \/ c \in cut,
           UNCHANGED <<registered, phase, cancelled, answer, mode, attempt>>,
           UNCHANGED <<cut, userCancel, hit, wf>>
    PROVE  IInv'
<1> USE Parts
<1>1. /\ act'[a] = p
      /\ \A b \in Attempts \ {a} : act'[b] = act[b]
      /\ act' \in [Attempts -> {"idle", "primary", "hint", "fallback", "returned"}]
  BY DEF TypeOK
<1>2. /\ \A b \in Attempts \ {a} : outcome'[b] = outcome[b]
      /\ outcome'[a] = "none" <=> p # "returned"
      /\ outcome'[a] = "ok" => \E c \in Calls : c[1] = a /\ answer[c] = "OK" /\ c \notin cut
      /\ outcome' \in [Attempts -> {"none", "ok", "fail", "error"}]
  <2>1. outcome \in [Attempts -> {"none", "ok", "fail", "error"}] /\ outcome[a] = "none"
    BY DEF TypeOK, InTurn
  <2> QED BY <2>1
<1>3. TypeOK'
  <2>1. expired' \in SUBSET Attempts /\ stale' \in SUBSET Attempts
    BY DEF TypeOK
  <2> QED BY <1>1, <1>2, <2>1 DEF TypeOK
<1>4. InTurn'
  <2>1. a <= attempt /\ ~(a > attempt)
    BY AttemptNumbers DEF InTurn, TypeOK
  <2> QED BY <1>1, <1>2, <2>1 DEF InTurn
<1>5. ServedWasScheduled' /\ FallbackComesLater'
  BY <1>1, CallsOfAttempts DEF ServedWasScheduled, FallbackComesLater
<1>6. OpenIsAwaited'
  <2> SUFFICES ASSUME NEW c \in Calls, phase[c] = "open", c \notin cut, c[1] \notin expired'
               PROVE  Waits(c[1], c)'
    BY DEF OpenIsAwaited, Left
  <2>1. Waits(c[1], c) /\ c[1] \in Attempts
    BY CallsOfAttempts DEF OpenIsAwaited, Left
  <2>2. c[1] # a
    BY <2>1
  <2> QED BY <1>1, <2>1, <2>2 DEF Waits
<1>7. CancelHasACause' /\ UnansweredHasNone' /\ HitNeverSucceeds'
  BY DEF CancelHasACause, UnansweredHasNone, HitNeverSucceeds
<1>8. OkWasAnswered'
  BY <1>2 DEF OkWasAnswered
<1>9. WonByAttempt'
  <2>1. wf = "ok" => attempt # a
    BY DEF WonByAttempt, InTurn
  <2>2. wf = "ok" => attempt \in Attempts
    BY AttemptNumbers DEF TypeOK, WonByAttempt
  <2> QED BY <1>2, <2>1, <2>2 DEF WonByAttempt
<1> QED BY <1>3, <1>4, <1>5, <1>6, <1>7, <1>8, <1>9 DEF IInv

LEMMA PrimaryStep ==
    ASSUME IInv, NEW a \in Attempts, PrimaryReturns(a) \/ PrimaryUnavailable(a)
    PROVE  IInv'
<1> USE Parts
<1>1. /\ act[a] = "primary" /\ (phase[Primary(a)] # "open" \/ Primary(a) \in cut)
      /\ UNCHANGED <<registered, phase, cancelled, answer, mode, attempt>>
      /\ UNCHANGED <<expired, cut, stale, userCancel, hit, wf>>
      /\ primaryErr' \in [Attempts -> BOOLEAN]
  <2>1. primaryErr \in [Attempts -> BOOLEAN]
    BY DEF TypeOK
  <2>2. IsError(answer[Primary(a)]) \in BOOLEAN
    BY DEF IsError
  <2> QED BY <2>1, <2>2 DEF PrimaryReturns, PrimaryUnavailable, Unavailable, worker
<1>2. \A c \in Calls : Waits(a, c) => phase[c] # "open" \/ c \in cut
  BY <1>1 DEF Waits
<1>3. PICK p \in {"hint", "fallback", "returned"} :
         /\ act' = [act EXCEPT ![a] = p]
         /\ \/ p # "returned" /\ outcome' = outcome
            \/ /\ p = "returned"
               /\ \E o \in {"ok", "fail", "error"} :
                     /\ outcome' = [outcome EXCEPT ![a] = o]
                     /\ o = "ok" => \E c \in Calls : c[1] = a /\ answer[c] = "OK" /\ c \notin cut
  <2>1. CASE PrimaryUnavailable(a)
    BY <2>1 DEF PrimaryUnavailable, Return
  <2>2. CASE PrimaryReturns(a)
    <3>1. CASE answer[Primary(a)] = "OK" /\ Primary(a) \notin cut /\ Return(a, "ok")
      BY <3>1, CallsOfAttempts DEF Return
    <3>2. CASE Return(a, "error") \/ Return(a, "fail")
      BY <3>2 DEF Return
    <3>3. CASE /\ act' = [act EXCEPT ![a] = "hint"] \/ act' = [act EXCEPT ![a] = "fallback"]
               /\ UNCHANGED outcome
      BY <3>3
    <3> QED BY <2>2, <3>1, <3>2, <3>3 DEF PrimaryReturns
  <2> QED BY <2>1, <2>2
<1> QED BY <1>1, <1>2, <1>3, AttemptMoves

LEMMA HintStep ==
    ASSUME IInv, NEW a \in Attempts, Hint(a)
    PROVE  IInv'
<1> USE Parts
<1>1. /\ act[a] = "hint" /\ \A c \in Calls : ~Waits(a, c)
      /\ UNCHANGED <<registered, phase, cancelled, answer, mode, attempt, primaryErr>>
      /\ UNCHANGED <<expired, cut, stale, userCancel, hit, wf>>
      /\ primaryErr' \in [Attempts -> BOOLEAN]
  BY DEF Hint, worker, Waits, TypeOK
<1>2. PICK p \in {"fallback", "returned"} :
         /\ act' = [act EXCEPT ![a] = p]
         /\ p = "fallback" => outcome' = outcome
         /\ p = "returned" => outcome' = [outcome EXCEPT ![a] = "error"]
  BY DEF Hint, Return
<1> QED BY <1>1, <1>2, AttemptMoves

LEMMA FallbackStep ==
    ASSUME IInv, NEW a \in Attempts, FallbackReturns(a) \/ FallbackUnavailable(a)
    PROVE  IInv'
<1> USE Parts
<1>1. /\ act[a] = "fallback" /\ (phase[Fallback(a)] # "open" \/ Fallback(a) \in cut)
      /\ UNCHANGED <<registered, phase, cancelled, answer, mode, attempt, primaryErr>>
      /\ UNCHANGED <<expired, cut, stale, userCancel, hit, wf>>
  BY DEF FallbackReturns, FallbackUnavailable, Unavailable, worker
<1>2. \A c \in Calls : Waits(a, c) => phase[c] # "open" \/ c \in cut
  BY <1>1 DEF Waits
<1>3. PICK o \in {"ok", "fail", "error"} :
         /\ Return(a, o)
         /\ o = "ok" => answer[Fallback(a)] = "OK" /\ Fallback(a) \notin cut
  BY DEF FallbackReturns, FallbackUnavailable
<1>4. o = "ok" => \E c \in Calls : c[1] = a /\ answer[c] = "OK" /\ c \notin cut
  BY <1>3, CallsOfAttempts
<1>5. primaryErr' \in [Attempts -> BOOLEAN]
  BY <1>1 DEF TypeOK
<1> QED BY <1>1, <1>2, <1>3, <1>4, <1>5, AttemptMoves DEF Return

LEMMA DeadlineStep ==
    ASSUME IInv, NEW a \in Attempts, DeadlineExpires(a)
    PROVE  IInv'
<1> USE Parts
<1>1. /\ act[a] \in {"primary", "hint", "fallback"}
      /\ act' = [act EXCEPT ![a] = "returned"]
      /\ outcome' = [outcome EXCEPT ![a] = "error"]
      /\ expired' = expired \cup {a}
      /\ stale' \in {stale, stale \cup {a}}
      /\ UNCHANGED <<registered, phase, cancelled, answer, mode, attempt, primaryErr>>
      /\ UNCHANGED <<cut, userCancel, hit, wf>>
  BY DEF DeadlineExpires, worker
<1>2. stale' \subseteq expired' /\ a \in expired'
  BY <1>1
<1>3. primaryErr' \in [Attempts -> BOOLEAN]
  BY <1>1 DEF TypeOK
<1> QED BY <1>1, <1>2, <1>3, AttemptMoves

-----------------------------------------------------------------------------
(* The worker's calls                                                      *)

LEMMA ServeStep ==
    ASSUME IInv, NEW a \in Attempts, NEW c \in Calls, Serve(a, c)
    PROVE  IInv'
<1> USE Parts
<1>1. /\ Waits(a, c) /\ phase[c] = "idle" /\ phase' = [phase EXCEPT ![c] = "open"]
      /\ registered' = c
      /\ UNCHANGED <<cancelled, answer, mode, attempt, act, outcome, primaryErr>>
      /\ UNCHANGED <<expired, cut, stale, userCancel, hit, wf>>
  BY DEF Serve, Worker!Open, activity
<1>2. c[1] = a /\ act[a] # "idle"
  BY <1>1, WaitsForItsOwn
<1>3. phase'[c] = "open" /\ \A d \in Calls \ {c} : phase'[d] = phase[d]
  BY <1>1 DEF TypeOK
<1>4. TypeOK'
  BY <1>1 DEF TypeOK, Worker!Phases
<1>5. ServedWasScheduled' /\ OpenIsAwaited'
  BY <1>1, <1>2, <1>3 DEF ServedWasScheduled, OpenIsAwaited, Left, Waits
<1>8. FallbackComesLater'
  <2> SUFFICES ASSUME NEW b \in Attempts, act[b] \in {"idle", "primary", "hint"}
               PROVE  phase'[Fallback(b)] = "idle"
    BY <1>1 DEF FallbackComesLater
  <2>1. c # Fallback(b)
    BY <1>1 DEF Waits, Primary, Fallback
  <2> QED BY <1>3, <2>1, CallsOfAttempts DEF FallbackComesLater
<1>6. UnansweredHasNone'
  BY <1>1, <1>3 DEF UnansweredHasNone
<1>7. /\ InTurn' /\ CancelHasACause' /\ HitNeverSucceeds' /\ OkWasAnswered'
      /\ WonByAttempt' /\ (stale \subseteq expired)'
  BY <1>1 DEF InTurn, CancelHasACause, HitNeverSucceeds, OkWasAnswered, WonByAttempt
<1> QED BY <1>4, <1>5, <1>6, <1>7, <1>8 DEF IInv

LEMMA ReplyStep ==
    ASSUME IInv, NEW c \in Calls, WorkerReplies(c)
    PROVE  IInv'
<1> USE Parts
<1>1. PICK cd \in Worker!Codes : Worker!Reply(c, cd)
  BY AnswersAssumption DEF WorkerReplies
<1>2. /\ phase[c] = "open" /\ (cd = "OK" => ~cancelled[c])
      /\ phase' = [phase EXCEPT ![c] = "answered"]
      /\ answer' = [answer EXCEPT ![c] = cd]
      /\ UNCHANGED <<registered, cancelled, mode, attempt, act, outcome, primaryErr>>
      /\ UNCHANGED <<expired, cut, stale, userCancel, hit, wf>>
  BY <1>1 DEF WorkerReplies, Worker!Reply, Worker!Honest, activity
<1>3. /\ phase'[c] = "answered" /\ \A d \in Calls \ {c} : phase'[d] = phase[d]
      /\ answer'[c] = cd /\ \A d \in Calls \ {c} : answer'[d] = answer[d]
  BY <1>2 DEF TypeOK
<1>4. TypeOK'
  BY <1>2 DEF TypeOK, Worker!Phases
<1>5. ServedWasScheduled' /\ FallbackComesLater' /\ OpenIsAwaited' /\ UnansweredHasNone'
  BY <1>2, <1>3, CallsOfAttempts
     DEF ServedWasScheduled, FallbackComesLater, OpenIsAwaited, Left, UnansweredHasNone, Waits
<1>6. HitNeverSucceeds'
  BY <1>2, <1>3 DEF HitNeverSucceeds, TypeOK
<1>7. OkWasAnswered'
  <2>1. \A d \in Calls : answer[d] = "OK" => answer'[d] = "OK"
    BY <1>2, <1>3 DEF UnansweredHasNone
  <2> QED BY <1>2, <2>1 DEF OkWasAnswered
<1>8. InTurn' /\ CancelHasACause' /\ WonByAttempt' /\ (stale \subseteq expired)'
  BY <1>2 DEF InTurn, CancelHasACause, WonByAttempt
<1> QED BY <1>4, <1>5, <1>6, <1>7, <1>8 DEF IInv

(* A cut connection belongs to a call that is waited for. *)
LEMMA CutStep ==
    ASSUME IInv, NEW a \in Attempts, NEW c \in Calls, ConnectionLost(a, c)
    PROVE  IInv'
<1> USE Parts
<1>1. /\ Waits(a, c) /\ cut' = cut \cup {c}
      /\ UNCHANGED <<registered, phase, cancelled, answer, mode, attempt, act, outcome>>
      /\ UNCHANGED <<primaryErr, expired, stale, userCancel, hit, wf>>
  BY DEF ConnectionLost, worker
<1>2. TypeOK'
  BY <1>1 DEF TypeOK
<1>3. OkWasAnswered'
  <2>1. c[1] = a /\ outcome[a] # "ok"
    BY <1>1, WaitsForItsOwn DEF InTurn
  <2> QED BY <1>1, <2>1 DEF OkWasAnswered
<1>4. /\ InTurn' /\ ServedWasScheduled' /\ FallbackComesLater' /\ OpenIsAwaited'
      /\ CancelHasACause' /\ UnansweredHasNone' /\ HitNeverSucceeds' /\ WonByAttempt'
      /\ (stale \subseteq expired)'
  BY <1>1 DEF InTurn, ServedWasScheduled, FallbackComesLater, OpenIsAwaited, Left, Waits,
              CancelHasACause, UnansweredHasNone, HitNeverSucceeds, WonByAttempt
<1> QED BY <1>2, <1>3, <1>4 DEF IInv

(* A call nobody waits for is open only if cut or beyond its deadline. *)
LEMMA AbandonStep ==
    ASSUME IInv, NEW c \in Calls, WorkerAbandons(c)
    PROVE  IInv'
<1> USE Parts
<1>1. PICK seen \in BOOLEAN :
         cancelled' = [cancelled EXCEPT ![c] = cancelled[c] \/ seen]
  BY DEF WorkerAbandons, Worker!Abandon
<1>2. /\ c \in cut \/ \A a \in Attempts : ~Waits(a, c)
      /\ phase[c] = "open" /\ phase' = [phase EXCEPT ![c] = "aborted"]
      /\ UNCHANGED <<registered, answer, mode, attempt, act, outcome, primaryErr>>
      /\ UNCHANGED <<expired, cut, stale, userCancel, hit, wf>>
  BY DEF WorkerAbandons, Worker!Abandon, activity
<1>3. Left(c)
  BY <1>2, CallsOfAttempts DEF OpenIsAwaited, Left
<1>4. /\ phase'[c] = "aborted" /\ \A d \in Calls \ {c} : phase'[d] = phase[d]
      /\ \A d \in Calls \ {c} : cancelled'[d] = cancelled[d]
      /\ cancelled[c] => cancelled'[c]
      /\ cancelled' \in [Calls -> BOOLEAN]
  BY <1>1, <1>2 DEF TypeOK
<1>5. TypeOK'
  BY <1>2, <1>4 DEF TypeOK, Worker!Phases
<1>6. ServedWasScheduled' /\ FallbackComesLater' /\ OpenIsAwaited' /\ UnansweredHasNone'
  BY <1>2, <1>4, CallsOfAttempts
     DEF ServedWasScheduled, FallbackComesLater, OpenIsAwaited, Left, UnansweredHasNone, Waits
<1>7. CancelHasACause' /\ HitNeverSucceeds'
  <2>1. CancelHasACause'
    BY <1>2, <1>3, <1>4 DEF CancelHasACause, Left
  <2>2. HitNeverSucceeds'
    BY <1>2, <1>4 DEF HitNeverSucceeds, TypeOK
  <2> QED BY <2>1, <2>2
<1>8. InTurn' /\ OkWasAnswered' /\ WonByAttempt' /\ (stale \subseteq expired)'
  BY <1>2 DEF InTurn, OkWasAnswered, WonByAttempt
<1> QED BY <1>5, <1>6, <1>7, <1>8 DEF IInv

(* A Cancel reaches the holder of the entry, or nobody; it has a cause. *)
LEMMA CancelArrives ==
    ASSUME IInv, ReachWorker, stale' \subseteq stale,
           userCancel' \in {"none", "sending", "sent"},
           userCancel' = "sent" \/ (userCancel' = userCancel /\ expired # {}),
           \/ hit' = hit
           \/ hit' = NoCall
           \/ /\ Worker!CancelHolder /\ hit' = registered
              /\ phase[registered] = "open",
           UNCHANGED <<mode, attempt, act, outcome, primaryErr, expired, cut, wf>>
    PROVE  IInv'
<1> USE Parts
<1>1. /\ UNCHANGED <<registered, phase, answer>>
      /\ cancelled' \in [Calls -> BOOLEAN]
      /\ \A c \in Calls : cancelled[c] => cancelled'[c]
  BY DEF ReachWorker, Worker!CancelHolder, worker, TypeOK
<1>2. hit' \in Calls \cup {NoCall} /\ stale' \in SUBSET Attempts
  BY DEF Worker!CancelHolder, TypeOK
<1>3. TypeOK'
  BY <1>1, <1>2 DEF TypeOK
<1>4. HitNeverSucceeds'
  <2>1. CASE hit' = hit
    BY <1>1, <2>1 DEF HitNeverSucceeds, TypeOK
  <2>2. CASE hit' = NoCall
    BY <2>2 DEF HitNeverSucceeds
  <2>3. CASE Worker!CancelHolder /\ hit' = registered /\ phase[registered] = "open"
    <3>1. registered \in Calls /\ cancelled'[registered] = TRUE
      BY <2>3 DEF Worker!CancelHolder, TypeOK
    <3>2. answer[registered] = "none"
      BY <2>3, <3>1 DEF UnansweredHasNone
    <3> QED BY <1>1, <2>3, <3>1, <3>2 DEF HitNeverSucceeds
  <2> QED BY <2>1, <2>2, <2>3
<1>5. CancelHasACause'
  BY DEF CancelHasACause
<1>6. /\ InTurn' /\ ServedWasScheduled' /\ FallbackComesLater' /\ OpenIsAwaited' /\ UnansweredHasNone'
      /\ OkWasAnswered' /\ WonByAttempt' /\ (stale \subseteq expired)'
  BY <1>1 DEF InTurn, ServedWasScheduled, FallbackComesLater, OpenIsAwaited, Left, Waits, UnansweredHasNone,
              OkWasAnswered, WonByAttempt
<1> QED BY <1>3, <1>4, <1>5, <1>6 DEF IInv

LEMMA StaleCancelStep ==
    ASSUME IInv, NEW a \in Attempts, StaleCancel(a)
    PROVE  IInv'
<1>1. /\ ReachWorker /\ stale' \subseteq stale /\ expired # {}
      /\ UNCHANGED <<mode, attempt, act, outcome, primaryErr, expired, cut, userCancel, hit, wf>>
  BY Parts DEF StaleCancel, activity
<1> QED BY <1>1, Parts, CancelArrives DEF TypeOK

LEMMA UserCancelStep ==
    ASSUME IInv, UserCancel
    PROVE  IInv'
<1>1. /\ userCancel' = "sent" /\ stale' = stale
      /\ UNCHANGED <<mode, attempt, act, outcome, primaryErr, expired, cut, wf>>
      /\ \/ /\ Worker!CancelHolder
            /\ hit' = IF phase[registered] = "open" THEN registered ELSE NoCall
         \/ UNCHANGED <<worker, hit>>
  BY DEF UserCancel, activity
<1>2. ReachWorker
  BY <1>1 DEF ReachWorker
<1> QED BY <1>1, <1>2, CancelArrives

LEMMA SignalStep ==
    ASSUME IInv, CancelSignal \/ NativeCancel
    PROVE  IInv'
<1> USE Parts
<1>1. /\ UNCHANGED <<registered, phase, cancelled, answer, mode, attempt, act, outcome>>
      /\ UNCHANGED <<primaryErr, expired, cut, stale, hit>>
      /\ \/ userCancel = "none" /\ userCancel' = "sending" /\ wf' = wf
         \/ userCancel' = userCancel /\ wf' = "cancelled"
  BY DEF CancelSignal, NativeCancel, worker, activity
<1> QED BY <1>1 DEF IInv, TypeOK, InTurn, ServedWasScheduled, FallbackComesLater, OpenIsAwaited, Left, Waits,
                    CancelHasACause, UnansweredHasNone, HitNeverSucceeds, OkWasAnswered,
                    WonByAttempt

-----------------------------------------------------------------------------
LEMMA Initially == Init => IInv
<1> SUFFICES ASSUME Init PROVE IInv
  OBVIOUS
<1>1. TypeOK
  BY AttemptsAssumption DEF Init, Worker!Init, TypeOK, Worker!Phases
<1>2. InTurn
  BY AttemptNumbers DEF Init, InTurn
<1>3. /\ ServedWasScheduled /\ FallbackComesLater /\ OpenIsAwaited
      /\ UnansweredHasNone /\ CancelHasACause /\ HitNeverSucceeds
  BY CallsOfAttempts
     DEF Init, Worker!Init, Worker!NoAnswer, ServedWasScheduled, FallbackComesLater, OpenIsAwaited,
         UnansweredHasNone, CancelHasACause, HitNeverSucceeds
<1>4. OkWasAnswered /\ WonByAttempt /\ stale \subseteq expired
  BY DEF Init, OkWasAnswered, WonByAttempt
<1> QED BY <1>1, <1>2, <1>3, <1>4 DEF IInv

LEMMA Inductive == IInv /\ [Next]_vars => IInv'
<1> SUFFICES ASSUME IInv, [Next]_vars PROVE IInv'
  OBVIOUS
<1>1. CASE UNCHANGED vars
  BY <1>1 DEF vars, worker, activity, IInv, TypeOK, InTurn, ServedWasScheduled,
              FallbackComesLater, OpenIsAwaited, Left, Waits, CancelHasACause, UnansweredHasNone, HitNeverSucceeds,
              OkWasAnswered, WonByAttempt
<1> QED BY <1>1, ScheduleStep, CompleteStep, PrimaryStep, CutStep, HintStep, FallbackStep,
           DeadlineStep, ServeStep, ReplyStep, AbandonStep, StaleCancelStep,
           UserCancelStep, SignalStep DEF Next, Activity

LEMMA Invariance == Spec => []IInv
BY Initially, Inductive, PTL DEF Spec

-----------------------------------------------------------------------------
(* The variables of the activity, the workflow and the worker keep their   *)
(* types.                                                                  *)
THEOREM TypesHold == Spec => []TypeOK
<1>1. IInv => TypeOK
  BY DEF IInv
<1> QED BY <1>1, Invariance, PTL

(* Two calls run together only when the client of the earlier one was cut  *)
(* off or passed its deadline.                                             *)
THEOREM OverlapHolds == Spec => []OverlapOnlyAfterLoss
<1>1. IInv => OverlapOnlyAfterLoss
  <2> SUFFICES ASSUME IInv, NEW c \in Calls, NEW d \in Calls, Before(c, d),
                      phase[c] = "open", phase[d] # "idle"
               PROVE  c \in cut \/ c[1] \in expired
    BY DEF OverlapOnlyAfterLoss
  <2>1. /\ c[1] \in Attempts /\ c[1] \in Nat
        /\ d[1] \in Attempts /\ d[1] \in Nat /\ attempt \in Nat
    BY CallsOfAttempts, AttemptNumbers, Parts DEF TypeOK
  <2>2. act[d[1]] # "idle"
    BY Parts DEF ServedWasScheduled
  <2>3. CASE c[1] < d[1]
    <3>1. c[1] < attempt
      BY <2>1, <2>2, <2>3, Parts DEF InTurn
    <3>2. act[c[1]] = "returned"
      BY <2>1, <3>1, Parts DEF InTurn
    <3> QED BY <3>2, Parts DEF OpenIsAwaited, Left, Waits
  <2>4. CASE c[1] = d[1] /\ c = Primary(c[1]) /\ d = Fallback(c[1])
    <3>1. act[c[1]] # "primary"
      BY <2>1, <2>4, Parts DEF FallbackComesLater
    <3>2. ~Waits(c[1], c)
      BY <2>4, <3>1 DEF Waits, Primary, Fallback
    <3> QED BY <3>2, Parts DEF OpenIsAwaited, Left
  <2> QED BY <2>3, <2>4 DEF Before
<1> QED BY <1>1, Invariance, PTL

(* No call is cancelled but by a user, beyond a deadline, or because its   *)
(* own connection was cut.                                                 *)
THEOREM CancelsHaveACause == Spec => []CancelHasACause
<1>1. IInv => CancelHasACause
  BY DEF IInv
<1> QED BY <1>1, Invariance, PTL

(* A workflow that succeeds has its result from a call that the user's     *)
(* Cancel did not reach.                                                   *)
THEOREM SuccessHolds == Spec => []SuccessIsAnotherCall
<1>1. IInv => SuccessIsAnotherCall
  <2> SUFFICES ASSUME IInv, wf = "ok"
               PROVE  \E c \in Calls :
                          c[1] = attempt /\ answer[c] = "OK" /\ c # hit /\ c \notin cut
    BY DEF SuccessIsAnotherCall
  <2>1. attempt \in Attempts /\ outcome[attempt] = "ok"
    BY Parts, AttemptNumbers DEF WonByAttempt, TypeOK
  <2>2. PICK c \in Calls : c[1] = attempt /\ answer[c] = "OK" /\ c \notin cut
    BY <2>1, Parts DEF OkWasAnswered
  <2>3. c # hit
    BY <2>2, Parts, NoCallAssumption DEF HitNeverSucceeds
  <2> QED BY <2>2, <2>3
<1> QED BY <1>1, Invariance, PTL
=============================================================================
