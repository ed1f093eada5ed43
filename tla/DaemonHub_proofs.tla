-------------------------- MODULE DaemonHub_proofs --------------------------
(***************************************************************************)
(* Proofs about DaemonHub, for any connections and messages: a granted     *)
(* message is backed by its claim, its workflow is signalled at most once, *)
(* and nothing points at a connection that is gone.                        *)
(*                                                                         *)
(* The commands of the connections interleave, a loop writes or deletes a  *)
(* claim some steps after it has read it, and progress and replies may be  *)
(* for the claim of another.  While a claim is its own a loop that closes  *)
(* deletes it and nothing else does, until it runs out of its TTL, a reply *)
(* reads it, or an update writes the claim of a connection before it; no   *)
(* step but such an update gives a claim to a connection other than the    *)
(* one that claims.  The metadata of a dispatch is one token that goes     *)
(* from the hub to a loop, from there into the claim, and out of it to the *)
(* loop that signals; between the read and the delete of a reply it is in  *)
(* two places, which is what a second reply can see.                       *)
(***************************************************************************)
EXTENDS DaemonHub, TLAPS

Handlers == [op : Ops, msg : Messages \cup {None}, todo : SUBSET Messages,
             meta : [conn : Conns \cup {None}, wf : Workflows]]

(* Messages whose claim may be gone from the one it was granted to.        *)
Excused == lapsed \cup replied \cup revived

Mine(c, m) == m \notin Excused => claims[m].conn = c

(* What the loop of c is doing, and to which claim.                        *)
Loop(c) ==
    LET h == handler[c]
    IN /\ h.op \notin {"idle", "scan"} => h.msg \in Messages
       /\ h.op \in {"claim", "stick", "ttl", "set", "release", "route"} => life[c] = "open"
       /\ h.op \in {"scan", "delete"} <=> life[c] = "closing"
       /\ h.op = "claim" => h.meta.conn = c
       /\ h.op \in {"stick", "delete"} => Mine(c, h.msg)
       /\ h.op \in {"ttl", "set"} => h.meta.wf = "daemon"
       /\ h.op = "release" => h.msg \in replied

(* What the daemon behind c was granted.                                   *)
Granted(c) ==
    \A m \in Messages :
        /\ life[c] = "new" => view[c][m] = "none"
        /\ life[c] = "open" /\ view[c][m] = "granted" => Mine(c, m)

(* What is left of the claims of c once it closes.                         *)
Closes(c) ==
    \A m \in Messages : m \notin revived /\ claims[m].conn = c =>
        /\ life[c] = "closing" =>
               m \in handler[c].todo \/ (handler[c].op = "delete" /\ handler[c].msg = m)
        /\ life[c] # "closed"

Sound(c) == Loop(c) /\ Granted(c) /\ Closes(c)

(* The metadata of m is in one place: with the hub, in the hands of one    *)
(* loop, in the claim, or in the signal; a reply that has read the claim   *)
(* and not deleted it yet shares it with the claim.                        *)
WithHub(m) == m \notin dispatched \/ m \in pending

Carries(c, m) ==
    /\ handler[c].msg = m
    /\ \/ handler[c].op = "route"
       \/ handler[c].op \in {"claim", "release"} /\ handler[c].meta.wf = "workflow"

InClaim(m) == claims[m].wf = "workflow"

Routed(m) ==
    m \notin raced =>
        /\ signals[m] <= 1
        /\ WithHub(m) => signals[m] = 0 /\ ~InClaim(m) /\ \A c \in Conns : ~Carries(c, m)
        /\ \A c \in Conns : Carries(c, m) =>
               /\ signals[m] = 0
               /\ InClaim(m) => handler[c].op = "release"
               /\ \A d \in Conns : Carries(d, m) => d = c
        /\ InClaim(m) => signals[m] = 0

IInv ==
    /\ TypeOK
    /\ sticky \in conns \cup {None}
    /\ \A c \in Conns : Sound(c)
    /\ \A m \in Messages : Routed(m)

-----------------------------------------------------------------------------
(* Records, loops and views                                                *)

LEMMA ClaimFields ==
    ASSUME NEW c \in Conns \cup {None}, NEW wf \in Workflows
    PROVE  /\ Claim(c, wf) \in [conn : Conns \cup {None}, wf : Workflows]
           /\ Claim(c, wf).conn = c /\ Claim(c, wf).wf = wf
BY DEF Claim

LEMMA NoClaimFields ==
    /\ NoClaim \in [conn : Conns \cup {None}, wf : Workflows]
    /\ NoClaim.conn = None /\ NoClaim.wf = "none"
    /\ \A c \in Conns : NoClaim.conn # c
BY NoneAssumption DEF NoClaim, Claim, Workflows

LEMMA DoingFields ==
    ASSUME NEW op \in Ops, NEW m \in Messages \cup {None},
           NEW meta \in [conn : Conns \cup {None}, wf : Workflows]
    PROVE  /\ Doing(op, m, meta) \in Handlers
           /\ Doing(op, m, meta).op = op /\ Doing(op, m, meta).msg = m
           /\ Doing(op, m, meta).meta = meta /\ Doing(op, m, meta).todo = {}
BY DEF Doing, Handlers

LEMMA IdleFields == Idle \in Handlers /\ Idle.op = "idle" /\ Idle.todo = {}
BY DoingFields, NoClaimFields DEF Idle, Ops

LEMMA GoOn ==
    ASSUME NEW h \in Handlers, NEW op \in Ops
    PROVE  /\ [h EXCEPT !.op = op] \in Handlers
           /\ [h EXCEPT !.op = op].op = op
           /\ [h EXCEPT !.op = op].msg = h.msg
           /\ [h EXCEPT !.op = op].meta = h.meta
           /\ [h EXCEPT !.op = op].todo = h.todo
BY DEF Handlers

LEMMA LoopMoves ==
    ASSUME TypeOK, NEW c \in Conns, NEW step \in Handlers, Do(c, step)
    PROVE  /\ handler' \in [Conns -> Handlers]
           /\ handler'[c] = step
           /\ \A d \in Conns \ {c} : handler'[d] = handler[d]
BY DEF TypeOK, Do, Handlers

LEMMA ViewMoves ==
    ASSUME TypeOK, NEW c \in Conns, NEW m \in Messages,
           NEW v \in {"none", "offered", "granted", "denied", "answered"}, Becomes(c, m, v)
    PROVE  /\ view' \in [Conns -> [Messages ->
                            {"none", "offered", "granted", "denied", "answered"}]]
           /\ view'[c][m] = v
           /\ \A n \in Messages \ {m} : view'[c][n] = view[c][n]
           /\ \A d \in Conns \ {c} : view'[d] = view[d]
BY DEF TypeOK, Becomes

LEMMA Types ==
    ASSUME TypeOK
    PROVE  /\ handler \in [Conns -> Handlers]
           /\ \A c \in Conns : handler[c] \in Handlers
           /\ \A m \in Messages : claims[m] \in [conn : Conns \cup {None}, wf : Workflows]
           /\ \A m \in Messages : signals[m] \in Nat
BY DEF TypeOK, Handlers

-----------------------------------------------------------------------------
(* What a step leaves alone                                                *)

LEMMA Whole ==
    ASSUME TypeOK', (sticky \in conns \cup {None})', NEW c \in Conns, Sound(c)',
           \A d \in Conns \ {c} : Sound(d)', \A m \in Messages : Routed(m)'
    PROVE  IInv'
BY DEF IInv

(* The loop of d is not disturbed by a step that takes no claim of d away  *)
(* and gives it none, but for those that are excused.                      *)
LEMMA Undisturbed ==
    ASSUME NEW d \in Conns, Sound(d), handler'[d] = handler[d], life'[d] = life[d],
           view'[d] = view[d],
           Excused \subseteq Excused', replied \subseteq replied', revived \subseteq revived',
           \A m \in Messages : m \notin Excused' /\ claims[m].conn = d => claims'[m].conn = d,
           \A m \in Messages : m \notin revived' /\ claims'[m].conn = d => claims[m].conn = d,
           handler[d].op \notin {"idle", "scan"} => handler[d].msg \in Messages
    PROVE  Sound(d)'
<1>1. ASSUME NEW m \in Messages, Mine(d, m)
      PROVE  Mine(d, m)'
  BY <1>1 DEF Mine
<1>2. Loop(d)'
  <2>1. handler[d].op \in {"stick", "delete"} => Mine(d, handler[d].msg)'
    BY <1>1 DEF Sound, Loop
  <2> QED BY <2>1 DEF Sound, Loop
<1>3. Granted(d)'
  BY <1>1 DEF Sound, Granted
<1>4. Closes(d)'
  BY DEF Sound, Closes
<1> QED BY <1>2, <1>3, <1>4 DEF Sound

(* A step of the loop of c that writes the claim of m disturbs no other if *)
(* it takes it from no other and gives it to no other, or is excused.      *)
LEMMA OwnClaim ==
    ASSUME IInv, NEW c \in Conns, NEW m \in Messages,
           NEW x \in [conn : Conns \cup {None}, wf : Workflows],
           claims' = [claims EXCEPT ![m] = x],
           m \notin Excused' => claims[m].conn \in {x.conn, c, None},
           m \notin revived' => x.conn \in {claims[m].conn, c, None},
           Excused \subseteq Excused', replied \subseteq replied', revived \subseteq revived',
           \A d \in Conns \ {c} :
               handler'[d] = handler[d] /\ life'[d] = life[d] /\ view'[d] = view[d]
    PROVE  /\ claims' \in [Messages -> [conn : Conns \cup {None}, wf : Workflows]]
           /\ claims'[m] = x
           /\ \A n \in Messages \ {m} : claims'[n] = claims[n]
           /\ \A d \in Conns \ {c} : Sound(d)'
<1>1. /\ claims' \in [Messages -> [conn : Conns \cup {None}, wf : Workflows]]
      /\ claims'[m] = x
      /\ \A n \in Messages \ {m} : claims'[n] = claims[n]
  BY DEF IInv, TypeOK
<1>2. ASSUME NEW d \in Conns \ {c}
      PROVE  Sound(d)'
  <2>1. Sound(d) /\ (handler[d].op \notin {"idle", "scan"} => handler[d].msg \in Messages)
    BY DEF IInv, Sound, Loop
  <2>2. \A n \in Messages : n \notin Excused' /\ claims[n].conn = d => claims'[n].conn = d
    BY <1>1, NoneAssumption
  <2>3. \A n \in Messages : n \notin revived' /\ claims'[n].conn = d => claims[n].conn = d
    BY <1>1, NoneAssumption
  <2> QED BY <2>1, <2>2, <2>3, Undisturbed
<1> QED BY <1>1, <1>2

LEMMA NoClaimWritten ==
    ASSUME IInv, NEW c \in Conns, UNCHANGED claims,
           Excused \subseteq Excused', replied \subseteq replied', revived \subseteq revived',
           \A d \in Conns \ {c} :
               handler'[d] = handler[d] /\ life'[d] = life[d] /\ view'[d] = view[d]
    PROVE  \A d \in Conns \ {c} : Sound(d)'
<1> SUFFICES ASSUME NEW d \in Conns \ {c}
             PROVE  Sound(d)'
  OBVIOUS
<1>1. Sound(d) /\ (handler[d].op \notin {"idle", "scan"} => handler[d].msg \in Messages)
  BY DEF IInv, Sound, Loop
<1> QED BY <1>1, Undisturbed

(* Nothing happens to a claim that its owner would be excused for.         *)
LEMMA NoExcuse ==
    ASSUME UNCHANGED <<lapsed, replied, revived>>
    PROVE  /\ Excused' = Excused
           /\ Excused \subseteq Excused' /\ replied \subseteq replied' /\ revived \subseteq revived'
BY DEF Excused

(* The metadata of m stays where it is, or is lost on the way.             *)
LEMMA RouteKept ==
    ASSUME IInv, NEW m \in Messages, raced \subseteq raced', signals'[m] = signals[m],
           WithHub(m)' => WithHub(m), InClaim(m)' => InClaim(m),
           \A c \in Conns : Carries(c, m)' => Carries(c, m),
           \A c \in Conns : Carries(c, m)' /\ InClaim(m)' => handler'[c].op = handler[c].op
    PROVE  Routed(m)'
BY DEF IInv, Routed

-----------------------------------------------------------------------------
(* Connections and dispatch                                                *)

LEMMA RegisterStep ==
    ASSUME IInv, NEW c \in Conns, Register(c)
    PROVE  IInv'
<1>1. /\ life[c] = "new" /\ life' = [life EXCEPT ![c] = "open"] /\ conns' = conns \cup {c}
      /\ UNCHANGED <<sticky, pending, targets, dispatched, claims, handler, view>>
      /\ UNCHANGED <<signals, lapsed, forgotten, replied, raced, revived>>
  BY DEF Register, dispatch, history
<1>2. life'[c] = "open" /\ \A d \in Conns \ {c} : life'[d] = life[d]
  BY <1>1 DEF IInv, TypeOK
<1>3. TypeOK'
  <2>1. life' \in [Conns -> {"new", "open", "closing", "closed"}]
    BY <1>1 DEF IInv, TypeOK
  <2>2. conns' = {d \in Conns : life'[d] = "open"}
    BY <1>1, <1>2 DEF IInv, TypeOK
  <2> QED BY <1>1, <2>1, <2>2 DEF IInv, TypeOK
<1>4. Sound(c)'
  <2>1. Sound(c)
    BY DEF IInv
  <2>2. Loop(c)'
    BY <1>1, <1>2, <2>1 DEF Sound, Loop, Mine
  <2>3. Granted(c)'
    BY <1>1, <1>2, <2>1 DEF Sound, Granted, Mine
  <2>4. Closes(c)'
    BY <1>1, <1>2, <2>1 DEF Sound, Closes
  <2> QED BY <2>2, <2>3, <2>4 DEF Sound
<1>5. \A d \in Conns \ {c} : Sound(d)'
  BY <1>1, <1>2, NoExcuse, NoClaimWritten
<1>6. \A m \in Messages : Routed(m)'
  BY <1>1, RouteKept DEF WithHub, InClaim, Carries
<1>7. (sticky \in conns \cup {None})'
  BY <1>1 DEF IInv
<1> QED BY <1>3, <1>4, <1>5, <1>6, <1>7, Whole

(* A step of the dispatch, or of time: no loop moves.                      *)
LEMMA LoopsRest ==
    ASSUME IInv, TypeOK', (sticky \in conns \cup {None})',
           UNCHANGED <<life, handler, claims, signals, lapsed, replied, raced, revived>>,
           \A c \in Conns, m \in Messages : view'[c][m] # view[c][m] =>
               view'[c][m] = "offered" /\ life[c] = "open",
           \A m \in Messages : WithHub(m)' => WithHub(m)
    PROVE  IInv'
<1>1. ASSUME NEW c \in Conns
      PROVE  Sound(c)'
  <2>1. Sound(c)
    BY DEF IInv
  <2>2. Loop(c)'
    BY <2>1, NoExcuse DEF Sound, Loop, Mine
  <2>3. Granted(c)'
    BY <2>1, NoExcuse DEF Sound, Granted, Mine
  <2>4. Closes(c)'
    BY <2>1 DEF Sound, Closes
  <2> QED BY <2>2, <2>3, <2>4 DEF Sound
<1>2. \A m \in Messages : Routed(m)'
  BY RouteKept DEF InClaim, Carries
<1> QED BY <1>1, <1>2 DEF IInv

LEMMA DispatchStep ==
    ASSUME IInv, NEW m \in Messages, Dispatch(m)
    PROVE  IInv'
<1>1. /\ m \notin dispatched /\ dispatched' = dispatched \cup {m}
      /\ sticky' \in {sticky, None}
      /\ \E T \in SUBSET Conns : targets' = [targets EXCEPT ![m] = T]
      /\ pending' \in {pending, pending \cup {m}}
      /\ UNCHANGED <<life, conns, claims, handler, view, signals>>
      /\ UNCHANGED <<lapsed, forgotten, replied, raced, revived>>
  BY DEF IInv, TypeOK, Dispatch, history
<1>2. TypeOK'
  <2>1. targets' \in [Messages -> SUBSET Conns]
    BY <1>1 DEF IInv, TypeOK
  <2> QED BY <1>1, <2>1 DEF IInv, TypeOK
<1>3. (sticky \in conns \cup {None})'
  BY <1>1 DEF IInv
<1>4. \A n \in Messages : WithHub(n)' => WithHub(n)
  BY <1>1 DEF WithHub
<1> QED BY <1>1, <1>2, <1>3, <1>4, LoopsRest

LEMMA SendStep ==
    ASSUME IInv, NEW c \in Conns, NEW m \in Messages, Send(c, m)
    PROVE  IInv'
<1>1. /\ targets' = [targets EXCEPT ![m] = @ \ {c}]
      /\ (life[c] = "open" /\ Becomes(c, m, "offered")) \/ UNCHANGED view
      /\ UNCHANGED <<life, conns, sticky, pending, dispatched, claims, handler, signals>>
      /\ UNCHANGED <<lapsed, forgotten, replied, raced, revived>>
  BY DEF Send, hub, history
<1>2. /\ view' \in [Conns -> [Messages ->
                       {"none", "offered", "granted", "denied", "answered"}]]
      /\ \A d \in Conns, n \in Messages : view'[d][n] # view[d][n] =>
             view'[d][n] = "offered" /\ life[d] = "open"
  BY <1>1, ViewMoves DEF IInv, TypeOK
<1>3. TypeOK'
  <2>1. targets' \in [Messages -> SUBSET Conns]
    BY <1>1 DEF IInv, TypeOK
  <2> QED BY <1>1, <1>2, <2>1 DEF IInv, TypeOK
<1>4. (sticky \in conns \cup {None})' /\ \A n \in Messages : WithHub(n)' => WithHub(n)
  BY <1>1 DEF IInv, WithHub
<1> QED BY <1>1, <1>2, <1>3, <1>4, LoopsRest

LEMMA PendingExpiresStep ==
    ASSUME IInv, NEW m \in Messages, PendingExpires(m)
    PROVE  IInv'
<1>1. /\ pending' = pending \ {m} /\ forgotten' = forgotten \cup {m}
      /\ UNCHANGED <<life, conns, sticky, targets, dispatched, claims, handler, view>>
      /\ UNCHANGED <<signals, lapsed, replied, raced, revived>>
  BY DEF PendingExpires, hub
<1>2. TypeOK'
  BY <1>1 DEF IInv, TypeOK
<1>3. (sticky \in conns \cup {None})' /\ \A n \in Messages : WithHub(n)' => WithHub(n)
  BY <1>1 DEF IInv, WithHub
<1> QED BY <1>1, <1>2, <1>3, LoopsRest

-----------------------------------------------------------------------------
(* Claim and progress                                                      *)

LEMMA HandleClaimStep ==
    ASSUME IInv, NEW c \in Conns, NEW m \in Messages, HandleClaim(c, m)
    PROVE  IInv'
<1> DEFINE meta == Claim(c, IF m \in pending THEN "workflow" ELSE "none")
<1> DEFINE step == Doing("claim", m, meta)
<1>1. /\ life[c] = "open" /\ handler[c] = Idle
      /\ Do(c, step) /\ pending' = pending \ {m}
      /\ UNCHANGED <<life, conns, sticky, targets, dispatched, claims, view, signals>>
      /\ UNCHANGED <<lapsed, forgotten, replied, raced, revived>>
  BY DEF HandleClaim, Ready, Consume, hub, history
<1>2. /\ meta \in [conn : Conns \cup {None}, wf : Workflows] /\ meta.conn = c
      /\ meta.wf = "workflow" <=> m \in pending
  BY ClaimFields DEF Workflows
<1>3. /\ step \in Handlers /\ step.op = "claim" /\ step.msg = m /\ step.meta = meta
  BY <1>2, DoingFields DEF Ops
<1> HIDE DEF meta, step
<1>4. /\ handler' \in [Conns -> Handlers] /\ handler'[c] = step
      /\ \A d \in Conns \ {c} : handler'[d] = handler[d]
  BY <1>1, <1>3, LoopMoves DEF IInv
<1>5. TypeOK'
  BY <1>1, <1>4 DEF IInv, TypeOK, Handlers
<1>6. Sound(c)'
  <2>1. Sound(c)
    BY DEF IInv
  <2>2. Loop(c)'
    BY <1>1, <1>2, <1>3, <1>4 DEF Loop
  <2>3. Granted(c)'
    BY <1>1, <2>1, NoExcuse DEF Sound, Granted, Mine
  <2>4. Closes(c)'
    BY <1>1, <2>1 DEF Sound, Closes
  <2> QED BY <2>2, <2>3, <2>4 DEF Sound
<1>7. \A d \in Conns \ {c} : Sound(d)'
  BY <1>1, <1>4, NoExcuse, NoClaimWritten
<1>8. ASSUME NEW n \in Messages
      PROVE  Routed(n)'
  <2>1. \A d \in Conns \ {c} : (Carries(d, n)' <=> Carries(d, n)) /\ handler'[d].op = handler[d].op
    BY <1>4 DEF Carries
  <2>2. Carries(c, n)' <=> n = m /\ m \in pending
    BY <1>2, <1>3, <1>4 DEF Carries
  <2>3. (InClaim(n)' <=> InClaim(n)) /\ (WithHub(n)' => WithHub(n))
    BY <1>1 DEF InClaim, WithHub
  <2>4. CASE n = m /\ m \in pending
    <3>1. WithHub(n) /\ ~WithHub(n)'
      BY <1>1, <2>4 DEF IInv, TypeOK, WithHub
    <3> QED BY <1>1, <2>1, <2>2, <2>3, <2>4, <3>1 DEF IInv, Routed
  <2>5. CASE ~(n = m /\ m \in pending)
    BY <1>1, <2>1, <2>2, <2>3, <2>5, RouteKept
  <2> QED BY <2>4, <2>5
<1>9. (sticky \in conns \cup {None})'
  BY <1>1 DEF IInv
<1> QED BY <1>5, <1>6, <1>7, <1>8, <1>9, Whole

LEMMA TryClaimStep ==
    ASSUME IInv, NEW c \in Conns, TryClaim(c)
    PROVE  IInv'
<1> DEFINE m == handler[c].msg
<1> DEFINE meta == handler[c].meta
<1>1. /\ handler[c].op = "claim"
      /\ UNCHANGED <<life, conns, sticky, pending, targets, dispatched, signals>>
      /\ UNCHANGED <<lapsed, forgotten, replied, raced, revived>>
  BY DEF TryClaim, hub, dispatch, history
<1>2. /\ m \in Messages /\ life[c] = "open" /\ meta.conn = c
      /\ meta \in [conn : Conns \cup {None}, wf : Workflows]
      /\ handler[c] \in Handlers /\ Sound(c)
  BY <1>1, Types DEF IInv, Sound, Loop, Handlers
<1>3. ASSUME NEW v \in {"granted", "denied"}, NEW step \in Handlers, Do(c, step),
             \/ /\ claims[m] = NoClaim /\ claims' = [claims EXCEPT ![m] = meta]
                /\ IF meta.wf = "workflow"
                   THEN step.op = "stick" /\ step.msg = m /\ UNCHANGED view
                   ELSE step.op = "idle" /\ Becomes(c, m, "granted")
             \/ UNCHANGED claims /\ step.op = "idle" /\ Becomes(c, m, "denied")
      PROVE  IInv'
  <2>1. /\ handler' \in [Conns -> Handlers] /\ handler'[c] = step
        /\ \A d \in Conns \ {c} : handler'[d] = handler[d]
    BY <1>3, LoopMoves DEF IInv
  <2>2. /\ view' \in [Conns -> [Messages ->
                         {"none", "offered", "granted", "denied", "answered"}]]
        /\ \A n \in Messages : view'[c][n] # view[c][n] =>
               n = m /\ (view'[c][n] = "denied" \/ (view'[c][n] = "granted" /\ claims'[m] = meta))
        /\ \A d \in Conns \ {c} : view'[d] = view[d]
    <3>1. CASE UNCHANGED view
      BY <3>1 DEF IInv, TypeOK
    <3>2. CASE Becomes(c, m, "granted") /\ claims' = [claims EXCEPT ![m] = meta]
      BY <1>2, <3>2, ViewMoves DEF IInv, TypeOK
    <3>3. CASE Becomes(c, m, "denied")
      BY <1>2, <3>3, ViewMoves DEF IInv
    <3> QED BY <1>3, <3>1, <3>2, <3>3
  <2>3. /\ claims' \in [Messages -> [conn : Conns \cup {None}, wf : Workflows]]
        /\ \A n \in Messages : claims'[n] # claims[n] =>
               /\ n = m /\ claims[m] = NoClaim /\ claims'[m] = meta
               /\ step.op = IF meta.wf = "workflow" THEN "stick" ELSE "idle"
    <3>1. claims \in [Messages -> [conn : Conns \cup {None}, wf : Workflows]]
      BY DEF IInv, TypeOK
    <3>2. CASE UNCHANGED claims
      BY <3>1, <3>2
    <3>3. CASE /\ claims[m] = NoClaim /\ claims' = [claims EXCEPT ![m] = meta]
               /\ step.op = IF meta.wf = "workflow" THEN "stick" ELSE "idle"
      BY <1>2, <3>1, <3>3
    <3> QED BY <1>3, <3>2, <3>3
  <2>4. \A d \in Conns \ {c} : Sound(d)'
    <3>1. CASE UNCHANGED claims
      BY <1>1, <2>1, <2>2, <3>1, NoExcuse, NoClaimWritten
    <3>2. CASE claims[m] = NoClaim /\ claims' = [claims EXCEPT ![m] = meta]
      BY <1>1, <1>2, <2>1, <2>2, <3>2, NoExcuse, OwnClaim, NoClaimFields
    <3> QED BY <1>3, <3>1, <3>2
  <2>5. TypeOK'
    BY <1>1, <2>1, <2>2, <2>3 DEF IInv, TypeOK, Handlers
  <2>6. step.op = "stick" => step.msg = m /\ claims'[m] = meta
    BY <1>2, <1>3 DEF IInv, TypeOK
  <2>7. Sound(c)'
    <3>1. \A n \in Messages : Mine(c, n) => Mine(c, n)'
      BY <1>1, <1>2, <2>3, NoExcuse DEF Mine
    <3>2. step.op \in {"idle", "stick"}
      BY <1>3
    <3>3. Loop(c)'
      BY <1>1, <1>2, <2>1, <2>6, <3>2 DEF Loop, Mine
    <3>4. Granted(c)'
      BY <1>1, <1>2, <2>2, <3>1 DEF Sound, Granted, Mine
    <3>5. Closes(c)'
      BY <1>1, <1>2 DEF Closes
    <3> QED BY <3>3, <3>4, <3>5 DEF Sound
  <2>8. ASSUME NEW n \in Messages
        PROVE  Routed(n)'
    <3>1. \A d \in Conns \ {c} : (Carries(d, n)' <=> Carries(d, n)) /\
                                 handler'[d].op = handler[d].op
      BY <2>1 DEF Carries
    <3>2. ~Carries(c, n)' /\ (WithHub(n)' <=> WithHub(n))
      BY <1>1, <1>3, <2>1 DEF Carries, WithHub
    <3>3. CASE claims'[n] = claims[n] \/ meta.wf # "workflow"
      <4>1. InClaim(n)' => InClaim(n)
        BY <2>3, <3>3 DEF InClaim
      <4> QED BY <1>1, <3>1, <3>2, <4>1, RouteKept
    <3>4. CASE claims'[n] # claims[n] /\ meta.wf = "workflow"
      <4>1. Carries(c, n)
        BY <1>1, <2>3, <3>4 DEF Carries
      <4> QED BY <1>1, <3>1, <3>2, <4>1 DEF IInv, Routed
    <3> QED BY <3>3, <3>4
  <2>9. (sticky \in conns \cup {None})'
    BY <1>1 DEF IInv
  <2> QED BY <2>4, <2>5, <2>7, <2>8, <2>9, Whole
<1>4. CASE /\ claims[m] = NoClaim /\ claims' = [claims EXCEPT ![m] = meta]
           /\ meta.wf = "workflow" /\ Do(c, [handler[c] EXCEPT !.op = "stick"]) /\ UNCHANGED view
  <2>1. /\ [handler[c] EXCEPT !.op = "stick"] \in Handlers
        /\ [handler[c] EXCEPT !.op = "stick"].op = "stick"
        /\ [handler[c] EXCEPT !.op = "stick"].msg = m
    BY <1>2, GoOn DEF Ops
  <2> QED BY <1>3, <1>4, <2>1
<1>5. CASE /\ claims[m] = NoClaim /\ claims' = [claims EXCEPT ![m] = meta]
           /\ meta.wf # "workflow" /\ Do(c, Idle) /\ Becomes(c, m, "granted")
  BY <1>3, <1>5, IdleFields
<1>6. CASE Do(c, Idle) /\ Becomes(c, m, "denied") /\ UNCHANGED claims
  BY <1>3, <1>6, IdleFields
<1> QED BY <1>4, <1>5, <1>6 DEF TryClaim, Free

LEMMA SetStickyStep ==
    ASSUME IInv, NEW c \in Conns, SetSticky(c)
    PROVE  IInv'
<1> DEFINE m == handler[c].msg
<1>1. /\ handler[c].op = "stick" /\ sticky' = c /\ Do(c, Idle) /\ Becomes(c, m, "granted")
      /\ UNCHANGED <<life, conns, pending, targets, dispatched, claims, signals>>
      /\ UNCHANGED <<lapsed, forgotten, replied, raced, revived>>
  BY DEF SetSticky, dispatch, history
<1>2. m \in Messages /\ life[c] = "open" /\ Mine(c, m) /\ Sound(c)
  BY <1>1 DEF IInv, Sound, Loop
<1>3. /\ handler' \in [Conns -> Handlers] /\ handler'[c] = Idle
      /\ \A d \in Conns \ {c} : handler'[d] = handler[d]
  BY <1>1, IdleFields, LoopMoves DEF IInv
<1>4. /\ view' \in [Conns -> [Messages ->
                       {"none", "offered", "granted", "denied", "answered"}]]
      /\ \A n \in Messages \ {m} : view'[c][n] = view[c][n]
      /\ \A d \in Conns \ {c} : view'[d] = view[d]
  BY <1>1, <1>2, ViewMoves DEF IInv
<1>5. TypeOK'
  BY <1>1, <1>3, <1>4 DEF IInv, TypeOK, Handlers
<1>6. Sound(c)'
  <2>1. Loop(c)'
    BY <1>1, <1>2, <1>3, IdleFields DEF Loop
  <2>2. Granted(c)'
    BY <1>1, <1>2, <1>4, NoExcuse DEF Sound, Granted, Mine
  <2>3. Closes(c)'
    BY <1>1, <1>2 DEF Closes
  <2> QED BY <2>1, <2>2, <2>3 DEF Sound
<1>7. \A d \in Conns \ {c} : Sound(d)'
  BY <1>1, <1>3, <1>4, NoExcuse, NoClaimWritten
<1>8. \A n \in Messages : Routed(n)'
  <2>1. \A d \in Conns, n \in Messages : Carries(d, n)' =>
            Carries(d, n) /\ handler'[d].op = handler[d].op
    BY <1>3, IdleFields DEF Carries
  <2> QED BY <1>1, <2>1, RouteKept DEF WithHub, InClaim
<1>9. (sticky \in conns \cup {None})'
  BY <1>1, <1>2 DEF IInv, TypeOK
<1> QED BY <1>5, <1>6, <1>7, <1>8, <1>9, Whole

(* A step of the loop of c that only reads: which step comes next.         *)
LEMMA LoopReads ==
    ASSUME IInv, NEW c \in Conns, NEW step \in Handlers, Do(c, step),
           UNCHANGED <<life, conns, sticky, pending, targets, dispatched, claims, view>>,
           UNCHANGED <<signals, lapsed, forgotten, replied, raced, revived>>, Loop(c)', Closes(c)',
           step.op \in {"idle", "ttl", "set", "scan", "delete"}
    PROVE  IInv'
<1>1. /\ handler' \in [Conns -> Handlers] /\ handler'[c] = step
      /\ \A d \in Conns \ {c} : handler'[d] = handler[d]
  BY LoopMoves DEF IInv
<1>2. TypeOK'
  BY <1>1 DEF IInv, TypeOK, Handlers
<1>3. Sound(c)'
  BY NoExcuse DEF IInv, Sound, Granted, Mine
<1>4. \A d \in Conns \ {c} : Sound(d)'
  BY <1>1, NoExcuse, NoClaimWritten
<1>5. \A n \in Messages : Routed(n)'
  <2>1. \A d \in Conns, n \in Messages : Carries(d, n)' =>
            Carries(d, n) /\ handler'[d].op = handler[d].op
    BY <1>1 DEF Carries
  <2> QED BY <2>1, RouteKept DEF WithHub, InClaim
<1>6. (sticky \in conns \cup {None})'
  BY DEF IInv
<1> QED BY <1>2, <1>3, <1>4, <1>5, <1>6, Whole

LEMMA HandleProgressStep ==
    ASSUME IInv, NEW c \in Conns, NEW m \in Messages, HandleProgress(c, m)
    PROVE  IInv'
<1> DEFINE meta == [claims[m] EXCEPT !.wf = "daemon"]
<1> DEFINE step == Doing("ttl", m, meta)
<1>1. /\ life[c] = "open" /\ handler[c] = Idle /\ Do(c, step)
      /\ UNCHANGED <<life, conns, sticky, pending, targets, dispatched, claims, view>>
      /\ UNCHANGED <<signals, lapsed, forgotten, replied, raced, revived>>
  BY DEF HandleProgress, Ready, hub, dispatch, history
<1>2. /\ meta \in [conn : Conns \cup {None}, wf : Workflows]
      /\ meta.conn = claims[m].conn /\ meta.wf = "daemon"
  BY Types DEF IInv, Workflows
<1>3. step \in Handlers /\ step.op = "ttl" /\ step.msg = m /\ step.meta = meta
  BY <1>2, DoingFields DEF Ops
<1> HIDE DEF meta, step
<1>4. handler'[c] = step
  BY <1>1, <1>3, LoopMoves DEF IInv
<1>5. Loop(c)'
  BY <1>1, <1>2, <1>3, <1>4 DEF Loop
<1>6. Closes(c)'
  BY <1>1 DEF IInv, Sound, Closes
<1> QED BY <1>1, <1>3, <1>5, <1>6, LoopReads

LEMMA ReadTTLStep ==
    ASSUME IInv, NEW c \in Conns, ReadTTL(c)
    PROVE  IInv'
<1>1. /\ handler[c].op = "ttl"
      /\ Do(c, Idle) \/ Do(c, [handler[c] EXCEPT !.op = "set"])
      /\ UNCHANGED <<life, conns, sticky, pending, targets, dispatched, claims, view>>
      /\ UNCHANGED <<signals, lapsed, forgotten, replied, raced, revived>>
  BY DEF ReadTTL, hub, dispatch, history
<1>2. Sound(c) /\ life[c] = "open" /\ handler[c] \in Handlers
  BY <1>1, Types DEF IInv, Sound, Loop
<1>3. Closes(c)'
  BY <1>1, <1>2 DEF Closes
<1>4. CASE Do(c, Idle)
  <2>1. handler'[c] = Idle
    BY <1>4, IdleFields, LoopMoves DEF IInv
  <2>2. Loop(c)'
    BY <1>1, <1>2, <2>1, IdleFields DEF Loop
  <2> QED BY <1>1, <1>3, <1>4, <2>2, IdleFields, LoopReads
<1>5. CASE Do(c, [handler[c] EXCEPT !.op = "set"])
  <2> DEFINE step == [handler[c] EXCEPT !.op = "set"]
  <2>1. /\ step \in Handlers /\ step.op = "set" /\ step.msg = handler[c].msg
        /\ step.meta = handler[c].meta
    BY <1>2, GoOn DEF Ops
  <2>2. Do(c, step)
    BY <1>5
  <2> HIDE DEF step
  <2>3. handler'[c] = step
    BY <2>1, <2>2, LoopMoves DEF IInv
  <2>4. Loop(c)'
    BY <1>1, <1>2, <2>1, <2>3 DEF Sound, Loop, Mine
  <2> QED BY <1>1, <1>3, <2>1, <2>2, <2>4, LoopReads
<1> QED BY <1>1, <1>4, <1>5

(* The daemon's own metadata goes where a claim of the same connection is, *)
(* or the message is excused from then on.                                 *)
LEMMA UpdateClaimStep ==
    ASSUME IInv, NEW c \in Conns, UpdateClaim(c)
    PROVE  IInv'
<1> DEFINE m == handler[c].msg
<1> DEFINE meta == handler[c].meta
<1>1. /\ handler[c].op = "set" /\ claims' = [claims EXCEPT ![m] = meta] /\ Do(c, Idle)
      /\ revived' = IF claims[m].conn = meta.conn THEN revived ELSE revived \cup {m}
      /\ UNCHANGED <<life, conns, sticky, pending, targets, dispatched, view>>
      /\ UNCHANGED <<signals, lapsed, forgotten, replied, raced>>
  BY DEF UpdateClaim, hub, dispatch
<1>2. /\ m \in Messages /\ life[c] = "open" /\ Sound(c)
      /\ meta.wf = "daemon" /\ meta \in [conn : Conns \cup {None}, wf : Workflows]
  BY <1>1, Types DEF IInv, Sound, Loop, Handlers
<1>3. /\ handler' \in [Conns -> Handlers] /\ handler'[c] = Idle
      /\ \A d \in Conns \ {c} : handler'[d] = handler[d]
  BY <1>1, IdleFields, LoopMoves DEF IInv
<1>4. /\ Excused \subseteq Excused' /\ replied \subseteq replied' /\ revived \subseteq revived'
      /\ revived' \subseteq Excused'
  BY <1>1 DEF Excused
<1>5. /\ claims' \in [Messages -> [conn : Conns \cup {None}, wf : Workflows]]
      /\ claims'[m] = meta
      /\ \A n \in Messages \ {m} : claims'[n] = claims[n]
      /\ \A d \in Conns \ {c} : Sound(d)'
  <2>1. m \notin revived' => claims[m].conn = meta.conn
    BY <1>1
  <2> QED BY <1>1, <1>2, <1>3, <1>4, <2>1, OwnClaim
<1>6. TypeOK'
  BY <1>1, <1>2, <1>3, <1>5 DEF IInv, TypeOK, Handlers
<1>7. Sound(c)'
  <2>1. Loop(c)'
    BY <1>1, <1>2, <1>3, IdleFields DEF Loop
  <2>2. \A n \in Messages : Mine(c, n) => Mine(c, n)'
    BY <1>1, <1>4, <1>5 DEF Mine
  <2>3. Granted(c)'
    BY <1>1, <1>2, <2>2 DEF Sound, Granted
  <2>4. Closes(c)'
    BY <1>1, <1>2 DEF Closes
  <2> QED BY <2>1, <2>3, <2>4 DEF Sound
<1>8. \A n \in Messages : Routed(n)'
  <2>1. \A d \in Conns, n \in Messages : Carries(d, n)' =>
            Carries(d, n) /\ handler'[d].op = handler[d].op
    BY <1>3, IdleFields DEF Carries
  <2>2. \A n \in Messages : InClaim(n)' => InClaim(n)
    BY <1>2, <1>5 DEF InClaim
  <2> QED BY <1>1, <2>1, <2>2, RouteKept DEF WithHub
<1>9. (sticky \in conns \cup {None})'
  BY <1>1 DEF IInv
<1> QED BY <1>5, <1>6, <1>7, <1>8, <1>9, Whole

-----------------------------------------------------------------------------
(* Reply                                                                   *)

LEMMA HandleReplyStep ==
    ASSUME IInv, NEW c \in Conns, NEW m \in Messages, HandleReply(c, m)
    PROVE  IInv'
<1> DEFINE another == \E d \in Conns : Releasing(d, m)
<1>1. /\ life[c] = "open" /\ handler[c] = Idle /\ Becomes(c, m, "answered")
      /\ UNCHANGED <<life, conns, sticky, pending, targets, dispatched, claims>>
      /\ UNCHANGED <<signals, lapsed, forgotten, revived>>
  BY DEF HandleReply, Ready, hub, dispatch
<1>2. PICK step \in {Idle, Doing("release", m, claims[m])} :
        /\ Do(c, step)
        /\ \/ step = Idle /\ UNCHANGED <<replied, raced>>
           \/ /\ step = Doing("release", m, claims[m])
              /\ replied' = replied \cup {m}
              /\ raced' = IF another THEN raced \cup {m} ELSE raced
  <2>1. CASE claims[m] = NoClaim
    <3>1. Do(c, Idle)
      BY <1>1, <2>1 DEF IInv, TypeOK, HandleReply, Do
    <3> QED BY <2>1, <3>1 DEF HandleReply
  <2>2. CASE claims[m] # NoClaim
    BY <2>2 DEF HandleReply
  <2> QED BY <2>1, <2>2
<1>3. /\ step \in Handlers /\ step.op \in {"idle", "release"}
      /\ step.op = "release" => /\ step.msg = m /\ step.meta = claims[m] /\ m \in replied'
                                /\ raced' = IF another THEN raced \cup {m} ELSE raced
      /\ step.op = "idle" => UNCHANGED raced
  BY <1>2, Types, IdleFields, DoingFields DEF IInv, Ops
<1>4. /\ handler' \in [Conns -> Handlers] /\ handler'[c] = step
      /\ \A d \in Conns \ {c} : handler'[d] = handler[d]
  BY <1>2, <1>3, LoopMoves DEF IInv
<1>5. /\ view' \in [Conns -> [Messages ->
                       {"none", "offered", "granted", "denied", "answered"}]]
      /\ view'[c][m] = "answered"
      /\ \A n \in Messages \ {m} : view'[c][n] = view[c][n]
      /\ \A d \in Conns \ {c} : view'[d] = view[d]
  BY <1>1, ViewMoves DEF IInv
<1>6. /\ replied \subseteq replied' /\ revived \subseteq revived' /\ raced \subseteq raced'
      /\ Excused \subseteq Excused' /\ replied' \in SUBSET Messages /\ raced' \in SUBSET Messages
  BY <1>1, <1>2 DEF IInv, TypeOK, Excused
<1>7. TypeOK'
  BY <1>1, <1>4, <1>5, <1>6 DEF IInv, TypeOK, Handlers
<1>8. Sound(c)'
  <2>1. Sound(c)
    BY DEF IInv
  <2>2. Loop(c)'
    BY <1>1, <1>3, <1>4 DEF Loop
  <2>3. Granted(c)'
    BY <1>1, <1>5, <1>6, <2>1 DEF Sound, Granted, Mine
  <2>4. Closes(c)'
    BY <1>1 DEF Closes
  <2> QED BY <2>2, <2>3, <2>4 DEF Sound
<1>9. \A d \in Conns \ {c} : Sound(d)'
  BY <1>1, <1>4, <1>5, <1>6, NoClaimWritten
<1>10. ASSUME NEW n \in Messages
       PROVE  Routed(n)'
  <2>1. \A d \in Conns \ {c} : (Carries(d, n)' <=> Carries(d, n)) /\ handler'[d].op = handler[d].op
    BY <1>4 DEF Carries
  <2>2. (InClaim(n)' <=> InClaim(n)) /\ (WithHub(n)' <=> WithHub(n))
    BY <1>1 DEF InClaim, WithHub
  <2>3. ~Carries(c, n)
    BY <1>1, IdleFields DEF Carries
  <2>4. CASE step.op = "release" /\ n = m /\ InClaim(m) /\ n \notin raced'
    <3>1. ~another /\ handler'[c].op = "release"
      BY <1>3, <1>4, <2>4
    <3>2. \A d \in Conns : ~Carries(d, n)
      <4> SUFFICES ASSUME NEW d \in Conns, Carries(d, n)
                   PROVE  FALSE
        OBVIOUS
      <4>1. handler[d].op = "release" /\ handler[d].msg = m
        BY <1>6, <2>4 DEF IInv, Routed, Carries
      <4> QED BY <3>1, <4>1 DEF Releasing
    <3> HIDE DEF another
    <3> QED BY <1>1, <1>6, <2>1, <2>2, <2>4, <3>1, <3>2 DEF IInv, Routed
  <2>5. CASE ~(step.op = "release" /\ n = m /\ InClaim(m))
    <3>1. ~Carries(c, n)'
      BY <1>3, <1>4, <2>5 DEF Carries, InClaim
    <3> QED BY <1>1, <1>6, <2>1, <2>2, <3>1, RouteKept
  <2>6. CASE n \in raced'
    BY <2>6 DEF Routed
  <2> QED BY <2>4, <2>5, <2>6
<1>11. (sticky \in conns \cup {None})'
  BY <1>1 DEF IInv
<1> QED BY <1>7, <1>8, <1>9, <1>10, <1>11, Whole

LEMMA ReleaseClaimStep ==
    ASSUME IInv, NEW c \in Conns, ReleaseClaim(c)
    PROVE  IInv'
<1> DEFINE m == handler[c].msg
<1> DEFINE meta == handler[c].meta
<1>1. /\ handler[c].op = "release" /\ claims' = [claims EXCEPT ![m] = NoClaim]
      /\ Do(c, IF meta.wf = "workflow" THEN [handler[c] EXCEPT !.op = "route"] ELSE Idle)
      /\ UNCHANGED <<life, conns, sticky, pending, targets, dispatched, view>>
      /\ UNCHANGED <<signals, lapsed, forgotten, replied, raced, revived>>
  BY DEF ReleaseClaim, hub, dispatch, history
<1>2. /\ m \in Messages /\ life[c] = "open" /\ m \in replied /\ Sound(c)
      /\ handler[c] \in Handlers
  BY <1>1, Types DEF IInv, Sound, Loop
<1>3. PICK step \in Handlers : /\ Do(c, step)
                               /\ IF meta.wf = "workflow" THEN step.op = "route" /\ step.msg = m
                                                          ELSE step.op = "idle"
  <2>1. CASE meta.wf = "workflow"
    <3>1. /\ [handler[c] EXCEPT !.op = "route"] \in Handlers
          /\ [handler[c] EXCEPT !.op = "route"].op = "route"
          /\ [handler[c] EXCEPT !.op = "route"].msg = m
      BY <1>2, GoOn DEF Ops
    <3> QED BY <1>1, <2>1, <3>1
  <2>2. CASE meta.wf # "workflow"
    BY <1>1, <2>2, IdleFields
  <2> QED BY <2>1, <2>2
<1>4. /\ handler' \in [Conns -> Handlers] /\ handler'[c] = step
      /\ \A d \in Conns \ {c} : handler'[d] = handler[d]
  BY <1>3, LoopMoves DEF IInv
<1>5. /\ claims' \in [Messages -> [conn : Conns \cup {None}, wf : Workflows]]
      /\ claims'[m] = NoClaim
      /\ \A n \in Messages \ {m} : claims'[n] = claims[n]
      /\ \A d \in Conns \ {c} : Sound(d)'
  <2>1. m \in Excused'
    BY <1>1, <1>2 DEF Excused
  <2> QED BY <1>1, <1>2, <1>4, <2>1, NoExcuse, OwnClaim, NoClaimFields
<1>6. TypeOK'
  BY <1>1, <1>4, <1>5 DEF IInv, TypeOK, Handlers
<1>7. Sound(c)'
  <2>1. Loop(c)'
    BY <1>1, <1>2, <1>3, <1>4 DEF Loop
  <2>2. Granted(c)'
    <3>1. \A n \in Messages : Mine(c, n) => Mine(c, n)'
      BY <1>1, <1>2, <1>5, NoExcuse DEF Mine, Excused
    <3> QED BY <1>1, <1>2, <3>1 DEF Sound, Granted
  <2>3. Closes(c)'
    BY <1>1, <1>2 DEF Closes
  <2> QED BY <2>1, <2>2, <2>3 DEF Sound
<1>8. ASSUME NEW n \in Messages
      PROVE  Routed(n)'
  <2>1. \A d \in Conns \ {c} : (Carries(d, n)' <=> Carries(d, n)) /\ handler'[d].op = handler[d].op
    BY <1>4 DEF Carries
  <2>2. Carries(c, n)' <=> n = m /\ meta.wf = "workflow"
    BY <1>3, <1>4 DEF Carries
  <2>3. (InClaim(n)' => InClaim(n)) /\ (WithHub(n)' <=> WithHub(n))
    BY <1>1, <1>5, NoClaimFields DEF InClaim, WithHub
  <2>4. Carries(c, n)' => Carries(c, n) /\ ~InClaim(n)'
    BY <1>1, <1>5, <2>2, NoClaimFields DEF Carries, InClaim
  <2> QED BY <1>1, <2>1, <2>3, <2>4, RouteKept
<1>9. (sticky \in conns \cup {None})'
  BY <1>1 DEF IInv
<1> QED BY <1>5, <1>6, <1>7, <1>8, <1>9, Whole

LEMMA SignalWorkflowStep ==
    ASSUME IInv, NEW c \in Conns, SignalWorkflow(c)
    PROVE  IInv'
<1> DEFINE m == handler[c].msg
<1>1. /\ handler[c].op = "route" /\ Do(c, Idle)
      /\ signals' = [signals EXCEPT ![m] = @ + 1] \/ UNCHANGED signals
      /\ UNCHANGED <<life, conns, sticky, pending, targets, dispatched, claims, view>>
      /\ UNCHANGED <<lapsed, forgotten, replied, raced, revived>>
  BY DEF SignalWorkflow, hub, dispatch, history
<1>2. m \in Messages /\ life[c] = "open" /\ Sound(c)
  BY <1>1 DEF IInv, Sound, Loop
<1>3. /\ handler' \in [Conns -> Handlers] /\ handler'[c] = Idle
      /\ \A d \in Conns \ {c} : handler'[d] = handler[d]
  BY <1>1, IdleFields, LoopMoves DEF IInv
<1>4. /\ signals' \in [Messages -> Nat]
      /\ signals'[m] = signals[m] + 1 \/ signals'[m] = signals[m]
      /\ \A n \in Messages \ {m} : signals'[n] = signals[n]
  <2>1. signals \in [Messages -> Nat] /\ signals[m] + 1 \in Nat
    BY <1>2 DEF IInv, TypeOK
  <2>2. CASE signals' = [signals EXCEPT ![m] = @ + 1]
    BY <1>2, <2>1, <2>2
  <2> QED BY <1>1, <2>1, <2>2
<1>5. TypeOK'
  BY <1>1, <1>3, <1>4 DEF IInv, TypeOK, Handlers
<1>6. Sound(c)'
  <2>1. Loop(c)'
    BY <1>1, <1>2, <1>3, IdleFields DEF Loop
  <2>2. Granted(c)'
    BY <1>1, <1>2, NoExcuse DEF Sound, Granted, Mine
  <2>3. Closes(c)'
    BY <1>1, <1>2 DEF Closes
  <2> QED BY <2>1, <2>2, <2>3 DEF Sound
<1>7. \A d \in Conns \ {c} : Sound(d)'
  BY <1>1, <1>3, NoExcuse, NoClaimWritten
<1>8. ASSUME NEW n \in Messages
      PROVE  Routed(n)'
  <2>1. \A d \in Conns \ {c} : (Carries(d, n)' <=> Carries(d, n)) /\ handler'[d].op = handler[d].op
    BY <1>3 DEF Carries
  <2>2. ~Carries(c, n)'
    BY <1>3, IdleFields DEF Carries
  <2>3. (InClaim(n)' <=> InClaim(n)) /\ (WithHub(n)' <=> WithHub(n))
    BY <1>1 DEF InClaim, WithHub
  <2>4. CASE n = m
    <3>1. Carries(c, n)
      BY <1>1, <2>4 DEF Carries
    <3>2. signals[n] \in Nat
      BY Types DEF IInv
    <3>3. n \notin raced => signals'[n] <= 1
      BY <1>4, <2>4, <3>1, <3>2 DEF IInv, Routed
    <3>4. n \notin raced => ~InClaim(n) /\ ~WithHub(n) /\ \A d \in Conns : Carries(d, n) => d = c
      BY <1>1, <3>1 DEF IInv, Routed
    <3> QED BY <1>1, <2>1, <2>2, <2>3, <3>3, <3>4 DEF Routed
  <2>5. CASE n # m
    BY <1>1, <1>4, <2>1, <2>2, <2>3, <2>5, RouteKept
  <2> QED BY <2>4, <2>5
<1>9. (sticky \in conns \cup {None})'
  BY <1>1 DEF IInv
<1> QED BY <1>5, <1>6, <1>7, <1>8, <1>9, Whole

-----------------------------------------------------------------------------
(* Disconnection, and the TTL                                              *)

LEMMA UnregisterStep ==
    ASSUME IInv, NEW c \in Conns, Unregister(c)
    PROVE  IInv'
<1> DEFINE step == [Idle EXCEPT !.op = "scan", !.todo = Messages]
<1>1. /\ life[c] = "open" /\ life' = [life EXCEPT ![c] = "closing"] /\ conns' = conns \ {c}
      /\ sticky' = IF sticky = c THEN None ELSE sticky
      /\ Do(c, step)
      /\ UNCHANGED <<pending, targets, dispatched, claims, view, signals>>
      /\ UNCHANGED <<lapsed, forgotten, replied, raced, revived>>
  BY DEF Unregister, Ready, Remove, Unstick, dispatch, history
<1>2. step \in Handlers /\ step.op = "scan" /\ step.todo = Messages
  BY IdleFields DEF Handlers, Ops
<1> HIDE DEF step
<1>3. /\ handler' \in [Conns -> Handlers] /\ handler'[c] = step
      /\ \A d \in Conns \ {c} : handler'[d] = handler[d]
  BY <1>1, <1>2, LoopMoves DEF IInv
<1>4. /\ life' \in [Conns -> {"new", "open", "closing", "closed"}]
      /\ life'[c] = "closing" /\ \A d \in Conns \ {c} : life'[d] = life[d]
  BY <1>1 DEF IInv, TypeOK
<1>5. TypeOK'
  <2>1. conns' = {d \in Conns : life'[d] = "open"}
    BY <1>1, <1>4 DEF IInv, TypeOK
  <2>2. sticky' \in Conns \cup {None}
    BY <1>1 DEF IInv, TypeOK
  <2> QED BY <1>1, <1>3, <1>4, <2>1, <2>2 DEF IInv, TypeOK, Handlers
<1>6. Sound(c)'
  <2>1. Loop(c)'
    BY <1>2, <1>3, <1>4 DEF Loop
  <2>2. Granted(c)'
    BY <1>4 DEF Granted
  <2>3. Closes(c)'
    BY <1>2, <1>3, <1>4 DEF Closes
  <2> QED BY <2>1, <2>2, <2>3 DEF Sound
<1>7. \A d \in Conns \ {c} : Sound(d)'
  BY <1>1, <1>3, <1>4, NoExcuse, NoClaimWritten
<1>8. \A n \in Messages : Routed(n)'
  <2>1. \A d \in Conns, n \in Messages : Carries(d, n)' =>
            Carries(d, n) /\ handler'[d].op = handler[d].op
    BY <1>2, <1>3 DEF Carries
  <2> QED BY <1>1, <2>1, RouteKept DEF WithHub, InClaim
<1>9. (sticky \in conns \cup {None})'
  BY <1>1 DEF IInv
<1> QED BY <1>5, <1>6, <1>7, <1>8, <1>9, Whole

LEMMA ScanKeyStep ==
    ASSUME IInv, NEW c \in Conns, NEW m \in Messages, ScanKey(c, m)
    PROVE  IInv'
<1> DEFINE next == IF claims[m].conn = c THEN "delete" ELSE "scan"
<1> DEFINE step == [handler[c] EXCEPT !.todo = @ \ {m}, !.op = next, !.msg = m]
<1>1. /\ handler[c].op = "scan" /\ m \in handler[c].todo /\ Do(c, step)
      /\ UNCHANGED <<life, conns, sticky, pending, targets, dispatched, claims, view>>
      /\ UNCHANGED <<signals, lapsed, forgotten, replied, raced, revived>>
  BY DEF ScanKey, Owned, hub, dispatch, history
<1>2. handler[c] \in Handlers /\ Sound(c) /\ life[c] = "closing"
  BY <1>1, Types DEF IInv, Sound, Loop
<1>3. /\ step \in Handlers /\ step.op = next /\ step.msg = m
      /\ step.todo = handler[c].todo \ {m}
  BY <1>2 DEF Handlers, Ops
<1>4. next \in {"scan", "delete"} /\ (claims[m].conn = c <=> next = "delete")
  OBVIOUS
<1> HIDE DEF step, next
<1>5. handler'[c] = step
  BY <1>1, <1>3, LoopMoves DEF IInv
<1>6. Loop(c)'
  BY <1>1, <1>2, <1>3, <1>4, <1>5 DEF Loop, Mine
<1>7. Closes(c)'
  <2> SUFFICES ASSUME NEW n \in Messages, n \notin revived, claims[n].conn = c
               PROVE  n \in step.todo \/ (step.op = "delete" /\ step.msg = n)
    BY <1>1, <1>2, <1>5 DEF Closes
  <2>1. n \in handler[c].todo
    BY <1>1, <1>2 DEF Sound, Closes
  <2> QED BY <1>3, <1>4, <2>1
<1> QED BY <1>1, <1>3, <1>4, <1>6, <1>7, LoopReads

LEMMA DeleteKeyStep ==
    ASSUME IInv, NEW c \in Conns, DeleteKey(c)
    PROVE  IInv'
<1> DEFINE m == handler[c].msg
<1> DEFINE step == [handler[c] EXCEPT !.op = "scan"]
<1>1. /\ handler[c].op = "delete" /\ claims' = [claims EXCEPT ![m] = NoClaim] /\ Do(c, step)
      /\ UNCHANGED <<life, conns, sticky, pending, targets, dispatched, view>>
      /\ UNCHANGED <<signals, lapsed, forgotten, replied, raced, revived>>
  BY DEF DeleteKey, hub, dispatch, history
<1>2. m \in Messages /\ life[c] = "closing" /\ Mine(c, m) /\ Sound(c) /\ handler[c] \in Handlers
  BY <1>1, Types DEF IInv, Sound, Loop
<1>3. step \in Handlers /\ step.op = "scan" /\ step.todo = handler[c].todo
  BY <1>2, GoOn DEF Ops
<1> HIDE DEF step
<1>4. /\ handler' \in [Conns -> Handlers] /\ handler'[c] = step
      /\ \A d \in Conns \ {c} : handler'[d] = handler[d]
  BY <1>1, <1>3, LoopMoves DEF IInv
<1>5. /\ claims' \in [Messages -> [conn : Conns \cup {None}, wf : Workflows]]
      /\ claims'[m] = NoClaim
      /\ \A n \in Messages \ {m} : claims'[n] = claims[n]
      /\ \A d \in Conns \ {c} : Sound(d)'
  <2>1. m \notin Excused' => claims[m].conn = c
    BY <1>1, <1>2, NoExcuse DEF Mine
  <2> QED BY <1>1, <1>2, <1>4, <2>1, NoExcuse, OwnClaim, NoClaimFields
<1>6. TypeOK'
  BY <1>1, <1>4, <1>5 DEF IInv, TypeOK, Handlers
<1>7. Sound(c)'
  <2>1. Loop(c)'
    BY <1>1, <1>2, <1>3, <1>4 DEF Loop
  <2>2. Granted(c)'
    BY <1>1, <1>2 DEF Granted
  <2>3. Closes(c)'
    <3> SUFFICES ASSUME NEW n \in Messages, n \notin revived, claims'[n].conn = c
                 PROVE  n \in step.todo
      BY <1>1, <1>2, <1>4 DEF Closes
    <3>1. n # m /\ claims[n].conn = c
      BY <1>5, NoClaimFields
    <3> QED BY <1>2, <1>3, <3>1 DEF Sound, Closes
  <2> QED BY <2>1, <2>2, <2>3 DEF Sound
<1>8. \A n \in Messages : Routed(n)'
  <2>1. \A d \in Conns, n \in Messages : Carries(d, n)' =>
            Carries(d, n) /\ handler'[d].op = handler[d].op
    BY <1>3, <1>4 DEF Carries
  <2>2. \A n \in Messages : InClaim(n)' => InClaim(n)
    BY <1>5, NoClaimFields DEF InClaim
  <2> QED BY <1>1, <2>1, <2>2, RouteKept DEF WithHub
<1>9. (sticky \in conns \cup {None})'
  BY <1>1 DEF IInv
<1> QED BY <1>5, <1>6, <1>7, <1>8, <1>9, Whole

LEMMA ScanDoneStep ==
    ASSUME IInv, NEW c \in Conns, ScanDone(c)
    PROVE  IInv'
<1>1. /\ handler[c].op = "scan" /\ handler[c].todo = {} /\ Do(c, Idle)
      /\ life' = [life EXCEPT ![c] = "closed"]
      /\ UNCHANGED <<conns, sticky, pending, targets, dispatched, claims, view>>
      /\ UNCHANGED <<signals, lapsed, forgotten, replied, raced, revived>>
  BY DEF ScanDone, dispatch, history
<1>2. life[c] = "closing" /\ Sound(c)
  BY <1>1 DEF IInv, Sound, Loop
<1>3. /\ handler' \in [Conns -> Handlers] /\ handler'[c] = Idle
      /\ \A d \in Conns \ {c} : handler'[d] = handler[d]
  BY <1>1, IdleFields, LoopMoves DEF IInv
<1>4. /\ life' \in [Conns -> {"new", "open", "closing", "closed"}]
      /\ life'[c] = "closed" /\ \A d \in Conns \ {c} : life'[d] = life[d]
  BY <1>1 DEF IInv, TypeOK
<1>5. TypeOK'
  <2>1. conns' = {d \in Conns : life'[d] = "open"}
    BY <1>1, <1>2, <1>4 DEF IInv, TypeOK
  <2> QED BY <1>1, <1>3, <1>4, <2>1 DEF IInv, TypeOK, Handlers
<1>6. Sound(c)'
  <2>1. Loop(c)'
    BY <1>3, <1>4, IdleFields DEF Loop
  <2>2. Granted(c)'
    BY <1>4 DEF Granted
  <2>3. Closes(c)'
    BY <1>1, <1>2 DEF Sound, Closes
  <2> QED BY <2>1, <2>2, <2>3 DEF Sound
<1>7. \A d \in Conns \ {c} : Sound(d)'
  BY <1>1, <1>3, <1>4, NoExcuse, NoClaimWritten
<1>8. \A n \in Messages : Routed(n)'
  <2>1. \A d \in Conns, n \in Messages : Carries(d, n)' =>
            Carries(d, n) /\ handler'[d].op = handler[d].op
    BY <1>3, IdleFields DEF Carries
  <2> QED BY <1>1, <2>1, RouteKept DEF WithHub, InClaim
<1>9. (sticky \in conns \cup {None})'
  BY <1>1 DEF IInv
<1> QED BY <1>5, <1>6, <1>7, <1>8, <1>9, Whole

LEMMA ClaimExpiresStep ==
    ASSUME IInv, NEW m \in Messages, ClaimExpires(m)
    PROVE  IInv'
<1>1. /\ claims' = [claims EXCEPT ![m] = NoClaim] /\ lapsed' = lapsed \cup {m}
      /\ UNCHANGED <<life, conns, sticky, pending, targets, dispatched, handler, view>>
      /\ UNCHANGED <<signals, forgotten, replied, raced, revived>>
  BY DEF ClaimExpires, hub, dispatch
<1>2. /\ claims' \in [Messages -> [conn : Conns \cup {None}, wf : Workflows]]
      /\ \A n \in Messages \ {m} : claims'[n] = claims[n]
  BY <1>1, NoClaimFields DEF IInv, TypeOK
<1>3. TypeOK'
  BY <1>1, <1>2 DEF IInv, TypeOK
<1>4. ASSUME NEW c \in Conns
      PROVE  Sound(c)'
  <2>1. Sound(c) /\ (handler[c].op \notin {"idle", "scan"} => handler[c].msg \in Messages)
    BY DEF IInv, Sound, Loop
  <2>2. Excused \subseteq Excused' /\ m \in Excused'
    BY <1>1 DEF Excused
  <2>3. \A n \in Messages : claims'[n].conn = c => claims[n].conn = c
    BY <1>1, <1>2, NoClaimFields DEF IInv, TypeOK
  <2> QED BY <1>1, <1>2, <2>1, <2>2, <2>3, Undisturbed
<1>5. ASSUME NEW n \in Messages
      PROVE  Routed(n)'
  <2>1. InClaim(n)' => InClaim(n)
    BY <1>1, <1>2, NoClaimFields DEF IInv, TypeOK, InClaim
  <2> QED BY <1>1, <2>1, RouteKept DEF WithHub, Carries
<1>6. (sticky \in conns \cup {None})'
  BY <1>1 DEF IInv
<1> QED BY <1>3, <1>4, <1>5, <1>6 DEF IInv

-----------------------------------------------------------------------------
(* The inductive invariant                                                 *)

LEMMA Initially == Init => IInv
<1> SUFFICES ASSUME Init
             PROVE  IInv
  OBVIOUS
<1>1. /\ \A c \in Conns : life[c] = "new" /\ handler[c] = Idle
      /\ \A c \in Conns, m \in Messages : view[c][m] = "none"
      /\ \A m \in Messages : claims[m] = NoClaim /\ signals[m] = 0
      /\ sticky = None /\ conns = {}
  BY DEF Init
<1>2. TypeOK
  <2>1. /\ life \in [Conns -> {"new", "open", "closing", "closed"}]
        /\ handler \in [Conns -> Handlers]
        /\ claims \in [Messages -> [conn : Conns \cup {None}, wf : Workflows]]
        /\ signals \in [Messages -> Nat] /\ targets \in [Messages -> SUBSET Conns]
        /\ view \in [Conns -> [Messages ->
                       {"none", "offered", "granted", "denied", "answered"}]]
    BY IdleFields, NoClaimFields DEF Init
  <2>2. conns = {c \in Conns : life[c] = "open"}
    BY <1>1
  <2> QED BY <1>1, <2>1, <2>2 DEF Init, TypeOK, Handlers
<1>3. ASSUME NEW c \in Conns
      PROVE  Sound(c)
  <2>1. Loop(c)
    BY <1>1, IdleFields DEF Loop
  <2>2. Granted(c)
    BY <1>1 DEF Granted
  <2>3. Closes(c)
    BY <1>1, NoClaimFields DEF Closes
  <2> QED BY <2>1, <2>2, <2>3 DEF Sound
<1>4. ASSUME NEW m \in Messages
      PROVE  Routed(m)
  <2>1. ~InClaim(m) /\ \A c \in Conns : ~Carries(c, m)
    BY <1>1, IdleFields, NoClaimFields DEF InClaim, Carries
  <2> QED BY <1>1, <2>1 DEF Routed
<1> QED BY <1>1, <1>2, <1>3, <1>4 DEF IInv

LEMMA Stutter ==
    ASSUME IInv, UNCHANGED vars
    PROVE  IInv'
<1>1. UNCHANGED <<life, conns, sticky, pending, targets, dispatched, claims, handler, view>>
  BY DEF vars, hub, dispatch
<1>2. UNCHANGED <<signals, lapsed, forgotten, replied, raced, revived>>
  BY DEF vars, history
<1>3. TypeOK' /\ (sticky \in conns \cup {None})'
  BY <1>1, <1>2 DEF IInv, TypeOK
<1> QED BY <1>1, <1>2, <1>3, LoopsRest DEF WithHub

LEMMA Inductive == IInv /\ [Next]_vars => IInv'
<1> SUFFICES ASSUME IInv, [Next]_vars
             PROVE  IInv'
  OBVIOUS
<1>1. CASE \E m \in Messages : Dispatch(m) \/ PendingExpires(m) \/ ClaimExpires(m)
  BY <1>1, DispatchStep, PendingExpiresStep, ClaimExpiresStep
<1>2. CASE \E c \in Conns :
               \/ Register(c) \/ Unregister(c) \/ ScanDone(c) \/ DeleteKey(c)
               \/ TryClaim(c) \/ SetSticky(c) \/ ReadTTL(c) \/ UpdateClaim(c)
               \/ ReleaseClaim(c) \/ SignalWorkflow(c)
  BY <1>2, RegisterStep, UnregisterStep, ScanDoneStep, DeleteKeyStep, TryClaimStep,
     SetStickyStep, ReadTTLStep, UpdateClaimStep, ReleaseClaimStep, SignalWorkflowStep
<1>3. CASE \E c \in Conns, m \in Messages :
               \/ Send(c, m) \/ HandleClaim(c, m) \/ HandleProgress(c, m)
               \/ HandleReply(c, m) \/ ScanKey(c, m)
  BY <1>3, SendStep, HandleClaimStep, HandleProgressStep, HandleReplyStep, ScanKeyStep
<1>4. CASE UNCHANGED vars
  BY <1>4, Stutter
<1> QED BY <1>1, <1>2, <1>3, <1>4 DEF Next

LEMMA Invariance == Spec => []IInv
BY Initially, Inductive, PTL DEF Spec

-----------------------------------------------------------------------------
(* Theorems                                                                *)

(* The variables of the hub, Redis and the daemons keep their types; the   *)
(* hub knows exactly the connections whose loop runs.                      *)
THEOREM TypesHold == Spec => []TypeOK
<1>1. IInv => TypeOK
  BY DEF IInv
<1> QED BY <1>1, Invariance, PTL

(* A daemon that works on a message holds its claim, until it runs out of  *)
(* its TTL, a reply reads it or an update revives one before it: no other  *)
(* claim, update, release or scan takes it away.                           *)
THEOREM GrantsAreBacked == Spec => []GrantIsBacked
<1>1. IInv => GrantIsBacked
  BY DEF IInv, Sound, Granted, Mine, Excused, GrantIsBacked
<1> QED BY <1>1, Invariance, PTL

(* The workflow a message was dispatched for is signalled at most once,    *)
(* whatever daemons claim, answer and disconnect and whatever runs out of  *)
(* its TTL, unless two replies read its claim before it was deleted.       *)
THEOREM SignalsHold == Spec => []SignalledOnce
<1>1. IInv => SignalledOnce
  BY DEF IInv, Routed, SignalledOnce
<1> QED BY <1>1, Invariance, PTL

(* Once a connection is closed the thread does not stick to it and no      *)
(* claim names it, unless an update wrote back one that was gone.          *)
THEOREM DisconnectsRelease == Spec => []DisconnectReleases
<1>1. IInv => DisconnectReleases
  BY DEF IInv, Sound, Closes, DisconnectReleases
<1> QED BY <1>1, Invariance, PTL
=============================================================================
