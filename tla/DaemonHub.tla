----------------------------- MODULE DaemonHub -----------------------------
(***************************************************************************)
(* The gateway's hub of daemon connections (internal/daemon/hub.go) and    *)
(* the claims it keeps in Redis (claims.go).                               *)
(*                                                                         *)
(* A message of a thread is offered to the daemon the thread sticks to, or *)
(* to all of them; the first to claim it (SETNX with a TTL) works on it,   *)
(* reports progress and replies, and the reply is signalled to the         *)
(* workflow the claim's metadata names.                                    *)
(*                                                                         *)
(* The messages of one connection are handled one after the other; those   *)
(* of several connections are not, and every Redis command below is a step *)
(* of its own.  Progress and replies name a message and not who claimed    *)
(* it: a daemon that has connected again sends them through its new        *)
(* connection while the loop of the old one still runs.                    *)
(*                                                                         *)
(* Messages are those of one thread, dispatched to one tenant's user by    *)
(* one gateway; system messages change no state.  Redis answers, except    *)
(* that a claim may fail.                                                  *)
(***************************************************************************)
EXTENDS Naturals, FiniteSets

CONSTANTS
    Conns,     \* connection ids, one for each time a daemon connects
    Messages,  \* message ids
    None       \* no connection, no claim, no message

ASSUME NoneAssumption == None \notin Conns \cup Messages

VARIABLES
    life,      \* the WebSocket of each connection
    conns,     \* Hub.conns, and the index of the user's connections
    sticky,    \* Hub.sticky of the thread
    pending,   \* messages with an entry in Hub.pendingMeta
    targets,   \* connections Dispatch still has to send each message to
    claims,    \* Redis: the claim of each message
    handler,   \* what each connection's message loop is doing
    view,      \* what the daemon behind each connection knows of a message
    dispatched, \* messages Dispatch was called for
    signals,   \* signals sent to the workflow of each message
    lapsed,    \* history: messages whose claim ran out of its TTL
    forgotten, \* history: messages whose metadata ran out of its timer
    replied,   \* history: messages whose claim a reply has read
    raced,     \* history: messages with a reply read while another released
    revived    \* history: messages whose claim was written over by an update
               \* that had read the claim of another connection

hub == <<life, conns, sticky>>
dispatch == <<pending, targets, dispatched>>
history == <<lapsed, forgotten, replied, raced, revived>>
vars == <<hub, dispatch, claims, handler, view, signals, history>>

(* ClaimMetadata: who claimed, and the workflow the reply goes to: that of *)
(* the dispatch, the synthetic one of a daemon stream, or none at all.     *)
Claim(c, wf) == [conn |-> c, wf |-> wf]
NoClaim == Claim(None, "none")
Workflows == {"none", "workflow", "daemon"}

Doing(op, m, meta) == [op |-> op, msg |-> m, meta |-> meta, todo |-> {}]
Idle == Doing("idle", None, NoClaim)
Ops  == {"idle", "claim", "stick", "ttl", "set", "release", "route", "scan", "delete"}

Init ==
    /\ life = [c \in Conns |-> "new"]
    /\ conns = {}
    /\ sticky = None
    /\ pending = {}
    /\ targets = [m \in Messages |-> {}]
    /\ claims = [m \in Messages |-> NoClaim]
    /\ handler = [c \in Conns |-> Idle]
    /\ view = [c \in Conns |-> [m \in Messages |-> "none"]]
    /\ dispatched = {}
    /\ signals = [m \in Messages |-> 0]
    /\ lapsed = {}
    /\ forgotten = {}
    /\ replied = {}
    /\ raced = {}
    /\ revived = {}

Do(c, step) == handler' = [handler EXCEPT ![c] = step]
Becomes(c, m, v) == view' = [view EXCEPT ![c][m] = v]

(* The message loop of c takes the next message off its socket. *)
Ready(c) == life[c] = "open" /\ handler[c] = Idle

-----------------------------------------------------------------------------
(* Connections and dispatch *)

Register(c) ==
    /\ life[c] = "new"
    /\ life' = [life EXCEPT ![c] = "open"]
    /\ conns' = conns \cup {c}
    /\ UNCHANGED <<sticky, dispatch, claims, handler, view, signals, history>>

(* Under the hub's lock: the targets are chosen and the metadata stored.   *)
(* A thread stuck to a connection that is gone would be broadcast again.   *)
Dispatch(m) ==
    /\ m \notin dispatched
    /\ dispatched' = dispatched \cup {m}
    /\ \/ /\ sticky \in conns
          /\ targets' = [targets EXCEPT ![m] = {sticky}]
          /\ pending' = pending \cup {m}
          /\ UNCHANGED sticky
       \/ /\ sticky \notin conns
          /\ sticky' = None
          /\ targets' = [targets EXCEPT ![m] = conns]
          /\ pending' = IF conns = {} THEN pending ELSE pending \cup {m}
    /\ UNCHANGED <<life, conns, claims, handler, view, signals, history>>

(* Outside of the lock: sent to one target, or the send fails. *)
Send(c, m) ==
    /\ c \in targets[m]
    /\ targets' = [targets EXCEPT ![m] = @ \ {c}]
    /\ \/ life[c] = "open" /\ Becomes(c, m, "offered")
       \/ UNCHANGED view
    /\ UNCHANGED <<hub, pending, dispatched, claims, handler, signals, history>>

(* The timer of storePendingMeta. *)
PendingExpires(m) ==
    /\ m \in pending
    /\ pending' = pending \ {m}
    /\ forgotten' = forgotten \cup {m}
    /\ UNCHANGED <<hub, targets, dispatched, claims, handler, view, signals, lapsed,
                   replied, raced, revived>>

-----------------------------------------------------------------------------
(* HandleClaim: the metadata of the dispatch is consumed first, by whoever *)
(* comes first ...                                                         *)
Consume_Keeps(m) == UNCHANGED pending
Consume(m) == pending' = pending \ {m}

HandleClaim(c, m) ==
    /\ Ready(c)
    /\ view[c][m] = "offered"
    /\ Do(c, Doing("claim", m, Claim(c, IF m \in pending THEN "workflow" ELSE "none")))
    /\ Consume(m)
    /\ UNCHANGED <<hub, targets, dispatched, claims, view, signals, history>>

(* ... and then the claim is tried for: granted, denied, or failed.        *)
Free_Always(m) == TRUE   \* SET instead of SETNX
Free(m) == claims[m] = NoClaim

TryClaim(c) ==
    LET m == handler[c].msg
    IN /\ handler[c].op = "claim"
       /\ \/ /\ Free(m)
             /\ claims' = [claims EXCEPT ![m] = handler[c].meta]
             /\ IF handler[c].meta.wf = "workflow"
                THEN Do(c, [handler[c] EXCEPT !.op = "stick"]) /\ UNCHANGED view
                ELSE Do(c, Idle) /\ Becomes(c, m, "granted")
          \/ /\ Do(c, Idle)         \* denied, or Redis failed
             /\ Becomes(c, m, "denied")
             /\ UNCHANGED claims
       /\ UNCHANGED <<hub, dispatch, signals, history>>

(* Routed metadata names the thread: it sticks to the winner. *)
SetSticky(c) ==
    /\ handler[c].op = "stick"
    /\ sticky' = c
    /\ Do(c, Idle)
    /\ Becomes(c, handler[c].msg, "granted")
    /\ UNCHANGED <<life, conns, dispatch, claims, signals, history>>

(* HandleProgress with a workflow id, as the first event of the daemon's   *)
(* stream sends it: the claim is read; who owns it is not asked.           *)
HandleProgress(c, m) ==
    /\ Ready(c)
    /\ m \in dispatched
    /\ claims[m] # NoClaim
    /\ claims[m].wf = "none"
    /\ Do(c, Doing("ttl", m, [claims[m] EXCEPT !.wf = "daemon"]))
    /\ UNCHANGED <<hub, dispatch, claims, view, signals, history>>

(* UpdateClaim asks for the TTL ... *)
ReadTTL(c) ==
    /\ handler[c].op = "ttl"
    /\ Do(c, IF claims[handler[c].msg] = NoClaim THEN Idle
             ELSE [handler[c] EXCEPT !.op = "set"])
    /\ UNCHANGED <<hub, dispatch, claims, view, signals, history>>

(* ... and then writes what it read, whatever is there by now. *)
UpdateClaim(c) ==
    LET m == handler[c].msg
    IN /\ handler[c].op = "set"
       /\ claims' = [claims EXCEPT ![m] = handler[c].meta]
       /\ revived' = IF claims[m].conn = handler[c].meta.conn THEN revived
                     ELSE revived \cup {m}
       /\ Do(c, Idle)
       /\ UNCHANGED <<hub, dispatch, view, signals, lapsed, forgotten, replied, raced>>

(* HandleReply reads the claim, if there is one; a reply that finds none   *)
(* is for nobody ...                                                       *)
Releasing(d, m) == handler[d].op = "release" /\ handler[d].msg = m

HandleReply(c, m) ==
    /\ Ready(c)
    /\ m \in dispatched
    /\ Becomes(c, m, "answered")
    /\ IF claims[m] = NoClaim
       THEN UNCHANGED <<handler, replied, raced>>
       ELSE /\ Do(c, Doing("release", m, claims[m]))
            /\ replied' = replied \cup {m}
            /\ raced' = IF \E d \in Conns : Releasing(d, m) THEN raced \cup {m} ELSE raced
    /\ UNCHANGED <<hub, dispatch, claims, signals, lapsed, forgotten, revived>>

(* ... deletes it ... *)
ReleaseClaim(c) ==
    /\ handler[c].op = "release"
    /\ claims' = [claims EXCEPT ![handler[c].msg] = NoClaim]
    /\ Do(c, IF handler[c].meta.wf = "workflow"
             THEN [handler[c] EXCEPT !.op = "route"] ELSE Idle)
    /\ UNCHANGED <<hub, dispatch, view, signals, history>>

(* ... and signals the workflow, which may fail. *)
SignalWorkflow(c) ==
    /\ handler[c].op = "route"
    /\ \/ signals' = [signals EXCEPT ![handler[c].msg] = @ + 1]
       \/ UNCHANGED signals
    /\ Do(c, Idle)
    /\ UNCHANGED <<hub, dispatch, claims, view, history>>

-----------------------------------------------------------------------------
(* HandleDisconnect, once the message loop has ended: the connection is    *)
(* unregistered and the claims are scanned.                                *)
Unstick(c) == sticky' = IF sticky = c THEN None ELSE sticky

Remove(c) == conns' = conns \ {c}

Unregister(c) ==
    /\ Ready(c)
    /\ life' = [life EXCEPT ![c] = "closing"]
    /\ Remove(c)
    /\ Unstick(c)
    /\ Do(c, [Idle EXCEPT !.op = "scan", !.todo = Messages])
    /\ UNCHANGED <<dispatch, claims, view, signals, history>>

(* ReleaseAllForConn reads a key; a claim of its own it goes on to delete. *)
Owned_Never(c, m) == FALSE   \* the scan is left out
Owned(c, m) == claims[m].conn = c

ScanKey(c, m) ==
    /\ handler[c].op = "scan"
    /\ m \in handler[c].todo
    /\ Do(c, [handler[c] EXCEPT !.todo = @ \ {m},
                                !.op = IF Owned(c, m) THEN "delete" ELSE "scan",
                                !.msg = m])
    /\ UNCHANGED <<hub, dispatch, claims, view, signals, history>>

DeleteKey(c) ==
    /\ handler[c].op = "delete"
    /\ claims' = [claims EXCEPT ![handler[c].msg] = NoClaim]
    /\ Do(c, [handler[c] EXCEPT !.op = "scan"])
    /\ UNCHANGED <<hub, dispatch, view, signals, history>>

ScanDone(c) ==
    /\ handler[c].op = "scan"
    /\ handler[c].todo = {}
    /\ life' = [life EXCEPT ![c] = "closed"]
    /\ Do(c, Idle)
    /\ UNCHANGED <<conns, sticky, dispatch, claims, view, signals, history>>

(* The TTL of a claim runs out: its daemon sent no progress in time. *)
ClaimExpires(m) ==
    /\ claims[m] # NoClaim
    /\ claims' = [claims EXCEPT ![m] = NoClaim]
    /\ lapsed' = lapsed \cup {m}
    /\ UNCHANGED <<hub, dispatch, handler, view, signals, forgotten, replied, raced, revived>>

-----------------------------------------------------------------------------
Next ==
    \/ \E m \in Messages : Dispatch(m) \/ PendingExpires(m) \/ ClaimExpires(m)
    \/ \E c \in Conns :
          \/ Register(c) \/ Unregister(c) \/ ScanDone(c) \/ DeleteKey(c)
          \/ TryClaim(c) \/ SetSticky(c) \/ ReadTTL(c) \/ UpdateClaim(c)
          \/ ReleaseClaim(c) \/ SignalWorkflow(c)
    \/ \E c \in Conns, m \in Messages :
          \/ Send(c, m) \/ HandleClaim(c, m) \/ HandleProgress(c, m)
          \/ HandleReply(c, m) \/ ScanKey(c, m)

Spec == Init /\ [][Next]_vars

-----------------------------------------------------------------------------
(* Properties *)

(* The types of the hub's, Redis's and the daemons' variables; the hub     *)
(* knows exactly the connections whose loop runs, and keeps metadata only  *)
(* of what was dispatched.                                                 *)
TypeOK ==
    /\ life \in [Conns -> {"new", "open", "closing", "closed"}]
    /\ conns = {c \in Conns : life[c] = "open"}
    /\ sticky \in Conns \cup {None}
    /\ pending \in SUBSET dispatched
    /\ targets \in [Messages -> SUBSET Conns]
    /\ claims \in [Messages -> [conn : Conns \cup {None}, wf : Workflows]]
    /\ handler \in [Conns -> [op : Ops, msg : Messages \cup {None}, todo : SUBSET Messages,
                              meta : [conn : Conns \cup {None}, wf : Workflows]]]
    /\ view \in [Conns -> [Messages ->
                    {"none", "offered", "granted", "denied", "answered"}]]
    /\ dispatched \in SUBSET Messages
    /\ signals \in [Messages -> Nat]
    /\ lapsed \in SUBSET Messages
    /\ forgotten \in SUBSET Messages
    /\ replied \in SUBSET Messages
    /\ raced \in SUBSET Messages
    /\ revived \in SUBSET Messages

(* A daemon that was granted a message is the one Redis names, whatever    *)
(* the claims, updates, releases and scans of the others do, until its     *)
(* claim runs out of its TTL or somebody replies; the one way to lose it   *)
(* else is an update that read the claim of a connection before it and     *)
(* writes that back.  No two work on a message before one of these.        *)
GrantIsBacked ==
    \A c \in Conns, m \in Messages :
        view[c][m] = "granted" /\ life[c] = "open" /\ m \notin lapsed \cup replied \cup revived =>
            claims[m].conn = c

(* The workflow of a message is signalled at most once, whatever lapses    *)
(* and whoever claims again, but for two replies that both read the claim  *)
(* before either has deleted it.                                           *)
SignalledOnce == \A m \in Messages : m \notin raced => signals[m] <= 1

(* Nothing points at a connection that is gone, however its end interleaves *)
(* with claims and expiries: the thread does not stick to it, and its      *)
(* claims are gone, but for those an update of another loop, which had     *)
(* read them before, brought back.                                         *)
DisconnectReleases ==
    /\ sticky \in conns \cup {None}
    /\ \A c \in Conns, m \in Messages :
          life[c] = "closed" /\ m \notin revived => claims[m].conn # c

(* "channel routing information ... is preserved in the claim for reply    *)
(* routing" (hub.go): a claim made while the dispatch's metadata had not   *)
(* run out of its timer names the workflow to reply to.                    *)
RoutingPreserved ==
    \A m \in Messages : claims[m] # NoClaim /\ m \notin forgotten => claims[m].wf = "workflow"
=============================================================================
