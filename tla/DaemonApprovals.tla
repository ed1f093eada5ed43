-------------------------- MODULE DaemonApprovals --------------------------
(***************************************************************************)
(* Approvals a daemon asks for (internal/daemon/approvals.go) and the      *)
(* gateway handler that resolves them (cmd/gateway/.../handlers/daemon.go).*)
(*                                                                         *)
(* A request of the daemon is stored in Redis with a TTL.  Whoever answers *)
(* first takes it out with an atomic script and sends the decision to the  *)
(* daemon's connection; if that fails the request is stored again.  The    *)
(* key is also read and written back to note a channel's message id, and   *)
(* scanned away when the connection closes.  Any command of Redis may fail,*)
(* and a script that took a request may lose its answer.  The requests are *)
(* those of one connection.                                                *)
(***************************************************************************)
EXTENDS Naturals, FiniteSets

CONSTANTS
    Requests,    \* approval requests of the connection
    Responders,  \* calls of ResolveApproval, one request each
    Notifiers,   \* calls of UpdateChannelMsg, one request each
    None

ASSUME NoneAssumption == None \notin Requests

VARIABLES
    life,      \* the daemon's connection
    asked,     \* requests the daemon has made
    key,       \* requests whose key is in Redis
    responder, \* where each ResolveApproval stands, and on which request
    notifier,  \* where each UpdateChannelMsg stands, and on which request
    todo,      \* keys CancelByConn has yet to read
    found,     \* the key it is about to delete
    sent,      \* decisions each request's daemon received
    closed,    \* history: requests resolved by the daemon, expired or cancelled
    revived,   \* history: requests UpdateChannelMsg wrote back after they were gone
    dropped,   \* history: requests lost to a command of Redis that failed
    skipped    \* history: requests the scan left because a command failed

daemon == <<life, asked>>
scan == <<todo, found>>
errors == <<dropped, skipped>>
history == <<closed, revived, errors>>
vars == <<daemon, key, responder, notifier, scan, sent, history>>

At(step, r) == [step |-> step, request |-> r]

Init ==
    /\ life = "open"
    /\ asked = {}
    /\ key = {}
    /\ responder = [u \in Responders |-> At("idle", None)]
    /\ notifier = [n \in Notifiers |-> At("idle", None)]
    /\ todo = {}
    /\ found = None
    /\ sent = [r \in Requests |-> 0]
    /\ closed = {}
    /\ revived = {}
    /\ dropped = {}
    /\ skipped = {}

Responds(u, step, r) == responder' = [responder EXCEPT ![u] = At(step, r)]
Notifies(n, step, r) == notifier' = [notifier EXCEPT ![n] = At(step, r)]

-----------------------------------------------------------------------------
(* The daemon *)

(* handleApprovalRequest stores what the daemon asks for; if that fails    *)
(* nobody will hear of it.                                                 *)
Store(r) ==
    /\ life = "open"
    /\ r \notin asked
    /\ asked' = asked \cup {r}
    /\ \/ key' = key \cup {r} /\ UNCHANGED dropped
       \/ dropped' = dropped \cup {r} /\ UNCHANGED key
    /\ UNCHANGED <<life, responder, notifier, scan, sent, closed, revived, skipped>>

(* The daemon's user decided first: handleApprovalResolved. *)
ResolvedLocally(r) ==
    /\ life = "open"
    /\ r \in asked \ closed
    /\ key' = key \ {r}
    /\ closed' = closed \cup {r}
    /\ UNCHANGED <<daemon, responder, notifier, scan, sent, revived, errors>>

-----------------------------------------------------------------------------
(* ResolveApproval *)

(* Resolve: GET and DEL in one script; the first responder gets it.  A     *)
(* script that fails tells the responder nothing, whether it ran or not.   *)
Take_GetThenDel(r) == UNCHANGED key   \* the script without its DEL
Take(r) == key' = key \ {r}

Resolve(u, r) ==
    /\ responder[u].step = "idle"
    /\ r \in asked
    /\ \/ /\ r \in key
          /\ Take(r)
          /\ \/ Responds(u, "sending", r) /\ UNCHANGED dropped
             \/ Responds(u, "refused", r) /\ dropped' = dropped \cup {r}
       \/ Responds(u, "refused", r) /\ UNCHANGED <<key, dropped>>
    /\ UNCHANGED <<daemon, notifier, scan, sent, closed, revived, skipped>>

(* SendToConn: the connection takes the decision, or it is gone or fails.  *)
SendDecision(u) ==
    LET r == responder[u].request
    IN /\ responder[u].step = "sending"
       /\ \/ /\ life = "open"
             /\ sent' = [sent EXCEPT ![r] = @ + 1]
             /\ Responds(u, "done", r)
          \/ /\ Responds(u, "failed", r)
             /\ UNCHANGED sent
       /\ UNCHANGED <<daemon, key, notifier, scan, history>>

(* "Re-store so another responder can retry", or "re-store also failed".   *)
StoreBack_Never(r) == UNCHANGED key
StoreBack(r) == key' = key \cup {r}

Restore(u) ==
    /\ responder[u].step = "failed"
    /\ Responds(u, "requeued", responder[u].request)
    /\ \/ StoreBack(responder[u].request) /\ UNCHANGED dropped
       \/ dropped' = dropped \cup {responder[u].request} /\ UNCHANGED key
    /\ UNCHANGED <<daemon, notifier, scan, sent, closed, revived, skipped>>

-----------------------------------------------------------------------------
(* UpdateChannelMsg: GET, TTL, SET, the last whatever the second answered. *)

ReadForUpdate(n, r) ==
    /\ notifier[n].step = "idle"
    /\ r \in key
    /\ Notifies(n, "writing", r)
    /\ UNCHANGED <<daemon, key, responder, scan, sent, history>>

WriteUpdate(n) ==
    LET r == notifier[n].request
    IN /\ notifier[n].step = "writing"
       /\ Notifies(n, "done", r)
       /\ \/ /\ key' = key \cup {r}
             /\ revived' = IF r \in key THEN revived ELSE revived \cup {r}
          \/ UNCHANGED <<key, revived>>
       /\ UNCHANGED <<daemon, responder, scan, sent, closed, errors>>

-----------------------------------------------------------------------------
(* The connection closes: the hub forgets it, then CancelByConn scans.     *)
(* SCAN returns every key that is there from its start to its end, and     *)
(* perhaps one that came meanwhile.                                        *)

Disconnect ==
    /\ life = "open"
    /\ life' = "closing"
    /\ todo' = key
    /\ UNCHANGED <<asked, key, responder, notifier, found, sent, history>>

ScanKey(r) ==
    /\ life = "closing"
    /\ found = None
    /\ r \in todo \cup key
    /\ todo' = todo \ {r}
    /\ \/ found' = (IF r \in key THEN r ELSE None) /\ UNCHANGED skipped
       \/ skipped' = skipped \cup {r} /\ UNCHANGED found     \* GET failed
    /\ UNCHANGED <<daemon, key, responder, notifier, sent, closed, revived, dropped>>

Delete_Skipped == UNCHANGED key
Delete == key' = key \ {found}

CancelByConn ==
    /\ found # None
    /\ \/ Delete /\ UNCHANGED skipped
       \/ skipped' = skipped \cup {found} /\ UNCHANGED key    \* DEL failed
    /\ closed' = closed \cup {found}
    /\ found' = None
    /\ UNCHANGED <<daemon, responder, notifier, todo, sent, revived, dropped>>

(* The iterator ends with the last key, or at a SCAN that fails.           *)
ScanDone ==
    /\ life = "closing"
    /\ found = None
    /\ life' = "closed"
    /\ todo' = {}
    /\ skipped' = skipped \cup todo
    /\ UNCHANGED <<asked, key, responder, notifier, found, sent, closed, revived, dropped>>

(* The TTL of five minutes. *)
Expire(r) ==
    /\ r \in key
    /\ key' = key \ {r}
    /\ closed' = closed \cup {r}
    /\ UNCHANGED <<daemon, responder, notifier, scan, sent, revived, errors>>

-----------------------------------------------------------------------------
Next ==
    \/ \E r \in Requests : Store(r) \/ ResolvedLocally(r) \/ ScanKey(r) \/ Expire(r)
    \/ \E u \in Responders : (\E r \in Requests : Resolve(u, r)) \/ SendDecision(u) \/ Restore(u)
    \/ \E n \in Notifiers : (\E r \in Requests : ReadForUpdate(n, r)) \/ WriteUpdate(n)
    \/ Disconnect \/ CancelByConn \/ ScanDone

Spec == Init /\ [][Next]_vars

-----------------------------------------------------------------------------
(* Properties *)

(* The types of the variables; a key is there only for what was asked, and *)
(* keys are deleted only while the connection closes.                      *)
TypeOK ==
    /\ life \in {"open", "closing", "closed"}
    /\ asked \in SUBSET Requests
    /\ key \in SUBSET asked
    /\ responder \in [Responders ->
            [step : {"idle", "sending", "failed", "refused", "requeued", "done"},
             request : Requests \cup {None}]]
    /\ notifier \in [Notifiers ->
            [step : {"idle", "writing", "done"}, request : Requests \cup {None}]]
    /\ todo \in SUBSET asked
    /\ found \in asked \cup {None}
    /\ found # None => life = "closing"
    /\ sent \in [Requests -> Nat]
    /\ closed \in SUBSET asked
    /\ revived \in SUBSET asked
    /\ dropped \in SUBSET asked
    /\ skipped \in SUBSET asked

(* "first caller wins": whatever the responders, the daemon and the scans  *)
(* do, a request that UpdateChannelMsg did not write back is decided once. *)
DecidedOnce == \A r \in Requests : r \notin revived => sent[r] <= 1

(* No request gets lost: until it is decided, resolved by the daemon,      *)
(* expired or cancelled, it is in Redis or in the hands of one responder,  *)
(* one whose delivery failed included.  Only a command of Redis that fails *)
(* loses it: the store, the script whose answer is lost, or the re-store.  *)
NeverLost ==
    \A r \in asked \ dropped : r \notin closed /\ sent[r] = 0 =>
        \/ r \in key
        \/ \E u \in Responders : /\ responder[u].request = r
                                 /\ responder[u].step \in {"sending", "failed"}

(* After a disconnect nothing is left of the connection's requests but     *)
(* what a responder or UpdateChannelMsg brought back, and what the scan    *)
(* had to leave because a command of Redis failed.                         *)
OnlyRestoredRemain ==
    life = "closed" => \A r \in key \ skipped :
        \/ r \in revived
        \/ \E u \in Responders : responder[u] = At("requeued", r)
=============================================================================
