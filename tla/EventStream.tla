---------------------------- MODULE EventStream ----------------------------
(***************************************************************************)
(* The event stream of one workflow and a client that follows it:          *)
(* internal/streaming/manager.go, the SSE, WebSocket and gRPC handlers     *)
(* (internal/httpapi, internal/server/streaming_service.go) and the        *)
(* worker's publisher (events.py).                                         *)
(*                                                                         *)
(* Publishers append to a capped Redis stream.  A handler first replays    *)
(* what its client missed, then subscribes: a reader goroutine copies the  *)
(* stream into a bounded channel, and drops what does not fit; the handler *)
(* writes the channel to the client.  The client may lose its connection   *)
(* at any time and comes back with the last id, or the last sequence       *)
(* number, it has seen.  Clients do not affect each other: here is one.    *)
(***************************************************************************)
EXTENDS Naturals, Sequences, Functions

CONSTANTS
    Publishers,
    Script,      \* the types of the events each publisher publishes
    Filters,     \* the sets of types a client may ask for
    Capacity,    \* the stream's cap; trimming is approximate
    Buffer,      \* size of a subscriber's channel
    Count,       \* entries of one XREAD
    MaxConnects, \* bound: connections of the client
    MaxFaults    \* bound: INCRs, XADDs and XRANGEs that fail

Types == {"note", "completed", "end"}

ASSUME StreamAssumption ==
    /\ Script \in [Publishers -> Seq(Types)]
    /\ Filters \subseteq SUBSET Types
    /\ {Capacity, Buffer, Count} \subseteq Nat \ {0}
    /\ {MaxConnects, MaxFaults} \subseteq Nat

VARIABLES
    log,       \* every entry ever added; its place is its stream id
    first,     \* the oldest entry the stream still holds
    seq,       \* the sequence counter
    publisher, \* where each publisher stands
    faults,    \* Redis commands that have failed so far
    handler,   \* the handler of the client's connection
    reader,    \* its reader goroutine
    channel,   \* ids in the subscriber's channel
    client,    \* the client: what it asks for and the last id it has
    got,       \* the ids the client was given, in order
    lost,      \* history: ids dropped, trimmed or hidden by their numbers
    passed     \* history: ids added before a "$" was evaluated

stream == <<log, first, seq, publisher, faults>>
server == <<handler, reader, channel>>
vars == <<stream, server, client, got, lost, passed>>

NoHandler == [at |-> "none", todo |-> {}, sent |-> 0, resumed |-> FALSE,
              seen |-> FALSE, completed |-> FALSE]
NoReader == [mode |-> "from", last |-> 0, upto |-> 0]

Init ==
    /\ log = <<>>
    /\ first = 1
    /\ seq = 0
    /\ publisher = [p \in Publishers |-> [next |-> 1, number |-> 0, busy |-> FALSE]]
    /\ faults = 0
    /\ handler = NoHandler
    /\ reader = NoReader
    /\ channel = <<>>
    /\ client \in [wants : Filters, by : {"id", "seq"}, via : {"sse", "ws", "grpc"},
                   last : {0}, connects : {0}]
    /\ got = <<>>
    /\ lost = {}
    /\ passed = {}

MaxEvents == FoldFunction(LAMBDA script, n : Len(script) + n, 0, Script)

Ids == 1..Len(log)
Wanted(i) == log[i].type \in client.wants
Received == {got[n] : n \in 1..Len(got)}
Least(m, n) == IF m < n THEN m ELSE n
Greatest(m, n) == IF m < n THEN n ELSE m

-----------------------------------------------------------------------------
(* Publish: INCR, then XADD *)

(* A failed INCR leaves the number 0 and the event is published all the    *)
(* same.                                                                   *)
Number(p) ==
    /\ ~publisher[p].busy
    /\ publisher[p].next <= Len(Script[p])
    /\ \/ /\ seq' = seq + 1
          /\ publisher' = [publisher EXCEPT ![p].busy = TRUE, ![p].number = seq + 1]
          /\ UNCHANGED faults
       \/ /\ faults < MaxFaults
          /\ faults' = faults + 1
          /\ publisher' = [publisher EXCEPT ![p].busy = TRUE, ![p].number = 0]
          /\ UNCHANGED seq
    /\ UNCHANGED <<log, first, server, client, got, lost, passed>>

Entry(p) == [type |-> Script[p][publisher[p].next], seq |-> publisher[p].number]

(* XADD with MAXLEN ~: what is over the cap may go, or stay for now.  When *)
(* it fails the event is lost to everybody and only a log line says so.    *)
Add(p) ==
    /\ publisher[p].busy
    /\ publisher' = [publisher EXCEPT ![p].busy = FALSE, ![p].next = @ + 1]
    /\ \/ /\ log' = Append(log, Entry(p))
          /\ \/ first' = first
             \/ /\ Len(log) + 1 >= first + Capacity
                /\ first' = Len(log) + 2 - Capacity
          /\ UNCHANGED faults
       \/ /\ faults < MaxFaults
          /\ faults' = faults + 1
          /\ UNCHANGED <<log, first>>
    /\ UNCHANGED <<seq, server, client, got, lost, passed>>

-----------------------------------------------------------------------------
(* A connection is made: replay, then subscribe *)

(* The resume point the handler parses from Last-Event-ID: nothing, a      *)
(* stream id, or a number of which zero counts as nothing.                 *)
Resumes == client.last # 0 /\ (client.by = "seq" => log[client.last].seq > 0)

(* ReplayFromStreamID *)
After_Inclusive(id) == {i \in Ids : i >= id}
After(id) == {i \in Ids : i > id}

(* ReplaySince: "Skip if not after 'since'" *)
Since(n) == {i \in Ids : log[i].seq > n}

Beyond == IF client.by = "id" THEN After(client.last) ELSE Since(log[client.last].seq)

(* The handler reads what the stream still holds; an XRANGE that fails     *)
(* gives it nothing.  What it cannot send any more is noted in "lost".     *)
Missed == IF Resumes THEN {i \in Beyond : i >= first} ELSE {}

ReadMissed(replay) ==
    \/ replay = Missed /\ UNCHANGED faults
    \/ Resumes /\ replay = {} /\ faults < MaxFaults /\ faults' = faults + 1

Connect ==
    /\ handler.at = "none"
    /\ client.connects < MaxConnects
    /\ client' = [client EXCEPT !.connects = @ + 1]
    /\ \E replay \in {Missed, {}} :
        /\ ReadMissed(replay)
        /\ handler' = [at |-> "replaying", todo |-> {i \in replay : Wanted(i)}, sent |-> 0,
                       resumed |-> Resumes, seen |-> replay # {}, completed |-> FALSE]
    /\ lost' = IF Resumes
               THEN lost \cup {i \in Ids : i < first \/ (client.by = "seq" /\ i \notin Beyond)}
               ELSE lost
    /\ UNCHANGED <<log, first, seq, publisher, reader, channel, got, passed>>

(* The client is given an event and remembers its id. *)
Deliver(i) == got' = Append(got, i) /\ client' = [client EXCEPT !.last = i]

Sent(i) == handler' = [handler EXCEPT !.todo = @ \ {i}, !.sent = i]

(* It writes them one by one, in the order of the stream. *)
Replay ==
    /\ handler.at = "replaying"
    /\ \E i \in handler.todo : (\A j \in handler.todo : i <= j) /\ Sent(i) /\ Deliver(i)
    /\ UNCHANGED <<stream, reader, channel, lost, passed>>

(* Where the subscription starts: after the last event replayed, at the    *)
(* beginning, or "$", new entries only.                                    *)
StartFrom_Newest == [mode |-> "from", last |-> Len(log), upto |-> Len(log)]
StartFrom ==
    CASE handler.sent # 0 -> [mode |-> "from", last |-> handler.sent, upto |-> handler.sent]
      [] handler.sent = 0 /\ ~handler.resumed -> NoReader
      [] OTHER -> [mode |-> "$", last |-> 0, upto |-> 0]

Subscribe ==
    /\ handler.at = "replaying"
    /\ handler.todo = {}
    /\ handler' = [handler EXCEPT !.at = "open"]
    /\ reader' = StartFrom
    /\ UNCHANGED <<stream, channel, client, got, lost, passed>>

-----------------------------------------------------------------------------
(* streamReaderFrom *)

(* XREAD from "$" waits for entries newer than those there are now.        *)
ReadNew ==
    /\ handler.at = "open"
    /\ reader.mode = "$"
    /\ reader' = [mode |-> "waiting", last |-> Len(log), upto |-> Len(log)]
    /\ passed' = passed \cup (Ids \ Received)
    /\ UNCHANGED <<stream, handler, channel, client, got, lost>>

(* The block ran out, or the command failed: the loop asks for "$" again.  *)
ReadNothing ==
    /\ reader.mode = "waiting"
    /\ reader' = [mode |-> "$", last |-> 0, upto |-> 0]
    /\ UNCHANGED <<stream, handler, channel, client, got, lost, passed>>

(* XREAD returns up to Count entries the stream still holds. *)
Read ==
    LET from == Greatest(reader.last, first - 1)
    IN /\ handler.at = "open"
       /\ reader.mode # "$"
       /\ reader.last = reader.upto
       /\ Len(log) > reader.last
       /\ reader' = [mode |-> "from", last |-> from, upto |-> Least(from + Count, Len(log))]
       /\ lost' = lost \cup (reader.last + 1)..from
       /\ UNCHANGED <<stream, handler, channel, client, got, passed>>

Room_OneMore == Len(channel) <= Buffer
Room == Len(channel) < Buffer

(* One entry of the batch is sent to the channel, or dropped when it is    *)
(* full.                                                                   *)
Forward ==
    LET i == reader.last + 1
    IN /\ reader.last < reader.upto
       /\ reader' = [reader EXCEPT !.last = i]
       /\ \/ /\ Room
             /\ channel' = Append(channel, i)
             /\ UNCHANGED lost
          \/ /\ ~Room
             /\ lost' = lost \cup {i}
             /\ UNCHANGED channel
       /\ UNCHANGED <<stream, handler, client, got, passed>>

-----------------------------------------------------------------------------
(* The handler's loop *)

(* The event after which each handler returns.  Over SSE a completion only *)
(* starts a timer, unless the client has not asked to see it; gRPC ends    *)
(* with the completion; a WebSocket is left to its client.                 *)
SseEnds_WhenWanted(i) == log[i].type = "end" /\ Wanted(i)
SseEnds(i) == log[i].type = "end" \/ (log[i].type = "completed" /\ ~Wanted(i))

GrpcEnds(i) == log[i].type = "completed"

Ends(i) == \/ client.via = "sse" /\ SseEnds(i)
           \/ client.via = "grpc" /\ GrpcEnds(i)

(* The deferred Unsubscribe: the reader is cancelled and its channel goes. *)
Unsubscribe ==
    /\ handler' = NoHandler
    /\ reader' = NoReader
    /\ channel' = <<>>

(* One event from the channel: filtered, written, and perhaps the last.    *)
Receive ==
    LET i == Head(channel)
    IN /\ handler.at = "open"
       /\ channel # <<>>
       /\ IF Wanted(i)
          THEN Deliver(i)
          ELSE UNCHANGED <<got, client>>
       /\ \/ Ends(i) /\ Unsubscribe
          \/ /\ ~Ends(i)
             /\ channel' = Tail(channel)
             /\ handler' = [handler EXCEPT !.seen = TRUE,
                                           !.completed = @ \/ log[i].type = "completed"]
             /\ UNCHANGED reader
       /\ UNCHANGED <<stream, lost, passed>>

(* No event for 30 s and Temporal does not know the workflow, or cannot be *)
(* asked.  If it does know it the timer starts again.                      *)
FirstEventTimeout ==
    /\ handler.at = "open"
    /\ client.via # "ws"
    /\ ~handler.seen
    /\ Unsubscribe
    /\ UNCHANGED <<stream, client, got, lost, passed>>

(* 30 s without an event after the completion *)
CompletedTimeout ==
    /\ handler.at = "open"
    /\ client.via = "sse"
    /\ handler.completed
    /\ Unsubscribe
    /\ UNCHANGED <<stream, client, got, lost, passed>>

(* The client leaves, or its connection breaks. *)
Disconnect ==
    /\ handler.at # "none"
    /\ Unsubscribe
    /\ UNCHANGED <<stream, client, got, lost, passed>>

-----------------------------------------------------------------------------
Publish == \E p \in Publishers : Number(p) \/ Add(p)
ReaderStep == ReadNew \/ ReadNothing \/ Read \/ Forward
HandlerStep == Replay \/ Subscribe \/ Receive
Next == Publish \/ Connect \/ ReaderStep \/ HandlerStep
        \/ FirstEventTimeout \/ CompletedTimeout \/ Disconnect

Spec == Init /\ [][Next]_vars

(* The goroutines of a connection go on: the handler always returns to its *)
(* select, the reader to its XREAD, and Redis answers in the end.          *)
Fairness == WF_vars(ReadNew) /\ WF_vars(Read) /\ WF_vars(Forward) /\ WF_vars(HandlerStep)
FairSpec == Spec /\ Fairness

-----------------------------------------------------------------------------
(* Properties *)

EventType == [type : Types, seq : Nat]
PublisherType == [next : Nat, number : Nat, busy : BOOLEAN]
HandlerType == [at : {"none", "replaying", "open"}, todo : SUBSET Ids, sent : {0} \cup Ids,
                resumed : BOOLEAN, seen : BOOLEAN, completed : BOOLEAN]
ReaderType == [mode : {"from", "$", "waiting"}, last : {0} \cup Ids, upto : {0} \cup Ids]
ClientType == [wants : Filters, by : {"id", "seq"}, via : {"sse", "ws", "grpc"},
               last : {0} \cup Ids, connects : 0..MaxConnects]

TypeOK ==
    /\ log \in Seq(EventType)
    /\ first \in Nat \ {0}
    /\ seq \in Nat
    /\ publisher \in [Publishers -> PublisherType]
    /\ faults \in 0..MaxFaults
    /\ handler \in HandlerType
    /\ reader \in ReaderType
    /\ channel \in Seq(Ids) /\ Len(channel) <= Buffer
    /\ client \in ClientType
    /\ got \in Seq(Ids)
    /\ lost \subseteq Ids
    /\ passed \subseteq Ids

(* A client that resumes by stream id is given every event at most once    *)
(* and in the order of the stream, across all its connections and the      *)
(* seam between the replay and the subscription of each.                   *)
InOrder == client.by = "id" => \A m, n \in 1..Len(got) : m < n => got[m] < got[n]

(* What the client has by now: all that its reader has passed, or, while   *)
(* there is none, all up to the last id it was given.                      *)
Reached == IF handler.at = "open" /\ reader.mode = "from" THEN reader.last ELSE client.last

(* Every event the client asked for, up to that point, it has been given   *)
(* or will find in the channel.  The exceptions are those the code makes:  *)
(* the channel was full, the stream was trimmed, the event's number was    *)
(* not above the client's (publishers number and add in two steps), or a   *)
(* resumed client with nothing to replay was subscribed at "$".            *)
NothingSkipped ==
    \A i \in 1..Reached :
        Wanted(i) => i \in Received \cup {channel[n] : n \in 1..Len(channel)} \cup lost \cup passed

(* The entry is ahead of the reader, or already in the channel. *)
Due(i) ==
    /\ handler.at = "open"
    /\ i \in Ids
    /\ \/ reader.mode # "$" /\ i > reader.last
       \/ \E n \in 1..Len(channel) : channel[n] = i

(* The event that ends a connection: nothing ends a WebSocket but its client. *)
LastFor == CASE client.via = "sse" -> {"end"} [] client.via = "grpc" -> {"completed"} [] OTHER -> {}

(* A connection whose last event is due is closed after it, whatever the   *)
(* filter and however many connections came before: it does not stay open  *)
(* with heartbeats only, unless that very event was dropped or trimmed.    *)
EndCloses ==
    \A i \in 1..MaxEvents :
        (Due(i) /\ log[i].type \in LastFor) ~> (handler.at = "none" \/ i \in lost \cup passed)

=============================================================================
