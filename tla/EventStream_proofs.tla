-------------------------- MODULE EventStream_proofs --------------------------
(***************************************************************************)
(* The safety of EventStream for any publishers, scripts, filters, bounds  *)
(* and connections.                                                        *)
(*                                                                         *)
(* A connection hands over between four places: what the client has, what  *)
(* is to be replayed, what is in the channel, and where the reader stands. *)
(* NothingSkipped and InOrder speak of one point of the stream; to be kept *)
(* by every step they need to know, for each of the places, that nothing   *)
(* wanted lies before it unaccounted for (Base, Backlog, Front) and that   *)
(* it begins after the one before it (Ahead); Queue says that the channel  *)
(* is in order and empty unless a reader runs.                             *)
(***************************************************************************)
EXTENDS EventStream, TLAPS

Chan == {channel[n] : n \in 1..Len(channel)}
Given == Received \cup lost \cup passed

(* A publisher between INCR and XADD has an event to add.                  *)
Busy ==
    \A p \in Publishers :
        publisher[p].next >= 1 /\ (publisher[p].busy => publisher[p].next <= Len(Script[p]))

(* The stream may be empty, but it is not trimmed beyond its end.          *)
Window == first <= Len(log) + 1

(* Nothing up to the client's last id is missing.                          *)
Base == \A i \in 1..client.last : Wanted(i) => i \in Given

(* Nothing before an event that will be replayed is missing.               *)
Backlog ==
    \A j \in handler.todo : \A i \in 1..(j-1) : Wanted(i) => i \in handler.todo \cup Given

(* A handler that resumes nothing replays nothing, nor does it later.      *)
Fresh ==
    /\ handler.at = "replaying" /\ ~handler.resumed =>
          handler.todo = {} /\ (client.by = "id" => client.last = 0)
    /\ handler.at # "replaying" => handler.todo = {}

SentIsLast == handler.at = "replaying" /\ handler.sent # 0 => handler.sent = client.last

(* Nothing the reader has passed is missing.                               *)
Front ==
    handler.at = "open" /\ reader.mode # "$" =>
        \A i \in 1..reader.last : Wanted(i) => i \in Given \cup Chan

Queue ==
    /\ \A m, n \in 1..Len(channel) : m < n => channel[m] < channel[n]
    /\ \A n \in 1..Len(channel) : channel[n] <= reader.last
    /\ handler.at # "open" => channel = <<>> /\ reader = NoReader
    /\ reader.mode # "from" => channel = <<>> /\ reader.last = reader.upto
    /\ reader.last <= reader.upto

(* By stream ids, the places lie one after the other.                      *)
Ahead ==
    client.by = "id" =>
        /\ \A n \in 1..Len(got) : got[n] <= client.last
        /\ \A i \in handler.todo : i > client.last
        /\ handler.at = "open" /\ reader.mode # "$" => reader.last >= client.last
        /\ \A n \in 1..Len(channel) : channel[n] > client.last

(* The inductive invariant. *)
IInv == /\ TypeOK /\ Busy /\ Window /\ Base /\ Backlog /\ Fresh /\ SentIsLast /\ Front /\ Queue
        /\ Ahead /\ InOrder

-----------------------------------------------------------------------------
(* Sequences *)

LEMMA Widen ==
    ASSUME NEW S, NEW T, S \subseteq T, NEW s \in Seq(S)
    PROVE  s \in Seq(T)
  OBVIOUS

LEMMA Appended ==
    ASSUME NEW S, NEW s \in Seq(S), NEW e \in S
    PROVE  /\ Append(s, e) \in Seq(S) /\ Len(Append(s, e)) = Len(s) + 1 /\ Len(s) \in Nat
           /\ \A n \in 1..Len(s) : Append(s, e)[n] = s[n]
           /\ Append(s, e)[Len(s) + 1] = e
  OBVIOUS

LEMMA Shortened ==
    ASSUME NEW S, NEW s \in Seq(S), s # <<>>
    PROVE  /\ Tail(s) \in Seq(S) /\ Len(s) >= 1 /\ Len(Tail(s)) = Len(s) - 1
           /\ \A n \in 1..Len(Tail(s)) : Tail(s)[n] = s[n+1] /\ n + 1 \in 1..Len(s)
           /\ Head(s) = s[1] /\ Head(s) \in S
  OBVIOUS

-----------------------------------------------------------------------------
(* The types *)

LEMMA Blank ==
    /\ NoHandler = [at |-> "none", todo |-> {}, sent |-> 0, resumed |-> FALSE,
                    seen |-> FALSE, completed |-> FALSE]
    /\ NoHandler.at = "none" /\ NoHandler.todo = {} /\ NoHandler.sent = 0
    /\ NoReader = [mode |-> "from", last |-> 0, upto |-> 0]
    /\ NoReader.mode = "from" /\ NoReader.last = 0 /\ NoReader.upto = 0
  BY DEF NoHandler, NoReader

LEMMA Bounds ==
    /\ MaxFaults \in Nat /\ MaxConnects \in Nat
    /\ Capacity \in Nat \ {0} /\ Buffer \in Nat \ {0} /\ Count \in Nat \ {0}
    /\ Script \in [Publishers -> Seq(Types)]
  BY StreamAssumption

LEMMA Element ==
    ASSUME NEW S, NEW s \in Seq(S)
    PROVE  Len(s) \in Nat /\ \A n \in 1..Len(s) : s[n] \in S
  OBVIOUS

LEMMA IdsFacts ==
    ASSUME TypeOK
    PROVE  /\ Len(log) \in Nat /\ Ids = 1..Len(log) /\ Ids \subseteq Nat /\ 0 \notin Ids
           /\ \A i \in Ids : log[i] \in EventType
           /\ client.last \in {0} \cup Ids
           /\ handler.todo \subseteq Ids
<1>1. log \in Seq(EventType)
  BY DEF TypeOK
<1>2. Len(log) \in Nat /\ \A n \in 1..Len(log) : log[n] \in EventType
  BY <1>1, Element
<1>3. client.last \in {0} \cup Ids /\ handler.todo \subseteq Ids
  BY DEF TypeOK, HandlerType, ClientType
<1> QED BY <1>2, <1>3 DEF Ids

LEMMA InitTypes == Init => TypeOK /\ Busy
<1> SUFFICES ASSUME Init PROVE TypeOK /\ Busy
  OBVIOUS
<1>1. log = <<>> /\ channel = <<>> /\ got = <<>>
  BY DEF Init
<1>2. log \in Seq(EventType) /\ channel \in Seq(Ids) /\ Len(channel) = 0 /\ got \in Seq(Ids)
  BY <1>1
<1>3. publisher \in [Publishers -> PublisherType] /\ Busy
  BY DEF Init, PublisherType, Busy
<1>4. handler \in HandlerType /\ reader \in ReaderType
  BY Blank DEF Init, HandlerType, ReaderType
<1>5. client \in ClientType
  BY Bounds DEF Init, ClientType
<1> QED BY <1>2, <1>3, <1>4, <1>5, Bounds DEF Init, TypeOK

LEMMA NumberTypes ==
    ASSUME TypeOK, Busy, NEW p \in Publishers, Number(p)
    PROVE  TypeOK' /\ Busy'
<1>1. PICK n \in Nat : publisher' = [publisher EXCEPT ![p].busy = TRUE, ![p].number = n]
  <2>1. seq + 1 \in Nat /\ 0 \in Nat
    BY DEF TypeOK
  <2>2. \/ publisher' = [publisher EXCEPT ![p].busy = TRUE, ![p].number = seq + 1]
        \/ publisher' = [publisher EXCEPT ![p].busy = TRUE, ![p].number = 0]
    BY DEF Number
  <2> QED BY <2>1, <2>2
<1>2. ~publisher[p].busy /\ publisher[p].next <= Len(Script[p])
  BY DEF Number
<1>3. publisher \in [Publishers -> PublisherType]
  BY DEF TypeOK
<1>4. /\ \A q \in Publishers \ {p} : publisher'[q] = publisher[q]
      /\ publisher'[p] = [publisher[p] EXCEPT !.busy = TRUE, !.number = n]
      /\ publisher' \in [Publishers -> PublisherType]
  BY <1>1, <1>3 DEF PublisherType
<1>5. publisher'[p].next = publisher[p].next
  BY <1>3, <1>4 DEF PublisherType
<1>6. Busy'
  BY <1>2, <1>4, <1>5 DEF Busy
<1>7. seq' \in Nat /\ faults' \in 0..MaxFaults
  <2>1. seq \in Nat /\ faults \in 0..MaxFaults /\ MaxFaults \in Nat
    BY Bounds DEF TypeOK
  <2>2. \/ seq' = seq + 1 /\ faults' = faults
        \/ faults < MaxFaults /\ faults' = faults + 1 /\ seq' = seq
    BY DEF Number
  <2> QED BY <2>1, <2>2
<1>8. UNCHANGED <<log, first, handler, reader, channel, client, got, lost, passed>>
  BY DEF Number, server
<1>9. Ids' = Ids
  BY <1>8 DEF Ids
<1> QED BY <1>4, <1>6, <1>7, <1>8, <1>9 DEF TypeOK, HandlerType, ReaderType, ClientType

LEMMA AddTypes ==
    ASSUME TypeOK, Busy, Window, NEW p \in Publishers, Add(p)
    PROVE  TypeOK' /\ Busy' /\ Window'
<1>0. publisher \in [Publishers -> PublisherType] /\ log \in Seq(EventType)
  BY DEF TypeOK
<1>1. publisher' = [publisher EXCEPT ![p].busy = FALSE, ![p].next = publisher[p].next + 1]
  BY DEF Add
<1>2. publisher' \in [Publishers -> PublisherType] /\ Busy'
  BY <1>0, <1>1 DEF PublisherType, Busy
<1>3. log' \in Seq(EventType) /\ Ids \subseteq Ids'
  <2>1. Script[p] \in Seq(Types) /\ publisher[p].next \in 1..Len(Script[p])
    <3>1. publisher[p].next \in Nat /\ publisher[p].next >= 1 /\ publisher[p].next <= Len(Script[p])
      BY <1>0 DEF Add, Busy, PublisherType
    <3>2. Script[p] \in Seq(Types)
      BY Bounds
    <3>3. Len(Script[p]) \in Nat
      BY <3>2
    <3> QED BY <3>1, <3>2, <3>3
  <2>2. Script[p][publisher[p].next] \in Types
    BY <2>1, Element
  <2>3. Entry(p) \in EventType
    BY <1>0, <2>2 DEF PublisherType, EventType, Entry
  <2>4. CASE log' = Append(log, Entry(p))
    BY <1>0, <2>3, <2>4, Appended DEF Ids
  <2>5. CASE log' = log
    BY <1>0, <2>5 DEF Ids
  <2> QED BY <2>4, <2>5 DEF Add
<1>4. first' \in Nat \ {0} /\ faults' \in 0..MaxFaults
  <2>1. Len(log) \in Nat /\ first \in Nat \ {0} /\ faults \in 0..MaxFaults
    BY IdsFacts DEF TypeOK
  <2>2. \/ first' = first
        \/ Len(log) + 1 >= first + Capacity /\ first' = Len(log) + 2 - Capacity
    BY DEF Add
  <2>3. UNCHANGED faults \/ (faults < MaxFaults /\ faults' = faults + 1)
    BY DEF Add
  <2> QED BY <2>1, <2>2, <2>3, Bounds
<1>5. UNCHANGED <<seq, handler, reader, channel, client, got, lost, passed>>
  BY DEF Add, server
<1>8. Window'
  <2>1. Len(log) \in Nat /\ first \in Nat \ {0} /\ log \in Seq(EventType)
    BY IdsFacts DEF TypeOK
  <2>2. CASE log' = Append(log, Entry(p))
    <3>1. Len(log') = Len(log) + 1
      BY <2>1, <2>2
    <3>2. first' = first \/ first' = Len(log) + 2 - Capacity
      BY <2>2 DEF Add
    <3> QED BY <2>1, <3>1, <3>2, Bounds DEF Window
  <2>3. CASE UNCHANGED <<log, first>>
    BY <2>3 DEF Window
  <2> QED BY <2>2, <2>3 DEF Add
<1>6. channel' \in Seq(Ids') /\ got' \in Seq(Ids') /\ Len(channel') <= Buffer
  BY <1>3, <1>5, Widen DEF TypeOK
<1>7. handler' \in HandlerType' /\ reader' \in ReaderType' /\ client' \in ClientType'
  BY <1>3, <1>5 DEF TypeOK, HandlerType, ReaderType, ClientType
<1> QED BY <1>2, <1>3, <1>4, <1>5, <1>6, <1>7, <1>8 DEF TypeOK

(* What a connection starts with.                                          *)
LEMMA ConnectFacts ==
    ASSUME TypeOK, Connect
    PROVE  /\ handler' \in HandlerType /\ client' \in ClientType
           /\ handler.at = "none" /\ handler'.at = "replaying" /\ handler'.sent = 0
           /\ handler'.resumed = Resumes
           /\ \/ handler'.todo = {}
              \/ /\ Resumes
                 /\ handler'.todo = {i \in Ids : i \in Beyond /\ i >= first /\ Wanted(i)}
           /\ UNCHANGED <<log, first, seq, publisher>> /\ faults' \in 0..MaxFaults
           /\ client'.last = client.last /\ client'.wants = client.wants
           /\ client'.by = client.by
<1>0. PICK replay \in {Missed, {}} :
        /\ ReadMissed(replay)
        /\ handler' = [at |-> "replaying", todo |-> {i \in replay : Wanted(i)}, sent |-> 0,
                       resumed |-> Resumes, seen |-> replay # {}, completed |-> FALSE]
  BY DEF Connect
<1> DEFINE todo == {i \in replay : Wanted(i)}
           new == [at |-> "replaying", todo |-> todo, sent |-> 0,
                   resumed |-> Resumes, seen |-> replay # {}, completed |-> FALSE]
<1>1. Beyond \subseteq Ids
  BY DEF Beyond, After, Since
<1>2. todo \subseteq Ids
  BY <1>1 DEF Missed
<1>3. handler.at = "none" /\ handler' = new /\ client.connects < MaxConnects
      /\ client' = [client EXCEPT !.connects = client.connects + 1]
      /\ UNCHANGED <<log, first, seq, publisher>>
  BY <1>0 DEF Connect
<1>4. Ids' = Ids
  BY <1>3 DEF Ids
<1>5. /\ client' \in ClientType
      /\ client'.last = client.last /\ client'.wants = client.wants /\ client'.by = client.by
  <2>1. client \in ClientType
    BY DEF TypeOK
  <2>2. client.connects + 1 \in 0..MaxConnects
    BY <1>3, <2>1, Bounds DEF ClientType
  <2> QED BY <1>3, <2>1, <2>2 DEF ClientType
<1>6. Resumes \in BOOLEAN
  BY DEF Resumes
<1>7. todo = {} \/ (Resumes /\ todo = {i \in Ids : i \in Beyond /\ i >= first /\ Wanted(i)})
  BY <1>1 DEF Missed
<1>10. faults' \in 0..MaxFaults
  BY <1>0, Bounds DEF ReadMissed, TypeOK
<1>8. (replay # {}) \in BOOLEAN
  OBVIOUS
<1> HIDE DEF todo
<1>9. new \in HandlerType /\ new.at = "replaying" /\ new.sent = 0 /\ new.resumed = Resumes
      /\ new.todo = todo
  BY <1>2, <1>6, <1>8 DEF HandlerType
<1> QED BY <1>3, <1>4, <1>5, <1>7, <1>9, <1>10

LEMMA DeliverFacts ==
    ASSUME TypeOK, NEW i \in Ids, Deliver(i)
    PROVE  /\ got' = Append(got, i)
           /\ client' \in ClientType /\ client'.last = i
           /\ client'.wants = client.wants /\ client'.by = client.by /\ client'.via = client.via
<1>1. client \in ClientType /\ client' = [client EXCEPT !.last = i]
  BY DEF TypeOK, Deliver
<1> QED BY <1>1 DEF Deliver, ClientType

LEMMA ReplayFacts ==
    ASSUME TypeOK, Replay
    PROVE  /\ handler.at = "replaying"
           /\ \E i \in handler.todo :
                 /\ \A j \in handler.todo : i <= j
                 /\ handler' \in HandlerType /\ handler'.at = "replaying"
                 /\ handler'.todo = handler.todo \ {i} /\ handler'.sent = i
                 /\ handler'.resumed = handler.resumed
                 /\ got' = Append(got, i)
                 /\ client' \in ClientType /\ client'.last = i
                 /\ client'.wants = client.wants /\ client'.by = client.by
           /\ UNCHANGED <<log, first, reader, channel, lost, passed>>
<1>0. handler \in HandlerType /\ client \in ClientType
  BY DEF TypeOK
<1>1. handler.at = "replaying" /\ UNCHANGED <<log, first, reader, channel, lost, passed>>
  BY DEF Replay, stream
<1>2. PICK i \in handler.todo : (\A j \in handler.todo : i <= j) /\ Sent(i) /\ Deliver(i)
  BY DEF Replay
<1>3. i \in Ids
  BY IdsFacts
<1>a. Ids' = Ids
  BY <1>1 DEF Ids
<1>4. /\ handler' \in HandlerType /\ handler'.at = handler.at
      /\ handler'.todo = handler.todo \ {i}
      /\ handler'.sent = i /\ handler'.resumed = handler.resumed
  BY <1>0, <1>2, <1>3 DEF Sent, HandlerType
<1> QED BY <1>0, <1>1, <1>2, <1>3, <1>4, DeliverFacts

LEMMA SubscribeFacts ==
    ASSUME TypeOK, Subscribe
    PROVE  /\ handler.at = "replaying" /\ handler.todo = {}
           /\ handler' \in HandlerType /\ handler'.at = "open" /\ handler'.todo = {}
           /\ reader' \in ReaderType
           /\ \/ /\ handler.sent # 0 /\ reader'.mode = "from"
                 /\ reader'.last = handler.sent /\ reader'.upto = handler.sent
              \/ handler.sent = 0 /\ ~handler.resumed /\ reader' = NoReader
              \/ reader'.mode = "$" /\ reader'.last = 0 /\ reader'.upto = 0
           /\ UNCHANGED <<log, first, channel, client, got, lost, passed>>
<1>0. handler \in HandlerType
  BY DEF TypeOK
<1>1. /\ handler.at = "replaying" /\ handler.todo = {}
      /\ handler' = [handler EXCEPT !.at = "open"] /\ reader' = StartFrom
      /\ UNCHANGED <<log, first, channel, client, got, lost, passed>>
  BY DEF Subscribe, stream
<1>2. handler' \in HandlerType /\ handler'.at = "open" /\ handler'.todo = {}
  BY <1>0, <1>1 DEF HandlerType
<1>3. handler.sent \in {0} \cup Ids
  BY <1>0 DEF HandlerType
<1>4. CASE handler.sent # 0
  BY <1>1, <1>2, <1>3, <1>4 DEF StartFrom, ReaderType
<1>5. CASE handler.sent = 0 /\ ~handler.resumed
  BY <1>1, <1>2, <1>5, Blank DEF StartFrom, ReaderType
<1>6. CASE handler.sent = 0 /\ handler.resumed
  <2>1. reader' = [mode |-> "$", last |-> 0, upto |-> 0]
    BY <1>0, <1>1, <1>6 DEF StartFrom, HandlerType
  <2> QED BY <1>1, <1>2, <2>1 DEF ReaderType
<1> QED BY <1>4, <1>5, <1>6

(* What the reader does leaves the handler and the client alone.           *)
LEMMA ReaderFacts ==
    ASSUME TypeOK, Window, ReaderStep
    PROVE  /\ reader' \in ReaderType /\ channel' \in Seq(Ids) /\ Len(channel') <= Buffer
           /\ lost' \subseteq Ids /\ passed' \subseteq Ids
           /\ lost \subseteq lost' /\ passed \subseteq passed'
           /\ UNCHANGED <<stream, handler, client, got>>
<1>0. /\ reader \in ReaderType /\ channel \in Seq(Ids) /\ Len(channel) <= Buffer
      /\ lost \subseteq Ids /\ passed \subseteq Ids /\ first \in Nat \ {0}
      /\ reader.last \in {0} \cup Ids /\ reader.upto \in {0} \cup Ids
  BY DEF TypeOK, ReaderType
<1>1. Len(log) \in Nat /\ Ids = 1..Len(log) /\ Len(log) \in {0} \cup Ids
  BY IdsFacts
<1>2. CASE ReadNew
  <2>1. reader' \in ReaderType
    BY <1>1, <1>2 DEF ReadNew, ReaderType
  <2> QED BY <1>0, <1>2, <2>1 DEF ReadNew
<1>3. CASE ReadNothing
  <2>1. reader' \in ReaderType
    BY <1>3 DEF ReadNothing, ReaderType
  <2> QED BY <1>0, <1>3, <2>1 DEF ReadNothing
<1>4. CASE Read
  <2> DEFINE from == Greatest(reader.last, first - 1)
             upto == Least(from + Count, Len(log))
  <2>1. /\ reader' = [mode |-> "from", last |-> from, upto |-> upto]
        /\ lost' = lost \cup (reader.last + 1)..from /\ Len(log) > reader.last
        /\ UNCHANGED <<stream, handler, channel, client, got, passed>>
    BY <1>4 DEF Read
  <2>2. from \in Nat /\ from >= reader.last /\ (from = reader.last \/ from = first - 1)
    BY <1>0, <1>1 DEF Greatest
  <2>3. from <= Len(log)
    BY <1>0, <1>1, <2>1, <2>2 DEF Window
  <2>4. upto \in Nat /\ upto <= Len(log)
    BY <1>1, <2>2, <2>3, Bounds DEF Least
  <2> HIDE DEF from, upto
  <2>5. reader' \in ReaderType
    BY <1>1, <2>1, <2>2, <2>3, <2>4 DEF ReaderType
  <2>6. (reader.last + 1)..from \subseteq Ids
    BY <1>0, <1>1, <2>2, <2>3
  <2> QED BY <1>0, <2>1, <2>5, <2>6
<1>5. CASE Forward
  <2>1. reader.last + 1 \in Ids
    BY <1>0, <1>1, <1>5 DEF Forward
  <2>2. reader' = [reader EXCEPT !.last = reader.last + 1]
    BY <1>5 DEF Forward
  <2>3. reader' \in ReaderType
    BY <1>0, <2>1, <2>2 DEF ReaderType
  <2>4. \/ Len(channel) < Buffer /\ channel' = Append(channel, reader.last + 1) /\ lost' = lost
        \/ lost' = lost \cup {reader.last + 1} /\ channel' = channel
    BY <1>5 DEF Forward, Room
  <2>5. channel' \in Seq(Ids) /\ Len(channel') <= Buffer
    BY <1>0, <2>1, <2>4, Appended, Bounds
  <2>6. UNCHANGED <<stream, handler, client, got, passed>>
    BY <1>5 DEF Forward
  <2> QED BY <1>0, <2>1, <2>3, <2>4, <2>5, <2>6
<1> QED BY <1>2, <1>3, <1>4, <1>5 DEF ReaderStep

LEMMA ReceiveFacts ==
    ASSUME TypeOK, Receive
    PROVE  /\ handler.at = "open" /\ channel # <<>> /\ Head(channel) \in Ids
           /\ \/ Wanted(Head(channel)) /\ Deliver(Head(channel))
              \/ ~Wanted(Head(channel)) /\ UNCHANGED <<got, client>>
           /\ \/ Unsubscribe
              \/ /\ channel' = Tail(channel) /\ reader' = reader
                 /\ handler' \in HandlerType /\ handler'.at = "open"
                 /\ handler'.todo = handler.todo
           /\ UNCHANGED <<stream, lost, passed>>
<1> DEFINE i == Head(channel)
           done == handler.completed \/ log[i].type = "completed"
           new == [handler EXCEPT !.seen = TRUE, !.completed = done]
<1>0. handler \in HandlerType /\ channel \in Seq(Ids)
  BY DEF TypeOK
<1>1. handler.at = "open" /\ channel # <<>> /\ UNCHANGED <<stream, lost, passed>>
  BY DEF Receive
<1>2. i \in Ids
  BY <1>0, <1>1, Shortened
<1>3. \/ Wanted(i) /\ Deliver(i)
      \/ ~Wanted(i) /\ UNCHANGED <<got, client>>
  BY DEF Receive
<1>4. Unsubscribe \/ (channel' = Tail(channel) /\ handler' = new /\ UNCHANGED reader)
  BY DEF Receive
<1>5. done \in BOOLEAN
  BY <1>0 DEF HandlerType
<1> HIDE DEF done
<1>6. new \in HandlerType /\ new.at = handler.at /\ new.todo = handler.todo
  BY <1>0, <1>5 DEF HandlerType
<1> QED BY <1>1, <1>2, <1>3, <1>4, <1>6

Closes == FirstEventTimeout \/ CompletedTimeout \/ Disconnect

LEMMA ClosesFacts ==
    ASSUME Closes
    PROVE  Unsubscribe /\ UNCHANGED <<stream, client, got, lost, passed>>
  BY DEF Closes, FirstEventTimeout, CompletedTimeout, Disconnect

LEMMA UnsubscribeFacts ==
    ASSUME Unsubscribe
    PROVE  /\ handler' = NoHandler /\ reader' = NoReader /\ channel' = <<>>
           /\ handler'.at = "none" /\ handler'.todo = {}
           /\ handler' \in HandlerType /\ reader' \in ReaderType
           /\ channel' \in Seq(Ids) /\ Len(channel') = 0
  BY Blank DEF Unsubscribe, HandlerType, ReaderType

LEMMA NextTypes ==
    ASSUME TypeOK, Busy, Window, [Next]_vars
    PROVE  TypeOK' /\ Busy' /\ Window'
<1>1. ASSUME UNCHANGED <<log, first, seq, publisher>>, faults' \in 0..MaxFaults,
             handler' \in HandlerType, reader' \in ReaderType,
             channel' \in Seq(Ids), Len(channel') <= Buffer,
             client' \in ClientType, got' \in Seq(Ids), lost' \subseteq Ids, passed' \subseteq Ids
      PROVE  TypeOK' /\ Busy' /\ Window'
  <2>1. Ids' = Ids
    BY <1>1 DEF Ids
  <2> QED BY <1>1, <2>1 DEF TypeOK, Busy, Window, HandlerType, ReaderType, ClientType
<1>2. /\ handler \in HandlerType /\ reader \in ReaderType /\ client \in ClientType
      /\ channel \in Seq(Ids) /\ Len(channel) <= Buffer
      /\ got \in Seq(Ids) /\ lost \subseteq Ids /\ passed \subseteq Ids
      /\ faults \in 0..MaxFaults
  BY DEF TypeOK
<1>3. ASSUME NEW p \in Publishers, Number(p) PROVE TypeOK' /\ Busy' /\ Window'
  <2>1. UNCHANGED <<log, first>>
    BY <1>3 DEF Number
  <2> QED BY <1>3, <2>1, NumberTypes DEF Window
<1>4. CASE Connect
  <2>1. UNCHANGED <<reader, channel, got, passed>> /\ lost' \subseteq Ids
    BY <1>2, <1>4 DEF Connect
  <2> QED BY <1>1, <1>2, <1>4, <2>1, ConnectFacts
<1>5. CASE Replay
  <2>1. PICK i \in handler.todo : /\ handler' \in HandlerType /\ got' = Append(got, i)
                                  /\ client' \in ClientType
    BY <1>5, ReplayFacts
  <2>2. UNCHANGED <<stream, reader, channel, lost, passed>>
    BY <1>5 DEF Replay
  <2>3. i \in Ids
    BY IdsFacts
  <2>4. got' \in Seq(Ids)
    BY <1>2, <2>1, <2>3, Appended
  <2> QED BY <1>1, <1>2, <2>1, <2>2, <2>4 DEF stream
<1>6. CASE Subscribe
  <2>1. UNCHANGED <<stream, channel, client, got, lost, passed>>
    BY <1>6 DEF Subscribe
  <2> QED BY <1>1, <1>2, <1>6, <2>1, SubscribeFacts DEF stream
<1>7. CASE ReaderStep
  BY <1>1, <1>2, <1>7, ReaderFacts DEF stream
<1>8. CASE Receive
  <2>1. client' \in ClientType /\ got' \in Seq(Ids)
    <3>1. CASE UNCHANGED <<got, client>>
      BY <1>2, <3>1
    <3>2. CASE Deliver(Head(channel))
      <4>1. Head(channel) \in Ids
        BY <1>8, ReceiveFacts
      <4>2. got' = Append(got, Head(channel)) /\ client' \in ClientType
        BY <3>2, <4>1, DeliverFacts
      <4> QED BY <1>2, <4>1, <4>2, Appended
    <3> QED BY <1>8, <3>1, <3>2, ReceiveFacts
  <2>2. /\ handler' \in HandlerType /\ reader' \in ReaderType
        /\ channel' \in Seq(Ids) /\ Len(channel') <= Buffer
    <3>1. CASE Unsubscribe
      BY <3>1, UnsubscribeFacts, Bounds
    <3>2. CASE handler' \in HandlerType /\ channel' = Tail(channel) /\ reader' = reader
      <4>1. Tail(channel) \in Seq(Ids) /\ Len(Tail(channel)) = Len(channel) - 1
        BY <1>2, <1>8, ReceiveFacts, Shortened
      <4>2. Len(channel) \in Nat
        BY <1>2
      <4> QED BY <1>2, <3>2, <4>1, <4>2, Bounds
    <3> QED BY <1>8, <3>1, <3>2, ReceiveFacts
  <2> QED BY <1>1, <1>2, <1>8, <2>1, <2>2, ReceiveFacts DEF stream
<1>9. CASE Closes
  BY <1>1, <1>2, <1>9, ClosesFacts, UnsubscribeFacts, Bounds DEF stream
<1>10. CASE UNCHANGED vars
  BY <1>1, <1>2, <1>10 DEF vars, stream, server
<1> QED BY <1>3, <1>4, <1>5, <1>6, <1>7, <1>8, <1>9, <1>10, AddTypes
        DEF Next, Publish, HandlerStep, Closes

-----------------------------------------------------------------------------
(* What a step leaves as it is *)

(* The events stay what they are, and what is accounted for stays so.      *)
LEMMA Grow ==
    ASSUME TypeOK, Window, TypeOK', [Next]_vars
    PROVE  /\ Ids \subseteq Ids' /\ \A i \in Ids : log'[i] = log[i]
           /\ client'.wants = client.wants /\ client'.by = client.by
           /\ Len(got) \in Nat /\ Len(got) <= Len(got') /\ \A n \in 1..Len(got) : got'[n] = got[n]
           /\ lost \subseteq lost' /\ passed \subseteq passed'
<1>0. log \in Seq(EventType) /\ got \in Seq(Ids)
  BY DEF TypeOK
<1>a. Len(log) \in Nat /\ Len(got) \in Nat
  BY <1>0, Element
<1>1. ASSUME UNCHANGED <<log, client, got>>, lost \subseteq lost', passed \subseteq passed'
      PROVE  /\ Ids \subseteq Ids' /\ \A i \in Ids : log'[i] = log[i]
             /\ client'.wants = client.wants /\ client'.by = client.by
             /\ Len(got) \in Nat /\ Len(got) <= Len(got') /\ \A n \in 1..Len(got) : got'[n] = got[n]
             /\ lost \subseteq lost' /\ passed \subseteq passed'
  BY <1>a, <1>1 DEF Ids
<1>2. ASSUME NEW i \in Ids, Deliver(i)
      PROVE  /\ client'.wants = client.wants /\ client'.by = client.by
             /\ Len(got) <= Len(got') /\ \A n \in 1..Len(got) : got'[n] = got[n]
  <2>1. got' = Append(got, i) /\ client'.wants = client.wants /\ client'.by = client.by
    BY <1>2, DeliverFacts
  <2>2. Len(got') = Len(got) + 1 /\ \A n \in 1..Len(got) : got'[n] = got[n]
    BY <1>0, <2>1, Appended
  <2> QED BY <1>a, <2>1, <2>2
<1>3. ASSUME NEW p \in Publishers, Number(p) PROVE UNCHANGED <<log, client, got, lost, passed>>
  BY <1>3 DEF Number
<1>4. ASSUME NEW p \in Publishers, Add(p)
      PROVE  /\ Ids \subseteq Ids' /\ (\A i \in Ids : log'[i] = log[i])
             /\ UNCHANGED <<client, got, lost, passed>>
  <2>1. Entry(p) \in EventType \/ log' = log
    <3>1. CASE log' = Append(log, Entry(p))
      <4>1. log' \in Seq(EventType) /\ log'[Len(log) + 1] = Entry(p) /\ Len(log') = Len(log) + 1
        BY <1>0, <3>1 DEF TypeOK
      <4> QED BY <1>a, <4>1, Element
    <3> QED BY <1>4, <3>1 DEF Add
  <2>2. CASE log' = log
    BY <1>4, <2>2 DEF Add, Ids
  <2>3. CASE log' = Append(log, Entry(p)) /\ Entry(p) \in EventType
    <3>1. Len(log') = Len(log) + 1 /\ \A n \in 1..Len(log) : log'[n] = log[n]
      BY <1>0, <2>3, Appended
    <3> QED BY <1>4, <1>a, <3>1 DEF Add, Ids
  <2> QED BY <1>4, <2>1, <2>2, <2>3 DEF Add
<1>5. CASE Connect
  <2>1. UNCHANGED <<log, got, passed>> /\ lost \subseteq lost'
    BY <1>5 DEF Connect, stream
  <2> QED BY <1>5, <1>a, <2>1, ConnectFacts DEF Ids
<1>6. CASE Replay
  <2>1. PICK i \in handler.todo : Deliver(i)
    BY <1>6 DEF Replay
  <2>2. i \in Ids /\ UNCHANGED <<log, lost, passed>>
    BY <1>6, IdsFacts DEF Replay, stream
  <2> QED BY <1>2, <1>a, <2>1, <2>2 DEF Ids
<1>7. CASE Subscribe
  BY <1>1, <1>7, SubscribeFacts
<1>8. CASE ReaderStep
  BY <1>1, <1>8, ReaderFacts DEF stream
<1>9. CASE Receive
  <2>1. UNCHANGED <<log, lost, passed>> /\ Head(channel) \in Ids
    BY <1>9, ReceiveFacts DEF stream
  <2>2. CASE UNCHANGED <<got, client>>
    BY <1>1, <2>1, <2>2
  <2>3. CASE Deliver(Head(channel))
    BY <1>2, <1>a, <2>1, <2>3 DEF Ids
  <2> QED BY <1>9, <2>2, <2>3, ReceiveFacts
<1>10. CASE Closes
  BY <1>1, <1>10, ClosesFacts DEF stream
<1>11. CASE UNCHANGED vars
  BY <1>1, <1>11 DEF vars, stream
<1> QED BY <1>1, <1>3, <1>4, <1>5, <1>6, <1>7, <1>8, <1>9, <1>10, <1>11, <1>a
        DEF Next, Publish, HandlerStep, Closes

LEMMA Accounted ==
    ASSUME TypeOK, Window, TypeOK', [Next]_vars
    PROVE  \A i \in Ids : (Wanted(i)' <=> Wanted(i)) /\ (i \in Given => i \in Given')
<1>1. \A i \in Ids : Wanted(i)' <=> Wanted(i)
  BY Grow DEF Wanted
<1>2. Received \subseteq Received'
  <2>1. /\ Len(got) \in Nat /\ Len(got) <= Len(got') /\ \A n \in 1..Len(got) : got'[n] = got[n]
    BY Grow
  <2>2. got' \in Seq(Ids')
    BY DEF TypeOK
  <2>3. Len(got') \in Nat
    BY <2>2, Element
  <2>4. ASSUME NEW n \in 1..Len(got) PROVE n \in 1..Len(got') /\ got'[n] = got[n]
    BY <2>1, <2>3
  <2> QED BY <2>4 DEF Received
<1> QED BY <1>1, <1>2, Grow DEF Given

LEMMA Delivered ==
    ASSUME TypeOK, NEW i \in Ids, Deliver(i)
    PROVE  /\ i \in Received' /\ client'.last = i
           /\ Len(got) \in Nat /\ Len(got') = Len(got) + 1 /\ got'[Len(got')] = i
           /\ \A n \in 1..Len(got) : got'[n] = got[n]
<1>1. got' = Append(got, i) /\ client'.last = i
  BY DeliverFacts
<1>2. /\ Len(got) \in Nat /\ Len(got') = Len(got) + 1 /\ got'[Len(got) + 1] = i
      /\ \A n \in 1..Len(got) : got'[n] = got[n]
  BY <1>1, Appended DEF TypeOK
<1>3. Len(got') \in 1..Len(got') /\ got'[Len(got')] = i
  BY <1>2
<1> QED BY <1>1, <1>2, <1>3 DEF Received

LEMMA Numbers ==
    ASSUME TypeOK
    PROVE  /\ Len(log) \in Nat /\ Ids = 1..Len(log)
           /\ reader.last \in 0..Len(log) /\ reader.upto \in 0..Len(log)
           /\ client.last \in 0..Len(log)
           /\ handler.todo \subseteq 1..Len(log)
           /\ Len(channel) \in Nat /\ \A n \in 1..Len(channel) : channel[n] \in 1..Len(log)
           /\ Len(got) \in Nat /\ \A n \in 1..Len(got) : got[n] \in 1..Len(log)
<1>1. reader.last \in {0} \cup Ids /\ reader.upto \in {0} \cup Ids /\ client.last \in {0} \cup Ids
      /\ handler.todo \subseteq Ids
  BY DEF TypeOK, ReaderType, ClientType, HandlerType
<1>2. Len(log) \in Nat /\ Ids = 1..Len(log)
  BY IdsFacts
<1>3. /\ Len(channel) \in Nat /\ \A n \in 1..Len(channel) : channel[n] \in Ids
      /\ Len(got) \in Nat /\ \A n \in 1..Len(got) : got[n] \in Ids
  BY Element DEF TypeOK
<1>4. \A i \in {0} \cup Ids : i \in 0..Len(log)
  BY <1>2
<1>5. reader.last \in 0..Len(log) /\ reader.upto \in 0..Len(log) /\ client.last \in 0..Len(log)
  BY <1>1, <1>4
<1> QED BY <1>1, <1>2, <1>3, <1>5

(* The event at the head of the channel.                                   *)
LEMMA HeadFacts ==
    ASSUME TypeOK, Queue, Receive
    PROVE  /\ Head(channel) = channel[1] /\ 1 \in 1..Len(channel)
           /\ reader.mode = "from" /\ Head(channel) <= reader.last /\ Head(channel) \in Ids
           /\ \A n \in 1..Len(channel) : n # 1 => Head(channel) < channel[n]
           /\ Chan \subseteq {Head(channel)} \cup {channel[n] : n \in 2..Len(channel)}
<1>1. channel # <<>> /\ channel \in Seq(Ids) /\ Head(channel) \in Ids
  BY ReceiveFacts DEF TypeOK
<1>2. Head(channel) = channel[1] /\ Len(channel) \in Nat /\ Len(channel) >= 1
  BY <1>1, Shortened, Element
<1>3. reader.mode = "from" /\ channel[1] <= reader.last
  BY <1>1, <1>2 DEF Queue
<1>4. \A n \in 1..Len(channel) : n # 1 => channel[1] < channel[n]
  BY <1>2 DEF Queue
<1> QED BY <1>1, <1>2, <1>3, <1>4 DEF Chan

(* The steps that deliver nothing.                                         *)
LEMMA Undelivered ==
    ASSUME TypeOK, Window, [Next]_vars
    PROVE  \/ Replay \/ Receive
           \/ UNCHANGED <<got>> /\ client'.last = client.last
<1>1. ASSUME NEW p \in Publishers, Number(p) \/ Add(p) PROVE UNCHANGED <<got, client>>
  BY <1>1 DEF Number, Add
<1>2. CASE Connect
  BY <1>2, ConnectFacts DEF Connect
<1>3. CASE Subscribe
  BY <1>3, SubscribeFacts
<1>4. CASE ReaderStep
  BY <1>4, ReaderFacts
<1>5. CASE Closes
  BY <1>5, ClosesFacts
<1>6. CASE UNCHANGED vars
  BY <1>6 DEF vars
<1> QED BY <1>1, <1>2, <1>3, <1>4, <1>5, <1>6 DEF Next, Publish, HandlerStep, Closes

-----------------------------------------------------------------------------
(* The invariant *)

LEMMA NextBase ==
    ASSUME TypeOK, Window, TypeOK', Base, Backlog, Front, Queue, [Next]_vars
    PROVE  Base'
<1>1. CASE client'.last = client.last
  <2>1. ASSUME NEW i \in 1..client'.last, Wanted(i)' PROVE i \in Given'
    <3>1. i \in Ids /\ i \in 1..client.last
      BY <1>1, <2>1, Numbers
    <3> QED BY <2>1, <3>1, Accounted DEF Base
  <2> QED BY <2>1 DEF Base
<1>2. CASE Replay
  <2>1. PICK i \in handler.todo : (\A j \in handler.todo : i <= j) /\ Deliver(i)
    BY <1>2 DEF Replay
  <2>2. i \in Ids /\ client'.last = i /\ i \in Given'
    BY <2>1, IdsFacts, Delivered DEF Given
  <2>3. ASSUME NEW j \in 1..client'.last, Wanted(j)' PROVE j \in Given'
    <3>1. j \in Ids /\ j <= i /\ i \in Nat /\ j \in Nat
      BY <2>2, <2>3, Numbers
    <3>2. CASE j = i
      BY <2>2, <3>2
    <3>3. CASE j # i
      <4>1. j \in 1..(i-1) /\ Wanted(j)
        BY <2>3, <3>1, <3>3, Accounted
      <4>2. j \notin handler.todo
        BY <2>1, <3>1, <3>3
      <4>3. j \in Given
        BY <4>1, <4>2 DEF Backlog
      <4> QED BY <3>1, <4>3, Accounted
    <3> QED BY <3>2, <3>3
  <2> QED BY <2>3 DEF Base
<1>3. CASE Receive /\ Deliver(Head(channel))
  <2> DEFINE i == Head(channel)
  <2>1. /\ i \in Ids /\ client'.last = i /\ i \in Given' /\ i <= reader.last
        /\ handler.at = "open" /\ reader.mode = "from"
    BY <1>3, HeadFacts, Delivered, ReceiveFacts DEF Given
  <2>2. ASSUME NEW j \in 1..client'.last, Wanted(j)' PROVE j \in Given'
    <3>1. j \in Ids /\ j <= i /\ i \in Nat /\ j \in Nat /\ j \in 1..reader.last
      BY <2>1, <2>2, Numbers
    <3>2. CASE j = i
      BY <2>1, <3>2
    <3>3. CASE j # i
      <4>1. Wanted(j)
        BY <2>2, <3>1, Accounted
      <4>2. j \notin Chan
        BY <1>3, <3>1, <3>3, HeadFacts, Numbers DEF Chan
      <4>3. j \in Given
        BY <2>1, <3>1, <4>1, <4>2 DEF Front
      <4> QED BY <3>1, <4>3, Accounted
    <3> QED BY <3>2, <3>3
  <2> QED BY <2>2 DEF Base
<1>4. CASE Receive /\ UNCHANGED client
  BY <1>1, <1>4
<1> QED BY <1>1, <1>2, <1>3, <1>4, Undelivered, ReceiveFacts

LEMMA NextBacklog ==
    ASSUME TypeOK, Window, TypeOK', Base, Backlog, [Next]_vars
    PROVE  Backlog'
<1>1. ASSUME handler'.todo = handler.todo PROVE Backlog'
  <2>1. ASSUME NEW j \in handler'.todo, NEW i \in 1..(j-1), Wanted(i)'
        PROVE  i \in handler'.todo \cup Given'
    <3>1. j \in handler.todo /\ i \in Ids
      BY <1>1, <2>1, Numbers
    <3>2. i \in handler.todo \cup Given
      BY <2>1, <3>1, Accounted DEF Backlog
    <3> QED BY <1>1, <3>1, <3>2, Accounted
  <2> QED BY <2>1 DEF Backlog
<1>2. ASSUME handler'.todo = {} PROVE Backlog'
  BY <1>2 DEF Backlog
<1>3. CASE Connect /\ Resumes /\ handler'.todo # {}
  <2>1. /\ handler'.todo = {i \in Ids : i \in Beyond /\ i >= first /\ Wanted(i)}
        /\ lost' = lost \cup {i \in Ids : i < first \/ (client.by = "seq" /\ i \notin Beyond)}
        /\ UNCHANGED <<log, first>>
    BY <1>3, ConnectFacts DEF Connect, stream
  <2>2. first \in Nat /\ client.by \in {"id", "seq"}
    BY DEF TypeOK, ClientType
  <2>3. ASSUME NEW j \in handler'.todo, NEW i \in 1..(j-1), Wanted(i)'
        PROVE  i \in handler'.todo \cup Given'
    <3>1. i \in Ids
      BY <2>1, <2>3, Numbers
    <3>2. Wanted(i)
      BY <2>3, <3>1, Accounted
    <3>3. CASE i < first
      BY <2>1, <3>1, <3>3 DEF Given
    <3>4. CASE i \in Beyond /\ ~(i < first)
      <4>1. i >= first
        BY <2>2, <3>1, <3>4, Numbers
      <4> QED BY <2>1, <3>1, <3>2, <3>4, <4>1
    <3>5. CASE i \notin Beyond /\ client.by = "seq"
      BY <2>1, <3>1, <3>5 DEF Given
    <3>6. CASE i \notin Beyond /\ client.by = "id"
      <4>1. i \in 1..client.last
        BY <3>1, <3>6, Numbers DEF Beyond, After
      <4> QED BY <3>1, <3>2, <4>1, Accounted DEF Base
    <3> QED BY <2>2, <3>3, <3>4, <3>5, <3>6
  <2> QED BY <2>3 DEF Backlog
<1>4. CASE Connect /\ handler'.todo = {}
  BY <1>2, <1>4, ConnectFacts
<1>5. CASE Replay
  <2>1. PICK k \in handler.todo : /\ handler'.todo = handler.todo \ {k} /\ Deliver(k)
    <3>1. PICK k \in handler.todo : (\A j \in handler.todo : k <= j) /\ Sent(k) /\ Deliver(k)
      BY <1>5 DEF Replay
    <3>2. handler'.todo = handler.todo \ {k}
      BY <3>1 DEF Sent, TypeOK, HandlerType
    <3> QED BY <3>1, <3>2
  <2>2. k \in Given'
    BY <2>1, IdsFacts, Delivered DEF Given
  <2>3. ASSUME NEW j \in handler'.todo, NEW i \in 1..(j-1), Wanted(i)'
        PROVE  i \in handler'.todo \cup Given'
    <3>1. j \in handler.todo /\ i \in Ids
      BY <2>1, <2>3, Numbers
    <3>2. i \in handler.todo \cup Given
      BY <2>3, <3>1, Accounted DEF Backlog
    <3> QED BY <2>1, <2>2, <3>1, <3>2, Accounted
  <2> QED BY <2>3 DEF Backlog
<1>6. CASE Subscribe
  BY <1>2, <1>6, SubscribeFacts
<1>7. CASE Receive
  BY <1>1, <1>2, <1>7, ReceiveFacts, UnsubscribeFacts
<1>8. CASE Closes
  BY <1>2, <1>8, ClosesFacts, UnsubscribeFacts
<1>9. CASE ReaderStep \/ UNCHANGED vars
  BY <1>1, <1>9, ReaderFacts DEF vars, server
<1>10. ASSUME NEW p \in Publishers, Number(p) \/ Add(p) PROVE Backlog'
  BY <1>1, <1>10 DEF Number, Add, server
<1> QED BY <1>3, <1>4, <1>5, <1>6, <1>7, <1>8, <1>9, <1>10, ConnectFacts
        DEF Next, Publish, HandlerStep, Closes

LEMMA NextFresh ==
    ASSUME TypeOK, Window, Fresh, SentIsLast, [Next]_vars
    PROVE  Fresh' /\ SentIsLast'
<1>1. ASSUME UNCHANGED handler, client'.last = client.last, client'.by = client.by
      PROVE  Fresh' /\ SentIsLast'
  BY <1>1 DEF Fresh, SentIsLast
<1>2. ASSUME handler'.at # "replaying", handler'.todo = {} PROVE Fresh' /\ SentIsLast'
  BY <1>2 DEF Fresh, SentIsLast
<1>3. CASE Connect
  <2>1. /\ handler'.at = "replaying" /\ handler'.sent = 0 /\ handler'.resumed = Resumes
        /\ (~Resumes => handler'.todo = {})
        /\ client'.last = client.last /\ client'.by = client.by
    BY <1>3, ConnectFacts
  <2>2. ~Resumes /\ client.by = "id" => client.last = 0
    BY DEF Resumes
  <2> QED BY <2>1, <2>2 DEF Fresh, SentIsLast
<1>4. CASE Replay
  BY <1>4, ReplayFacts DEF Fresh, SentIsLast
<1>5. CASE Subscribe
  BY <1>2, <1>5, SubscribeFacts
<1>6. CASE Receive
  <2>1. handler.todo = {}
    BY <1>6, ReceiveFacts DEF Fresh
  <2> QED BY <1>2, <1>6, <2>1, ReceiveFacts, UnsubscribeFacts
<1>7. CASE Closes
  BY <1>2, <1>7, ClosesFacts, UnsubscribeFacts
<1>8. CASE ReaderStep \/ UNCHANGED vars
  BY <1>1, <1>8, ReaderFacts DEF vars, server
<1>9. ASSUME NEW p \in Publishers, Number(p) \/ Add(p) PROVE UNCHANGED <<handler, client>>
  BY <1>9 DEF Number, Add, server
<1> QED BY <1>1, <1>3, <1>4, <1>5, <1>6, <1>7, <1>8, <1>9 DEF Next, Publish, HandlerStep, Closes

LEMMA NextQueue ==
    ASSUME TypeOK, Window, Queue, [Next]_vars
    PROVE  Queue'
<1>0. /\ Len(channel) \in Nat /\ channel \in Seq(Ids)
      /\ reader.last \in Nat /\ reader.upto \in Nat /\ Len(log) \in Nat
      /\ \A n \in 1..Len(channel) : channel[n] \in Nat
      /\ reader.last <= Len(log) /\ first \in Nat \ {0}
  BY Numbers DEF TypeOK
<1>1. ASSUME UNCHANGED <<handler, reader, channel>> PROVE Queue'
  BY <1>1 DEF Queue
<1>2. CASE Unsubscribe
  BY <1>2, UnsubscribeFacts, Blank DEF Queue
<1>3. CASE Connect \/ Replay
  BY <1>3, ConnectFacts, ReplayFacts DEF Queue, Connect, Replay
<1>4. CASE Subscribe
  <2>1. channel' = <<>> /\ Len(channel') = 0 /\ handler'.at = "open"
    BY <1>4, SubscribeFacts DEF Queue
  <2>2. reader'.last = reader'.upto /\ reader'.upto \in Nat
    BY <1>4, SubscribeFacts, Blank, IdsFacts DEF ReaderType
  <2> QED BY <2>1, <2>2 DEF Queue
<1>5. CASE ReadNew
  <2>1. /\ channel = <<>> /\ UNCHANGED <<channel, handler>> /\ handler.at = "open"
        /\ reader' = [mode |-> "waiting", last |-> Len(log), upto |-> Len(log)]
    BY <1>5 DEF ReadNew, Queue
  <2> QED BY <1>0, <2>1 DEF Queue
<1>6. CASE ReadNothing
  <2>1. /\ channel = <<>> /\ UNCHANGED <<channel, handler>> /\ handler.at = "open"
        /\ reader' = [mode |-> "$", last |-> 0, upto |-> 0]
    BY <1>6, Blank DEF ReadNothing, Queue, TypeOK, HandlerType
  <2> QED BY <2>1 DEF Queue
<1>7. CASE Read
  <2> DEFINE from == Greatest(reader.last, first - 1)
             upto == Least(from + Count, Len(log))
  <2>1. /\ reader' = [mode |-> "from", last |-> from, upto |-> upto]
        /\ Len(log) > reader.last /\ UNCHANGED <<channel, handler>> /\ handler.at = "open"
    BY <1>7 DEF Read
  <2>2. from \in Nat /\ from >= reader.last /\ (from = reader.last \/ from = first - 1)
    BY <1>0 DEF Greatest
  <2>a. from <= Len(log)
    BY <1>0, <2>1, <2>2 DEF Window
  <2>3. upto \in Nat /\ from <= upto
    BY <1>0, <2>2, <2>a, Bounds DEF Least
  <2> HIDE DEF from, upto
  <2> QED BY <1>0, <2>1, <2>2, <2>3 DEF Queue
<1>8. CASE Forward
  <2>1. /\ reader' = [reader EXCEPT !.last = reader.last + 1] /\ reader.last < reader.upto
        /\ UNCHANGED handler
        /\ channel' = Append(channel, reader.last + 1) \/ channel' = channel
    BY <1>8 DEF Forward
  <2>2. reader.mode = "from" /\ handler.at = "open"
    BY <1>0, <2>1, Blank DEF Queue
  <2>3. reader'.mode = "from" /\ reader'.last = reader.last + 1 /\ reader'.upto = reader.upto
    BY <2>1, <2>2 DEF TypeOK, ReaderType
  <2>4. CASE channel' = channel
    BY <1>0, <2>1, <2>2, <2>3, <2>4 DEF Queue
  <2>5. CASE channel' = Append(channel, reader.last + 1)
    <3>0. reader.upto <= Len(log) /\ Ids = 1..Len(log)
      BY Numbers
    <3>1. reader.last + 1 \in Ids
      BY <1>0, <2>1, <3>0
    <3>2. /\ Len(channel') = Len(channel) + 1 /\ channel'[Len(channel) + 1] = reader.last + 1
          /\ \A n \in 1..Len(channel) : channel'[n] = channel[n]
      BY <1>0, <2>5, <3>1, Appended
    <3>3. ASSUME NEW n \in 1..Len(channel') PROVE channel'[n] <= reader'.last
      <4>1. CASE n \in 1..Len(channel)
        BY <1>0, <2>3, <3>2, <4>1 DEF Queue
      <4>2. CASE n = Len(channel) + 1
        BY <1>0, <2>3, <3>2, <4>2
      <4> QED BY <1>0, <3>2, <3>3, <4>1, <4>2
    <3>4. ASSUME NEW m \in 1..Len(channel'), NEW n \in 1..Len(channel'), m < n
          PROVE  channel'[m] < channel'[n]
      <4>1. CASE n \in 1..Len(channel)
        BY <1>0, <3>2, <3>4, <4>1 DEF Queue
      <4>2. CASE n = Len(channel) + 1
        <5>1. m \in 1..Len(channel)
          BY <1>0, <3>2, <3>4, <4>2
        <5>2. channel'[m] <= reader.last /\ channel'[m] \in Nat
          BY <1>0, <3>2, <5>1 DEF Queue
        <5> QED BY <1>0, <3>2, <4>2, <5>2
      <4> QED BY <1>0, <3>2, <4>1, <4>2
    <3> QED BY <1>0, <2>1, <2>2, <2>3, <3>3, <3>4 DEF Queue
  <2> QED BY <2>1, <2>4, <2>5
<1>9. CASE Receive
  <2>1. CASE channel' = Tail(channel) /\ reader' = reader /\ handler'.at = "open"
    <3>1. /\ Len(channel') = Len(channel) - 1
          /\ \A n \in 1..Len(channel') : channel'[n] = channel[n+1] /\ n + 1 \in 1..Len(channel)
      BY <1>0, <1>9, <2>1, ReceiveFacts, Shortened
    <3>2. reader'.mode = "from"
      BY <1>9, <2>1, HeadFacts
    <3>3. ASSUME NEW m \in 1..Len(channel'), NEW n \in 1..Len(channel'), m < n
          PROVE  channel'[m] < channel'[n]
      <4>1. m + 1 \in 1..Len(channel) /\ n + 1 \in 1..Len(channel) /\ m + 1 < n + 1
        BY <1>0, <3>1, <3>3
      <4> QED BY <3>1, <4>1 DEF Queue
    <3>4. ASSUME NEW n \in 1..Len(channel') PROVE channel'[n] <= reader'.last
      BY <2>1, <3>1, <3>4 DEF Queue
    <3> QED BY <2>1, <3>2, <3>3, <3>4 DEF Queue
  <2> QED BY <1>2, <1>9, <2>1, ReceiveFacts
<1>10. CASE Closes
  BY <1>2, <1>10, ClosesFacts
<1>11. CASE UNCHANGED vars
  BY <1>1, <1>11 DEF vars, server
<1>12. ASSUME NEW p \in Publishers, Number(p) \/ Add(p) PROVE Queue'
  BY <1>1, <1>12 DEF Number, Add, server
<1> QED BY <1>3, <1>4, <1>5, <1>6, <1>7, <1>8, <1>9, <1>10, <1>11, <1>12
        DEF Next, Publish, ReaderStep, HandlerStep, Closes

(* What the reader has passed is accounted for.                            *)
LEMMA NextFront ==
    ASSUME TypeOK, Window, TypeOK', Base, Fresh, SentIsLast, Front, Queue, [Next]_vars
    PROVE  Front'
<1> DEFINE Passed(i) == Wanted(i)' => i \in Given' \cup Chan'
<1>0. /\ Len(log) \in Nat /\ Ids = 1..Len(log) /\ reader.last \in 0..Len(log)
      /\ reader'.last \in Nat /\ client.last \in 0..Len(log)
  <2>1. reader'.last \in {0} \cup Ids'
    BY DEF TypeOK, ReaderType
  <2>2. \A i \in {0} \cup Ids' : i \in Nat
    BY DEF Ids
  <2>3. reader'.last \in Nat
    BY <2>1, <2>2
  <2> QED BY Numbers, <2>3
<1>1. ASSUME handler'.at = "open" /\ reader'.mode # "$" => \A i \in 1..reader'.last : Passed(i)
      PROVE  Front'
  BY <1>1 DEF Front
<1>2. ASSUME handler'.at # "open" PROVE Front'
  BY <1>2 DEF Front
<1>3. ASSUME handler.at = "open", reader.mode # "$", NEW i \in 1..reader.last, Wanted(i)',
             Chan \subseteq Chan' \cup Given'
      PROVE  i \in Given' \cup Chan'
  <2>1. i \in Ids
    BY <1>0
  <2>2. i \in Given \cup Chan
    BY <1>3, <2>1, Accounted DEF Front
  <2> QED BY <1>3, <2>1, <2>2, Accounted
<1>4. ASSUME UNCHANGED <<handler, reader, channel>> PROVE Front'
  BY <1>1, <1>3, <1>4 DEF Chan
<1>5. CASE Connect \/ Replay
  BY <1>2, <1>5, ConnectFacts, ReplayFacts
<1>6. CASE Subscribe
  <2>1. ASSUME reader'.mode # "$", NEW i \in 1..reader'.last PROVE Passed(i)
    <3>1. reader'.last <= client.last
      <4>1. CASE handler.sent # 0 /\ reader'.last = handler.sent
        BY <1>0, <1>6, <4>1, SubscribeFacts DEF SentIsLast
      <4>2. CASE reader' = NoReader
        BY <1>0, <4>2, Blank
      <4> QED BY <1>6, <2>1, <4>1, <4>2, SubscribeFacts
    <3>2. i \in 1..client.last /\ i \in Ids
      BY <1>0, <3>1
    <3> QED BY <3>2, Accounted DEF Base
  <2> QED BY <1>1, <2>1
<1>7. CASE ReadNew
  <2>1. /\ reader'.last = Len(log) /\ passed' = passed \cup (Ids \ Received)
        /\ UNCHANGED <<got, log>>
    BY <1>7 DEF ReadNew, stream
  <2>2. ASSUME NEW i \in Ids PROVE i \in Given'
    BY <2>1 DEF Given, Received
  <2> QED BY <1>0, <1>1, <2>1, <2>2
<1>8. CASE ReadNothing
  <2>1. reader'.mode = "$"
    BY <1>8 DEF ReadNothing
  <2> QED BY <2>1 DEF Front
<1>9. CASE Read
  <2>1. /\ handler.at = "open" /\ reader.mode # "$" /\ UNCHANGED channel
        /\ reader'.last = Greatest(reader.last, first - 1)
        /\ lost' = lost \cup (reader.last + 1)..Greatest(reader.last, first - 1)
    BY <1>9 DEF Read
  <2>2. ASSUME NEW i \in 1..reader'.last PROVE Passed(i)
    <3>1. CASE i \in 1..reader.last
      BY <1>3, <2>1, <3>1 DEF Chan
    <3>2. CASE i \notin 1..reader.last
      <4>1. i \in lost'
        BY <1>0, <2>1, <3>2
      <4> QED BY <4>1 DEF Given
    <3> QED BY <3>1, <3>2
  <2> QED BY <1>1, <2>2
<1>10. CASE Forward
  <2>1. /\ reader' = [reader EXCEPT !.last = reader.last + 1] /\ UNCHANGED handler
        /\ \/ channel' = Append(channel, reader.last + 1)
           \/ lost' = lost \cup {reader.last + 1} /\ channel' = channel
    BY <1>10 DEF Forward
  <2>2. reader'.mode = reader.mode /\ reader'.last = reader.last + 1
    BY <2>1 DEF TypeOK, ReaderType
  <2>3. Chan \subseteq Chan' /\ reader.last + 1 \in Given' \cup Chan'
    <3>1. CASE channel' = Append(channel, reader.last + 1)
      <4>1. reader.last + 1 \in Ids /\ channel \in Seq(Ids) /\ Len(channel) \in Nat
        <5>1. reader.last < reader.upto /\ reader.upto <= Len(log) /\ reader.upto \in Nat
          BY <1>10, Numbers DEF Forward
        <5>2. channel \in Seq(Ids) /\ Len(channel) \in Nat
          BY Numbers DEF TypeOK
        <5> QED BY <1>0, <5>1, <5>2
      <4>2. /\ Len(channel') = Len(channel) + 1 /\ channel'[Len(channel) + 1] = reader.last + 1
            /\ \A n \in 1..Len(channel) : channel'[n] = channel[n]
        BY <3>1, <4>1, Appended
      <4>3. Len(channel) + 1 \in 1..Len(channel') /\ 1..Len(channel) \subseteq 1..Len(channel')
        BY <4>1, <4>2
      <4> QED BY <4>2, <4>3 DEF Chan
    <3>2. CASE lost' = lost \cup {reader.last + 1} /\ channel' = channel
      BY <3>2 DEF Chan, Given
    <3> QED BY <2>1, <3>1, <3>2
  <2>4. ASSUME handler'.at = "open", reader'.mode # "$", NEW i \in 1..reader'.last PROVE Passed(i)
    <3>1. CASE i \in 1..reader.last
      BY <1>3, <2>1, <2>2, <2>3, <2>4, <3>1
    <3>2. CASE i \notin 1..reader.last
      <4>1. i = reader.last + 1
        BY <1>0, <2>2, <3>2
      <4> QED BY <2>3, <4>1
    <3> QED BY <3>1, <3>2
  <2> QED BY <1>1, <2>4
<1>11. CASE Receive
  <2>1. CASE channel' = Tail(channel) /\ reader' = reader /\ handler'.at = "open"
    <3>1. Chan \subseteq Chan' \cup {Head(channel)}
      <4>1. channel \in Seq(Ids) /\ channel # <<>> /\ Len(channel) \in Nat
        BY <1>11, ReceiveFacts, Numbers DEF TypeOK
      <4>2. /\ Len(channel') = Len(channel) - 1 /\ channel[1] = Head(channel)
            /\ \A n \in 1..Len(channel') : channel'[n] = channel[n+1]
        BY <2>1, <4>1, Shortened
      <4>3. ASSUME NEW n \in 1..Len(channel), n # 1 PROVE channel[n] \in Chan'
        <5>1. n - 1 \in 1..Len(channel') /\ channel'[n-1] = channel[n-1+1] /\ n - 1 + 1 = n
          BY <4>1, <4>2, <4>3
        <5>2. channel'[n-1] = channel[n]
          BY <5>1
        <5> QED BY <5>1, <5>2 DEF Chan
      <4> QED BY <4>2, <4>3 DEF Chan
    <3>2. Wanted(Head(channel)) => Head(channel) \in Given'
      BY <1>11, ReceiveFacts, Delivered DEF Given
    <3>3. handler.at = "open" /\ reader.mode = "from"
      BY <1>11, HeadFacts, ReceiveFacts
    <3>4. ASSUME NEW i \in 1..reader'.last, Wanted(i)' PROVE i \in Given' \cup Chan'
      <4>1. i \in Ids /\ i \in 1..reader.last
        BY <1>0, <2>1
      <4>2. Wanted(i)
        BY <3>4, <4>1, Accounted
      <4>3. i \in Given \cup Chan
        BY <3>3, <4>1, <4>2 DEF Front
      <4> QED BY <3>1, <3>2, <4>1, <4>2, <4>3, Accounted
    <3> QED BY <1>1, <3>4
  <2> QED BY <1>2, <1>11, <2>1, ReceiveFacts, UnsubscribeFacts
<1>12. CASE Closes
  BY <1>2, <1>12, ClosesFacts, UnsubscribeFacts
<1>13. CASE UNCHANGED vars
  BY <1>4, <1>13 DEF vars, server
<1>14. ASSUME NEW p \in Publishers, Number(p) \/ Add(p) PROVE Front'
  BY <1>4, <1>14 DEF Number, Add, server
<1> QED BY <1>5, <1>6, <1>7, <1>8, <1>9, <1>10, <1>11, <1>12, <1>13, <1>14
        DEF Next, Publish, ReaderStep, HandlerStep, Closes

(* By stream ids, what the client gets next is beyond what it has.         *)
LEMMA NextAhead ==
    ASSUME TypeOK, Window, TypeOK', Fresh, SentIsLast, Queue, Ahead, InOrder, [Next]_vars,
           client.by = "id"
    PROVE  Ahead' /\ InOrder'
<1>0. /\ Len(log) \in Nat /\ Ids = 1..Len(log) /\ reader.last \in 0..Len(log)
      /\ client.last \in 0..Len(log) /\ handler.todo \subseteq Nat
      /\ Len(got) \in Nat /\ \A n \in 1..Len(got) : got[n] \in Nat /\ got[n] <= client.last
      /\ Len(channel) \in Nat /\ \A n \in 1..Len(channel) : channel[n] \in Nat
  BY Numbers DEF Ahead
<1> DEFINE Todo == \A i \in handler'.todo : i > client'.last
           Reads == handler'.at = "open" /\ reader'.mode # "$" => reader'.last >= client'.last
           Next1 == \A n \in 1..Len(channel') : channel'[n] > client'.last
<1>1. ASSUME client'.last = client.last, UNCHANGED got, Todo, Reads, Next1
      PROVE  Ahead' /\ InOrder'
  BY <1>0, <1>1 DEF Ahead, InOrder
<1>2. ASSUME NEW i \in Ids, Deliver(i), i > client.last, Todo, Reads, Next1
      PROVE  Ahead' /\ InOrder'
  <2>1. /\ client'.last = i /\ Len(got') = Len(got) + 1 /\ got'[Len(got) + 1] = i
        /\ \A n \in 1..Len(got) : got'[n] = got[n]
    BY <1>0, <1>2, Delivered
  <2>2. ASSUME NEW n \in 1..Len(got') PROVE got'[n] <= client'.last
    <3>1. CASE n \in 1..Len(got)
      <4>1. got'[n] = got[n] /\ got[n] \in Nat /\ got[n] <= client.last /\ i \in Nat
        BY <1>0, <2>1, <3>1
      <4> QED BY <1>0, <1>2, <2>1, <4>1
    <3>2. CASE n = Len(got) + 1
      BY <1>0, <2>1, <3>2
    <3> QED BY <1>0, <2>1, <3>1, <3>2
  <2>3. ASSUME NEW m \in 1..Len(got'), NEW n \in 1..Len(got'), m < n PROVE got'[m] < got'[n]
    <3>1. m \in 1..Len(got)
      BY <1>0, <2>1, <2>3
    <3>2. CASE n \in 1..Len(got)
      BY <2>1, <2>3, <3>1, <3>2 DEF InOrder
    <3>3. CASE n = Len(got) + 1
      BY <1>0, <1>2, <2>1, <3>1, <3>3
    <3> QED BY <1>0, <2>1, <3>2, <3>3
  <2> QED BY <1>2, <2>2, <2>3 DEF Ahead, InOrder
<1>4. ASSUME client'.last = client.last, UNCHANGED <<handler, reader, channel, got>>
      PROVE  Ahead' /\ InOrder'
  BY <1>0, <1>1, <1>4 DEF Ahead
<1>5. CASE Connect
  <2>1. /\ client'.last = client.last /\ handler'.at = "replaying" /\ handler.at = "none"
        /\ handler'.todo \subseteq Beyond
    BY <1>5, ConnectFacts
  <2>2. \A i \in Beyond : i > client.last
    BY DEF Beyond, After
  <2>3. UNCHANGED <<channel, got>> /\ Len(channel) = 0
    BY <1>5, <2>1 DEF Connect, Queue
  <2> QED BY <1>0, <1>1, <2>1, <2>2, <2>3
<1>6. CASE Replay
  <2>1. PICK i \in handler.todo : /\ \A j \in handler.todo : i <= j
                                  /\ Sent(i) /\ Deliver(i)
    BY <1>6 DEF Replay
  <2>2. /\ handler'.todo = handler.todo \ {i} /\ handler'.at = "replaying" /\ handler.at = "replaying"
    BY <1>6, <2>1 DEF Sent, TypeOK, HandlerType, Replay
  <2>3. i \in Ids /\ i > client.last /\ client'.last = i
    BY <2>1, IdsFacts, Delivered DEF Ahead
  <2>4. Todo
    <3>1. ASSUME NEW j \in handler.todo, j # i PROVE j > i
      BY <1>0, <2>1, <3>1
    <3> QED BY <2>2, <2>3, <3>1
  <2>5. UNCHANGED channel /\ Len(channel) = 0
    BY <1>6, <2>2 DEF Replay, Queue
  <2> QED BY <1>0, <1>2, <2>1, <2>2, <2>3, <2>4, <2>5
<1>7. CASE Subscribe
  <2>1. /\ UNCHANGED <<channel, client, got>> /\ handler'.todo = {}
        /\ handler.at = "replaying"
    BY <1>7, SubscribeFacts
  <2>2. Reads
    <3>1. CASE handler.sent # 0 /\ reader'.last = handler.sent
      BY <1>0, <2>1, <3>1 DEF SentIsLast
    <3>2. CASE ~handler.resumed /\ reader' = NoReader
      BY <2>1, <3>2, Blank DEF Fresh
    <3> QED BY <1>7, <3>1, <3>2, SubscribeFacts
  <2>3. Len(channel) = 0
    BY <2>1 DEF Queue
  <2> QED BY <1>0, <1>1, <2>1, <2>2, <2>3
<1>8. CASE ReadNew
  <2>1. reader'.last = Len(log) /\ UNCHANGED <<handler, channel, client, got>>
    BY <1>8 DEF ReadNew
  <2> QED BY <1>0, <1>1, <2>1 DEF Ahead
<1>9. CASE ReadNothing
  <2>1. reader'.mode = "$" /\ UNCHANGED <<handler, channel, client, got>>
    BY <1>9 DEF ReadNothing
  <2> QED BY <1>0, <1>1, <2>1 DEF Ahead
<1>10. CASE Read
  <2>1. /\ reader'.last = Greatest(reader.last, first - 1) /\ UNCHANGED <<handler, channel, client, got>>
        /\ handler.at = "open" /\ reader.mode # "$"
    BY <1>10 DEF Read
  <2>2. reader'.last >= reader.last /\ reader'.last \in Nat
    BY <1>0, <2>1 DEF Greatest, TypeOK
  <2> QED BY <1>0, <1>1, <2>1, <2>2 DEF Ahead
<1>11. CASE Forward
  <2>1. /\ reader' = [reader EXCEPT !.last = reader.last + 1] /\ UNCHANGED <<handler, client, got>>
        /\ channel' = Append(channel, reader.last + 1) \/ channel' = channel
        /\ reader.last < reader.upto /\ reader.upto \in 0..Len(log)
    BY <1>11, Numbers DEF Forward
  <2>2. reader'.mode = reader.mode /\ reader'.last = reader.last + 1
    BY <2>1 DEF TypeOK, ReaderType
  <2>3. handler.at = "open" /\ reader.mode = "from"
    BY <1>0, <2>1, Blank DEF Queue
  <2>4. Next1
    <3>1. CASE channel' = Append(channel, reader.last + 1)
      <4>1. /\ Len(channel') = Len(channel) + 1 /\ channel'[Len(channel) + 1] = reader.last + 1
            /\ \A n \in 1..Len(channel) : channel'[n] = channel[n]
        <5>1. reader.last + 1 \in Ids
          BY <1>0, <2>1
        <5>2. channel \in Seq(Ids)
          BY DEF TypeOK
        <5> QED BY <3>1, <5>1, <5>2, Appended
      <4>2. reader.last + 1 > client.last
        BY <1>0, <2>3 DEF Ahead
      <4>3. \A n \in 1..Len(channel) : channel[n] > client.last
        BY DEF Ahead
      <4> QED BY <1>0, <2>1, <4>1, <4>2, <4>3
    <3>2. CASE channel' = channel
      BY <2>1, <3>2 DEF Ahead
    <3> QED BY <2>1, <3>1, <3>2
  <2> QED BY <1>0, <1>1, <2>1, <2>2, <2>3, <2>4 DEF Ahead
<1>12. CASE Unsubscribe /\ client'.last = client.last /\ UNCHANGED got
  BY <1>1, <1>12, UnsubscribeFacts
<1>13. CASE Receive
  <2> DEFINE i == Head(channel)
  <2>1. /\ i \in Ids /\ i > client.last /\ i <= reader.last
        /\ \A n \in 1..Len(channel) : n # 1 => i < channel[n]
        /\ handler.at = "open" /\ reader.mode = "from" /\ handler.todo = {}
    <3>1. /\ i \in Ids /\ i <= reader.last /\ i = channel[1] /\ 1 \in 1..Len(channel)
          /\ \A n \in 1..Len(channel) : n # 1 => i < channel[n]
          /\ handler.at = "open" /\ reader.mode = "from"
      BY <1>13, HeadFacts, ReceiveFacts
    <3> QED BY <3>1 DEF Ahead, Fresh
  <2>2. CASE Unsubscribe
    <3>1. CASE Deliver(i)
      BY <1>2, <2>1, <2>2, <3>1, UnsubscribeFacts
    <3>2. CASE UNCHANGED <<got, client>>
      BY <1>12, <2>2, <3>2
    <3> QED BY <1>13, <3>1, <3>2, ReceiveFacts
  <2>3. CASE channel' = Tail(channel) /\ reader' = reader /\ handler'.todo = handler.todo
    <3>1. \A n \in 1..Len(channel') : channel'[n] = channel[n+1] /\ n+1 \in 1..Len(channel)
      BY <1>13, <2>3, ReceiveFacts, Shortened DEF TypeOK
    <3>2. \A n \in 1..Len(channel') : channel'[n] > i
      <4>1. ASSUME NEW n \in 1..Len(channel') PROVE channel'[n] > i
        <5>1. n + 1 \in 1..Len(channel) /\ n + 1 # 1 /\ channel'[n] = channel[n+1]
          BY <3>1
        <5> QED BY <1>0, <2>1, <5>1
      <4> QED BY <4>1
    <3>3. CASE Deliver(i)
      BY <1>0, <1>2, <2>1, <2>3, <3>2, <3>3, Delivered
    <3>4. CASE UNCHANGED <<got, client>>
      <4>1. Next1
        BY <3>1, <3>4 DEF Ahead
      <4> QED BY <1>1, <2>1, <2>3, <3>4, <4>1 DEF Ahead
    <3> QED BY <1>13, <3>3, <3>4, ReceiveFacts
  <2> QED BY <1>13, <2>2, <2>3, ReceiveFacts
<1>14. CASE Closes
  BY <1>12, <1>14, ClosesFacts
<1>15. CASE UNCHANGED vars
  BY <1>4, <1>15 DEF vars, server
<1>16. ASSUME NEW p \in Publishers, Number(p) \/ Add(p) PROVE Ahead' /\ InOrder'
  BY <1>4, <1>16 DEF Number, Add, server
<1> QED BY <1>5, <1>6, <1>7, <1>8, <1>9, <1>10, <1>11, <1>13, <1>14, <1>15, <1>16
        DEF Next, Publish, ReaderStep, HandlerStep, Closes

LEMMA InitInv == Init => IInv
<1> SUFFICES ASSUME Init PROVE IInv
  OBVIOUS
<1>1. TypeOK /\ Busy
  BY InitTypes
<1>2. /\ log = <<>> /\ Len(log) = 0 /\ first = 1 /\ handler = NoHandler /\ reader = NoReader
      /\ channel = <<>> /\ Len(channel) = 0 /\ client.last = 0 /\ got = <<>> /\ Len(got) = 0
  BY DEF Init
<1>3. Window /\ Base /\ Backlog /\ Fresh /\ SentIsLast /\ Front
  BY <1>2, Blank DEF Window, Base, Backlog, Fresh, SentIsLast, Front
<1>4. Queue /\ Ahead /\ InOrder
  BY <1>2, Blank DEF Queue, Ahead, InOrder
<1> QED BY <1>1, <1>3, <1>4 DEF IInv

LEMMA NextInv == IInv /\ [Next]_vars => IInv'
<1> SUFFICES ASSUME IInv, [Next]_vars PROVE IInv'
  OBVIOUS
<1>0. /\ TypeOK /\ Busy /\ Window /\ Base /\ Backlog /\ Fresh /\ SentIsLast /\ Front
      /\ Queue /\ Ahead /\ InOrder
  BY DEF IInv
<1>1. TypeOK' /\ Busy' /\ Window'
  BY <1>0, NextTypes
<1>2. Base' /\ Backlog'
  BY <1>0, <1>1, NextBase, NextBacklog
<1>3. Fresh' /\ SentIsLast' /\ Queue'
  BY <1>0, NextFresh, NextQueue
<1>4. Front'
  BY <1>0, <1>1, NextFront
<1>5. Ahead' /\ InOrder'
  <2>1. CASE client.by = "id"
    BY <1>0, <1>1, <2>1, NextAhead
  <2>2. CASE client.by # "id"
    <3>1. client'.by # "id"
      BY <1>0, <1>1, <2>2, Grow
    <3> QED BY <3>1 DEF Ahead, InOrder
  <2> QED BY <2>1, <2>2
<1> QED BY <1>1, <1>2, <1>3, <1>4, <1>5 DEF IInv

LEMMA Invariant == Spec => []IInv
  BY InitInv, NextInv, PTL DEF Spec

-----------------------------------------------------------------------------
(* The theorems *)

(* The stream, the handler, its reader and the client keep their types; in *)
(* particular a subscriber's channel never has more than its size.         *)
THEOREM TypesHold == Spec => []TypeOK
<1>1. IInv => TypeOK
  BY DEF IInv
<1> QED BY <1>1, Invariant, PTL

(* A client that resumes by stream id gets each event at most once and in  *)
(* the order of the stream, over all its connections (the replay of        *)
(* ReplayFromStreamID and the subscription of SubscribeFrom do not         *)
(* overlap).                                                               *)
THEOREM OrderHolds == Spec => []InOrder
<1>1. IInv => InOrder
  BY DEF IInv
<1> QED BY <1>1, Invariant, PTL

(* Nothing a client asked for is skipped up to where it stands, but what   *)
(* the code drops: entries trimmed, entries that found the channel full,   *)
(* numbers out of order, and what came before a "$" was evaluated.         *)
THEOREM NothingIsSkipped == Spec => []NothingSkipped
<1>1. ASSUME IInv PROVE NothingSkipped
  <2>1. Base /\ Front
    BY <1>1 DEF IInv
  <2>2. ASSUME NEW i \in 1..Reached, Wanted(i) PROVE i \in Given \cup Chan
    <3>1. CASE handler.at = "open" /\ reader.mode = "from"
      BY <2>1, <2>2, <3>1 DEF Reached, Front
    <3>2. CASE ~(handler.at = "open" /\ reader.mode = "from")
      BY <2>1, <2>2, <3>2 DEF Reached, Base
    <3> QED BY <3>1, <3>2
  <2> QED BY <2>2 DEF NothingSkipped, Given, Chan
<1> QED BY <1>1, Invariant, PTL
=============================================================================
