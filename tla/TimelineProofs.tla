---------------------------- MODULE TimelineProofs ----------------------------
(***************************************************************************)
(* Proofs about the timeline, for any number of publishers, savers and     *)
(* streams and any bounds.                                                 *)
(***************************************************************************)
EXTENDS Timeline, SequenceTheorems, TLAPS

-----------------------------------------------------------------------------
(* The inductive invariant *)

\* The numbers of the events are consecutive and end before n.
Contiguous(events, n) ==
    /\ Len(events) <= HistoryLimit
    /\ Len(events) < n
    /\ \A i \in DOMAIN events : events[i].seq = n - 1 - Len(events) + i

\* Every entry of the log is stored under its own number.
LogKeyed == \A n \in DOMAIN log : log[n].seq = n

\* Every snapshot, also one that is still being written, is contiguous.
SnapshotsContiguous ==
    /\ disk # NoSnapshot => Contiguous(disk.history, disk.next)
    /\ \A v \in Savers : savers[v] # NoSnapshot =>
          Contiguous(savers[v].history, savers[v].next)

\* What a connected stream has sent is increasing and ends at `last`; its
\* backlog lies beyond and has one event per number.
Orderly(stream) ==
    /\ \A i, j \in DOMAIN stream.got : i < j => stream.got[i].seq < stream.got[j].seq
    /\ \A i \in DOMAIN stream.got : stream.got[i].seq <= stream.last
    /\ \A event \in stream.backlog : event.seq > stream.last
    /\ \A a, b \in stream.backlog : a.seq = b.seq => a = b
    /\ stream.pc = "query" => stream.last = 0

StreamsOrderly == \A c \in Clients : streams[c] # Off => Orderly(streams[c])

IInv ==
    /\ TypeOK
    /\ Contiguous(history, next)
    /\ LogKeyed
    /\ SnapshotsContiguous
    /\ StreamsOrderly

-----------------------------------------------------------------------------
(* The parts of the invariant that an action leaves alone *)

Numbering ==
    /\ next \in Nat \ {0} /\ history \in Seq(Events) /\ restarts \in Nat
    /\ Contiguous(history, next)

Logged ==
    /\ DOMAIN log \subseteq Nat \ {0} /\ log \in [DOMAIN log -> Events]
    /\ LogKeyed /\ acked \subseteq Events

Snapshots ==
    /\ disk \in TimelineSnapshots \cup {NoSnapshot}
    /\ savers \in [Savers -> TimelineSnapshots \cup {NoSnapshot}]
    /\ SnapshotsContiguous

StreamOK(stream) ==
    stream \in {Off} \cup Connected
    /\ (stream # Off => Len(stream.feed) <= Buffer /\ Orderly(stream))

Streams == streams \in [Clients -> {Off} \cup Connected]
           /\ \A c \in Clients : StreamOK(streams[c])

Publishing == pubs \in [Publishers -> PublisherStates]

\* The invariant, one part per group of variables.
LEMMA Parts == IInv <=> Numbering /\ Logged /\ Snapshots /\ Streams /\ Publishing
  BY DEF IInv, TypeOK, Numbering, Logged, Snapshots, Streams, StreamOK, Publishing,
         StreamsOrderly

\* The same of the next state.
LEMMA PartsNext == IInv' <=> Numbering' /\ Logged' /\ Snapshots' /\ Streams' /\ Publishing'
  BY DEF IInv, TypeOK, Numbering, Logged, Snapshots, Streams, StreamOK, Publishing,
         StreamsOrderly

\* The parts whose variables a step does not touch.
LEMMA Kept ==
    /\ Numbering /\ UNCHANGED <<next, history, restarts>> => Numbering'
    /\ Logged /\ UNCHANGED <<log, acked>> => Logged'
    /\ Snapshots /\ UNCHANGED <<disk, savers>> => Snapshots'
    /\ Streams /\ UNCHANGED streams => Streams'
    /\ Publishing /\ UNCHANGED pubs => Publishing'
  BY DEF Numbering, Logged, LogKeyed, Snapshots, SnapshotsContiguous, Streams, Publishing

-----------------------------------------------------------------------------
(* The actions *)

\* One more event, trimmed from the front, keeps the history contiguous.
LEMMA AppendContiguous ==
    ASSUME NEW events \in Seq(Events), NEW n \in Nat \ {0}, Contiguous(events, n),
           NEW event \in Events, event.seq = n
    PROVE  /\ Trimmed(Append(events, event)) \in Seq(Events)
           /\ Contiguous(Trimmed(Append(events, event)), n + 1)
  <1> DEFINE longer == Append(events, event)
  <1>1. /\ longer \in Seq(Events) /\ longer # << >>
        /\ Len(longer) = Len(events) + 1
        /\ \A i \in 1 .. Len(events) : longer[i] = events[i]
        /\ longer[Len(events) + 1] = event
    BY AppendProperties
  <1>2. \A i \in 1 .. Len(longer) : longer[i].seq = n - Len(longer) + i
    <2>1. Len(events) \in Nat /\ DOMAIN events = 1 .. Len(events)
      OBVIOUS
    <2> SUFFICES ASSUME NEW i \in 1 .. Len(events) + 1
                 PROVE  longer[i].seq = n - (Len(events) + 1) + i
      BY <1>1, <2>1
    <2>2. CASE i = Len(events) + 1
      BY <1>1, <2>1, <2>2
    <2>3. CASE i \in 1 .. Len(events)
      <3>1. longer[i] = events[i] /\ events[i].seq = n - 1 - Len(events) + i
        BY <1>1, <2>1, <2>3 DEF Contiguous
      <3>2. QED
        BY <2>1, <3>1
    <2>4. QED
      BY <2>1, <2>2, <2>3
  <1>3. CASE Len(longer) > HistoryLimit
    <2>1. /\ Tail(longer) \in Seq(Events) /\ Len(Tail(longer)) = Len(longer) - 1
          /\ \A i \in 1 .. Len(Tail(longer)) : Tail(longer)[i] = longer[i + 1]
      BY <1>1, HeadTailProperties
    <2>2. /\ Len(events) \in Nat /\ Len(events) <= HistoryLimit /\ Len(events) < n
          /\ DOMAIN Tail(longer) = 1 .. Len(events)
      BY <1>1, <2>1 DEF Contiguous
    <2>3. \A i \in 1 .. Len(events) : Tail(longer)[i].seq = n + 1 - 1 - Len(events) + i
      <3> TAKE i \in 1 .. Len(events)
      <3>1. i + 1 \in 1 .. Len(longer) /\ Tail(longer)[i] = longer[i + 1]
        BY <1>1, <2>1, <2>2
      <3>2. longer[i + 1].seq = n - (Len(events) + 1) + (i + 1)
        BY <1>1, <1>2, <3>1
      <3>3. QED
        BY <2>2, <3>1, <3>2
    <2>4. Contiguous(Tail(longer), n + 1)
      <3> DEFINE rest == Tail(longer)
      <3> HIDE DEF longer
      <3>1. /\ Len(rest) = Len(events) /\ DOMAIN rest = 1 .. Len(events)
            /\ \A i \in 1 .. Len(events) : rest[i].seq = n + 1 - 1 - Len(events) + i
        <4>1. Len(rest) = Len(events)
          BY <1>1, <2>1, <2>2
        <4>2. DOMAIN rest = 1 .. Len(events)
          BY <2>2, Zenon
        <4>3. \A i \in 1 .. Len(events) : rest[i].seq = n + 1 - 1 - Len(events) + i
          BY <2>3, Zenon
        <4>4. QED
          BY <4>1, <4>2, <4>3
      <3> HIDE DEF rest
      <3>2. Contiguous(rest, n + 1)
        BY <2>2, <3>1, TimelineAssumption DEF Contiguous
      <3>3. QED
        BY <3>2 DEF rest
    <2>5. QED
      BY <1>3, <2>1, <2>4 DEF Trimmed
  <1>4. CASE ~(Len(longer) > HistoryLimit)
    BY <1>1, <1>2, <1>4, TimelineAssumption DEF Contiguous, Trimmed
  <1>5. QED
    BY <1>3, <1>4

\* TimelineStore::publish.
LEMMA PublishInv ==
    ASSUME IInv, NEW p \in Publishers, NEW topic \in Topics, publish(p, topic)
    PROVE  IInv'
  <1> DEFINE event == [seq |-> next, topic |-> topic, run |-> restarts]
  <1>1. Numbering /\ Publishing
    BY Parts
  <1>2. event \in Events /\ event.seq = next
    BY <1>1 DEF Numbering, Events
  <1>3. /\ history' = Trimmed(Append(history, event))
        /\ next' = next + 1 /\ restarts' = restarts
        /\ pubs' = [pubs EXCEPT ![p] = [pc |-> "send", event |-> event]]
    BY DEF publish, NextSequence
  <1> HIDE DEF event
  <1>4. Numbering'
    BY <1>1, <1>2, <1>3, AppendContiguous DEF Numbering
  <1>5. Publishing'
    BY <1>1, <1>2, <1>3 DEF Publishing, PublisherStates
  <1>6. QED
    BY <1>4, <1>5, Parts, PartsNext, Kept DEF publish

\* What the channel hands to one stream.
LEMMA OfferedOK ==
    ASSUME NEW stream, StreamOK(stream), Receiving(stream), NEW event \in Events
    PROVE  StreamOK(Offered(stream, event))
  <1>1. stream \in Connected /\ Len(stream.feed) <= Buffer /\ Orderly(stream)
    BY DEF StreamOK, Receiving, Off
  <1>2. stream.feed \in Seq(Events)
    BY <1>1 DEF Connected
  <1>3. CASE Len(stream.feed) < Buffer
    <2> DEFINE feed == Append(stream.feed, event)
    <2>1. feed \in Seq(Events) /\ Len(feed) <= Buffer
      BY <1>2, <1>3, AppendProperties, TimelineAssumption
    <2>2. Offered(stream, event) = [stream EXCEPT !.feed = feed]
      BY <1>1, <1>3 DEF Offered, Connected
    <2> HIDE DEF feed
    <2>3. [stream EXCEPT !.feed = feed] \in Connected
      BY <1>1, <2>1 DEF Connected
    <2>4. Orderly([stream EXCEPT !.feed = feed])
      BY <1>1 DEF Orderly, Connected
    <2>5. QED
      BY <1>1, <2>1, <2>2, <2>3, <2>4 DEF StreamOK, Connected
  <1>4. CASE ~(Len(stream.feed) < Buffer)
    <2> DEFINE feed == Append(Tail(stream.feed), event)
    <2>1. stream.feed # << >> /\ Len(stream.feed) = Buffer
      BY <1>1, <1>2, <1>4, TimelineAssumption, EmptySeq
    <2>2. Tail(stream.feed) \in Seq(Events) /\ Len(Tail(stream.feed)) = Buffer - 1
      BY <1>2, <2>1, HeadTailProperties
    <2>3. feed \in Seq(Events) /\ Len(feed) <= Buffer
      BY <2>2, AppendProperties, TimelineAssumption
    <2>4. Offered(stream, event) = [stream EXCEPT !.feed = feed, !.lagged = TRUE]
      BY <1>1, <1>4 DEF Offered, Connected
    <2> HIDE DEF feed
    <2>5. [stream EXCEPT !.feed = feed, !.lagged = TRUE] \in Connected
      BY <1>1, <2>3 DEF Connected
    <2>6. Orderly([stream EXCEPT !.feed = feed, !.lagged = TRUE])
      BY <1>1 DEF Orderly, Connected
    <2>7. QED
      BY <1>1, <2>3, <2>4, <2>5, <2>6 DEF StreamOK, Connected
  <1>5. QED
    BY <1>3, <1>4

\* The broadcast to all streams.
LEMMA BroadcastInv ==
    ASSUME IInv, NEW p \in Publishers, Broadcast(p)
    PROVE  IInv'
  <1>1. Streams /\ Publishing
    BY Parts
  <1>2. pubs[p] \in [pc : {"send", "persist"}, event : Events] /\ pubs[p].event \in Events
    BY <1>1 DEF Broadcast, Publishing, PublisherStates, Idle
  <1>3. \A c \in Clients : StreamOK(streams'[c])
    BY <1>1, <1>2, OfferedOK DEF Broadcast, Streams
  <1>4. Streams'
    BY <1>3 DEF Broadcast, Streams, StreamOK
  <1>5. Publishing'
    BY <1>1, <1>2 DEF Broadcast, Publishing, PublisherStates
  <1>6. QED
    BY <1>4, <1>5, Parts, PartsNext, Kept DEF Broadcast

\* Storing an event keeps the log keyed and never changes an entry.
LEMMA StoredOK ==
    ASSUME NEW event \in Events, Logged
    PROVE  LET table == Stored(log, event)
           IN  /\ DOMAIN table = DOMAIN log \cup {event.seq}
               /\ DOMAIN table \subseteq Nat \ {0}
               /\ table \in [DOMAIN table -> Events]
               /\ \A n \in DOMAIN table : table[n].seq = n
               /\ \A n \in DOMAIN log : table[n] = log[n]
  BY DEF Stored, Logged, LogKeyed, Events

\* The end of publish_event.
LEMMA PersistInv ==
    ASSUME IInv, NEW p \in Publishers, persist_timeline_event(p)
    PROVE  IInv'
  <1>1. Logged /\ Publishing
    BY Parts
  <1>2. pubs[p].event \in Events
    BY <1>1 DEF persist_timeline_event, Publishing, PublisherStates, Idle
  <1>3. Logged'
    <2>1. acked' \subseteq Events
      BY <1>1, <1>2 DEF persist_timeline_event, Logged
    <2>2. CASE log' = log
      BY <1>1, <2>1, <2>2 DEF Logged, LogKeyed
    <2>3. CASE log' = Stored(log, pubs[p].event)
      <3> DEFINE table == Stored(log, pubs[p].event)
      <3>1. /\ DOMAIN table \subseteq Nat \ {0} /\ table \in [DOMAIN table -> Events]
            /\ \A n \in DOMAIN table : table[n].seq = n
        BY <1>1, <1>2, StoredOK
      <3> HIDE DEF table
      <3>2. QED
        BY <2>1, <2>3, <3>1 DEF Logged, LogKeyed, table
    <2>4. QED
      BY <2>2, <2>3 DEF persist_timeline_event
  <1>4. Publishing'
    BY <1>1 DEF persist_timeline_event, Publishing, PublisherStates
  <1>5. QED
    BY <1>3, <1>4, Parts, PartsNext, Kept DEF persist_timeline_event

\* persist_state.
LEMMA SaveInv ==
    ASSUME IInv, NEW v \in Savers, Capture(v) \/ WriteSnapshot(v)
    PROVE  IInv'
  <1>1. Numbering /\ Snapshots
    BY Parts
  <1>2. CASE Capture(v)
    <2> DEFINE taken == [next |-> next, history |-> history]
    <2>1. taken \in TimelineSnapshots /\ Contiguous(taken.history, taken.next)
      BY <1>1 DEF Numbering, TimelineSnapshots
    <2>2. Snapshots'
      BY <1>1, <1>2, <2>1 DEF Capture, Snapshots, SnapshotsContiguous
    <2>3. QED
      BY <1>2, <2>2, Parts, PartsNext, Kept DEF Capture
  <1>3. CASE WriteSnapshot(v)
    <2>1. Snapshots'
      BY <1>1, <1>3 DEF WriteSnapshot, Snapshots, SnapshotsContiguous
    <2>2. QED
      BY <1>3, <2>1, Parts, PartsNext, Kept DEF WriteSnapshot
  <1>4. QED
    BY <1>2, <1>3

\* A step that changes one stream only.
LEMMA OneStream ==
    ASSUME IInv, NEW c \in Clients, NEW stream, StreamOK(stream),
           streams' = [streams EXCEPT ![c] = stream],
           UNCHANGED <<next, history, log, disk, pubs, savers, acked, restarts>>
    PROVE  IInv'
  <1>1. Streams
    BY Parts
  <1>2. Streams'
    BY <1>1 DEF Streams, StreamOK
  <1>3. QED
    BY <1>2, Parts, PartsNext, Kept

\* A new stream, and one that ends.
LEMMA SubscribeInv ==
    ASSUME IInv, NEW c \in Clients,
           Disconnect(c) \/ \E after \in Afters : Subscribe(c, after)
    PROVE  IInv'
  <1>1. Numbering /\ Publishing
    BY Parts
  <1>2. CASE Disconnect(c)
    BY <1>2, OneStream DEF Disconnect, StreamOK
  <1>3. ASSUME NEW after \in Afters, Subscribe(c, after)
        PROVE  IInv'
    <2> DEFINE racing == {pubs[p].event : p \in {q \in Publishers : pubs[q].pc = "persist"}}
               stream == [pc      |-> IF after = NoAfter THEN "serve" ELSE "query",
                          after   |-> after, backlog |-> {}, feed |-> << >>, last |-> 0,
                          got     |-> << >>, lagged |-> FALSE, since |-> next,
                          racing  |-> racing]
    <2>1. racing \subseteq Events
      BY <1>1 DEF Publishing, PublisherStates, Idle
    <2>2. << >> \in Seq(Events) /\ Len(<< >>) = 0 /\ DOMAIN << >> = {}
      OBVIOUS
    <2>3. streams' = [streams EXCEPT ![c] = stream]
      BY <1>3 DEF Subscribe
    <2> HIDE DEF racing
    <2>4. stream \in Connected
      BY <1>1, <2>1, <2>2 DEF Connected, Numbering
    <2>5. Orderly(stream)
      BY <2>2 DEF Orderly
    <2>6. StreamOK(stream)
      BY <2>2, <2>4, <2>5, TimelineAssumption DEF StreamOK
    <2> HIDE DEF stream
    <2>7. QED
      BY <1>3, <2>3, <2>6, OneStream DEF Subscribe
  <1>4. QED
    BY <1>2, <1>3

\* The query for the backlog.
LEMMA QueryInv ==
    ASSUME IInv, NEW c \in Clients, Query(c)
    PROVE  IInv'
  <1> DEFINE backlog == load_persisted_events(c)
             stream == [streams[c] EXCEPT !.pc = "serve", !.backlog = backlog]
  <1>1. Logged /\ Streams
    BY Parts
  <1>2. /\ streams[c] \in Connected /\ Orderly(streams[c])
        /\ Len(streams[c].feed) <= Buffer /\ streams[c].pc = "query"
    BY <1>1 DEF Query, Streams, StreamOK, Off
  <1>3. /\ backlog \subseteq Events
        /\ \A event \in backlog : event.seq > 0
        /\ \A a, b \in backlog : a.seq = b.seq => a = b
    BY <1>1 DEF load_persisted_events, Logged, LogKeyed, Events
  <1> HIDE DEF backlog
  <1>4. stream \in Connected
    BY <1>2, <1>3 DEF Connected
  <1>5. Orderly(stream)
    BY <1>2, <1>3 DEF Orderly, Connected
  <1>6. StreamOK(stream)
    BY <1>2, <1>4, <1>5 DEF StreamOK, Connected
  <1>7. streams' = [streams EXCEPT ![c] = stream]
    BY DEF Query, backlog
  <1> HIDE DEF stream
  <1>8. QED
    BY <1>6, <1>7, OneStream DEF Query

\* Sending one more event keeps what was sent increasing.
LEMMA SentOK ==
    ASSUME NEW got \in Seq(Events), NEW last \in Nat, NEW event \in Events,
           event.seq > last,
           \A i, j \in DOMAIN got : i < j => got[i].seq < got[j].seq,
           \A i \in DOMAIN got : got[i].seq <= last
    PROVE  LET sent == Append(got, event)
           IN  /\ sent \in Seq(Events)
               /\ \A i, j \in DOMAIN sent : i < j => sent[i].seq < sent[j].seq
               /\ \A i \in DOMAIN sent : sent[i].seq <= event.seq
  <1>1. /\ Append(got, event) \in Seq(Events)
        /\ DOMAIN Append(got, event) = 1 .. Len(got) + 1
        /\ \A i \in 1 .. Len(got) : Append(got, event)[i] = got[i]
        /\ Append(got, event)[Len(got) + 1] = event
    BY AppendProperties
  <1>2. /\ DOMAIN got = 1 .. Len(got) /\ Len(got) \in Nat
        /\ \A i \in 1 .. Len(got) : got[i].seq \in Nat
    <2>1. \A i \in 1 .. Len(got) : got[i] \in Events
      BY ElementOfSeq
    <2>2. QED
      BY <2>1 DEF Events
  <1>3. event.seq \in Nat
    BY DEF Events
  <1>4. QED
    BY <1>1, <1>2, <1>3

\* An event of the backlog is sent.
LEMMA ReplayInv ==
    ASSUME IInv, NEW c \in Clients, Replay(c)
    PROVE  IInv'
  <1>1. Streams
    BY Parts
  <1>2. /\ streams[c] \in Connected /\ Orderly(streams[c])
        /\ Len(streams[c].feed) <= Buffer /\ streams[c].pc = "serve"
    BY <1>1 DEF Replay, Streams, StreamOK, Off
  <1>3. PICK event \in streams[c].backlog :
          /\ \A other \in streams[c].backlog : event.seq <= other.seq
          /\ streams' = [streams EXCEPT ![c] =
                [@ EXCEPT !.backlog = streams[c].backlog \ {event},
                          !.got = Append(streams[c].got, event), !.last = event.seq]]
    BY DEF Replay
  <1> DEFINE rest == streams[c].backlog \ {event}
             sent == Append(streams[c].got, event)
             stream == [streams[c] EXCEPT !.backlog = rest, !.got = sent,
                                          !.last = event.seq]
  <1>4. event \in Events /\ event.seq \in Nat /\ rest \subseteq Events
    BY <1>2 DEF Connected, Events
  <1>5. /\ sent \in Seq(Events)
        /\ \A i, j \in DOMAIN sent : i < j => sent[i].seq < sent[j].seq
        /\ \A i \in DOMAIN sent : sent[i].seq <= event.seq
    BY <1>2, <1>3, <1>4, SentOK DEF Connected, Orderly
  <1>6. /\ \A other \in rest : other.seq > event.seq
        /\ \A a, b \in rest : a.seq = b.seq => a = b
    BY <1>2, <1>3, <1>4 DEF Orderly, Connected, Events
  <1>7. streams' = [streams EXCEPT ![c] = stream]
    BY <1>3
  <1> HIDE DEF rest, sent
  <1>8. stream \in Connected
    BY <1>2, <1>4, <1>5 DEF Connected
  <1>9. Orderly(stream)
    BY <1>2, <1>5, <1>6 DEF Orderly, Connected
  <1>10. StreamOK(stream)
    BY <1>2, <1>8, <1>9 DEF StreamOK, Connected
  <1> HIDE DEF stream
  <1>11. QED
    BY <1>7, <1>10, OneStream DEF Replay

\* An event from the channel is sent or skipped.
LEMMA ReceiveInv ==
    ASSUME IInv, NEW c \in Clients, Receive(c)
    PROVE  IInv'
  <1> DEFINE event == Head(streams[c].feed)
             rest == Tail(streams[c].feed)
             sent == Append(streams[c].got, event)
             sending == [streams[c] EXCEPT !.feed = rest, !.got = sent, !.last = event.seq]
             skipping == [streams[c] EXCEPT !.feed = rest]
  <1>1. Streams
    BY Parts
  <1>2. /\ streams[c] \in Connected /\ Orderly(streams[c])
        /\ Len(streams[c].feed) <= Buffer /\ streams[c].pc = "serve"
        /\ streams[c].backlog = {}
    BY <1>1 DEF Receive, Streams, StreamOK, Off
  <1>3. streams[c].feed \in Seq(Events) /\ streams[c].feed # << >>
    BY <1>2 DEF Receive, Connected
  <1>4. event \in Events /\ rest \in Seq(Events) /\ Len(rest) <= Buffer
    BY <1>2, <1>3, HeadTailProperties, TimelineAssumption
  <1>5. streams' = [streams EXCEPT ![c] =
                       IF Wanted(streams[c], c, event) THEN sending ELSE skipping]
    BY DEF Receive
  <1>6. ASSUME Wanted(streams[c], c, event)
        PROVE  StreamOK(sending)
    <2>1. event.seq > streams[c].last /\ event.seq \in Nat
      BY <1>4, <1>6 DEF Wanted, Events
    <2>2. /\ sent \in Seq(Events)
          /\ \A i, j \in DOMAIN sent : i < j => sent[i].seq < sent[j].seq
          /\ \A i \in DOMAIN sent : sent[i].seq <= event.seq
      BY <1>2, <1>4, <2>1, SentOK DEF Connected, Orderly
    <2> HIDE DEF event, rest, sent
    <2>3. sending \in Connected
      BY <1>2, <1>4, <2>1, <2>2 DEF Connected
    <2>4. Orderly(sending)
      BY <1>2, <2>2 DEF Orderly, Connected
    <2>5. QED
      BY <1>2, <1>4, <2>3, <2>4 DEF StreamOK, Connected
  <1>7. StreamOK(skipping)
    <2> HIDE DEF event, rest, sent
    <2>1. skipping \in Connected
      BY <1>2, <1>4 DEF Connected
    <2>2. Orderly(skipping)
      BY <1>2 DEF Orderly, Connected
    <2>3. QED
      BY <1>2, <1>4, <2>1, <2>2 DEF StreamOK, Connected
  <1> HIDE DEF event, rest, sent, sending, skipping
  <1>8. QED
    BY <1>5, <1>6, <1>7, OneStream DEF Receive

\* Backfilling adds the missing events of the snapshot and changes no entry.
LEMMA BackfilledOK ==
    ASSUME Logged, NEW events \in Seq(Events)
    PROVE  LET table == Backfilled(log, events)
           IN  /\ DOMAIN log \subseteq DOMAIN table
               /\ DOMAIN table \subseteq Nat \ {0}
               /\ table \in [DOMAIN table -> Events]
               /\ \A n \in DOMAIN table : table[n].seq = n
               /\ \A n \in DOMAIN log : table[n] = log[n]
  <1> DEFINE numbers == {events[i].seq : i \in DOMAIN events}
             pick(n) == CHOOSE i \in DOMAIN events : events[i].seq = n
  <1>1. \A i \in DOMAIN events : events[i] \in Events /\ events[i].seq \in Nat \ {0}
    <2>1. \A i \in 1 .. Len(events) : events[i] \in Events
      BY ElementOfSeq
    <2>2. DOMAIN events = 1 .. Len(events)
      OBVIOUS
    <2>3. QED
      BY <2>1, <2>2 DEF Events
  <1>2. \A n \in numbers : pick(n) \in DOMAIN events /\ events[pick(n)].seq = n
    OBVIOUS
  <1>3. Backfilled(log, events) =
          [n \in DOMAIN log \cup numbers |->
              IF n \in DOMAIN log THEN log[n] ELSE events[pick(n)]]
    BY DEF Backfilled
  <1> HIDE DEF pick
  <1>4. numbers \subseteq Nat \ {0}
    BY <1>1
  <1> HIDE DEF numbers
  <1>5. QED
    BY <1>1, <1>2, <1>3, <1>4 DEF Logged, LogKeyed

\* A restart from the snapshot row, or without one.
LEMMA RestartInv ==
    ASSUME IInv, Restart
    PROVE  IInv'
  <1>1. Numbering /\ Logged /\ Snapshots
    BY Parts
  <1>2. Snapshots'
    BY <1>1 DEF Restart, Snapshots, SnapshotsContiguous
  <1>3. Streams' /\ Publishing'
    BY DEF Restart, Streams, StreamOK, Publishing, PublisherStates
  <1>4. CASE next' = 1 /\ history' = << >> /\ log' = log
    <2>1. next' = 1 /\ history' = << >> /\ log' = log /\ acked' = acked
      BY <1>4 DEF Restart
    <2>2. Contiguous(<< >>, 1)
      BY TimelineAssumption DEF Contiguous
    <2>3. Numbering'
      BY <1>1, <2>1, <2>2 DEF Restart, Numbering
    <2>4. QED
      BY <1>1, <1>2, <1>3, <2>1, <2>3, PartsNext, Kept
  <1>5. CASE /\ disk # NoSnapshot
             /\ next' = disk.next /\ history' = disk.history
             /\ log' = Backfilled(log, disk.history)
    <2>1. /\ disk \in TimelineSnapshots /\ Contiguous(disk.history, disk.next)
          /\ next' = disk.next /\ history' = disk.history
          /\ log' = Backfilled(log, disk.history) /\ acked' = acked
      BY <1>1, <1>5 DEF Restart, Snapshots, SnapshotsContiguous
    <2>2. disk.history \in Seq(Events) /\ disk.next \in Nat \ {0}
      BY <2>1 DEF TimelineSnapshots
    <2>3. Numbering'
      BY <1>1, <2>1, <2>2 DEF Restart, Numbering
    <2>4. Logged'
      BY <1>1, <2>1, <2>2, BackfilledOK DEF Logged, LogKeyed
    <2>5. QED
      BY <1>2, <1>3, <2>3, <2>4, PartsNext
  <1>6. QED
    BY <1>4, <1>5 DEF Restart

-----------------------------------------------------------------------------
(* Theorems *)

\* Initially the invariant holds.
LEMMA InitInv == Init => IInv
  <1> SUFFICES ASSUME Init PROVE IInv
    OBVIOUS
  <1>1. Numbering
    BY TimelineAssumption DEF Init, Numbering, Contiguous
  <1>2. Logged
    BY DEF Init, Logged, LogKeyed
  <1>3. Snapshots
    BY DEF Init, Snapshots, SnapshotsContiguous
  <1>4. Streams /\ Publishing
    BY DEF Init, Streams, StreamOK, Publishing, PublisherStates
  <1>5. QED
    BY <1>1, <1>2, <1>3, <1>4, Parts

\* Every step preserves the invariant.
LEMMA NextInv == IInv /\ [Next]_vars => IInv'
  <1> SUFFICES ASSUME IInv, [Next]_vars PROVE IInv'
    OBVIOUS
  <1>1. CASE \E p \in Publishers :
                \/ \E topic \in Topics : publish(p, topic)
                \/ Broadcast(p)
                \/ persist_timeline_event(p)
    BY <1>1, PublishInv, BroadcastInv, PersistInv
  <1>2. CASE \E v \in Savers : Capture(v) \/ WriteSnapshot(v)
    BY <1>2, SaveInv
  <1>3. CASE \E c \in Clients :
                \/ \E after \in Afters : Subscribe(c, after)
                \/ Query(c) \/ Replay(c) \/ Receive(c) \/ Disconnect(c)
    BY <1>3, SubscribeInv, QueryInv, ReplayInv, ReceiveInv
  <1>4. CASE Restart
    BY <1>4, RestartInv
  <1>5. CASE UNCHANGED vars
    BY <1>5, Parts, PartsNext, Kept DEF vars
  <1>6. QED
    BY <1>1, <1>2, <1>3, <1>4, <1>5 DEF Next

\* The inductive invariant holds throughout every behaviour.
THEOREM Invariance == Spec => []IInv
  BY InitInv, NextInv, PTL DEF Spec

\* The timeline's variables keep their types and no stream's channel grows
\* beyond its buffer.
THEOREM TypeCorrect == Spec => []TypeOK
  <1>1. IInv => TypeOK
    BY DEF IInv
  <1>2. QED
    BY <1>1, Invariance, PTL

\* The history is contiguous in every run of the service.
THEOREM HistoryCorrect == Spec => []HistoryContiguous
  <1>1. IInv => HistoryContiguous
    BY DEF IInv, Contiguous, HistoryContiguous
  <1>2. QED
    BY <1>1, Invariance, PTL

\* No connection sends an event twice or out of order.
THEOREM StreamsCorrect == Spec => []StreamInOrder
  <1>1. IInv => StreamInOrder
    BY DEF IInv, StreamsOrderly, Orderly, StreamInOrder
  <1>2. QED
    BY <1>1, Invariance, PTL

\* No step changes or removes an entry of the log.
THEOREM LogCorrect == Spec => LogWriteOnce
  <1> DEFINE Grows == \A n \in DOMAIN log : n \in DOMAIN log' /\ log'[n] = log[n]
  <1>1. ASSUME IInv, [Next]_vars PROVE Grows
    <2>1. Logged /\ Snapshots /\ Publishing
      BY <1>1, Parts
    <2>2. ASSUME NEW p \in Publishers, persist_timeline_event(p) PROVE Grows
      <3>1. pubs[p].event \in Events
        BY <2>1, <2>2 DEF persist_timeline_event, Publishing, PublisherStates, Idle
      <3>2. CASE log' = log
        BY <3>2
      <3>3. CASE log' = Stored(log, pubs[p].event)
        <4> DEFINE table == Stored(log, pubs[p].event)
        <4>1. /\ DOMAIN table = DOMAIN log \cup {pubs[p].event.seq}
              /\ \A n \in DOMAIN log : table[n] = log[n]
          BY <2>1, <3>1, StoredOK
        <4> HIDE DEF table
        <4>2. QED
          BY <3>3, <4>1 DEF table
      <3>4. QED
        BY <2>2, <3>2, <3>3 DEF persist_timeline_event
    <2>3. ASSUME Restart PROVE Grows
      <3>1. CASE log' = log
        BY <3>1
      <3>2. CASE disk # NoSnapshot /\ log' = Backfilled(log, disk.history)
        <4>1. disk.history \in Seq(Events) /\ log' = Backfilled(log, disk.history)
          BY <2>1, <2>3, <3>2 DEF Restart, Snapshots, TimelineSnapshots
        <4>2. QED
          BY <2>1, <4>1, BackfilledOK
      <3>3. QED
        BY <2>3, <3>1, <3>2 DEF Restart
    <2>4. CASE log' = log
      BY <2>4
    <2>5. CASE \E p \in Publishers :
                  \/ \E topic \in Topics : publish(p, topic)
                  \/ Broadcast(p)
                  \/ persist_timeline_event(p)
      BY <2>2, <2>4, <2>5 DEF publish, Broadcast
    <2>6. CASE \E v \in Savers : Capture(v) \/ WriteSnapshot(v)
      BY <2>4, <2>6 DEF Capture, WriteSnapshot
    <2>7. CASE \E c \in Clients :
                  \/ \E after \in Afters : Subscribe(c, after)
                  \/ Query(c) \/ Replay(c) \/ Receive(c) \/ Disconnect(c)
      BY <2>4, <2>7 DEF Subscribe, Query, Replay, Receive, Disconnect
    <2>8. CASE UNCHANGED vars
      BY <2>4, <2>8 DEF vars
    <2>9. QED
      BY <1>1, <2>3, <2>5, <2>6, <2>7, <2>8 DEF Next
  <1>2. QED
    BY <1>1, Invariance, PTL DEF Spec, LogWriteOnce

-----------------------------------------------------------------------------
(* Durability while the service runs *)

InFlight(p) == pubs[p] # Idle

\* Numbers are used once: those in flight are distinct, below next_sequence
\* and not yet in the log, and so are those of the log.
Ledger ==
    /\ \A p \in Publishers : InFlight(p) =>
          pubs[p].event.seq < next /\ pubs[p].event.seq \notin DOMAIN log
    /\ \A p, q \in Publishers : InFlight(p) /\ InFlight(q) /\ p # q =>
          pubs[p].event.seq # pubs[q].event.seq
    /\ \A n \in DOMAIN log : n < next
    /\ AckedStored

\* The ledger depends on these variables only.
LEMMA LedgerKept ==
    Ledger /\ UNCHANGED <<next, log, pubs, acked>> => Ledger'
  BY DEF Ledger, InFlight, AckedStored

\* The three steps of publish_event keep the ledger.
LEMMA PublisherLedger ==
    ASSUME IInv, Ledger, ~DiskFails, NEW p \in Publishers,
           \/ \E topic \in Topics : publish(p, topic)
           \/ Broadcast(p)
           \/ persist_timeline_event(p)
    PROVE  Ledger'
  <1>1. Numbering /\ Logged /\ Publishing
    BY Parts
  <1>2. ASSUME NEW topic \in Topics, publish(p, topic) PROVE Ledger'
    <2> DEFINE event == [seq |-> next, topic |-> topic, run |-> restarts]
    <2>1. /\ pubs' = [pubs EXCEPT ![p] = [pc |-> "send", event |-> event]]
          /\ next' = next + 1 /\ log' = log /\ acked' = acked
      BY <1>2 DEF publish, NextSequence
    <2>2. /\ next \in Nat /\ next \notin DOMAIN log /\ \A n \in DOMAIN log : n < next + 1
          /\ \A q \in Publishers : InFlight(q) => pubs[q].event.seq \in Nat
      BY <1>1 DEF Ledger, Numbering, Logged, Publishing, PublisherStates, Events, InFlight
    <2>3. event.seq = next /\ pubs'[p].event = event
          /\ \A q \in Publishers \ {p} : pubs'[q] = pubs[q]
      BY <1>1, <2>1 DEF Publishing
    <2> HIDE DEF event
    <2>4. QED
      BY <2>1, <2>2, <2>3 DEF Ledger, InFlight, AckedStored
  <1>3. CASE Broadcast(p)
    <2>1. /\ next' = next /\ log' = log /\ acked' = acked
          /\ InFlight(p) /\ pubs'[p].event = pubs[p].event
          /\ \A q \in Publishers \ {p} : pubs'[q] = pubs[q]
      BY <1>1, <1>3 DEF Broadcast, Publishing, PublisherStates, InFlight, Idle
    <2>2. QED
      BY <2>1 DEF Ledger, InFlight, AckedStored
  <1>4. CASE persist_timeline_event(p)
    <2> DEFINE event == pubs[p].event
               table == Stored(log, event)
    <2>1. event \in Events /\ InFlight(p)
      BY <1>1, <1>4 DEF persist_timeline_event, Publishing, PublisherStates, InFlight, Idle
    <2>2. /\ DOMAIN table = DOMAIN log \cup {event.seq}
          /\ \A n \in DOMAIN log : table[n] = log[n]
      BY <1>1, <2>1, StoredOK
    <2>3. table[event.seq] = event /\ event.seq < next /\ event.seq \notin DOMAIN log
      BY <2>1 DEF Stored, Ledger
    <2>4. /\ log' = table /\ acked' = acked \cup {event} /\ next' = next
          /\ pubs' = [pubs EXCEPT ![p] = Idle]
      BY <1>4 DEF persist_timeline_event
    <2>5. \A q \in Publishers \ {p} : pubs'[q] = pubs[q]
      BY <2>4
    <2>6. pubs'[p] = Idle
      BY <1>1, <2>4 DEF Publishing
    <2>7. \A q \in Publishers \ {p} : InFlight(q) => pubs[q].event.seq # event.seq
      BY <2>1 DEF Ledger
    <2> HIDE DEF table, event
    <2>8. AckedStored'
      BY <2>2, <2>3, <2>4 DEF Ledger, AckedStored
    <2>9. QED
      BY <2>2, <2>3, <2>4, <2>5, <2>6, <2>7, <2>8 DEF Ledger, InFlight
  <1>5. QED
    BY <1>2, <1>3, <1>4

\* While the service is not restarted and SQLite accepts its writes, every
\* event that publish_event returned can be read back under its number.
THEOREM AckedCorrect ==
    ASSUME MaxRestarts = 0, ~DiskFails
    PROVE  Spec => []AckedStored
  <1>1. Init => Ledger
    BY DEF Init, Ledger, InFlight, AckedStored
  <1>2. ASSUME IInv, Ledger, [Next]_vars PROVE Ledger'
    <2>1. CASE \E p \in Publishers :
                  \/ \E topic \in Topics : publish(p, topic)
                  \/ Broadcast(p)
                  \/ persist_timeline_event(p)
      BY <1>2, <2>1, PublisherLedger
    <2>2. CASE \E v \in Savers : Capture(v) \/ WriteSnapshot(v)
      BY <1>2, <2>2, LedgerKept DEF Capture, WriteSnapshot
    <2>3. CASE \E c \in Clients :
                  \/ \E after \in Afters : Subscribe(c, after)
                  \/ Query(c) \/ Replay(c) \/ Receive(c) \/ Disconnect(c)
      BY <1>2, <2>3, LedgerKept DEF Subscribe, Query, Replay, Receive, Disconnect
    <2>4. ~Restart
      BY <1>2 DEF Restart, IInv, TypeOK
    <2>5. CASE UNCHANGED vars
      BY <1>2, <2>5, LedgerKept DEF vars
    <2>6. QED
      BY <1>2, <2>1, <2>2, <2>3, <2>4, <2>5 DEF Next
  <1>3. Ledger => AckedStored
    BY DEF Ledger
  <1>4. QED
    BY <1>1, <1>2, <1>3, Invariance, PTL DEF Spec

-----------------------------------------------------------------------------
(* What a stream sends of what it owes *)

\* What the channel holds for a stream, and what the stream has sent.
Elements(events) == {events[i] : i \in DOMAIN events}
Waiting(stream) == Elements(stream.feed)
Delivered(stream) == Elements(stream.got)

\* Every event a task, the log or a stream knows of.
Heard ==
    {pubs[p].event : p \in {q \in Publishers : InFlight(q)}}
    \cup {log[n] : n \in DOMAIN log}
    \cup UNION {Waiting(streams[c]) \cup Delivered(streams[c]) :
                   c \in {d \in Clients : streams[d] # Off}}

\* One run of the service uses a number once, and no number from `next` on.
NumberedOnce ==
    /\ \A event \in Heard : event.run <= restarts /\ (event.run = restarts => event.seq < next)
    /\ \A a, b \in Heard : a.run = restarts /\ b.run = restarts /\ a.seq = b.seq => a = b

\* publish_event is about an event of this run.
CurrentRun == \A p \in Publishers : InFlight(p) => pubs[p].event.run = restarts

\* No snapshot knows an event of a later run.
Past(events) == \A event \in Elements(events) : event.run <= restarts
SnapshotsPast ==
    /\ Past(history)
    /\ Past(disk.history)
    /\ \A v \in Savers : Past(savers[v].history)

\* The channel only holds events of this run; what was sent or is to be
\* replayed came from it or from the log, and `last` is the number of an event
\* that was sent.
Sourced(stream) ==
    /\ \A event \in Waiting(stream) : event.run = restarts
    /\ \A event \in Delivered(stream) :
          event.run = restarts \/ (event.seq \in DOMAIN log /\ log[event.seq] = event)
    /\ \A event \in stream.backlog : event.seq \in DOMAIN log /\ log[event.seq] = event
    /\ stream.last = 0 \/ \E event \in Delivered(stream) : event.seq = stream.last

\* An event that is broadcast and not stored yet is with the streams.
Passing(stream, event) ==
    event \in Waiting(stream) \cup Delivered(stream) \/ event.seq < stream.last
Announced(c) ==
    ~streams[c].lagged =>
        \A p \in Publishers :
            pubs[p].pc = "persist" /\ pubs[p].event.topic \in Follows[c]
              /\ pubs[p].event.seq \notin DOMAIN log /\ pubs[p].event \notin streams[c].racing
            => Passing(streams[c], pubs[p].event)

\* MissedOnlyIfOvertaken, of one stream.
Settled(c) ==
    streams[c].pc = "serve" /\ ~streams[c].lagged =>
        \A event \in Owed(c) \ streams[c].racing :
            event \in streams[c].backlog \/ Passing(streams[c], event)

StreamFair(c) ==
    streams[c] # Off => /\ streams[c].pc = "query" => streams[c].after # NoAfter
                        /\ Sourced(streams[c]) /\ Announced(c) /\ Settled(c)

FairInv ==
    /\ NumberedOnce
    /\ CurrentRun
    /\ SnapshotsPast
    /\ \A c \in Clients : StreamFair(c)

-----------------------------------------------------------------------------
(* Lemmas about what is heard and what a stream holds *)

\* One more event, and one event less.
LEMMA ElementsAppend ==
    ASSUME NEW events \in Seq(Events), NEW event
    PROVE  Elements(Append(events, event)) = Elements(events) \cup {event}
  <1> DEFINE longer == Append(events, event)
  <1>1. /\ DOMAIN events = 1 .. Len(events) /\ Len(events) \in Nat
        /\ DOMAIN longer = 1 .. Len(events) + 1
        /\ \A i \in 1 .. Len(events) : longer[i] = events[i]
        /\ longer[Len(events) + 1] = event
    OBVIOUS
  <1> HIDE DEF longer
  <1>2. \A i \in 1 .. Len(events) + 1 : i \in 1 .. Len(events) \/ i = Len(events) + 1
    BY <1>1
  <1>3. 1 .. Len(events) \subseteq 1 .. Len(events) + 1 /\ Len(events) + 1 \in 1 .. Len(events) + 1
    BY <1>1
  <1>4. Elements(longer) = Elements(events) \cup {event}
    BY <1>1, <1>2, <1>3 DEF Elements
  <1>5. QED
    BY <1>4 DEF longer

LEMMA ElementsTail ==
    ASSUME NEW events \in Seq(Events), events # << >>
    PROVE  /\ Elements(events) = Elements(Tail(events)) \cup {Head(events)}
           /\ Tail(events) \in Seq(Events) /\ Head(events) \in Events
  <1> DEFINE rest == Tail(events)
             first == Head(events)
  <1>1. /\ rest \in Seq(Events) /\ Len(rest) = Len(events) - 1 /\ first = events[1]
        /\ \A i \in 1 .. Len(rest) : rest[i] = events[i + 1]
        /\ first \in Events /\ Len(events) \in Nat \ {0}
    BY HeadTailProperties, EmptySeq
  <1>2. DOMAIN events = 1 .. Len(events) /\ DOMAIN rest = 1 .. Len(events) - 1
    <2> HIDE DEF rest, first
    <2>1. DOMAIN events = 1 .. Len(events) /\ DOMAIN rest = 1 .. Len(rest)
      BY <1>1, LenProperties
    <2>2. QED
      BY <1>1, <2>1
  <1> HIDE DEF rest, first
  <1>3. \A i \in 1 .. Len(events) - 1 : i + 1 \in 1 .. Len(events)
    BY <1>1
  <1>4. Elements(rest) \cup {first} \subseteq Elements(events)
    <2>1. 1 \in 1 .. Len(events)
      BY <1>1
    <2>2. QED
      BY <1>1, <1>2, <1>3, <2>1 DEF Elements
  <1>5. ASSUME NEW i \in 1 .. Len(events) PROVE events[i] \in Elements(rest) \cup {first}
    <2>1. CASE i = 1
      BY <1>1, <2>1
    <2>2. CASE i # 1
      <3>1. i - 1 \in 1 .. Len(events) - 1 /\ (i - 1) + 1 = i
        BY <1>1, <2>2
      <3>2. rest[i - 1] = events[i]
        BY <1>1, <3>1
      <3>3. QED
        BY <1>2, <3>1, <3>2 DEF Elements
    <2>3. QED
      BY <2>1, <2>2
  <1>6. Elements(events) = Elements(rest) \cup {first}
    BY <1>2, <1>4, <1>5 DEF Elements
  <1>7. QED
    BY <1>1, <1>6 DEF rest, first

\* The elements of a sequence of events are events.
LEMMA ElementsType ==
    ASSUME NEW events \in Seq(Events)
    PROVE  Elements(events) \subseteq Events
  BY ElementOfSeq DEF Elements

\* Who knows an event.
LEMMA HeardFrom ==
    /\ \A p \in Publishers : InFlight(p) => pubs[p].event \in Heard
    /\ \A n \in DOMAIN log : log[n] \in Heard
    /\ \A c \in Clients : streams[c] # Off =>
          Waiting(streams[c]) \subseteq Heard /\ Delivered(streams[c]) \subseteq Heard
  BY DEF Heard

LEMMA HeardNext ==
    ASSUME NEW event \in Heard'
    PROVE  \/ \E p \in Publishers : InFlight(p)' /\ event = pubs'[p].event
           \/ \E n \in DOMAIN log' : event = log'[n]
           \/ \E c \in Clients : /\ streams'[c] # Off
                                 /\ event \in Waiting(streams'[c]) \cup Delivered(streams'[c])
  BY DEF Heard

\* No new event is heard of.
LEMMA NumberedKept ==
    ASSUME NumberedOnce, UNCHANGED <<next, restarts>>, Heard' \subseteq Heard
    PROVE  NumberedOnce'
  BY DEF NumberedOnce

\* The types of the events.
LEMMA HeardType == IInv => Heard \subseteq Events
  <1> SUFFICES ASSUME IInv PROVE Heard \subseteq Events
    OBVIOUS
  <1>1. Logged /\ Streams /\ Publishing
    BY Parts
  <1>2. \A p \in Publishers : InFlight(p) => pubs[p].event \in Events
    BY <1>1 DEF Publishing, PublisherStates, InFlight
  <1>3. \A n \in DOMAIN log : log[n] \in Events
    BY <1>1 DEF Logged
  <1>4. ASSUME NEW c \in Clients, streams[c] # Off
        PROVE  Waiting(streams[c]) \subseteq Events /\ Delivered(streams[c]) \subseteq Events
    <2>1. streams[c].feed \in Seq(Events) /\ streams[c].got \in Seq(Events)
      BY <1>1, <1>4 DEF Streams, Connected
    <2>2. QED
      BY <2>1, ElementsType DEF Waiting, Delivered
  <1>5. QED
    BY <1>2, <1>3, <1>4 DEF Heard

\* What an untouched stream needs: the log only grows, and every event that is
\* broadcast and not stored was so before.
LEMMA FairKept ==
    ASSUME NEW c \in Clients, StreamFair(c), streams'[c] = streams[c], restarts' = restarts,
           log' = log,
           \A p \in Publishers : pubs'[p].pc = "persist" => pubs'[p] = pubs[p]
    PROVE  StreamFair(c)'
  <1>1. CASE streams[c] = Off
    BY <1>1 DEF StreamFair
  <1>2. CASE streams[c] # Off
    <2>1. Sourced(streams[c])'
      BY <1>2 DEF StreamFair, Sourced
    <2>2. Announced(c)'
      BY <1>2 DEF StreamFair, Announced
    <2>3. Settled(c)'
      BY <1>2 DEF StreamFair, Settled, Owed
    <2>4. QED
      BY <1>2, <2>1, <2>2, <2>3 DEF StreamFair
  <1>3. QED
    BY <1>1, <1>2

-----------------------------------------------------------------------------
(* The actions *)

\* A new number.
LEMMA PublishFair ==
    ASSUME IInv, FairInv, NEW p \in Publishers, NEW topic \in Topics, publish(p, topic)
    PROVE  FairInv'
  <1> DEFINE event == [seq |-> next, topic |-> topic, run |-> restarts]
  <1>1. Numbering /\ Publishing
    BY Parts
  <1>2. /\ history' = Trimmed(Append(history, event))
        /\ pubs' = [pubs EXCEPT ![p] = [pc |-> "send", event |-> event]]
        /\ next' = next + 1 /\ UNCHANGED <<log, disk, savers, streams, acked, restarts>>
    BY DEF publish, NextSequence
  <1>3. event \in Events /\ event.seq = next /\ event.run = restarts
    BY <1>1 DEF Numbering, Events
  <1> HIDE DEF event
  <1>4. /\ pubs'[p].pc = "send" /\ pubs'[p].event = event
        /\ \A q \in Publishers \ {p} : pubs'[q] = pubs[q]
    BY <1>1, <1>2 DEF Publishing
  <1>5. Heard' \subseteq Heard \cup {event}
    <2> SUFFICES ASSUME NEW x \in Heard' PROVE x \in Heard \cup {event}
      OBVIOUS
    <2>1. CASE \E q \in Publishers : InFlight(q)' /\ x = pubs'[q].event
      BY <1>4, <2>1, HeardFrom DEF InFlight
    <2>2. CASE \E n \in DOMAIN log' : x = log'[n]
      BY <1>2, <2>2, HeardFrom
    <2>3. CASE \E c \in Clients : /\ streams'[c] # Off
                                 /\ x \in Waiting(streams'[c]) \cup Delivered(streams'[c])
      BY <1>2, <2>3, HeardFrom
    <2>4. QED
      BY <2>1, <2>2, <2>3, HeardNext
  <1>6. NumberedOnce'
    <2>1. \A x \in Heard : x.seq \in Nat /\ (x.run = restarts => x.seq < next)
      BY HeardType DEF FairInv, NumberedOnce, Events
    <2>2. next \in Nat /\ restarts \in Nat
      BY <1>1 DEF Numbering
    <2>3. \A x \in Heard' : x.run <= restarts /\ (x.run = restarts => x.seq < next + 1)
      BY <1>3, <1>5, <2>1, <2>2 DEF FairInv, NumberedOnce
    <2>4. ASSUME NEW a \in Heard', NEW b \in Heard', a.run = restarts, b.run = restarts,
                 a.seq = b.seq
          PROVE  a = b
      <3>1. CASE a \in Heard /\ b \in Heard
        BY <2>4, <3>1 DEF FairInv, NumberedOnce
      <3>2. CASE a = event \/ b = event
        BY <1>3, <1>5, <2>1, <2>2, <2>4, <3>2
      <3>3. QED
        BY <1>5, <3>1, <3>2
    <2>5. QED
      BY <1>2, <2>3, <2>4 DEF NumberedOnce
  <1>7. SnapshotsPast'
    <2>1. Elements(Append(history, event)) = Elements(history) \cup {event}
      BY <1>1, ElementsAppend DEF Numbering
    <2>2. Elements(Tail(Append(history, event))) \subseteq Elements(Append(history, event))
      <3> DEFINE longer == Append(history, event)
      <3>1. longer \in Seq(Events) /\ longer # << >>
        BY <1>1, <1>3, AppendProperties DEF Numbering
      <3> HIDE DEF longer
      <3>2. Elements(Tail(longer)) \subseteq Elements(longer)
        BY <3>1, ElementsTail
      <3>3. QED
        BY <3>2 DEF longer
    <2>3. Elements(history') \subseteq Elements(history) \cup {event}
      BY <1>2, <2>1, <2>2 DEF Trimmed
    <2>4. restarts \in Nat
      BY <1>1 DEF Numbering
    <2>5. QED
      BY <1>2, <1>3, <2>3, <2>4 DEF FairInv, SnapshotsPast, Past
  <1>8. \A c \in Clients : StreamFair(c)'
    <2>1. \A q \in Publishers : pubs'[q].pc = "persist" => pubs'[q] = pubs[q]
      BY <1>4
    <2>2. QED
      BY <1>2, <2>1, FairKept DEF FairInv
  <1>9. CurrentRun'
    BY <1>2, <1>3, <1>4 DEF FairInv, CurrentRun, InFlight
  <1>10. QED
    BY <1>6, <1>7, <1>8, <1>9 DEF FairInv

\* What the channel holds for a stream after a broadcast.
LEMMA OfferedFields ==
    ASSUME NEW stream \in Connected, Len(stream.feed) <= Buffer, NEW event \in Events
    PROVE  LET after == Offered(stream, event)
           IN  /\ after \in Connected
               /\ after.pc = stream.pc /\ after.after = stream.after
               /\ after.backlog = stream.backlog /\ after.got = stream.got
               /\ after.last = stream.last /\ after.since = stream.since
               /\ after.racing = stream.racing
               /\ Waiting(after) \subseteq Waiting(stream) \cup {event}
               /\ ~after.lagged =>
                     ~stream.lagged /\ Waiting(after) = Waiting(stream) \cup {event}
  <1>1. stream.feed \in Seq(Events)
    BY DEF Connected
  <1>2. CASE Len(stream.feed) < Buffer
    <2> DEFINE feed == Append(stream.feed, event)
    <2>1. Elements(feed) = Elements(stream.feed) \cup {event} /\ feed \in Seq(Events)
      BY <1>1, ElementsAppend, AppendProperties
    <2>2. Offered(stream, event) = [stream EXCEPT !.feed = feed]
      BY <1>2 DEF Offered, Connected
    <2> HIDE DEF feed
    <2>3. QED
      BY <2>1, <2>2 DEF Waiting, Connected
  <1>3. CASE ~(Len(stream.feed) < Buffer)
    <2> DEFINE feed == Append(Tail(stream.feed), event)
    <2>1. stream.feed # << >>
      BY <1>1, <1>3, TimelineAssumption, EmptySeq
    <2>2. Elements(Tail(stream.feed)) \subseteq Elements(stream.feed) /\ Tail(stream.feed) \in Seq(Events)
      BY <1>1, <2>1, ElementsTail
    <2>3. Elements(feed) \subseteq Elements(stream.feed) \cup {event} /\ feed \in Seq(Events)
      BY <2>2, ElementsAppend, AppendProperties
    <2>4. Offered(stream, event) = [stream EXCEPT !.feed = feed, !.lagged = TRUE]
      BY <1>3 DEF Offered, Connected
    <2> HIDE DEF feed
    <2>5. QED
      BY <2>3, <2>4 DEF Waiting, Connected
  <1>4. QED
    BY <1>2, <1>3

LEMMA BroadcastFair ==
    ASSUME IInv, FairInv, NEW p \in Publishers, Broadcast(p)
    PROVE  FairInv'
  <1> DEFINE event == pubs[p].event
  <1>1. Numbering /\ Streams /\ Publishing
    BY Parts
  <1>2. /\ pubs[p].pc = "send" /\ InFlight(p) /\ event \in Events
        /\ pubs'[p].event = event
        /\ \A q \in Publishers \ {p} : pubs'[q] = pubs[q]
    BY <1>1 DEF Broadcast, Publishing, PublisherStates, InFlight, Idle
  <1>3. /\ UNCHANGED <<next, history, log, disk, savers, acked, restarts>>
        /\ \A c \in Clients : streams'[c] =
              IF Receiving(streams[c]) THEN Offered(streams[c], event) ELSE streams[c]
    BY DEF Broadcast
  <1>4. event \in Heard
    BY <1>2, HeardFrom
  <1>5. event.run = restarts
    BY <1>2 DEF FairInv, CurrentRun
  <1> HIDE DEF event
  <1>6. ASSUME NEW c \in Clients, streams[c] = Off PROVE streams'[c] = Off
    BY <1>3, <1>6 DEF Receiving, Off
  <1>7. ASSUME NEW c \in Clients, streams[c] # Off
        PROVE  /\ streams[c] \in Connected /\ streams'[c] \in Connected
               /\ streams'[c].pc = streams[c].pc /\ streams'[c].after = streams[c].after
               /\ streams'[c].backlog = streams[c].backlog
               /\ Delivered(streams'[c]) = Delivered(streams[c])
               /\ streams'[c].last = streams[c].last /\ streams'[c].since = streams[c].since
               /\ streams'[c].racing = streams[c].racing
               /\ Waiting(streams'[c]) \subseteq Waiting(streams[c]) \cup {event}
               /\ ~streams'[c].lagged =>
                     ~streams[c].lagged /\ Waiting(streams'[c]) = Waiting(streams[c]) \cup {event}
    <2> DEFINE stream == streams[c]
    <2>1. stream \in Connected /\ Len(stream.feed) <= Buffer
      BY <1>1, <1>7 DEF Streams, StreamOK
    <2>2. Receiving(stream)
      BY <2>1 DEF Receiving, Connected
    <2>3. streams'[c] = Offered(stream, event)
      BY <1>3, <2>2
    <2> HIDE DEF stream
    <2>4. QED
      BY <1>2, <2>1, <2>3, OfferedFields DEF Delivered, stream
  <1>8. NumberedOnce' /\ CurrentRun' /\ SnapshotsPast'
    <2>1. Heard' \subseteq Heard
      <3> SUFFICES ASSUME NEW x \in Heard' PROVE x \in Heard
        OBVIOUS
      <3>1. CASE \E q \in Publishers : InFlight(q)' /\ x = pubs'[q].event
        BY <1>2, <1>4, <3>1, HeardFrom DEF InFlight
      <3>2. CASE \E n \in DOMAIN log' : x = log'[n]
        BY <1>3, <3>2, HeardFrom
      <3>3. CASE \E c \in Clients : /\ streams'[c] # Off
                                   /\ x \in Waiting(streams'[c]) \cup Delivered(streams'[c])
        BY <1>4, <1>6, <1>7, <3>3, HeardFrom
      <3>4. QED
        BY <3>1, <3>2, <3>3, HeardNext
    <2>2. NumberedOnce'
      BY <1>3, <2>1, NumberedKept DEF FairInv
    <2>3. CurrentRun'
      BY <1>2, <1>3, <1>5 DEF FairInv, CurrentRun, InFlight
    <2>4. SnapshotsPast'
      BY <1>3 DEF FairInv, SnapshotsPast, Past
    <2>5. QED
      BY <2>2, <2>3, <2>4
  <1>9. ASSUME NEW c \in Clients PROVE StreamFair(c)'
    <2>1. CASE streams[c] = Off
      BY <1>6, <2>1 DEF StreamFair
    <2>2. CASE streams[c] # Off
      <3>1. /\ Sourced(streams[c]) /\ Announced(c) /\ Settled(c)
            /\ streams[c].pc = "query" => streams[c].after # NoAfter
        BY <2>2 DEF FairInv, StreamFair
      <3>2. Sourced(streams[c])'
        BY <1>3, <1>5, <1>7, <2>2, <3>1 DEF Sourced
      <3>3. Announced(c)'
        BY <1>2, <1>3, <1>7, <2>2, <3>1 DEF Announced, Passing
      <3>4. Settled(c)'
        BY <1>3, <1>7, <2>2, <3>1 DEF Settled, Owed, Passing
      <3>5. QED
        BY <1>7, <2>2, <3>1, <3>2, <3>3, <3>4 DEF StreamFair
    <2>3. QED
      BY <2>1, <2>2
  <1>10. QED
    BY <1>8, <1>9 DEF FairInv

\* The end of publish_event: what enters the log is with the streams.
LEMMA PersistFair ==
    ASSUME IInv, FairInv, NEW p \in Publishers, persist_timeline_event(p)
    PROVE  FairInv'
  <1> DEFINE event == pubs[p].event
             table == Stored(log, event)
  <1>1. Numbering /\ Logged /\ Streams /\ Publishing
    BY Parts
  <1>2. /\ pubs[p].pc = "persist" /\ InFlight(p) /\ event \in Events
        /\ pubs'[p] = Idle
        /\ \A q \in Publishers \ {p} : pubs'[q] = pubs[q]
    BY <1>1 DEF persist_timeline_event, Publishing, PublisherStates, InFlight, Idle
  <1>3. /\ UNCHANGED <<next, history, disk, savers, streams, restarts>>
        /\ log' = table \/ log' = log
    BY DEF persist_timeline_event
  <1>4. event \in Heard
    BY <1>2, HeardFrom
  <1>5. /\ DOMAIN table = DOMAIN log \cup {event.seq}
        /\ \A n \in DOMAIN log : table[n] = log[n]
        /\ event.seq \notin DOMAIN log => table[event.seq] = event
    <2>1. /\ DOMAIN table = DOMAIN log \cup {event.seq}
          /\ \A n \in DOMAIN log : table[n] = log[n]
      BY <1>1, <1>2, StoredOK
    <2>2. event.seq \notin DOMAIN log => table[event.seq] = event
      BY DEF Stored
    <2>3. QED
      BY <2>1, <2>2
  <1> HIDE DEF table, event
  <1>6. /\ \A n \in DOMAIN log : n \in DOMAIN log' /\ log'[n] = log[n]
        /\ \A n \in DOMAIN log' : n \notin DOMAIN log => n = event.seq /\ log'[n] = event
    BY <1>3, <1>5
  <1>7. NumberedOnce' /\ CurrentRun' /\ SnapshotsPast'
    <2>1. Heard' \subseteq Heard
      <3> SUFFICES ASSUME NEW x \in Heard' PROVE x \in Heard
        OBVIOUS
      <3>1. CASE \E q \in Publishers : InFlight(q)' /\ x = pubs'[q].event
        BY <1>2, <3>1, HeardFrom DEF InFlight
      <3>2. CASE \E n \in DOMAIN log' : x = log'[n]
        BY <1>4, <1>6, <3>2, HeardFrom
      <3>3. CASE \E c \in Clients : /\ streams'[c] # Off
                                   /\ x \in Waiting(streams'[c]) \cup Delivered(streams'[c])
        BY <1>3, <3>3, HeardFrom
      <3>4. QED
        BY <3>1, <3>2, <3>3, HeardNext
    <2>2. NumberedOnce'
      BY <1>3, <2>1, NumberedKept DEF FairInv
    <2>3. CurrentRun'
      BY <1>2, <1>3 DEF FairInv, CurrentRun, InFlight
    <2>4. SnapshotsPast'
      BY <1>3 DEF FairInv, SnapshotsPast, Past
    <2>5. QED
      BY <2>2, <2>3, <2>4
  <1>8. ASSUME NEW c \in Clients PROVE StreamFair(c)'
    <2>1. streams'[c] = streams[c]
      BY <1>3
    <2>2. CASE streams[c] = Off
      BY <2>1, <2>2 DEF StreamFair
    <2>3. CASE streams[c] # Off
      <3>1. /\ Sourced(streams[c]) /\ Announced(c) /\ Settled(c)
            /\ streams[c].pc = "query" => streams[c].after # NoAfter
        BY <2>3 DEF FairInv, StreamFair
      <3>2. Sourced(streams[c])'
        BY <1>3, <1>6, <2>1, <3>1 DEF Sourced
      <3>3. Announced(c)'
        <4>1. \A q \in Publishers : pubs'[q].pc = "persist" => pubs'[q] = pubs[q]
          BY <1>2 DEF Idle
        <4>2. QED
          BY <1>6, <2>1, <3>1, <4>1 DEF Announced
      <3>4. ASSUME streams[c].pc = "serve", ~streams[c].lagged,
                   NEW x \in Owed(c)', x \notin streams[c].racing
            PROVE  x \in streams[c].backlog \/ Passing(streams[c], x)
        <4>1. PICK n \in DOMAIN log' :
                 /\ x = log'[n] /\ log'[n].topic \in Follows[c]
                 /\ IF streams[c].after = NoAfter
                    THEN n >= streams[c].since /\ log'[n].run = restarts
                    ELSE n > streams[c].after
          BY <1>3, <2>1 DEF Owed
        <4>2. CASE n \in DOMAIN log
          <5>1. x \in Owed(c)
            BY <1>6, <4>1, <4>2 DEF Owed
          <5>2. QED
            BY <3>1, <3>4, <5>1 DEF Settled
        <4>3. CASE n \notin DOMAIN log
          <5>1. x = event /\ event.seq \notin DOMAIN log /\ event.topic \in Follows[c]
            BY <1>6, <4>1, <4>3
          <5>2. QED
            BY <1>2, <3>1, <3>4, <5>1 DEF Announced, event
        <4>4. QED
          BY <4>2, <4>3
      <3>5. Settled(c)'
        BY <2>1, <3>4 DEF Settled
      <3>6. QED
        BY <2>1, <3>1, <3>2, <3>3, <3>5 DEF StreamFair
    <2>4. QED
      BY <2>2, <2>3
  <1>9. QED
    BY <1>7, <1>8 DEF FairInv

\* persist_state.
LEMMA SaveFair ==
    ASSUME IInv, FairInv, NEW v \in Savers, Capture(v) \/ WriteSnapshot(v)
    PROVE  FairInv'
  <1>1. /\ UNCHANGED <<next, log, pubs, streams, restarts>>
        /\ \A c \in Clients : streams'[c] = streams[c]
        /\ \A q \in Publishers : pubs'[q] = pubs[q]
    BY DEF Capture, WriteSnapshot
  <1>2. NumberedOnce' /\ CurrentRun'
    BY <1>1 DEF FairInv, NumberedOnce, CurrentRun, Heard, InFlight
  <1>3. \A c \in Clients : StreamFair(c)'
    BY <1>1, FairKept DEF FairInv
  <1>4. SnapshotsPast'
    <2>1. Snapshots /\ SnapshotsPast
      BY Parts DEF FairInv
    <2>2. CASE Capture(v)
      <3> DEFINE taken == [next |-> next, history |-> history]
      <3>1. savers' = [savers EXCEPT ![v] = taken] /\ UNCHANGED <<history, disk>>
        BY <2>2 DEF Capture
      <3>2. taken.history = history
        OBVIOUS
      <3> HIDE DEF taken
      <3>3. QED
        BY <1>1, <2>1, <3>1, <3>2 DEF SnapshotsPast, Past, Snapshots
    <2>3. CASE WriteSnapshot(v)
      <3>1. /\ savers' = [savers EXCEPT ![v] = NoSnapshot] /\ UNCHANGED history
            /\ disk' = savers[v] \/ disk' = disk
        BY <2>3 DEF WriteSnapshot
      <3>2. Elements(NoSnapshot.history) = {}
        BY DEF NoSnapshot, Elements
      <3>3. QED
        BY <1>1, <2>1, <3>1, <3>2 DEF SnapshotsPast, Past, Snapshots
    <2>4. QED
      BY <2>2, <2>3
  <1>5. QED
    BY <1>2, <1>3, <1>4 DEF FairInv

\* A step that changes one stream only.
LEMMA OneStreamFair ==
    ASSUME IInv, FairInv, NEW c \in Clients, NEW stream,
           streams' = [streams EXCEPT ![c] = stream],
           UNCHANGED <<next, history, log, disk, pubs, savers, acked, restarts>>,
           stream # Off => Waiting(stream) \cup Delivered(stream) \subseteq Heard,
           StreamFair(c)'
    PROVE  FairInv'
  <1>1. streams'[c] = stream /\ \A d \in Clients \ {c} : streams'[d] = streams[d]
    BY Parts DEF Streams
  <1>2. Heard' \subseteq Heard
    <2> SUFFICES ASSUME NEW x \in Heard' PROVE x \in Heard
      OBVIOUS
    <2>1. CASE \E q \in Publishers : InFlight(q)' /\ x = pubs'[q].event
      BY <2>1, HeardFrom DEF InFlight
    <2>2. CASE \E n \in DOMAIN log' : x = log'[n]
      BY <2>2, HeardFrom
    <2>3. CASE \E d \in Clients : /\ streams'[d] # Off
                                 /\ x \in Waiting(streams'[d]) \cup Delivered(streams'[d])
      BY <1>1, <2>3, HeardFrom
    <2>4. QED
      BY <2>1, <2>2, <2>3, HeardNext
  <1>3. NumberedOnce'
    BY <1>2, NumberedKept DEF FairInv
  <1>4. CurrentRun' /\ SnapshotsPast'
    BY DEF FairInv, CurrentRun, SnapshotsPast, Past, InFlight
  <1>5. \A d \in Clients \ {c} : StreamFair(d)'
    <2>1. \A q \in Publishers : pubs'[q] = pubs[q]
      OBVIOUS
    <2>2. QED
      BY <1>1, <2>1, FairKept DEF FairInv
  <1>6. QED
    BY <1>3, <1>4, <1>5 DEF FairInv

\* A stream that ends or begins.
LEMMA SubscribeFair ==
    ASSUME IInv, FairInv, NEW c \in Clients,
           Disconnect(c) \/ \E after \in Afters : Subscribe(c, after)
    PROVE  FairInv'
  <1>1. Numbering /\ Logged /\ Streams /\ Publishing
    BY Parts
  <1>2. CASE Disconnect(c)
    <2>1. streams' = [streams EXCEPT ![c] = Off]
      BY <1>2 DEF Disconnect
    <2>2. StreamFair(c)'
      BY <1>1, <2>1 DEF Streams, StreamFair
    <2>3. QED
      BY <1>2, <2>1, <2>2, OneStreamFair DEF Disconnect
  <1>3. ASSUME NEW after \in Afters, Subscribe(c, after)
        PROVE  FairInv'
    <2> DEFINE racing == {pubs[p].event : p \in {q \in Publishers : pubs[q].pc = "persist"}}
               stream == [pc      |-> IF after = NoAfter THEN "serve" ELSE "query",
                          after   |-> after, backlog |-> {}, feed |-> << >>, last |-> 0,
                          got     |-> << >>, lagged |-> FALSE, since |-> next,
                          racing  |-> racing]
    <2>1. /\ streams' = [streams EXCEPT ![c] = stream]
          /\ UNCHANGED <<next, history, log, disk, pubs, savers, acked, restarts>>
      BY <1>3 DEF Subscribe
    <2>2. streams'[c] = stream
      BY <1>1, <2>1 DEF Streams
    <2>3. Elements(<< >>) = {}
      BY DEF Elements
    <2>4. /\ stream.pc = (IF after = NoAfter THEN "serve" ELSE "query")
          /\ stream.after = after /\ stream.backlog = {} /\ stream.last = 0
          /\ Waiting(stream) = {} /\ Delivered(stream) = {} /\ stream.since = next
          /\ stream.racing = racing
      BY <2>3 DEF Waiting, Delivered
    <2>5. \A p \in Publishers : pubs[p].pc = "persist" => pubs[p].event \in racing
      OBVIOUS
    <2> HIDE DEF stream, racing
    <2>6. Sourced(streams[c])'
      BY <2>2, <2>4 DEF Sourced
    <2>7. Announced(c)'
      BY <2>1, <2>2, <2>4, <2>5 DEF Announced
    <2>8. after = NoAfter => Owed(c)' = {}
      <3> SUFFICES ASSUME after = NoAfter, NEW n \in DOMAIN log, n >= next, log[n].run = restarts
                   PROVE  FALSE
        BY <2>1, <2>2, <2>4 DEF Owed
      <3>1. log[n] \in Heard /\ log[n].seq = n /\ n \in Nat /\ next \in Nat
        BY <1>1, HeardFrom DEF Logged, LogKeyed, Numbering
      <3>2. n < next
        BY <3>1 DEF FairInv, NumberedOnce
      <3>3. QED
        BY <3>1, <3>2
    <2>9. Settled(c)'
      BY <2>2, <2>4, <2>8 DEF Settled
    <2>10. StreamFair(c)'
      BY <2>2, <2>4, <2>6, <2>7, <2>9 DEF StreamFair
    <2>11. QED
      BY <2>1, <2>4, <2>10, OneStreamFair
  <1>4. QED
    BY <1>2, <1>3

\* The backlog is all the stream owes.
LEMMA QueryFair ==
    ASSUME IInv, FairInv, NEW c \in Clients, Query(c)
    PROVE  FairInv'
  <1> DEFINE old == streams[c]
             backlog == load_persisted_events(c)
             stream == [old EXCEPT !.pc = "serve", !.backlog = backlog]
  <1>1. Logged /\ Streams
    BY Parts
  <1>2. /\ old \in Connected /\ old.pc = "query" /\ old # Off
    BY <1>1 DEF Query, Streams, StreamOK, Off
  <1>3. /\ streams' = [streams EXCEPT ![c] = stream]
        /\ UNCHANGED <<next, history, log, disk, pubs, savers, acked, restarts>>
    BY DEF Query
  <1>4. streams'[c] = stream
    BY <1>1, <1>3 DEF Streams
  <1>5. /\ stream.pc = "serve" /\ stream.after = old.after /\ stream.backlog = backlog
        /\ stream.feed = old.feed /\ stream.got = old.got /\ stream.last = old.last
        /\ stream.lagged = old.lagged /\ stream.racing = old.racing
    <2> HIDE DEF backlog
    <2>1. QED
      BY <1>2 DEF Connected
  <1>6. Waiting(stream) = Waiting(old) /\ Delivered(stream) = Delivered(old)
    BY <1>5 DEF Waiting, Delivered
  <1>7. Sourced(old) /\ Announced(c) /\ old.after # NoAfter
    BY <1>2 DEF FairInv, StreamFair
  <1>8. \A event \in backlog : event.seq \in DOMAIN log /\ log[event.seq] = event
    BY <1>1 DEF load_persisted_events, Logged, LogKeyed
  <1>9. Owed(c)' \subseteq backlog
    BY <1>3, <1>4, <1>5, <1>7 DEF Owed, load_persisted_events
  <1> HIDE DEF stream, backlog
  <1>10. Sourced(streams[c])'
    BY <1>3, <1>4, <1>5, <1>6, <1>7, <1>8 DEF Sourced
  <1>11. Announced(c)'
    BY <1>3, <1>4, <1>5, <1>6, <1>7 DEF Announced, Passing
  <1>12. Settled(c)'
    BY <1>4, <1>5, <1>9 DEF Settled
  <1>13. StreamFair(c)'
    BY <1>4, <1>5, <1>10, <1>11, <1>12 DEF StreamFair
  <1>14. Waiting(stream) \cup Delivered(stream) \subseteq Heard
    BY <1>2, <1>6, HeardFrom
  <1>15. QED
    BY <1>3, <1>13, <1>14, OneStreamFair

\* What was overtaken, waits or was sent stays so when the stream sends more.
LEMMA SentFair ==
    ASSUME IInv, FairInv, NEW c \in Clients, NEW stream, NEW sent,
           streams[c].pc = "serve", streams[c] # Off,
           streams' = [streams EXCEPT ![c] = stream],
           UNCHANGED <<next, history, log, disk, pubs, savers, acked, restarts>>,
           stream.pc = "serve", stream.after = streams[c].after,
           stream.since = streams[c].since,
           stream.lagged = streams[c].lagged, stream.racing = streams[c].racing,
           stream.backlog \subseteq streams[c].backlog,
           streams[c].backlog \subseteq stream.backlog \cup {sent},
           Waiting(stream) \subseteq Waiting(streams[c]),
           Waiting(streams[c]) \subseteq Waiting(stream) \cup {sent},
           Delivered(stream) = Delivered(streams[c]) \cup {sent},
           sent \in Waiting(streams[c]) \cup streams[c].backlog, sent \in Events,
           stream.last = sent.seq, sent.seq > streams[c].last, streams[c].last \in Nat
    PROVE  FairInv'
  <1> DEFINE old == streams[c]
  <1>1. Logged /\ Streams /\ streams'[c] = stream /\ Heard \subseteq Events
    BY Parts, HeardType DEF Streams
  <1>2. Sourced(old) /\ Announced(c) /\ Settled(c)
    BY DEF FairInv, StreamFair
  <1>3. sent.seq \in Nat /\ \A event \in Events : event.seq \in Nat
    BY DEF Events
  <1>4. sent.run = restarts \/ (sent.seq \in DOMAIN log /\ log[sent.seq] = sent)
    BY <1>2 DEF Sourced
  <1>5. Sourced(stream)'
    BY <1>2, <1>4 DEF Sourced
  <1>6. ASSUME NEW event \in Events, Passing(old, event) PROVE Passing(stream, event)
    BY <1>3, <1>6 DEF Passing
  <1>7. Announced(c)'
    <2>1. \A p \in Publishers : pubs[p].pc = "persist" => pubs[p].event \in Events
      BY Parts DEF Publishing, PublisherStates, Idle
    <2>2. QED
      BY <1>1, <1>2, <1>6, <2>1 DEF Announced
  <1>8. Settled(c)'
    <2>1. Owed(c)' = Owed(c) /\ Owed(c) \subseteq Events
      BY <1>1 DEF Owed, Logged
    <2>2. ASSUME NEW event \in Owed(c), event \notin old.racing, ~old.lagged
          PROVE  event \in stream.backlog \/ Passing(stream, event)
      <3>1. event \in old.backlog \/ Passing(old, event)
        BY <1>2, <2>2 DEF Settled
      <3>2. event = sent => Passing(stream, event)
        BY DEF Passing
      <3>3. QED
        BY <1>6, <2>1, <3>1, <3>2
    <2>3. QED
      BY <1>1, <2>1, <2>2 DEF Settled
  <1>9. stream # Off
    BY DEF Off
  <1>10. StreamFair(c)'
    BY <1>1, <1>5, <1>7, <1>8 DEF StreamFair
  <1>11. Waiting(stream) \cup Delivered(stream) \subseteq Heard
    <2>1. old.backlog \subseteq Heard
      BY <1>2, HeardFrom DEF Sourced
    <2>2. Waiting(old) \cup Delivered(old) \subseteq Heard
      BY HeardFrom
    <2>3. QED
      BY <2>1, <2>2
  <1>12. QED
    BY <1>10, <1>11, OneStreamFair

\* An event of the backlog is sent.
LEMMA ReplayFair ==
    ASSUME IInv, FairInv, NEW c \in Clients, Replay(c)
    PROVE  FairInv'
  <1>1. Streams
    BY Parts
  <1>2. /\ streams[c] \in Connected /\ Orderly(streams[c])
        /\ streams[c].pc = "serve" /\ streams[c] # Off
    BY <1>1 DEF Replay, Streams, StreamOK, Off
  <1>3. PICK event \in streams[c].backlog :
          /\ \A other \in streams[c].backlog : event.seq <= other.seq
          /\ streams' = [streams EXCEPT ![c] =
                [@ EXCEPT !.backlog = streams[c].backlog \ {event},
                          !.got = Append(streams[c].got, event), !.last = event.seq]]
    BY Zenon DEF Replay
  <1> DEFINE old == streams[c]
             rest == old.backlog \ {event}
             got == Append(old.got, event)
             stream == [old EXCEPT !.backlog = rest, !.got = got, !.last = event.seq]
  <1>4. streams' = [streams EXCEPT ![c] = stream]
    BY <1>3
  <1>5. Elements(got) = Elements(old.got) \cup {event}
    BY <1>2, ElementsAppend DEF Connected
  <1>6. rest \subseteq old.backlog /\ old.backlog \subseteq rest \cup {event}
    OBVIOUS
  <1> HIDE DEF rest, got
  <1>7. /\ stream.pc = "serve" /\ stream.after = old.after /\ stream.since = old.since
        /\ stream.lagged = old.lagged /\ stream.racing = old.racing
        /\ stream.backlog = rest /\ stream.last = event.seq
        /\ stream.feed = old.feed /\ stream.got = got
    BY <1>2 DEF Connected
  <1> HIDE DEF stream
  <1>8. Waiting(stream) = Waiting(old) /\ Delivered(stream) = Delivered(old) \cup {event}
    BY <1>5, <1>7 DEF Waiting, Delivered
  <1>9. event \in Events /\ event.seq > old.last /\ old.last \in Nat
    BY <1>2 DEF Connected, Orderly
  <1>10. UNCHANGED <<next, history, log, disk, pubs, savers, acked, restarts>>
    BY DEF Replay
  <1>11. QED
    BY <1>2, <1>4, <1>6, <1>7, <1>8, <1>9, <1>10, SentFair

\* An event from the channel is sent or skipped.
LEMMA ReceiveFair ==
    ASSUME IInv, FairInv, NEW c \in Clients, Receive(c)
    PROVE  FairInv'
  <1> DEFINE old == streams[c]
             event == Head(old.feed)
             rest == Tail(old.feed)
             got == Append(old.got, event)
             sending == [old EXCEPT !.feed = rest, !.got = got, !.last = event.seq]
             skipping == [old EXCEPT !.feed = rest]
  <1>1. Logged /\ Streams /\ Publishing /\ Heard \subseteq Events
    BY Parts, HeardType
  <1>2. old \in Connected /\ Orderly(old) /\ old.pc = "serve" /\ old # Off /\ old.feed # << >>
    BY <1>1 DEF Receive, Streams, StreamOK, Off
  <1>3. /\ Elements(old.feed) = Elements(rest) \cup {event}
        /\ event \in Events
    BY <1>2, ElementsTail DEF Connected
  <1>4. Elements(got) = Elements(old.got) \cup {event}
    BY <1>2, ElementsAppend DEF Connected
  <1>5. /\ streams' = [streams EXCEPT ![c] = IF Wanted(old, c, event) THEN sending ELSE skipping]
        /\ UNCHANGED <<next, history, log, disk, pubs, savers, acked, restarts>>
    BY DEF Receive
  <1> HIDE DEF event, rest, got
  <1>6. /\ sending.pc = "serve" /\ sending.after = old.after /\ sending.since = old.since
        /\ sending.lagged = old.lagged /\ sending.racing = old.racing
        /\ sending.backlog = old.backlog /\ sending.last = event.seq
        /\ sending.feed = rest /\ sending.got = got
    BY <1>2 DEF Connected
  <1>7. /\ skipping.pc = "serve" /\ skipping.after = old.after /\ skipping.since = old.since
        /\ skipping.lagged = old.lagged /\ skipping.racing = old.racing
        /\ skipping.backlog = old.backlog /\ skipping.last = old.last
        /\ skipping.feed = rest /\ skipping.got = old.got
    BY <1>2 DEF Connected
  <1>8. old.last \in Nat
    BY <1>2 DEF Connected
  <1> HIDE DEF sending, skipping
  <1>9. Waiting(old) = Elements(rest) \cup {event}
    BY <1>3 DEF Waiting
  <1>10. CASE Wanted(old, c, event)
    <2>1. streams' = [streams EXCEPT ![c] = sending]
      BY <1>5, <1>10
    <2>2. Waiting(sending) = Elements(rest) /\ Delivered(sending) = Delivered(old) \cup {event}
      BY <1>4, <1>6 DEF Waiting, Delivered
    <2>3. event.seq > old.last
      BY <1>10 DEF Wanted
    <2>4. /\ Waiting(sending) \subseteq Waiting(old)
          /\ Waiting(old) \subseteq Waiting(sending) \cup {event}
          /\ sending.backlog \subseteq old.backlog
          /\ old.backlog \subseteq sending.backlog \cup {event}
          /\ event \in Waiting(old) \cup old.backlog
      BY <1>6, <1>9, <2>2
    <2>5. QED
      BY <1>2, <1>3, <1>5, <1>6, <1>8, <2>1, <2>2, <2>3, <2>4, SentFair
  <1>11. CASE ~Wanted(old, c, event)
    <2>1. streams' = [streams EXCEPT ![c] = skipping] /\ streams'[c] = skipping
      BY <1>1, <1>5, <1>11 DEF Streams
    <2>2. Waiting(skipping) = Elements(rest) /\ Delivered(skipping) = Delivered(old)
      BY <1>7 DEF Waiting, Delivered
    <2>3. Sourced(old) /\ Announced(c) /\ Settled(c)
      BY <1>2 DEF FairInv, StreamFair
    <2>4. event.seq \in Nat \ {0} /\ event.run = restarts /\ event \in Heard
      BY <1>2, <1>3, <1>9, <2>3, HeardFrom DEF Events, Sourced
    <2>5. Sourced(streams[c])'
      BY <1>5, <1>7, <1>9, <2>1, <2>2, <2>3 DEF Sourced
    <2>6. ASSUME event.topic \in Follows[c],
                 event.seq \notin DOMAIN log \/ log[event.seq] = event
          PROVE  event \in Delivered(old) \/ event.seq < old.last
      <3>1. event.seq <= old.last
        BY <1>8, <1>11, <2>4, <2>6 DEF Wanted
      <3>2. CASE event.seq = old.last
        <4>1. PICK other \in Delivered(old) : other.seq = event.seq
          BY <2>3, <2>4, <3>2 DEF Sourced
        <4>2. other \in Heard
          BY <1>2, HeardFrom
        <4>3. CASE other.run = restarts
          BY <2>4, <4>1, <4>2, <4>3 DEF FairInv, NumberedOnce
        <4>4. CASE other.seq \in DOMAIN log /\ log[other.seq] = other
          BY <2>6, <4>1, <4>4
        <4>5. QED
          BY <2>3, <4>3, <4>4 DEF Sourced
      <3>3. QED
        BY <1>8, <2>4, <3>1, <3>2
    <2>7. ASSUME NEW x, Passing(old, x), x.topic \in Follows[c],
                 x.seq \notin DOMAIN log \/ log[x.seq] = x
          PROVE  Passing(skipping, x)
      BY <1>7, <1>9, <2>2, <2>6, <2>7 DEF Passing
    <2>8. Announced(c)'
      BY <1>5, <1>7, <2>1, <2>3, <2>7 DEF Announced
    <2>9. Settled(c)'
      <3>1. Owed(c)' = Owed(c)
        BY <1>5, <1>7, <2>1 DEF Owed
      <3>2. \A x \in Owed(c) : x.topic \in Follows[c] /\ log[x.seq] = x
        BY <1>1 DEF Owed, Logged, LogKeyed
      <3>3. QED
        BY <1>2, <1>7, <2>1, <2>3, <2>7, <3>1, <3>2 DEF Settled
    <2>10. StreamFair(c)'
      BY <1>7, <2>1, <2>5, <2>8, <2>9 DEF StreamFair
    <2>11. Waiting(skipping) \cup Delivered(skipping) \subseteq Heard
      BY <1>2, <1>9, <2>2, HeardFrom
    <2>12. QED
      BY <1>5, <2>1, <2>10, <2>11, OneStreamFair
  <1>12. QED
    BY <1>10, <1>11

\* A restart: nothing of the new run is known yet.
LEMMA RestartFair ==
    ASSUME IInv, FairInv, Restart
    PROVE  FairInv'
  <1>1. Numbering /\ Logged /\ Snapshots /\ SnapshotsPast /\ Heard \subseteq Events
    BY Parts, HeardType DEF FairInv
  <1>2. /\ restarts' = restarts + 1 /\ restarts \in Nat /\ disk' = disk
        /\ \A p \in Publishers : ~InFlight(p)'
        /\ \A v \in Savers : savers'[v] = NoSnapshot
        /\ \A c \in Clients : streams'[c] = Off
    BY <1>1 DEF Restart, Numbering, InFlight
  <1>3. \A n \in DOMAIN log : log[n].run <= restarts /\ log[n].run \in Nat
    BY <1>1, HeardFrom DEF FairInv, NumberedOnce, Events
  <1>4. /\ \A n \in DOMAIN log' : log'[n].run <= restarts /\ log'[n].run \in Nat
        /\ \A event \in Elements(history') : event.run <= restarts /\ event.run \in Nat
    <2>1. CASE log' = log /\ history' = << >>
      <3>1. log' = log /\ history' = << >>
        BY <2>1
      <3>2. Elements(history') = {}
        BY <3>1 DEF Elements
      <3>3. QED
        BY <1>3, <3>1, <3>2
    <2>2. CASE /\ disk # NoSnapshot /\ history' = disk.history
               /\ log' = Backfilled(log, disk.history)
      <3> DEFINE events == disk.history
                 pick(n) == CHOOSE i \in DOMAIN events : events[i].seq = n
                 numbers == {events[i].seq : i \in DOMAIN events}
      <3>1. log' = Backfilled(log, events) /\ history' = events
        BY <2>2 DEF Restart
      <3>2. events \in Seq(Events)
        BY <1>1, <2>2 DEF Snapshots, TimelineSnapshots
      <3>3. \A event \in Elements(events) : event.run <= restarts /\ event.run \in Nat
        BY <1>1, <3>2, ElementsType DEF SnapshotsPast, Past, Events
      <3>4. \A n \in numbers : pick(n) \in DOMAIN events
        OBVIOUS
      <3>5. log' = [n \in DOMAIN log \cup numbers |->
                      IF n \in DOMAIN log THEN log[n] ELSE events[pick(n)]]
        BY <3>1 DEF Backfilled
      <3> HIDE DEF pick, numbers, events
      <3>6. \A n \in numbers : events[pick(n)] \in Elements(events)
        BY <3>4 DEF Elements
      <3>7. QED
        BY <1>3, <3>1, <3>3, <3>5, <3>6
    <2>3. QED
      BY <2>1, <2>2 DEF Restart
  <1>5. ASSUME NEW x \in Heard' PROVE x.run <= restarts /\ x.run \in Nat
    <2>1. \E n \in DOMAIN log' : x = log'[n]
      BY <1>2, HeardNext
    <2>2. QED
      BY <1>4, <2>1
  <1>6. NumberedOnce'
    BY <1>2, <1>5 DEF NumberedOnce
  <1>7. CurrentRun'
    BY <1>2 DEF CurrentRun
  <1>8. SnapshotsPast'
    <2>1. \A event \in Elements(disk.history) : event.run <= restarts /\ event.run \in Nat
      <3>1. disk.history \in Seq(Events)
        <4>1. disk = NoSnapshot => disk.history = << >>
          BY DEF NoSnapshot
        <4>2. disk \in TimelineSnapshots => disk.history \in Seq(Events)
          BY DEF TimelineSnapshots
        <4>3. << >> \in Seq(Events)
          OBVIOUS
        <4>4. QED
          BY <1>1, <4>1, <4>2, <4>3 DEF Snapshots
      <3>2. QED
        BY <1>1, <3>1, ElementsType DEF SnapshotsPast, Past, Events
    <2>2. Elements(NoSnapshot.history) = {}
      BY DEF NoSnapshot, Elements
    <2>3. QED
      BY <1>2, <1>4, <2>1, <2>2 DEF SnapshotsPast, Past
  <1>9. \A c \in Clients : StreamFair(c)'
    BY <1>2 DEF StreamFair
  <1>10. QED
    BY <1>6, <1>7, <1>8, <1>9 DEF FairInv

\* Every step.
LEMMA NextFair ==
    ASSUME IInv, FairInv, [Next]_vars
    PROVE  FairInv'
  <1>1. CASE \E p \in Publishers :
                \/ \E topic \in Topics : publish(p, topic)
                \/ Broadcast(p)
                \/ persist_timeline_event(p)
    BY <1>1, PublishFair, BroadcastFair, PersistFair
  <1>2. CASE \E v \in Savers : Capture(v) \/ WriteSnapshot(v)
    BY <1>2, SaveFair
  <1>3. CASE \E c \in Clients :
                \/ \E after \in Afters : Subscribe(c, after)
                \/ Query(c) \/ Replay(c) \/ Receive(c) \/ Disconnect(c)
    BY <1>3, SubscribeFair, QueryFair, ReplayFair, ReceiveFair
  <1>4. CASE Restart
    BY <1>4, RestartFair
  <1>5. CASE UNCHANGED vars
    <2>1. /\ UNCHANGED <<next, history, log, disk, pubs, savers, streams, restarts>>
          /\ \A c \in Clients : streams'[c] = streams[c]
          /\ \A q \in Publishers : pubs'[q] = pubs[q]
      BY <1>5 DEF vars
    <2>2. NumberedOnce' /\ CurrentRun' /\ SnapshotsPast'
      BY <2>1 DEF FairInv, NumberedOnce, CurrentRun, Heard, InFlight, SnapshotsPast, Past
    <2>3. \A c \in Clients : StreamFair(c)'
      BY <2>1, FairKept DEF FairInv
    <2>4. QED
      BY <2>2, <2>3 DEF FairInv
  <1>6. QED
    BY <1>1, <1>2, <1>3, <1>4, <1>5 DEF Next

\* A stream that has not lagged misses of what it owes its client only what was
\* between channel and log when it subscribed and what a later event overtook,
\* across restarts and numbers that are used again (subscribe_events, publish_event).
THEOREM StreamsComplete == Spec => []MissedOnlyIfOvertaken
  <1>1. Init => FairInv
    <2> SUFFICES ASSUME Init PROVE FairInv
      OBVIOUS
    <2>1. Heard = {}
      BY DEF Init, Heard, InFlight
    <2>2. Elements(<< >>) = {} /\ NoSnapshot.history = << >>
      BY DEF Elements, NoSnapshot
    <2>3. NumberedOnce /\ CurrentRun /\ SnapshotsPast
      BY <2>1, <2>2 DEF Init, NumberedOnce, CurrentRun, InFlight, SnapshotsPast, Past
    <2>4. \A c \in Clients : StreamFair(c)
      BY DEF Init, StreamFair
    <2>5. QED
      BY <2>3, <2>4 DEF FairInv
  <1>2. IInv /\ FairInv /\ [Next]_vars => FairInv'
    BY NextFair
  <1>3. FairInv => MissedOnlyIfOvertaken
    <2> SUFFICES ASSUME FairInv, NEW c \in Clients, streams[c].pc = "serve", ~streams[c].lagged,
                        NEW event \in Owed(c) \ streams[c].racing
                 PROVE  \/ event \in streams[c].backlog
                        \/ \E i \in DOMAIN streams[c].feed : streams[c].feed[i] = event
                        \/ \E i \in DOMAIN streams[c].got : streams[c].got[i] = event
                        \/ event.seq < streams[c].last
      BY DEF MissedOnlyIfOvertaken
    <2>1. streams[c] # Off
      BY DEF Off
    <2>2. event \in streams[c].backlog \/ Passing(streams[c], event)
      BY <2>1 DEF FairInv, StreamFair, Settled
    <2>3. QED
      BY <2>2 DEF Passing, Waiting, Delivered, Elements
  <1>4. QED
    BY <1>1, <1>2, <1>3, Invariance, PTL DEF Spec
=============================================================================
