------------------------------- MODULE Timeline -------------------------------
(***************************************************************************)
(* The event timeline of the control plane (rc-control-plane): a sequence  *)
(* counter and a bounded history in memory, a broadcast channel to the     *)
(* connected streams, and two SQLite tables: the log of all events and one *)
(* snapshot row from which the service restarts.                           *)
(*                                                                         *)
(* publish_event numbers an event under the timeline's lock, broadcasts it *)
(* without the lock, and stores it in the log on a blocking thread;        *)
(* persist_state copies the timeline under the lock and writes the row     *)
(* later.  A stream subscribes, queries the log for what it missed, replays*)
(* that, and then forwards what the channel holds for it.  All of these    *)
(* steps interleave.                                                       *)
(*                                                                         *)
(* An event is its sequence number, what the streams filter by (its topic: *)
(* a session, a runner or a kind), and the run of the service that recorded*)
(* it, which stands for recorded_at and tells apart events that got the    *)
(* same number.                                                            *)
(***************************************************************************)
EXTENDS Integers, Sequences, FiniteSets

CONSTANTS
    Publishers,    \* tasks inside publish_event at the same time
    Savers,        \* tasks inside persist_state at the same time
    Clients,       \* WebSocket event streams
    Topics,        \* what events are filtered by
    Follows,       \* Follows[c]: topics that pass the filter of stream c
    Afters,        \* values of the query parameter `after`; NoAfter is none
    HistoryLimit,  \* DEFAULT_EVENT_HISTORY_LIMIT
    Buffer,        \* EVENT_STREAM_BUFFER
    DiskFails,     \* whether SQLite may refuse a write
    MaxSequence,   \* bound: events numbered in one run
    MaxRestarts    \* bound: restarts of the service

NoAfter == -1

ASSUME TimelineAssumption ==
    /\ Follows \in [Clients -> SUBSET Topics]
    /\ Afters \subseteq Nat \cup {NoAfter}
    /\ HistoryLimit \in Nat \ {0}
    /\ Buffer \in Nat \ {0}
    /\ DiskFails \in BOOLEAN
    /\ MaxSequence \in Nat
    /\ MaxRestarts \in Nat

VARIABLES
    next,      \* next_sequence
    history,   \* the events kept in memory, oldest first
    log,       \* control_plane_events: sequence -> event
    disk,      \* control_plane_snapshot: the timeline part of the row
    pubs,      \* pubs[p]: where publish_event of p is, and its event
    savers,    \* savers[v]: the snapshot v has taken and not yet written
    streams,   \* streams[c]: the state of the stream of c
    acked,     \* events that publish_event has returned
    restarts   \* how often the service has been restarted

vars == <<next, history, log, disk, pubs, savers, streams, acked, restarts>>

-----------------------------------------------------------------------------
(* Records *)

Events == [seq : Nat \ {0}, topic : Topics, run : Nat]

Idle == [pc |-> "idle"]
PublisherStates == {Idle} \cup [pc : {"send", "persist"}, event : Events]

TimelineSnapshots == [next : Nat \ {0}, history : Seq(Events)]
NoSnapshot == [next |-> 0, history |-> << >>]

\* A connected stream: `feed` is what the channel holds for it, `last` is
\* last_sequence, `got` what it has sent.  Only the properties look at
\* `lagged`, `since` (next_sequence when it subscribed) and `racing` (events
\* then broadcast already and not yet in the log).
Off == [pc |-> "off"]
Connected ==
    [pc : {"query", "serve"}, after : Afters, backlog : SUBSET Events,
     feed : Seq(Events), last : Nat, got : Seq(Events),
     lagged : BOOLEAN, since : Nat, racing : SUBSET Events]

TypeOK ==
    /\ next \in Nat \ {0}
    /\ history \in Seq(Events)
    /\ DOMAIN log \subseteq Nat \ {0}
    /\ log \in [DOMAIN log -> Events]
    /\ disk \in TimelineSnapshots \cup {NoSnapshot}
    /\ pubs \in [Publishers -> PublisherStates]
    /\ savers \in [Savers -> TimelineSnapshots \cup {NoSnapshot}]
    /\ streams \in [Clients -> {Off} \cup Connected]
    /\ \A c \in Clients : streams[c] # Off => Len(streams[c].feed) <= Buffer
    /\ acked \subseteq Events
    /\ restarts \in Nat

-----------------------------------------------------------------------------
(* publish_event *)

TrimmedAtTheEnd(events) ==
    IF Len(events) > HistoryLimit THEN SubSeq(events, 1, HistoryLimit) ELSE events

\* The oldest event goes when the history is longer than its limit.
Trimmed(events) == IF Len(events) > HistoryLimit THEN Tail(events) ELSE events

\* The number of the next event.
NextSequence == next

publish(p, topic) ==
    /\ pubs[p] = Idle
    /\ next <= MaxSequence
    /\ LET event == [seq |-> NextSequence, topic |-> topic, run |-> restarts]
       IN  /\ history' = Trimmed(Append(history, event))
           /\ pubs' = [pubs EXCEPT ![p] = [pc |-> "send", event |-> event]]
    /\ next' = next + 1
    /\ UNCHANGED <<log, disk, savers, streams, acked, restarts>>

\* The channel delivers to a stream from its subscription on.
Receiving(stream) == stream.pc # "off"

OfferedAnywhere(stream, event) == [stream EXCEPT !.feed = Append(@, event)]

\* A channel that is full for a slow stream forgets the oldest event.
Offered(stream, event) ==
    IF Len(stream.feed) < Buffer
    THEN [stream EXCEPT !.feed = Append(@, event)]
    ELSE [stream EXCEPT !.feed = Append(Tail(@), event), !.lagged = TRUE]

Broadcast(p) ==
    /\ pubs[p].pc = "send"
    /\ streams' = [c \in Clients |->
                      IF Receiving(streams[c])
                      THEN Offered(streams[c], pubs[p].event) ELSE streams[c]]
    /\ pubs' = [pubs EXCEPT ![p].pc = "persist"]
    /\ UNCHANGED <<next, history, log, disk, savers, acked, restarts>>

\* INSERT OR IGNORE: an event whose number is taken is dropped.
Stored(table, event) ==
    [n \in DOMAIN table \cup {event.seq} |->
        IF n \in DOMAIN table THEN table[n] ELSE event]

\* The event is returned to the caller also if it could not be stored.
persist_timeline_event(p) ==
    /\ pubs[p].pc = "persist"
    /\ \/ log' = Stored(log, pubs[p].event)
       \/ DiskFails /\ log' = log
    /\ acked' = acked \cup {pubs[p].event}
    /\ pubs' = [pubs EXCEPT ![p] = Idle]
    /\ UNCHANGED <<next, history, disk, savers, streams, restarts>>

-----------------------------------------------------------------------------
(* persist_state *)

Capture(v) ==
    /\ savers[v] = NoSnapshot
    /\ savers' = [savers EXCEPT ![v] = [next |-> next, history |-> history]]
    /\ UNCHANGED <<next, history, log, disk, pubs, streams, acked, restarts>>

\* The row is written in the order in which the tasks get the connection.
WriteSnapshot(v) ==
    /\ savers[v] # NoSnapshot
    /\ \/ disk' = savers[v]
       \/ DiskFails /\ disk' = disk
    /\ savers' = [savers EXCEPT ![v] = NoSnapshot]
    /\ UNCHANGED <<next, history, log, pubs, streams, acked, restarts>>

-----------------------------------------------------------------------------
(* Event streams *)

\* The handler subscribes first and then looks for a backlog, if the client
\* asked for one.
Subscribe(c, after) ==
    /\ streams[c] = Off
    /\ streams' = [streams EXCEPT ![c] =
          [pc      |-> IF after = NoAfter THEN "serve" ELSE "query",
           after   |-> after, backlog |-> {}, feed |-> << >>, last |-> 0,
           got     |-> << >>, lagged |-> FALSE, since |-> next,
           racing  |-> {pubs[p].event : p \in {q \in Publishers : pubs[q].pc = "persist"}}]]
    /\ UNCHANGED <<next, history, log, disk, pubs, savers, acked, restarts>>

load_past_the_first(c) ==
    {log[n] : n \in {m \in DOMAIN log :
        m > streams[c].after + 1 /\ log[m].topic \in Follows[c]}}

\* list_persisted_events without a limit.
load_persisted_events(c) ==
    {log[n] : n \in {m \in DOMAIN log :
        m > streams[c].after /\ log[m].topic \in Follows[c]}}

Query(c) ==
    /\ streams[c].pc = "query"
    /\ streams' = [streams EXCEPT ![c] =
          [@ EXCEPT !.pc = "serve", !.backlog = load_persisted_events(c)]]
    /\ UNCHANGED <<next, history, log, disk, pubs, savers, acked, restarts>>

\* The backlog is sent in the order of the sequence numbers.
Replay(c) ==
    /\ streams[c].pc = "serve"
    /\ \E event \in streams[c].backlog :
        /\ \A other \in streams[c].backlog : event.seq <= other.seq
        /\ streams' = [streams EXCEPT ![c] =
              [@ EXCEPT !.backlog = streams[c].backlog \ {event},
                        !.got = Append(streams[c].got, event), !.last = event.seq]]
    /\ UNCHANGED <<next, history, log, disk, pubs, savers, acked, restarts>>

WantedAgain(stream, c, event) == event.topic \in Follows[c]
\* What was replayed, or was overtaken by a later event, is not sent.
Wanted(stream, c, event) ==
    event.seq > stream.last /\ event.topic \in Follows[c]

Receive(c) ==
    /\ streams[c].pc = "serve"
    /\ streams[c].backlog = {}
    /\ streams[c].feed # << >>
    /\ LET stream == streams[c]
           event  == Head(stream.feed)
       IN  streams' = [streams EXCEPT ![c] =
              IF Wanted(stream, c, event)
              THEN [stream EXCEPT !.feed = Tail(stream.feed),
                                  !.got = Append(stream.got, event), !.last = event.seq]
              ELSE [stream EXCEPT !.feed = Tail(stream.feed)]]
    /\ UNCHANGED <<next, history, log, disk, pubs, savers, acked, restarts>>

\* The socket closes, or the query failed.
Disconnect(c) ==
    /\ streams[c] # Off
    /\ streams' = [streams EXCEPT ![c] = Off]
    /\ UNCHANGED <<next, history, log, disk, pubs, savers, acked, restarts>>

-----------------------------------------------------------------------------
(* Restart *)

\* backfill_persisted_events: the events of the snapshot are stored again.
\* Their numbers are distinct, so the order does not matter.
Backfilled(table, events) ==
    [n \in DOMAIN table \cup {events[i].seq : i \in DOMAIN events} |->
        IF n \in DOMAIN table THEN table[n]
        ELSE events[CHOOSE i \in DOMAIN events : events[i].seq = n]]

\* The process ends at any point and starts again from the snapshot row, or
\* afresh if there is none or it cannot be read.
Restart ==
    /\ restarts < MaxRestarts
    /\ restarts' = restarts + 1
    /\ \/ /\ disk = NoSnapshot \/ DiskFails
          /\ next' = 1 /\ history' = << >> /\ log' = log
       \/ /\ disk # NoSnapshot
          /\ next' = disk.next /\ history' = disk.history
          /\ log' = Backfilled(log, disk.history)
    /\ pubs' = [p \in Publishers |-> Idle]
    /\ savers' = [v \in Savers |-> NoSnapshot]
    /\ streams' = [c \in Clients |-> Off]
    /\ UNCHANGED <<disk, acked>>

-----------------------------------------------------------------------------

Init ==
    /\ next = 1
    /\ history = << >>
    /\ log = << >>
    /\ disk = NoSnapshot
    /\ pubs = [p \in Publishers |-> Idle]
    /\ savers = [v \in Savers |-> NoSnapshot]
    /\ streams = [c \in Clients |-> Off]
    /\ acked = {}
    /\ restarts = 0

Next ==
    \/ \E p \in Publishers :
          \/ \E topic \in Topics : publish(p, topic)
          \/ Broadcast(p)
          \/ persist_timeline_event(p)
    \/ \E v \in Savers : Capture(v) \/ WriteSnapshot(v)
    \/ \E c \in Clients :
          \/ \E after \in Afters : Subscribe(c, after)
          \/ Query(c) \/ Replay(c) \/ Receive(c) \/ Disconnect(c)
    \/ Restart

Spec == Init /\ [][Next]_vars

-----------------------------------------------------------------------------
(* Properties *)

\* The history is the most recent run of numbers, without a gap, up to the
\* one before next_sequence, also after restarts from a snapshot that other
\* tasks were still writing.
HistoryContiguous ==
    /\ Len(history) <= HistoryLimit
    /\ \A i \in DOMAIN history : history[i].seq = next - 1 - Len(history) + i

\* Every event that publish_event returned can be read from the log under
\* its number.
AckedStored ==
    \A event \in acked : event.seq \in DOMAIN log /\ log[event.seq] = event

\* An entry of the log is never changed or removed, whatever is published,
\* backfilled or published again under the same number after a restart.
LogWriteOnce ==
    [][\A n \in DOMAIN log : n \in DOMAIN log' /\ log'[n] = log[n]]_vars

\* One connection never sends an event twice or out of order, although the
\* backlog and the channel overlap and publishers overtake each other.
StreamInOrder ==
    \A c \in Clients : streams[c] # Off =>
        \A i, j \in DOMAIN streams[c].got :
            i < j => streams[c].got[i].seq < streams[c].got[j].seq

\* What stream c owes its client: stored events of its topics, after the
\* requested number or, without one, numbered since it subscribed.
Owed(c) ==
    {log[n] : n \in {m \in DOMAIN log :
        /\ log[m].topic \in Follows[c]
        /\ IF streams[c].after = NoAfter
           THEN m >= streams[c].since /\ log[m].run = restarts
           ELSE m > streams[c].after}}

\* A stream that is being served and has not lagged will still send, or has
\* sent, everything it owes, except what was between channel and log when it
\* subscribed and what a later event overtook.
MissedOnlyIfOvertaken ==
    \A c \in Clients :
        streams[c].pc = "serve" /\ ~streams[c].lagged =>
            \A event \in Owed(c) \ streams[c].racing :
                \/ event \in streams[c].backlog
                \/ \E i \in DOMAIN streams[c].feed : streams[c].feed[i] = event
                \/ \E i \in DOMAIN streams[c].got : streams[c].got[i] = event
                \/ event.seq < streams[c].last
=============================================================================
