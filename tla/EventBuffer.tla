----------------------------- MODULE EventBuffer -----------------------------
(***************************************************************************)
(* The runtime events of one hosted session on their way to the control    *)
(* plane: post_runtime_event, buffer_runtime_event and flush_event_buffer  *)
(* of rc-runner-host.  The stdout reader and the exit task of a session    *)
(* post at the same time.  One action is one stretch between two awaits: a *)
(* request, or the acquisition of the lock of event_buffer.                *)
(*                                                                         *)
(* consecutive_flush_failures only makes a flush sleep before it takes the *)
(* buffer; a poster may stay at "flush" for as long as it likes.           *)
(***************************************************************************)
EXTENDS Naturals, Sequences, FiniteSets, SequencesExt

CONSTANTS Posters,    \* tasks that post events of the session
          MaxEvents,  \* bound: events per poster
          Cap         \* MAX_EVENT_BUFFER_PER_SESSION

ASSUME BufferAssumption == MaxEvents \in Nat /\ Cap \in Nat \ {0}

\* The task that starts the session, its stdout reader and its exit task post,
\* and the buffer takes 500 events.
ASSUME FewPosters == IsFiniteSet(Posters) /\ Cardinality(Posters) <= Cap + 1

VARIABLES
    buffer,   \* event_buffer[session_id]; absent is empty
    posters,  \* local variables of the calls of post_runtime_event
    posted,   \* events each poster has produced
    stored,   \* events the control plane has stored
    acked,    \* history: events whose post was answered with success
    dropped,  \* history: the events dropped_events counts
    healed,   \* from here on every request succeeds
    crossed   \* history: two flushes held events at the same time

vars == <<buffer, posters, posted, stored, acked, dropped, healed, crossed>>

\* An event is the poster that produced it and its number there.
Events == Posters \X (1..MaxEvents)
NextEvent(p) == <<p, posted[p] + 1>>
Older(e, f) == e[1] = f[1] /\ e[2] < f[2]

\* pc: idle; flush (waits for the lock); flushing; rebuffer (waits for the
\* lock after a failed flush); post; buffer (waits for the lock after a
\* failed post).  clean is history: this call has flushed every older event.
Steps == {"idle", "flush", "flushing", "rebuffer", "post", "buffer"}
Idle == [pc |-> "idle", cur |-> <<>>, held |-> <<>>, clean |-> TRUE]

BufferInit ==
    /\ buffer = <<>>
    /\ posters = [p \in Posters |-> Idle]
    /\ posted = [p \in Posters |-> 0]
    /\ stored = {}
    /\ acked = {}
    /\ dropped = {}
    /\ healed = FALSE
    /\ crossed = FALSE

(***************************************************************************)
(* A request to the control plane: answered with success, not received, or *)
(* received and answered with an error or not at all (client timeout).     *)
(***************************************************************************)
Outcomes == IF healed THEN {"ok"} ELSE {"ok", "refused", "unanswered"}

Request(e, outcome) ==
    /\ stored' = IF outcome = "refused" THEN stored ELSE stored \cup {e}
    /\ acked' = IF outcome = "ok" THEN acked \cup {e} ELSE acked

\* A call of post_runtime_event begins and goes to flush_event_buffer.
post_runtime_event(p) ==
    /\ posters[p].pc = "idle"
    /\ posted[p] < MaxEvents
    /\ posted' = [posted EXCEPT ![p] = @ + 1]
    /\ posters' = [posters EXCEPT ![p] = [Idle EXCEPT !.pc = "flush", !.cur = NextEvent(p)]]
    /\ UNCHANGED <<buffer, stored, acked, dropped, healed, crossed>>

\* Mutant: a flush that is to back off returns instead of sleeping.
TakeBuffer_SkipsFlush(p) ==
    /\ posters[p].pc = "flush"
    /\ posters' = [posters EXCEPT ![p].pc = "post"]
    /\ UNCHANGED <<buffer, posted, stored, acked, dropped, healed, crossed>>

\* buffer.remove(&session_id): the flush takes all that is buffered.
TakeBuffer(p) ==
    LET others == Posters \ {p}
    IN  /\ posters[p].pc = "flush"
        /\ buffer' = <<>>
        /\ posters' = [posters EXCEPT
              ![p].pc = IF buffer = <<>> THEN "post" ELSE "flushing",
              ![p].held = buffer,
              ![p].clean = \A q \in others : \A e \in ToSet(posters[q].held) : e[1] # p]
        /\ crossed' = (crossed \/ (buffer # <<>> /\ \E q \in others : posters[q].held # <<>>))
        /\ UNCHANGED <<posted, stored, acked, dropped, healed>>

\* One turn of the loop over the events taken.
FlushOne(p) ==
    /\ posters[p].pc = "flushing"
    /\ \E outcome \in Outcomes :
          /\ Request(Head(posters[p].held), outcome)
          /\ posters' = [posters EXCEPT ![p] =
                IF outcome # "ok" THEN [@ EXCEPT !.pc = "rebuffer"]
                ELSE [@ EXCEPT !.held = Tail(posters[p].held),
                               !.pc = IF Len(posters[p].held) = 1 THEN "post" ELSE "flushing"]]
    /\ UNCHANGED <<buffer, posted, dropped, healed, crossed>>

\* The rest goes back in front of what was buffered meanwhile.  Mutants: the
\* newer events are overwritten, or put first.
NewerLost(held) == held
NewerFirst(held) == buffer \o held
Rejoined(held) == held \o buffer

\* A flush that failed puts the rest back and drops the oldest beyond Cap.
Rebuffer(p) ==
    LET events == Rejoined(posters[p].held)
        excess == IF Len(events) > Cap THEN Len(events) - Cap ELSE 0
    IN  /\ posters[p].pc = "rebuffer"
        /\ buffer' = SubSeq(events, excess + 1, Len(events))
        /\ dropped' = dropped \cup ToSet(SubSeq(events, 1, excess))
        /\ posters' = [posters EXCEPT ![p].pc = "post", ![p].held = <<>>, ![p].clean = FALSE]
        /\ UNCHANGED <<posted, stored, acked, healed, crossed>>

\* The post of the new event itself, whatever became of the flush.
PostEvent(p) ==
    /\ posters[p].pc = "post"
    /\ \E outcome \in Outcomes :
          /\ Request(posters[p].cur, outcome)
          /\ posters' = [posters EXCEPT ![p] =
                IF outcome = "ok" THEN Idle ELSE [@ EXCEPT !.pc = "buffer"]]
    /\ UNCHANGED <<buffer, posted, dropped, healed, crossed>>

\* Mutants: the cap is met one event too early or too late.
FullEarly == Len(buffer) >= Cap - 1
FullLate == Len(buffer) > Cap
Full == Len(buffer) >= Cap

\* At the cap the front of the buffer makes room.
buffer_runtime_event(p) ==
    /\ posters[p].pc = "buffer"
    /\ buffer' = Append(IF Full THEN Tail(buffer) ELSE buffer, posters[p].cur)
    /\ dropped' = IF Full THEN dropped \cup {Head(buffer)} ELSE dropped
    /\ posters' = [posters EXCEPT ![p] = Idle]
    /\ UNCHANGED <<posted, stored, acked, healed, crossed>>

\* The network and the control plane recover for good.
Heal ==
    /\ ~healed
    /\ healed' = TRUE
    /\ UNCHANGED <<buffer, posters, posted, stored, acked, dropped, crossed>>

Continue(p) ==
    \/ TakeBuffer(p)
    \/ FlushOne(p)
    \/ Rebuffer(p)
    \/ PostEvent(p)
    \/ buffer_runtime_event(p)

BufferNext == Heal \/ \E p \in Posters : post_runtime_event(p) \/ Continue(p)

BufferSpec == BufferInit /\ [][BufferNext]_vars

\* tokio runs every ready task, and reqwest ends a request after 30 seconds.
FairBufferSpec == BufferSpec /\ \A p \in Posters : WF_vars(Continue(p))

-----------------------------------------------------------------------------
\* Every variable keeps its type, and the buffer stays within
\* MAX_EVENT_BUFFER_PER_SESSION whoever buffers or puts back.
TypeOK ==
    /\ buffer \in Seq(Events) /\ Len(buffer) <= Cap
    /\ posters \in [Posters -> [pc : Steps, cur : Events \cup {<<>>},
                                held : Seq(Events), clean : BOOLEAN]]
    /\ posted \in [Posters -> 0..MaxEvents]
    /\ stored \subseteq Events
    /\ acked \subseteq Events
    /\ dropped \subseteq Events
    /\ healed \in BOOLEAN
    /\ crossed \in BOOLEAN

\* The places an event can be while it is neither acknowledged nor dropped.
InBuffer(e) == {<<"buffer", i>> : i \in {j \in DOMAIN buffer : buffer[j] = e}}
InHands(e) ==
    {<<"cur", p>> : p \in {q \in Posters : posters[q].cur = e}}
    \cup (UNION {{<<"held", p, i>> :
                    i \in {j \in DOMAIN posters[p].held : posters[p].held[j] = e}}
                  : p \in Posters})
Pending(e) == InBuffer(e) \cup InHands(e) # {}
Produced == {e \in Events : e[2] <= posted[e[1]]}

\* No event disappears and none is kept twice: an event that was produced is
\* acknowledged, dropped, or in exactly one place of the buffer, of a flush
\* or of a call under way, although a flush takes the whole buffer out while
\* other tasks buffer, flush and put back.  (RH flush_event_buffer)
EachEventAccounted ==
    \A e \in Events :
        LET places == InBuffer(e) \cup InHands(e)
        IN  IF e \in Produced \ (acked \cup dropped)
            THEN \E place \in places : places = {place}
            ELSE places = {}

\* As long as no two flushes of a session held events at the same time, the
\* buffer is in the order the events were produced in and what was dropped is
\* older than what is kept ("dropped 1 oldest event").  Flushes that overlap
\* put older events behind newer ones, and the newer are dropped first; so
\* would more posters than the buffer has room for (FewPosters).
OldestDropped ==
    \/ crossed
    \/ /\ \A i, j \in DOMAIN buffer : i < j => ~Older(buffer[j], buffer[i])
       /\ \A e \in dropped, f \in Events : Pending(f) => ~Older(f, e)

\* A new event overtakes an older one of the same task only when the flush of
\* its call failed, or when the older one was in the hands of another flush.
OvertakesOnlyAfterFailedFlush ==
    [][\A p \in Posters :
          (posters[p].pc = "post" /\ posters[p].clean /\ posters[p].cur \in stored' \ stored)
          => \A e \in Events : Older(e, posters[p].cur) => ~Pending(e)]_vars

\* Once requests succeed, one more post is enough for what is buffered: it is
\* delivered (or dropped by a flush that had failed before).
RecoveredFlushed ==
    \A e \in Events :
        (healed /\ e \in ToSet(buffer) /\ \E p \in Posters : posters[p].pc = "flush")
            ~> (e \in acked \cup dropped)

\* The buffer implements the lossy delivery that EventDelivery describes.
Delivery == INSTANCE EventDelivery WITH
    accepted <- Produced,
    known    <- stored

DeliveryImplemented == Delivery!DeliverySpec
=============================================================================
