--------------------------- MODULE RunnerHostProofs --------------------------
(***************************************************************************)
(* Proofs about RunnerHost, for any set of sessions and of requests, any   *)
(* capacity of the channel and of the runner, and any number of commands.  *)
(***************************************************************************)
EXTENDS RunnerHost, SequenceTheorems, TLAPS

\* The fields of tasks, agent and history that the invariant speaks of.
Process(s) == tasks[s].process
Input(s) == tasks[s].input
ExitTask(s) == tasks[s].exit
Pipe(s) == agent.pipe[s]
Asked == agent.asked
Withdrawn == agent.cancelled
Answers(r) == agent.answers[r]
Lost == history.lost
NotFound == history.missed
Missed == history.missed \cup history.overtaken
Unstarted == history.unstarted
Revived == history.revived

\* Lines of an agent, events for the manager, positions of a reader.
Lines == ({"ask", "cancel"} \X Requests) \cup ({"state"} \X AgentStates)
RunnerEvents == ({"created", "command"} \X Sessions) \cup ({"resolved"} \X Requests \X Decided)
ReaderPcs == {<<"off">>, <<"idle">>, <<"ended">>} \cup (ReaderSteps \X Requests)

TaskRecs == [process : {"none", "live", "exited"},
             input : {"none", "queue", "served", "closed"},
             reader : ReaderPcs,
             exit : {"off", "waiting", "aborted", "removed", "done"}]
AgentRecs == [asked : SUBSET Requests, cancelled : SUBSET Requests,
              answers : [Requests -> Seq({"allow", "deny"})],
              pipe : [Sessions -> Seq(Lines)]]
HistoryRecs == [dispatched : Seq(Sessions), updates : Nat,
                lost : SUBSET (Sessions \cup Requests), overtaken : SUBSET Requests,
                missed : SUBSET Requests,
                unstarted : SUBSET Sessions, revived : SUBSET Sessions]

\* TypeOK, and the types of what it leaves open.
Types ==
    /\ TypeOK
    /\ link \in Seq(Commands)
    /\ channel \in Seq(RunnerEvents)
    /\ agent \in AgentRecs
    /\ history \in HistoryRecs

-----------------------------------------------------------------------------
(* A request, from the line of the agent to its answer *)

\* The line that asks for r has not been read, or not been written.
InPipe(r) == \E i \in 1 .. Len(Pipe(SessionOf[r])) : Pipe(SessionOf[r])[i] = <<"ask", r>>
Unhandled(r) == r \notin Asked \/ InPipe(r)

\* The reader is between the request for an approval and the second map.
Refused(r) == Reader(SessionOf[r]) = <<"refused", r>>
Opening(r) == Reader(SessionOf[r]) \in {<<"asking", r>>, <<"created", r>>, <<"stored", r>>,
                                        <<"refused", r>>}

\* The manager has found r, or has also taken it out of the maps.
AtAnswer(r) == \E d \in Decided : manager = <<"answering", r, d>>
Forwarding(r) == AtAnswer(r) \/ \E d \in Decided : manager = <<"found", r, d>>

\* Commands for the runner, handlers of the control plane.
Sent(c) == c \in ToSet(link)
Queueing(r, state) == <<"queue", r, state>> \in calls
Recording(r, state) == <<"record", r, state>> \in calls

\* A decision on its way from the runner's record to the agent.
Token(r, d) ==
    \/ \E b \in BOOLEAN : <<"decision", r, d, b>> \in mid
    \/ <<"resolved", r, d>> \in ToSet(channel)
    \/ manager \in {<<"found", r, d>>, <<"answering", r, d>>}
Coming(r) == Refused(r) \/ \E d \in Decided : Token(r, d)

\* A line or a reader speaks of a request of its own session, an agent asks
\* once, and only what was withdrawn is cancelled.
AskingOf(s) ==
    /\ \A r \in Requests : \A i \in 1 .. Len(Pipe(s)) :
          /\ Pipe(s)[i] = <<"ask", r>> => s = SessionOf[r] /\ r \in Asked
          /\ Pipe(s)[i] = <<"cancel", r>> => s = SessionOf[r] /\ r \in Withdrawn
    /\ \A r \in Requests : \A i, j \in 1 .. Len(Pipe(s)) :
          Pipe(s)[i] = <<"ask", r>> /\ Pipe(s)[j] = <<"ask", r>> => i = j
    /\ \A r \in Requests, x \in ReaderSteps : Reader(s) = <<x, r>> =>
          /\ s = SessionOf[r]
          /\ x \in {"cancelling", "posted", "withdrawn", "failed"} => r \in Withdrawn

\* One party at most can still answer a request that has no answer, and
\* nobody an answered one.
AnsweringOf(r) ==
    /\ Unhandled(r) => ~Opening(r)
    /\ Unhandled(r) \/ Opening(r) => r \notin a2r /\ ~Forwarding(r)
    /\ Unhandled(r) \/ Opening(r) \/ r \in a2r \/ Forwarding(r) => Answers(r) = <<>>
    /\ AtAnswer(r) => r \notin a2r
    /\ Answers(r) \in {<<>>, <<"allow">>, <<"deny">>}
    /\ Answers(r) = <<"allow">> => approvals[r] = "Approved"

\* Wherever a decision is, it is the one the runner recorded.
AgreeingOf(r) == \A d \in Decided : Token(r, d) => approvals[r] = d

\* A request that was handled and is not being opened can be found, unless it
\* was answered or withdrawn or its agent is out of reach.
FindableOf(r) ==
    \/ Unhandled(r) \/ Opening(r) \/ r \in a2r
    \/ r \in Withdrawn \/ Answers(r) # <<>> \/ AtAnswer(r)
    \/ Input(SessionOf[r]) = "closed" \/ SessionOf[r] \notin hosted

\* An agent that is not told has an excuse (SilenceHasCause).
SilenceOf(r) ==
    approvals[r] \in Decided /\ Answers(r) = <<>> /\ r \notin Withdrawn
      /\ Process(SessionOf[r]) = "live"
    => Coming(r) \/ r \in Lost \cup Missed \/ Input(SessionOf[r]) = "closed"

-----------------------------------------------------------------------------
(* The life of a session on the runner *)

\* The process starts once, with its handle; the tasks start with StartTasks.
Starting(s) == manager = <<"starting", s>>
LivingOf(s) ==
    /\ Process(s) = "none" => Input(s) = "none" /\ ExitTask(s) = "off" /\ s \notin hosted
    /\ ExitTask(s) = "off" /\ Process(s) # "none" => Starting(s)
    /\ Starting(s) => Input(s) = "queue" /\ ExitTask(s) = "off" /\ Process(s) # "none"
    /\ Process(s) = "live" => s \in hosted
    /\ s \in hosted => ExitTask(s) \in {"off", "waiting", "aborted"}
    /\ ExitTask(s) = "off" => Reader(s) = <<"off">>

\* A session has a record before it has a process, and requests after.
Created(s) == <<"created", s>> \in ToSet(channel)
RecordedOf(s) ==
    /\ Created(s) \/ Process(s) # "none" => table[s] # "absent"
    /\ Pipe(s) # <<>> => Process(s) # "none"
    /\ \A r \in RequestsOf(s) : r \in Asked => Process(s) # "none"

\* Every record is backed by an agent, or by one of the known causes.
BackedOf(s) ==
    /\ table[s] # "absent" => Process(s) # "none" \/ Created(s) \/ s \in Lost \cup Unstarted
    /\ ExitTask(s) = "done" /\ table[s] \in Counted => s \in Revived

-----------------------------------------------------------------------------
(* The approval on its way to the runner, and its decision after it *)

Once(c) == \A i, j \in 1 .. Len(link) : link[i] = c /\ link[j] = c => i = j
Precedes(c, e) ==
    \A i \in 1 .. Len(link) : link[i] = e => \E j \in 1 .. Len(link) : j < i /\ link[j] = c

\* An approval that was asked for is in one place at a time: not yet queued,
\* on its way to the runner, between the runner's two scopes, with the runner.
CarriedOf(r) ==
    /\ Unhandled(r) => cp[r] = "absent" /\ ~Queueing(r, "Pending") /\ ~Sent(<<"approval", r>>)
                       /\ <<"approval", r>> \notin mid /\ approvals[r] = "absent"
    /\ Queueing(r, "Pending") => ~Sent(<<"approval", r>>)
    /\ Queueing(r, "Pending") \/ Sent(<<"approval", r>>) => <<"approval", r>> \notin mid
    /\ Queueing(r, "Pending") \/ Sent(<<"approval", r>>) \/ <<"approval", r>> \in mid =>
          approvals[r] = "absent"
    /\ Once(<<"approval", r>>)

\* A runner that polls: the control plane records first.  The decision is in
\* one place at a time, and finds the approval there unless it was overtaken.
PollingOf(r) ==
    /\ cp[r] = "absent" => /\ ~Queueing(r, "Pending") /\ ~Sent(<<"approval", r>>)
                           /\ <<"approval", r>> \notin mid /\ approvals[r] = "absent"
    /\ cp[r] = "absent" \/ Queueing(r, "Pending") \/ Sent(<<"approval", r>>)
       \/ <<"approval", r>> \in mid \/ approvals[r] # "absent" \/ r \in Lost
    /\ \A d \in Decided :
          /\ Queueing(r, d) => cp[r] = d /\ ~Sent(<<"decide", r, d>>)
          /\ Sent(<<"decide", r, d>>) => cp[r] = d
          /\ Queueing(r, d) \/ Sent(<<"decide", r, d>>) => approvals[r] \notin Decided
          /\ Once(<<"decide", r, d>>)
          /\ Sent(<<"decide", r, d>>) /\ approvals[r] = "absent" =>
                \/ r \in Lost \cup Missed
                \/ <<"approval", r>> \in mid
                \/ Precedes(<<"approval", r>>, <<"decide", r, d>>)
          /\ approvals[r] = d => cp[r] = d
          /\ cp[r] = d /\ approvals[r] # d =>
                Queueing(r, d) \/ Sent(<<"decide", r, d>>) \/ r \in Lost \cup Missed

\* A runner that is called: it records first.
CalledOf(r) ==
    /\ cp[r] # "absent" => approvals[r] # "absent"
    /\ Recording(r, "Pending") => cp[r] = "absent" /\ approvals[r] = "Pending"
    /\ \A d \in Decided :
          /\ Sent(<<"decide", r, d>>) \/ Recording(r, d) => cp[r] # "absent"
          /\ approvals[r] = d => cp[r] \in {"Pending", d}
          /\ Recording(r, d) \/ cp[r] = d => approvals[r] = d

\* The record of the control plane and that of the runner.
FollowingOf(r) ==
    IF inbound THEN CalledOf(r) /\ \A st \in {"Pending"} \cup Decided : ~Queueing(r, st)
    ELSE PollingOf(r) /\ \A st \in {"Pending"} \cup Decided : ~Recording(r, st)

-----------------------------------------------------------------------------
\* The inductive invariant: of a session, of a request, and as a whole.
SessionInv(s) == AskingOf(s) /\ LivingOf(s) /\ RecordedOf(s) /\ BackedOf(s)
RequestInv(r) ==
    /\ AnsweringOf(r) /\ AgreeingOf(r) /\ FindableOf(r)
    /\ CarriedOf(r) /\ FollowingOf(r) /\ SilenceOf(r)
HInv ==
    /\ Types
    /\ \A s \in Sessions : SessionInv(s)
    /\ \A r \in Requests : RequestInv(r)

-----------------------------------------------------------------------------
(* Sequences *)

\* The elements of a sequence.
LEMMA SeqSet ==
    ASSUME NEW S, NEW q \in Seq(S)
    PROVE  /\ Len(q) \in Nat /\ ToSet(q) \subseteq S
           /\ \A e : e \in ToSet(q) <=> \E i \in 1 .. Len(q) : q[i] = e
           /\ \A i \in 1 .. Len(q) : q[i] \in S /\ q[i] \in ToSet(q)
           /\ q = <<>> <=> Len(q) = 0
  <1>1. Len(q) \in Nat /\ DOMAIN q = 1 .. Len(q) /\ \A i \in 1 .. Len(q) : q[i] \in S
    BY LenProperties
  <1>2. q = <<>> <=> Len(q) = 0
    BY EmptySeq
  <1>3. QED
    BY <1>1, <1>2 DEF ToSet

\* One more element.
LEMMA SeqAppend ==
    ASSUME NEW S, NEW q \in Seq(S), NEW e \in S
    PROVE  /\ Append(q, e) \in Seq(S) /\ Len(Append(q, e)) = Len(q) + 1 /\ Len(q) \in Nat
           /\ \A i \in 1 .. Len(q) : Append(q, e)[i] = q[i]
           /\ Append(q, e)[Len(q) + 1] = e
           /\ ToSet(Append(q, e)) = ToSet(q) \cup {e}
           /\ Append(q, e) # <<>>
  <1> DEFINE t == Append(q, e)
  <1>1. /\ t \in Seq(S) /\ Len(t) = Len(q) + 1 /\ Len(q) \in Nat
        /\ \A i \in 1 .. Len(q) : t[i] = q[i]
        /\ t[Len(q) + 1] = e
    BY AppendProperties, LenProperties
  <1> HIDE DEF t
  <1>2. \A i \in 1 .. Len(t) : i = Len(q) + 1 \/ i \in 1 .. Len(q)
    BY <1>1
  <1>3. ToSet(t) = ToSet(q) \cup {e} /\ t # <<>>
    <2>1. ToSet(t) \subseteq ToSet(q) \cup {e}
      BY <1>1, <1>2, SeqSet
    <2>2. ToSet(q) \subseteq ToSet(t)
      BY <1>1, SeqSet
    <2>3. e \in ToSet(t)
      BY <1>1, SeqSet
    <2>4. t # <<>>
      BY <1>1, SeqSet
    <2>5. QED
      BY <2>1, <2>2, <2>3, <2>4
  <1>4. QED
    BY <1>1, <1>3 DEF t

\* One element less; the others keep their order.
LEMMA SeqRemove ==
    ASSUME NEW S, NEW q \in Seq(S), NEW k \in 1 .. Len(q)
    PROVE  LET t == RemoveAt(q, k)
           IN  /\ t \in Seq(S) /\ Len(t) = Len(q) - 1 /\ Len(q) \in Nat
               /\ \A i \in 1 .. Len(t) : t[i] = IF i < k THEN q[i] ELSE q[i + 1]
               /\ ToSet(t) \subseteq ToSet(q)
               /\ ToSet(q) \subseteq ToSet(t) \cup {q[k]}
  <1> DEFINE a == SubSeq(q, 1, k - 1)
             b == SubSeq(q, k + 1, Len(q))
             t == a \o b
  <1>1. Len(q) \in Nat /\ k \in Nat /\ 1 <= k /\ k <= Len(q)
    BY LenProperties
  <1>2. a \in Seq(S) /\ Len(a) = k - 1 /\ \A i \in 1 .. k - 1 : a[i] = q[i]
    <2>1. \A i \in 1 .. k - 1 : q[i] \in S
      BY <1>1, LenProperties
    <2>2. QED
      BY <1>1, <2>1, SubSeqProperties
  <1>3. /\ b \in Seq(S) /\ Len(b) = Len(q) - k
        /\ \A i \in 1 .. Len(q) - k : b[i] = q[k + i]
    <2>1. \A i \in k + 1 .. Len(q) : q[i] \in S
      BY <1>1, LenProperties
    <2>2. QED
      BY <1>1, <2>1, SubSeqProperties
  <1> HIDE DEF a, b
  <1>4. /\ t \in Seq(S) /\ Len(t) = Len(q) - 1
        /\ \A i \in 1 .. Len(q) - 1 : t[i] = IF i <= k - 1 THEN a[i] ELSE b[i - (k - 1)]
    <2>1. t \in Seq(S) /\ Len(t) = Len(a) + Len(b)
      BY <1>2, <1>3, ConcatProperties
    <2>2. \A i \in 1 .. Len(a) + Len(b) : t[i] = IF i <= Len(a) THEN a[i] ELSE b[i - Len(a)]
      BY <1>2, <1>3, ConcatProperties
    <2> HIDE DEF t
    <2>3. Len(a) + Len(b) = Len(q) - 1
      BY <1>1, <1>2, <1>3
    <2>4. QED
      BY <2>1, <2>2, <2>3, <1>2
  <1> HIDE DEF t
  <1>5. \A i \in 1 .. Len(t) : t[i] = IF i < k THEN q[i] ELSE q[i + 1]
    <2> TAKE i \in 1 .. Len(t)
    <2>1. CASE i < k
      BY <1>1, <1>2, <1>4, <2>1
    <2>2. CASE i >= k
      <3>1. i - (k - 1) \in 1 .. Len(q) - k /\ k + (i - (k - 1)) = i + 1
        BY <1>1, <1>4, <2>2
      <3>2. b[i - (k - 1)] = q[i + 1]
        BY <1>3, <3>1
      <3>3. i \in 1 .. Len(q) - 1 /\ ~(i <= k - 1) /\ ~(i < k)
        BY <1>1, <1>4, <2>2
      <3>4. t[i] = b[i - (k - 1)]
        BY <1>4, <3>3
      <3>5. QED
        BY <3>2, <3>3, <3>4
    <2>3. QED
      BY <1>1, <1>4, <2>1, <2>2
  <1>9. /\ \A e : e \in ToSet(t) <=> \E i \in 1 .. Len(t) : t[i] = e
        /\ \A e : e \in ToSet(q) <=> \E i \in 1 .. Len(q) : q[i] = e
    BY <1>4, SeqSet
  <1>6. ToSet(t) \subseteq ToSet(q)
    <2>1. \A i \in 1 .. Len(t) : i \in 1 .. Len(q) /\ i + 1 \in 1 .. Len(q)
      BY <1>1, <1>4
    <2>2. QED
      BY <1>5, <1>9, <2>1
  <1>7. ASSUME NEW e \in ToSet(q) PROVE e \in ToSet(t) \cup {q[k]}
    <2>1. PICK i \in 1 .. Len(q) : q[i] = e
      BY SeqSet
    <2>2. CASE i < k
      <3>1. i \in 1 .. Len(t)
        BY <1>1, <1>4, <2>2
      <3>2. QED
        BY <1>5, <1>9, <2>1, <2>2, <3>1
    <2>3. CASE i > k
      <3>1. i - 1 \in 1 .. Len(t) /\ (i - 1) + 1 = i /\ ~(i - 1 < k)
        BY <1>1, <1>4, <2>3
      <3>2. t[i - 1] = q[(i - 1) + 1]
        BY <1>5, <3>1
      <3>3. QED
        BY <1>9, <2>1, <3>1, <3>2
    <2>4. QED
      BY <1>1, <2>1, <2>2, <2>3
  <1>8. QED
    BY <1>1, <1>4, <1>5, <1>6, <1>7 DEF t, a, b, RemoveAt

\* Without its head.
LEMMA SeqTail ==
    ASSUME NEW S, NEW q \in Seq(S), q # <<>>
    PROVE  /\ Head(q) \in S /\ Head(q) = q[1] /\ Len(q) \in Nat \ {0}
           /\ Tail(q) \in Seq(S) /\ Len(Tail(q)) = Len(q) - 1
           /\ \A i \in 1 .. Len(Tail(q)) : Tail(q)[i] = q[i + 1]
           /\ ToSet(Tail(q)) \subseteq ToSet(q)
           /\ ToSet(q) \subseteq ToSet(Tail(q)) \cup {Head(q)}
           /\ Head(q) \in ToSet(q)
  <1>1. /\ Tail(q) \in Seq(S) /\ Len(Tail(q)) = Len(q) - 1
        /\ \A i \in 1 .. Len(Tail(q)) : Tail(q)[i] = q[i + 1]
        /\ Head(q) = q[1] /\ Head(q) \in S /\ Len(q) \in Nat \ {0}
    BY HeadTailProperties, EmptySeq
  <1>2. ToSet(Tail(q)) \subseteq ToSet(q) /\ Head(q) \in ToSet(q)
    <2>1. \A i \in 1 .. Len(Tail(q)) : i + 1 \in 1 .. Len(q)
      BY <1>1
    <2>2. /\ \A e : e \in ToSet(Tail(q)) <=> \E i \in 1 .. Len(Tail(q)) : Tail(q)[i] = e
          /\ \A e : e \in ToSet(q) <=> \E i \in 1 .. Len(q) : q[i] = e
      BY <1>1, SeqSet
    <2>3. ToSet(Tail(q)) \subseteq ToSet(q)
      BY <1>1, <2>1, <2>2
    <2>4. 1 \in 1 .. Len(q)
      BY <1>1
    <2>5. QED
      BY <1>1, <2>2, <2>3, <2>4
  <1>3. ASSUME NEW e \in ToSet(q) PROVE e \in ToSet(Tail(q)) \cup {Head(q)}
    <2>1. PICK i \in 1 .. Len(q) : q[i] = e
      BY SeqSet
    <2>2. CASE i # 1
      <3>1. i - 1 \in 1 .. Len(Tail(q)) /\ Tail(q)[i - 1] = e
        BY <1>1, <2>1, <2>2
      <3>2. QED
        BY <1>1, <3>1, SeqSet
    <2>3. QED
      BY <1>1, <2>1, <2>2
  <1>4. QED
    BY <1>1, <1>2, <1>3

-----------------------------------------------------------------------------
(* The shape of commands, events, lines and positions *)

LEMMA CommandShape ==
    ASSUME NEW c \in Commands
    PROVE  /\ c[1] \in {"create", "prompt", "state", "approval", "decide"}
           /\ c[1] \in {"create", "prompt"} => c = <<c[1], c[2]>> /\ c[2] \in Sessions
           /\ c[1] = "state" =>
                 c = <<"state", c[2], c[3]>> /\ c[2] \in Sessions /\ c[3] \in ClientStates
           /\ c[1] = "approval" => c = <<"approval", c[2]>> /\ c[2] \in Requests
           /\ c[1] = "decide" =>
                 c = <<"decide", c[2], c[3]>> /\ c[2] \in Requests /\ c[3] \in Decided
           /\ c[2] \in Sessions \cup Requests
  BY DEF Commands

LEMMA EventShape ==
    ASSUME NEW e \in RunnerEvents
    PROVE  /\ e[1] \in {"created", "command", "resolved"}
           /\ e[1] \in {"created", "command"} => e = <<e[1], e[2]>> /\ e[2] \in Sessions
           /\ e[1] = "resolved" =>
                 e = <<"resolved", e[2], e[3]>> /\ e[2] \in Requests /\ e[3] \in Decided
           /\ e[2] \in Sessions \cup Requests
  BY DEF RunnerEvents

LEMMA LineShape ==
    ASSUME NEW l \in Lines
    PROVE  /\ l[1] \in {"ask", "cancel", "state"}
           /\ l[1] \in {"ask", "cancel"} => l = <<l[1], l[2]>> /\ l[2] \in Requests
           /\ l[1] = "state" => l = <<"state", l[2]>> /\ l[2] \in AgentStates
  BY DEF Lines

LEMMA ReaderShape ==
    ASSUME Types, NEW s \in Sessions
    PROVE  /\ Reader(s) \in ReaderPcs
           /\ Reader(s)[1] \in ReaderSteps => /\ Reader(s) = <<Reader(s)[1], Reader(s)[2]>>
                                              /\ Reader(s)[2] \in Requests
           /\ Reader(s)[1] \notin ReaderSteps => Reader(s) \in {<<"off">>, <<"idle">>, <<"ended">>}
  <1>1. Reader(s) \in ReaderPcs
    BY DEF Types, TypeOK, Reader, ReaderPcs
  <1> DEFINE x == Reader(s)
  <1> HIDE DEF x
  <1>2. ASSUME x \in ReaderPcs
        PROVE  /\ x[1] \in ReaderSteps => x = <<x[1], x[2]>> /\ x[2] \in Requests
               /\ x[1] \notin ReaderSteps => x \in {<<"off">>, <<"idle">>, <<"ended">>}
    BY <1>2 DEF ReaderPcs, ReaderSteps
  <1>3. QED
    BY <1>1, <1>2 DEF x

LEMMA ManagerShape ==
    ASSUME Types
    PROVE  /\ manager[1] \in {"idle", "started", "starting", "found", "answering"}
           /\ manager[1] = "idle" => manager = <<"idle">>
           /\ manager[1] = "started" => manager = <<"started">>
           /\ manager[1] = "starting" => manager = <<"starting", manager[2]>>
                                         /\ manager[2] \in Sessions
           /\ manager[1] \in {"found", "answering"} =>
                 /\ manager = <<manager[1], manager[2], manager[3]>>
                 /\ manager[2] \in Requests /\ manager[3] \in Decided
  <1>1. manager \in {<<"idle">>, <<"started">>} \cup ({"starting"} \X Sessions)
                    \cup ({"found", "answering"} \X Requests \X Decided)
    BY DEF Types, TypeOK
  <1>2. QED
    BY <1>1

Calls == {"queue", "record"} \X Requests \X ({"Pending"} \cup Decided)
Mids == ({"approval"} \X Requests) \cup ({"decision"} \X Requests \X Decided \X BOOLEAN)

LEMMA MidShape ==
    ASSUME Types, NEW m \in mid
    PROVE  /\ m[1] \in {"approval", "decision"}
           /\ m[1] = "approval" => m = <<"approval", m[2]>> /\ m[2] \in Requests
           /\ m[1] = "decision" =>
                 /\ m = <<"decision", m[2], m[3], m[4]>>
                 /\ m[2] \in Requests /\ m[3] \in Decided /\ m[4] \in BOOLEAN
  <1>1. m \in Mids
    BY DEF Types, TypeOK, Mids
  <1>2. QED
    BY <1>1 DEF Mids

-----------------------------------------------------------------------------
(* Types, and what the steps do to the fields *)

CpTypes ==
    /\ inbound \in BOOLEAN
    /\ cp \in [Requests -> {"absent", "Pending"} \cup Decided]
    /\ calls \subseteq Calls
    /\ link \in Seq(Commands)
ApiTypes ==
    /\ table \in [Sessions -> {"absent"} \cup RunnerStates]
    /\ approvals \in [Requests -> {"absent", "Pending"} \cup Decided]
    /\ mid \subseteq Mids
    /\ channel \in Seq(RunnerEvents)
    /\ Len(channel) <= ChannelCap
HostTypes ==
    /\ manager \in {<<"idle">>, <<"started">>} \cup ({"starting"} \X Sessions)
                   \cup ({"found", "answering"} \X Requests \X Decided)
    /\ hosted \subseteq Sessions
    /\ r2a \subseteq Requests /\ a2r \subseteq Requests
    /\ tasks \in [Sessions -> TaskRecs]

\* Types, by group of variables.
LEMMA TypesParts ==
    Types <=> CpTypes /\ ApiTypes /\ HostTypes /\ agent \in AgentRecs /\ history \in HistoryRecs
  <1>1. link \in Seq(Commands) => ToSet(link) \subseteq Commands
    BY SeqSet
  <1>2. channel \in Seq(RunnerEvents) => ToSet(channel) \subseteq RunnerEvents
    BY SeqSet
  <1>3. QED
    BY <1>1, <1>2 DEF Types, TypeOK, CpTypes, ApiTypes, HostTypes, Calls, Mids, RunnerEvents,
                      TaskRecs, ReaderPcs

LEMMA TypesPartsNext ==
    ASSUME CpTypes', ApiTypes', HostTypes', (agent \in AgentRecs)', (history \in HistoryRecs)'
    PROVE  Types'
  <1>1. link' \in Seq(Commands) => ToSet(link') \subseteq Commands
    BY SeqSet
  <1>2. channel' \in Seq(RunnerEvents) => ToSet(channel') \subseteq RunnerEvents
    BY SeqSet
  <1>3. QED
    BY <1>1, <1>2 DEF Types, TypeOK, CpTypes, ApiTypes, HostTypes, Calls, Mids, RunnerEvents,
                      TaskRecs, ReaderPcs

\* The types of the fields.
LEMMA FieldTypes ==
    ASSUME Types
    PROVE  /\ \A s \in Sessions :
                 /\ tasks[s] \in TaskRecs
                 /\ Process(s) \in {"none", "live", "exited"}
                 /\ Input(s) \in {"none", "queue", "served", "closed"}
                 /\ ExitTask(s) \in {"off", "waiting", "aborted", "removed", "done"}
                 /\ Reader(s) \in ReaderPcs
                 /\ Pipe(s) \in Seq(Lines)
           /\ \A r \in Requests : Answers(r) \in Seq({"allow", "deny"})
           /\ Asked \subseteq Requests /\ Withdrawn \subseteq Requests
           /\ Lost \subseteq Sessions \cup Requests /\ Missed \subseteq Requests
           /\ Unstarted \subseteq Sessions /\ Revived \subseteq Sessions
  <1>1. tasks \in [Sessions -> TaskRecs] /\ agent \in AgentRecs /\ history \in HistoryRecs
    BY TypesParts DEF HostTypes
  <1>2. \A s \in Sessions : tasks[s] \in TaskRecs
    BY <1>1
  <1>3. \A s \in Sessions :
           /\ Process(s) \in {"none", "live", "exited"}
           /\ Input(s) \in {"none", "queue", "served", "closed"}
           /\ ExitTask(s) \in {"off", "waiting", "aborted", "removed", "done"}
           /\ Reader(s) \in ReaderPcs
    BY <1>2 DEF TaskRecs, Process, Input, ExitTask, Reader
  <1>4. /\ \A s \in Sessions : Pipe(s) \in Seq(Lines)
        /\ \A r \in Requests : Answers(r) \in Seq({"allow", "deny"})
        /\ Asked \subseteq Requests /\ Withdrawn \subseteq Requests
    BY <1>1 DEF AgentRecs, Pipe, Answers, Asked, Withdrawn
  <1>5. /\ Lost \subseteq Sessions \cup Requests /\ Missed \subseteq Requests
        /\ Unstarted \subseteq Sessions /\ Revived \subseteq Sessions
    BY <1>1 DEF HistoryRecs, Lost, Missed, Unstarted, Revived
  <1>6. QED
    BY <1>2, <1>3, <1>4, <1>5

SameTask(s) ==
    /\ Process(s)' = Process(s) /\ Input(s)' = Input(s)
    /\ ExitTask(s)' = ExitTask(s) /\ Reader(s)' = Reader(s)
SameTasks == \A s \in Sessions : SameTask(s)
SameAgent ==
    /\ Asked' = Asked /\ Withdrawn' = Withdrawn
    /\ \A s \in Sessions : Pipe(s)' = Pipe(s)
    /\ \A r \in Requests : Answers(r)' = Answers(r)
SameHistory ==
    Lost' = Lost /\ Missed' = Missed /\ Unstarted' = Unstarted /\ Revived' = Revived

LEMMA TasksUnchanged == UNCHANGED tasks => SameTasks
  BY DEF SameTasks, SameTask, Process, Input, ExitTask, Reader
LEMMA AgentUnchanged == UNCHANGED agent => SameAgent
  BY DEF SameAgent, Asked, Withdrawn, Pipe, Answers
LEMMA HistoryUnchanged == UNCHANGED history => SameHistory
  BY DEF SameHistory, Lost, Missed, Unstarted, Revived

\* The tasks of one session move.
LEMMA TaskMoves ==
    ASSUME tasks \in [Sessions -> TaskRecs], NEW s \in Sessions, NEW rec \in TaskRecs,
           tasks' = [tasks EXCEPT ![s] = rec]
    PROVE  /\ tasks' \in [Sessions -> TaskRecs]
           /\ \A t \in Sessions \ {s} : SameTask(t)
           /\ Process(s)' = rec.process /\ Input(s)' = rec.input
           /\ ExitTask(s)' = rec.exit /\ Reader(s)' = rec.reader
  <1>1. tasks' \in [Sessions -> TaskRecs] /\ tasks'[s] = rec
    OBVIOUS
  <1>2. \A t \in Sessions \ {s} : tasks'[t] = tasks[t]
    OBVIOUS
  <1>3. QED
    BY <1>1, <1>2 DEF SameTask, Process, Input, ExitTask, Reader

\* A reader moves.
LEMMA ReaderMoves ==
    ASSUME Types, NEW s \in Sessions, NEW pc \in ReaderPcs, ReaderAt(s, pc)
    PROVE  /\ tasks' \in [Sessions -> TaskRecs]
           /\ \A t \in Sessions \ {s} : SameTask(t)
           /\ Process(s)' = Process(s) /\ Input(s)' = Input(s)
           /\ ExitTask(s)' = ExitTask(s) /\ Reader(s)' = pc
  <1> DEFINE rec == [tasks[s] EXCEPT !.reader = pc]
  <1>1. tasks \in [Sessions -> TaskRecs] /\ tasks[s] \in TaskRecs
    BY TypesParts DEF HostTypes
  <1>2. /\ rec \in TaskRecs /\ rec.reader = pc /\ rec.process = tasks[s].process
        /\ rec.input = tasks[s].input /\ rec.exit = tasks[s].exit
    BY <1>1 DEF TaskRecs
  <1>3. tasks' = [tasks EXCEPT ![s] = rec]
    BY DEF ReaderAt
  <1> HIDE DEF rec
  <1>4. QED
    BY <1>1, <1>2, <1>3, TaskMoves DEF Process, Input, ExitTask
\* An event is queued for the manager, or lost.
LEMMA EmitMoves ==
    ASSUME Types, NEW event \in RunnerEvents, NEW written \in SUBSET Sessions,
           emit_event(event, written)
    PROVE  /\ channel' \in Seq(RunnerEvents) /\ Len(channel') <= ChannelCap
           /\ history' \in HistoryRecs
           /\ ToSet(channel') \subseteq ToSet(channel) \cup {event}
           /\ ToSet(channel) \subseteq ToSet(channel')
           /\ event \in ToSet(channel') \/ event[2] \in Lost'
           /\ Lost \subseteq Lost' /\ Missed' = Missed /\ Unstarted' = Unstarted
           /\ Revived' = Revived \cup Touched(written) /\ NotFound' = NotFound
  <1> DEFINE gone == IF Saturated THEN {event[2]} ELSE {}
             back == Touched(written)
  <1>1. channel \in Seq(RunnerEvents) /\ Len(channel) <= ChannelCap /\ history \in HistoryRecs
    BY TypesParts DEF ApiTypes
  <1>2. ChannelCap \in Nat
    BY HostAssumption
  <1>3. /\ channel' = IF Saturated THEN channel ELSE Append(channel, event)
        /\ history' = [history EXCEPT !.lost = @ \cup gone, !.revived = @ \cup back]
    BY DEF emit_event
  <1>4. gone \subseteq Sessions \cup Requests /\ back \subseteq Sessions
    BY EventShape DEF Touched
  <1>5. /\ channel' \in Seq(RunnerEvents) /\ Len(channel') <= ChannelCap
        /\ ToSet(channel') \subseteq ToSet(channel) \cup {event}
        /\ ToSet(channel) \subseteq ToSet(channel')
        /\ event \in ToSet(channel') \/ Saturated
    <2>1. CASE Saturated
      BY <1>1, <1>3, <2>1
    <2>2. CASE ~Saturated
      <3>1. channel' = Append(channel, event)
        BY <1>3, <2>2
      <3>2. /\ channel' \in Seq(RunnerEvents) /\ Len(channel') = Len(channel) + 1
            /\ ToSet(channel') = ToSet(channel) \cup {event} /\ Len(channel) \in Nat
        BY <1>1, <3>1, SeqAppend
      <3>3. Len(channel) < ChannelCap
        BY <1>2, <2>2, <3>2 DEF Saturated
      <3>4. QED
        BY <1>2, <3>2, <3>3
    <2>3. QED
      BY <2>1, <2>2
  <1>6. Saturated => event[2] \in gone
    OBVIOUS
  <1> HIDE DEF gone, back
  <1>7. /\ history' \in HistoryRecs
        /\ Lost' = Lost \cup gone /\ Missed' = Missed /\ Unstarted' = Unstarted
        /\ Revived' = Revived \cup back /\ NotFound' = NotFound
    BY <1>1, <1>3, <1>4 DEF HistoryRecs, Lost, Missed, NotFound, Unstarted, Revived
  <1>8. QED
    BY <1>5, <1>6, <1>7 DEF back

\* A line to the agent arrives unless its input is gone.
LEMMA SendMoves ==
    ASSUME Types, NEW r \in Requests, NEW behavior \in {"allow", "deny"},
           send_json_line(r, behavior)
    PROVE  /\ agent' \in AgentRecs /\ Asked' = Asked /\ Withdrawn' = Withdrawn
           /\ \A s \in Sessions : Pipe(s)' = Pipe(s)
           /\ \A q \in Requests \ {r} : Answers(q)' = Answers(q)
           /\ IF SessionOf[r] \in hosted /\ Input(SessionOf[r]) # "closed"
              THEN Answers(r)' = Append(Answers(r), behavior)
              ELSE Answers(r)' = Answers(r)
  <1>1. agent \in AgentRecs
    BY TypesParts
  <1>2. CASE ~(SessionOf[r] \in hosted /\ Input(SessionOf[r]) # "closed")
    <2>1. agent' = agent
      BY <1>2 DEF send_json_line, Input
    <2>2. QED
      BY <1>1, <1>2, <2>1 DEF Asked, Withdrawn, Pipe, Answers
  <1>3. CASE SessionOf[r] \in hosted /\ Input(SessionOf[r]) # "closed"
    <2> DEFINE new == Append(agent.answers[r], behavior)
    <2>1. agent' = [agent EXCEPT !.answers[r] = new]
      BY <1>3 DEF send_json_line, Input
    <2>2. new \in Seq({"allow", "deny"}) /\ new = Append(Answers(r), behavior)
      <3>1. Answers(r) \in Seq({"allow", "deny"})
        BY FieldTypes
      <3>2. QED
        BY <3>1, SeqAppend DEF Answers
    <2> HIDE DEF new
    <2>3. /\ agent' \in AgentRecs /\ Asked' = Asked /\ Withdrawn' = Withdrawn
          /\ \A s \in Sessions : Pipe(s)' = Pipe(s)
          /\ \A q \in Requests \ {r} : Answers(q)' = Answers(q)
          /\ Answers(r)' = new
      BY <1>1, <2>1, <2>2 DEF AgentRecs, Asked, Withdrawn, Pipe, Answers
    <2>4. QED
      BY <1>3, <2>2, <2>3
  <1>4. QED
    BY <1>2, <1>3

\* The agent has written, or been read from.
AgentBecomes(asked, cancelled, pipes) ==
    agent' = [agent EXCEPT !.asked = asked, !.cancelled = cancelled, !.pipe = pipes]

LEMMA AgentMoves ==
    ASSUME Types, NEW asked \in SUBSET Requests, NEW cancelled \in SUBSET Requests,
           NEW pipes \in [Sessions -> Seq(Lines)], AgentBecomes(asked, cancelled, pipes)
    PROVE  /\ agent' \in AgentRecs /\ Asked' = asked /\ Withdrawn' = cancelled
           /\ \A s \in Sessions : Pipe(s)' = pipes[s]
           /\ \A q \in Requests : Answers(q)' = Answers(q)
  <1>1. agent \in AgentRecs
    BY TypesParts
  <1>2. /\ agent' \in AgentRecs /\ agent'.asked = asked /\ agent'.cancelled = cancelled
        /\ agent'.pipe = pipes /\ agent'.answers = agent.answers
    BY <1>1 DEF AgentRecs, AgentBecomes
  <1>3. QED
    BY <1>2 DEF Asked, Withdrawn, Pipe, Answers

\* The agent writes a line.
Writes(asked, cancelled, s, line) ==
    agent' = [agent EXCEPT !.asked = asked, !.cancelled = cancelled,
                           !.pipe[s] = Append(Pipe(s), line)]

LEMMA LineWritten ==
    ASSUME Types, NEW s \in Sessions, NEW line \in Lines,
           NEW asked \in SUBSET Requests, NEW cancelled \in SUBSET Requests,
           Writes(asked, cancelled, s, line)
    PROVE  /\ agent' \in AgentRecs /\ Asked' = asked /\ Withdrawn' = cancelled
           /\ \A t \in Sessions \ {s} : Pipe(t)' = Pipe(t)
           /\ Pipe(s)' = Append(Pipe(s), line)
           /\ \A q \in Requests : Answers(q)' = Answers(q)
  <1> DEFINE new == Append(Pipe(s), line)
  <1>1. new \in Seq(Lines)
    <2>1. Pipe(s) \in Seq(Lines)
      BY FieldTypes
    <2>2. QED
      BY <2>1, SeqAppend
  <1> HIDE DEF new
  <1> DEFINE pipes == [agent.pipe EXCEPT ![s] = new]
  <1>2. agent \in AgentRecs /\ agent.pipe \in [Sessions -> Seq(Lines)]
    BY TypesParts DEF AgentRecs
  <1>3. AgentBecomes(asked, cancelled, pipes)
    <2>1. agent' = [agent EXCEPT !.asked = asked, !.cancelled = cancelled, !.pipe[s] = new]
      BY DEF new, Writes
    <2>2. QED
      BY <1>2, <2>1 DEF AgentRecs, AgentBecomes
  <1>4. /\ pipes \in [Sessions -> Seq(Lines)] /\ pipes[s] = new
        /\ \A t \in Sessions \ {s} : pipes[t] = Pipe(t)
    BY <1>1, <1>2 DEF Pipe
  <1> HIDE DEF pipes
  <1>5. /\ agent' \in AgentRecs /\ Asked' = asked /\ Withdrawn' = cancelled
        /\ \A t \in Sessions : Pipe(t)' = pipes[t]
        /\ \A q \in Requests : Answers(q)' = Answers(q)
    BY <1>3, <1>4, AgentMoves
  <1>6. QED
    BY <1>4, <1>5 DEF new

\* A reader takes a line.
Reads(s) == agent' = [agent EXCEPT !.pipe[s] = Tail(@)]

LEMMA LineRead ==
    ASSUME Types, NEW s \in Sessions, Pipe(s) # <<>>, Reads(s)
    PROVE  /\ agent' \in AgentRecs /\ Asked' = Asked /\ Withdrawn' = Withdrawn
           /\ \A t \in Sessions \ {s} : Pipe(t)' = Pipe(t)
           /\ Pipe(s)' = Tail(Pipe(s))
           /\ \A q \in Requests : Answers(q)' = Answers(q)
  <1> DEFINE new == Tail(Pipe(s))
             pipes == [agent.pipe EXCEPT ![s] = new]
  <1>1. new \in Seq(Lines)
    <2>1. Pipe(s) \in Seq(Lines)
      BY FieldTypes
    <2>2. QED
      BY <2>1, SeqTail
  <1>2. /\ agent \in AgentRecs /\ agent.pipe \in [Sessions -> Seq(Lines)]
        /\ Asked \in SUBSET Requests /\ Withdrawn \in SUBSET Requests
    BY TypesParts, FieldTypes DEF AgentRecs
  <1>3. agent' = [agent EXCEPT !.pipe = pipes]
    BY <1>2 DEF AgentRecs, Pipe, Reads
  <1> HIDE DEF new
  <1>4. /\ pipes \in [Sessions -> Seq(Lines)] /\ pipes[s] = new
        /\ \A t \in Sessions \ {s} : pipes[t] = Pipe(t)
    BY <1>1, <1>2 DEF Pipe
  <1> HIDE DEF pipes
  <1>5. AgentBecomes(Asked, Withdrawn, pipes)
    BY <1>2, <1>3 DEF AgentRecs, Asked, Withdrawn, AgentBecomes
  <1>6. /\ agent' \in AgentRecs /\ Asked' = Asked /\ Withdrawn' = Withdrawn
        /\ \A t \in Sessions : Pipe(t)' = pipes[t]
        /\ \A q \in Requests : Answers(q)' = Answers(q)
    BY <1>2, <1>4, <1>5, AgentMoves
  <1>7. QED
    BY <1>4, <1>6 DEF new

\* A clone of the manager is dropped.
LEMMA DropMoves ==
    ASSUME NEW ts \in [Sessions -> TaskRecs], DropClone(ts)
    PROVE  /\ tasks' \in [Sessions -> TaskRecs]
           /\ \A s \in Sessions :
                 /\ Process(s)' = ts[s].process /\ Reader(s)' = ts[s].reader
                 /\ \/ Input(s)' = ts[s].input
                    \/ ts[s].input = "served" /\ Input(s)' = "closed"
                 /\ \/ ExitTask(s)' = ts[s].exit
                    \/ ts[s].exit = "waiting" /\ ExitTask(s)' = "aborted"
  <1>1. CASE tasks' = ts
    BY <1>1 DEF Process, Reader, Input, ExitTask
  <1>2. CASE tasks' = cleanup_all_tasks(ts)
    <2> DEFINE In(s) == IF ts[s].input = "served" THEN "closed" ELSE ts[s].input
               Ex(s) == IF ts[s].exit = "waiting" THEN "aborted" ELSE ts[s].exit
               Cleaned(s) == IF s \notin hosted THEN ts[s]
                             ELSE [ts[s] EXCEPT !.input = In(s), !.exit = Ex(s)]
    <2>2. tasks' = [s \in Sessions |-> Cleaned(s)]
      BY <1>2, Zenon DEF cleanup_all_tasks
    <2>5. ASSUME NEW s \in Sessions
          PROVE  /\ In(s) \in {"none", "queue", "served", "closed"}
                 /\ Ex(s) \in {"off", "waiting", "aborted", "removed", "done"}
                 /\ In(s) = ts[s].input \/ (ts[s].input = "served" /\ In(s) = "closed")
                 /\ Ex(s) = ts[s].exit \/ (ts[s].exit = "waiting" /\ Ex(s) = "aborted")
      BY DEF TaskRecs
    <2> HIDE DEF In, Ex
    <2>6. ASSUME NEW s \in Sessions
          PROVE  /\ Cleaned(s) \in TaskRecs
                 /\ Cleaned(s).process = ts[s].process /\ Cleaned(s).reader = ts[s].reader
                 /\ Cleaned(s).input \in {ts[s].input, In(s)}
                 /\ Cleaned(s).exit \in {ts[s].exit, Ex(s)}
      BY <2>5 DEF TaskRecs
    <2> HIDE DEF Cleaned
    <2>1. ASSUME NEW s \in Sessions
          PROVE  /\ tasks'[s] \in TaskRecs
                 /\ tasks'[s].process = ts[s].process /\ tasks'[s].reader = ts[s].reader
                 /\ \/ tasks'[s].input = ts[s].input
                    \/ ts[s].input = "served" /\ tasks'[s].input = "closed"
                 /\ \/ tasks'[s].exit = ts[s].exit
                    \/ ts[s].exit = "waiting" /\ tasks'[s].exit = "aborted"
      <3>1. tasks'[s] = Cleaned(s)
        BY <2>2
      <3>2. QED
        BY <2>5, <2>6, <3>1
    <2>3. tasks' \in [Sessions -> TaskRecs]
      BY <2>1, <2>2
    <2>4. QED
      BY <2>1, <2>3 DEF Process, Reader, Input, ExitTask
  <1>3. QED
    BY <1>1, <1>2 DEF DropClone

-----------------------------------------------------------------------------
(* Steps that leave a request alone *)

RequestKept(r) ==
    /\ approvals'[r] = approvals[r] /\ Answers(r)' = Answers(r)
    /\ Unhandled(r)' <=> Unhandled(r)
    /\ Opening(r)' <=> Opening(r)
    /\ Refused(r)' <=> Refused(r)
    /\ Forwarding(r)' <=> Forwarding(r)
    /\ AtAnswer(r)' <=> AtAnswer(r)
    /\ r \in a2r' <=> r \in a2r
    /\ r \in Withdrawn => r \in Withdrawn'

\* The manager is not occupied with a request.
LEMMA ManagerFree ==
    ASSUME manager[1] \notin {"found", "answering"}, NEW r
    PROVE  /\ ~Forwarding(r) /\ ~AtAnswer(r)
           /\ \A d : manager \notin {<<"found", r, d>>, <<"answering", r, d>>}
  BY DEF Forwarding, AtAnswer

LEMMA ManagerFreeNext ==
    ASSUME manager'[1] \notin {"found", "answering"}, NEW r
    PROVE  /\ ~Forwarding(r)' /\ ~AtAnswer(r)'
           /\ \A d : manager' \notin {<<"found", r, d>>, <<"answering", r, d>>}
  BY DEF Forwarding, AtAnswer

ManagerAside ==
    \/ manager' = manager
    \/ manager[1] \notin {"found", "answering"} /\ manager'[1] \notin {"found", "answering"}

LEMMA AsideKeeps ==
    ASSUME ManagerAside, NEW r
    PROVE  /\ Forwarding(r)' <=> Forwarding(r)
           /\ AtAnswer(r)' <=> AtAnswer(r)
           /\ \A d : manager' \in {<<"found", r, d>>, <<"answering", r, d>>}
                     <=> manager \in {<<"found", r, d>>, <<"answering", r, d>>}
  <1>1. CASE manager' = manager
    BY <1>1 DEF Forwarding, AtAnswer
  <1>2. CASE manager[1] \notin {"found", "answering"} /\ manager'[1] \notin {"found", "answering"}
    BY <1>2, ManagerFree, ManagerFreeNext
  <1>3. QED
    BY <1>1, <1>2 DEF ManagerAside

\* What the lines of the agent and the position of the reader say of r.
LEMMA LinesKeep ==
    ASSUME NEW r \in Requests, Asked' = Asked,
           Pipe(SessionOf[r])' = Pipe(SessionOf[r])
    PROVE  Unhandled(r)' <=> Unhandled(r)
  BY DEF Unhandled, InPipe

LEMMA ReaderKeeps ==
    ASSUME NEW r \in Requests, Reader(SessionOf[r])' = Reader(SessionOf[r])
    PROVE  (Opening(r)' <=> Opening(r)) /\ (Refused(r)' <=> Refused(r))
  BY DEF Opening, Refused

LEMMA RequestFrame ==
    ASSUME NEW r \in Requests, SameAgent, Reader(SessionOf[r])' = Reader(SessionOf[r]),
           approvals'[r] = approvals[r], UNCHANGED a2r, ManagerAside
    PROVE  RequestKept(r)
  <1>1. SessionOf[r] \in Sessions
    BY HostAssumption
  <1>2. Unhandled(r)' <=> Unhandled(r)
    BY <1>1, LinesKeep DEF SameAgent
  <1>3. QED
    BY <1>2, AsideKeeps, ReaderKeeps DEF RequestKept, SameAgent

LEMMA AnsweringKept ==
    ASSUME NEW r \in Requests, RequestKept(r), AnsweringOf(r) PROVE AnsweringOf(r)'
  BY DEF RequestKept, AnsweringOf

\* Input and handle of the session of r have not come back.
Unreachable(s) == Input(s) = "closed" \/ s \notin hosted

LEMMA FindableKept ==
    ASSUME NEW r \in Requests, RequestKept(r), FindableOf(r),
           Unreachable(SessionOf[r]) => Unreachable(SessionOf[r])'
    PROVE  FindableOf(r)'
  BY DEF RequestKept, FindableOf, Unreachable

LEMMA AgreeingKept ==
    ASSUME NEW r \in Requests, approvals'[r] = approvals[r], AgreeingOf(r),
           \A d \in Decided : Token(r, d)' => Token(r, d)
    PROVE  AgreeingOf(r)'
  BY DEF AgreeingOf

LEMMA SilenceKept ==
    ASSUME NEW r \in Requests, SilenceOf(r),
           approvals'[r] \in Decided => approvals[r] \in Decided,
           Answers(r)' = <<>> => Answers(r) = <<>>,
           r \in Withdrawn => r \in Withdrawn',
           Process(SessionOf[r])' = "live" => Process(SessionOf[r]) = "live",
           Coming(r) => Coming(r)' \/ r \in Lost' \cup Missed',
           Lost \subseteq Lost', Missed \subseteq Missed',
           Input(SessionOf[r]) = "closed" => Input(SessionOf[r])' = "closed"
    PROVE  SilenceOf(r)'
  BY DEF SilenceOf

-----------------------------------------------------------------------------
(* Steps of the link *)

Speaks(c, r) == c[1] \in {"approval", "decide"} /\ c[2] = r

\* No handler of the control plane has moved that concerns r.
CallsKept(r) ==
    /\ \A st : Queueing(r, st)' <=> Queueing(r, st)
    /\ \A st : Recording(r, st)' <=> Recording(r, st)

LEMMA CallsUnchanged ==
    ASSUME UNCHANGED calls, NEW r PROVE CallsKept(r)
  BY DEF CallsKept, Queueing, Recording

LinkKept(r) ==
    /\ CallsKept(r)
    /\ Sent(<<"approval", r>>)' <=> Sent(<<"approval", r>>)
    /\ Once(<<"approval", r>>) => Once(<<"approval", r>>)'
    /\ \A d \in Decided :
          /\ Sent(<<"decide", r, d>>)' <=> Sent(<<"decide", r, d>>)
          /\ Once(<<"decide", r, d>>) => Once(<<"decide", r, d>>)'
          /\ Precedes(<<"approval", r>>, <<"decide", r, d>>) =>
                Precedes(<<"approval", r>>, <<"decide", r, d>>)'

LEMMA LinkUnchanged ==
    ASSUME UNCHANGED <<link, calls>>, NEW r PROVE LinkKept(r)
  BY CallsUnchanged DEF LinkKept, Sent, Once, Precedes

\* A command is added at the end.
LEMMA LinkGrows ==
    ASSUME Types, NEW c \in Commands, link' = Append(link, c)
    PROVE  /\ link' \in Seq(Commands)
           /\ \A e : Sent(e)' <=> Sent(e) \/ e = c
           /\ \A e : e # c /\ Once(e) => Once(e)'
           /\ ~Sent(c) => Once(c)'
           /\ \A a, e : e # c /\ Precedes(a, e) => Precedes(a, e)'
           /\ \A a : Sent(a) /\ ~Sent(c) => Precedes(a, c)'
  <1> DEFINE n == Len(link)
  <1>1. link \in Seq(Commands) /\ n \in Nat
    BY SeqSet DEF Types
  <1>2. /\ link' \in Seq(Commands) /\ Len(link') = n + 1
        /\ \A i \in 1 .. n : link'[i] = link[i]
        /\ link'[n + 1] = c /\ ToSet(link') = ToSet(link) \cup {c}
    BY <1>1, SeqAppend
  <1>3. \A i \in 1 .. Len(link') : i \in 1 .. n \/ i = n + 1
    BY <1>1, <1>2
  <1>4. \A i \in 1 .. n : i \in 1 .. Len(link') /\ i < n + 1
    BY <1>1, <1>2
  <1>5. \A e : Sent(e) <=> \E i \in 1 .. n : link[i] = e
    BY <1>1, SeqSet DEF Sent
  <1> HIDE DEF n
  <1>6. \A e : Sent(e)' <=> Sent(e) \/ e = c
    BY <1>2 DEF Sent
  <1>7. \A e : e # c /\ Once(e) => Once(e)'
    BY <1>2, <1>3 DEF Once, n
  <1>8. ~Sent(c) => Once(c)'
    BY <1>2, <1>3, <1>5 DEF Once
  <1>9. \A a, e : e # c /\ Precedes(a, e) => Precedes(a, e)'
    BY <1>2, <1>3, <1>4 DEF Precedes, n
  <1>10. ASSUME NEW a, Sent(a), ~Sent(c) PROVE Precedes(a, c)'
    <2>1. PICK j \in 1 .. n : link[j] = a
      BY <1>5, <1>10
    <2>2. ASSUME NEW i \in 1 .. Len(link'), link'[i] = c PROVE i = n + 1
      BY <1>2, <1>3, <1>5, <1>10, <2>2
    <2>3. QED
      BY <1>2, <1>4, <2>1, <2>2 DEF Precedes
  <1>11. QED
    BY <1>2, <1>6, <1>7, <1>8, <1>9, <1>10

\* The command at k is taken out.
LEMMA LinkShrinks ==
    ASSUME Types, NEW k \in 1 .. Len(link),
           link' \in Seq(Commands), Len(link') = Len(link) - 1,
           \A i \in 1 .. Len(link') : link'[i] = IF i < k THEN link[i] ELSE link[i + 1]
    PROVE  /\ \A e : Sent(e)' => Sent(e)
           /\ \A e : e # link[k] /\ Sent(e) => Sent(e)'
           /\ \A e : Once(e) => Once(e)'
           /\ \A e : e = link[k] /\ Once(e) => ~Sent(e)'
           /\ \A a, e : a # link[k] /\ Precedes(a, e) => Precedes(a, e)'
  <1> DEFINE n == Len(link)
             Old(i) == IF i < k THEN i ELSE i + 1
             New(i) == IF i < k THEN i ELSE i - 1
  <1>1. link \in Seq(Commands) /\ n \in Nat /\ k \in 1 .. n /\ Len(link') = n - 1
    BY SeqSet DEF Types
  <1>2. \A e : Sent(e) <=> \E i \in 1 .. n : link[i] = e
    BY <1>1, SeqSet DEF Sent
  <1>3. \A e : Sent(e)' <=> \E i \in 1 .. n - 1 : link'[i] = e
    BY <1>1, SeqSet DEF Sent
  <1> HIDE DEF n
  <1>4. \A i \in 1 .. n - 1 : Old(i) \in 1 .. n /\ Old(i) # k /\ link'[i] = link[Old(i)]
    BY <1>1 DEF n
  <1>5. \A i \in 1 .. n : i # k => /\ New(i) \in 1 .. n - 1 /\ Old(New(i)) = i
                                   /\ link'[New(i)] = link[i]
    <2> TAKE i \in 1 .. n
    <2> HAVE i # k
    <2>1. New(i) \in 1 .. n - 1 /\ Old(New(i)) = i
      BY <1>1
    <2> HIDE DEF New, Old
    <2>2. QED
      BY <1>4, <2>1
  <1>6. \A i, j \in 1 .. n - 1 : Old(i) = Old(j) => i = j
    BY <1>1
  <1>7. \A i, j \in 1 .. n : i < j /\ i # k /\ j # k => New(i) < New(j)
    BY <1>1
  <1>12. \A i \in 1 .. n - 1 : New(Old(i)) = i
    BY <1>1
  <1> HIDE DEF Old, New
  <1>8. \A e : Sent(e)' => Sent(e)
    BY <1>2, <1>3, <1>4
  <1>9. \A e : e # link[k] /\ Sent(e) => Sent(e)'
    BY <1>2, <1>3, <1>5
  <1>10. \A e : Once(e) => Once(e)'
    <2> SUFFICES ASSUME NEW e, Once(e), NEW i \in 1 .. n - 1, NEW j \in 1 .. n - 1,
                        link'[i] = e, link'[j] = e
                 PROVE  i = j
      BY <1>1 DEF Once
    <2>1. Old(i) = Old(j)
      BY <1>4 DEF Once, n
    <2>2. QED
      BY <1>6, <2>1
  <1>11. ASSUME NEW e, e = link[k], Once(e) PROVE ~Sent(e)'
    BY <1>1, <1>3, <1>4, <1>11 DEF Once, n
  <1>13. ASSUME NEW a, NEW e, a # link[k], Precedes(a, e) PROVE Precedes(a, e)'
    <2>1. ASSUME NEW i \in 1 .. n - 1, link'[i] = e
          PROVE  \E j \in 1 .. n - 1 : j < i /\ link'[j] = a
      <3>1. PICK j \in 1 .. n : j < Old(i) /\ link[j] = a
        BY <1>4, <1>13, <2>1 DEF Precedes, n
      <3>2. New(j) < New(Old(i)) /\ New(j) \in 1 .. n - 1 /\ link'[New(j)] = a
        BY <1>4, <1>5, <1>7, <1>13, <3>1
      <3>3. QED
        BY <1>12, <3>2
    <2>2. QED
      BY <1>1, <2>1 DEF Precedes
  <1>14. QED
    BY <1>8, <1>9, <1>10, <1>11, <1>13

\* The next command of the runner is taken from the link, or lost.
LEMMA LinkTaken ==
    ASSUME Types, NEW k \in 1 .. Len(link), link' = RemoveAt(link, k)
    PROVE  /\ link' \in Seq(Commands)
           /\ \A e : Sent(e)' => Sent(e)
           /\ \A e : e # link[k] /\ Sent(e) => Sent(e)'
           /\ \A e : Once(e) => Once(e)'
           /\ \A e : e = link[k] /\ Once(e) => ~Sent(e)'
           /\ \A a, e : a # link[k] /\ Precedes(a, e) => Precedes(a, e)'
  <1>1. link \in Seq(Commands)
    BY DEF Types
  <1>2. /\ link' \in Seq(Commands) /\ Len(link') = Len(link) - 1
        /\ \A i \in 1 .. Len(link') : link'[i] = IF i < k THEN link[i] ELSE link[i + 1]
    BY <1>1, SeqRemove
  <1>3. QED
    BY <1>2, LinkShrinks

LEMMA LinkLost ==
    ASSUME Types, link # <<>>, link' = Tail(link)
    PROVE  /\ link' \in Seq(Commands) /\ Head(link) \in Commands
           /\ \A e : Sent(e)' => Sent(e)
           /\ \A e : e # Head(link) /\ Sent(e) => Sent(e)'
           /\ \A e : Once(e) => Once(e)'
           /\ \A a, e : a # Head(link) /\ Precedes(a, e) => Precedes(a, e)'
  <1>1. link \in Seq(Commands)
    BY DEF Types
  <1>2. /\ link' \in Seq(Commands) /\ Len(link') = Len(link) - 1 /\ Len(link) \in Nat \ {0}
        /\ \A i \in 1 .. Len(link') : link'[i] = link[i + 1]
        /\ Head(link) = link[1] /\ Head(link) \in Commands
    BY <1>1, SeqTail
  <1>3. 1 \in 1 .. Len(link) /\ \A i \in 1 .. Len(link') : ~(i < 1)
    BY <1>2
  <1>4. \A i \in 1 .. Len(link') : link'[i] = IF i < 1 THEN link[i] ELSE link[i + 1]
    BY <1>2, <1>3
  <1>5. QED
    BY <1>2, <1>3, <1>4, LinkShrinks

\* Commands that do not speak of r leave the link as it is for r.
LEMMA LinkAside ==
    ASSUME Types, NEW r, NEW c \in Commands, ~Speaks(c, r), CallsKept(r),
           \/ link' = Append(link, c)
           \/ link # <<>> /\ c = Head(link) /\ link' = Tail(link)
           \/ \E k \in 1 .. Len(link) : c = link[k] /\ link' = RemoveAt(link, k)
    PROVE  LinkKept(r)
  <1>1. <<"approval", r>> # c /\ \A d : <<"decide", r, d>> # c
    BY DEF Speaks
  <1> DEFINE a == <<"approval", r>>
             b(d) == <<"decide", r, d>>
  <1> HIDE DEF a, b
  <1>2. a # c /\ \A d : b(d) # c
    BY <1>1 DEF a, b
  <1>3. CASE link' = Append(link, c)
    BY <1>2, <1>3, LinkGrows DEF LinkKept, a, b
  <1>4. CASE link # <<>> /\ c = Head(link) /\ link' = Tail(link)
    BY <1>2, <1>4, LinkLost DEF LinkKept, a, b
  <1>5. ASSUME NEW k \in 1 .. Len(link), c = link[k], link' = RemoveAt(link, k)
        PROVE  LinkKept(r)
    BY <1>2, <1>5, LinkTaken DEF LinkKept, a, b
  <1>6. QED
    BY <1>3, <1>4, <1>5

LEMMA CommandsKept ==
    ASSUME NEW r \in Requests, CarriedOf(r), FollowingOf(r), LinkKept(r),
           cp'[r] = cp[r], approvals'[r] = approvals[r], inbound' = inbound,
           <<"approval", r>> \in mid' <=> <<"approval", r>> \in mid,
           Unhandled(r)' <=> Unhandled(r),
           Lost \subseteq Lost', Missed \subseteq Missed'
    PROVE  CarriedOf(r)' /\ FollowingOf(r)'
  <1>1. CarriedOf(r)'
    BY DEF CarriedOf, LinkKept, CallsKept
  <1>2. CalledOf(r) => CalledOf(r)'
    BY DEF CalledOf, LinkKept, CallsKept
  <1>3. PollingOf(r) => PollingOf(r)'
    BY DEF PollingOf, LinkKept, CallsKept
  <1>4. QED
    BY <1>1, <1>2, <1>3 DEF FollowingOf, LinkKept, CallsKept

-----------------------------------------------------------------------------
(* Steps that leave a session alone *)

LEMMA AskingKept ==
    ASSUME NEW s \in Sessions, AskingOf(s), Pipe(s)' = Pipe(s),
           Asked \subseteq Asked', Withdrawn \subseteq Withdrawn',
           Reader(s)' = Reader(s) \/ Reader(s)' \in {<<"off">>, <<"idle">>, <<"ended">>}
    PROVE  AskingOf(s)'
  <1>1. \A r \in Requests, x \in ReaderSteps : Reader(s)' = <<x, r>> => Reader(s) = <<x, r>>
    BY DEF ReaderSteps
  <1>2. QED
    BY <1>1 DEF AskingOf

LEMMA LivingKept ==
    ASSUME NEW s \in Sessions, LivingOf(s), SameTask(s), s \in hosted' <=> s \in hosted,
           Starting(s)' <=> Starting(s)
    PROVE  LivingOf(s)'
  BY DEF LivingOf, SameTask

LEMMA RecordedKept ==
    ASSUME NEW s \in Sessions, RecordedOf(s), Process(s)' = Process(s),
           Pipe(s)' = Pipe(s) \/ Process(s) # "none",
           table[s] # "absent" => table'[s] # "absent",
           Created(s)' => Created(s) \/ table'[s] # "absent",
           \A r \in RequestsOf(s) : r \in Asked' => r \in Asked \/ Process(s) # "none"
    PROVE  RecordedOf(s)'
  <1>1. RequestsOf(s)' = RequestsOf(s)
    BY DEF RequestsOf
  <1>2. QED
    BY <1>1 DEF RecordedOf

LEMMA BackedKept ==
    ASSUME NEW s \in Sessions, BackedOf(s), Process(s)' = Process(s),
           ExitTask(s)' = "done" => ExitTask(s) = "done",
           table'[s] = table[s] \/ (table[s] # "absent" /\ (ExitTask(s) = "done" => s \in Revived')),
           Created(s) => Created(s)' \/ s \in Lost',
           Lost \subseteq Lost', Unstarted \subseteq Unstarted', Revived \subseteq Revived'
    PROVE  BackedOf(s)'
  BY DEF BackedOf

\* Everything about the sessions that the api does not touch.
LEMMA SessionFrame ==
    ASSUME NEW s \in Sessions, SessionInv(s), SameAgent, SameTask(s),
           UNCHANGED <<hosted, table>>, Starting(s)' <=> Starting(s),
           Created(s)' <=> Created(s),
           Lost \subseteq Lost', Unstarted \subseteq Unstarted', Revived \subseteq Revived'
    PROVE  SessionInv(s)'
  <1>1. Pipe(s)' = Pipe(s) /\ Asked' = Asked /\ Withdrawn' = Withdrawn
    BY DEF SameAgent
  <1>2. /\ Process(s)' = Process(s) /\ ExitTask(s)' = ExitTask(s) /\ Reader(s)' = Reader(s)
    BY DEF SameTask
  <1>3. AskingOf(s)'
    BY <1>1, <1>2, AskingKept DEF SessionInv
  <1>4. LivingOf(s)'
    BY LivingKept DEF SessionInv
  <1>5. RecordedOf(s)'
    BY <1>1, <1>2, RecordedKept DEF SessionInv
  <1>6. BackedOf(s)'
    BY <1>2, BackedKept DEF SessionInv
  <1>7. QED
    BY <1>3, <1>4, <1>5, <1>6 DEF SessionInv

\* Everything about a request that the step leaves alone.
LEMMA TokensKept ==
    ASSUME NEW r \in Requests, ManagerAside, UNCHANGED mid,
           \A d \in Decided : <<"resolved", r, d>> \in ToSet(channel')
                              <=> <<"resolved", r, d>> \in ToSet(channel)
    PROVE  \A d \in Decided : Token(r, d)' <=> Token(r, d)
  <1> TAKE d \in Decided
  <1>1. manager' \in {<<"found", r, d>>, <<"answering", r, d>>}
           <=> manager \in {<<"found", r, d>>, <<"answering", r, d>>}
    BY AsideKeeps
  <1>2. QED
    BY <1>1 DEF Token

LEMMA TalkKept ==
    ASSUME NEW r \in Requests, RequestInv(r), RequestKept(r),
           \A d \in Decided : Token(r, d)' <=> Token(r, d),
           Lost \subseteq Lost', Missed \subseteq Missed',
           Process(SessionOf[r])' = "live" => Process(SessionOf[r]) = "live",
           Input(SessionOf[r]) = "closed" => Input(SessionOf[r])' = "closed",
           Unreachable(SessionOf[r]) => Unreachable(SessionOf[r])'
    PROVE  AnsweringOf(r)' /\ AgreeingOf(r)' /\ FindableOf(r)' /\ SilenceOf(r)'
  <1>1. /\ approvals'[r] = approvals[r] /\ Answers(r)' = Answers(r)
        /\ r \in Withdrawn => r \in Withdrawn'
    BY DEF RequestKept
  <1>2. AnsweringOf(r)'
    BY AnsweringKept DEF RequestInv
  <1>3. FindableOf(r)'
    BY FindableKept DEF RequestInv
  <1>4. AgreeingOf(r)'
    BY <1>1, AgreeingKept DEF RequestInv
  <1>6. Coming(r) => Coming(r)'
    BY DEF Coming, RequestKept
  <1>7. SilenceOf(r)'
    BY <1>1, <1>6, SilenceKept DEF RequestInv
  <1>8. QED
    BY <1>2, <1>3, <1>4, <1>7

LEMMA RequestStays ==
    ASSUME NEW r \in Requests, RequestInv(r), RequestKept(r), LinkKept(r),
           \A d \in Decided : Token(r, d)' <=> Token(r, d),
           cp'[r] = cp[r], inbound' = inbound,
           <<"approval", r>> \in mid' <=> <<"approval", r>> \in mid,
           Lost \subseteq Lost', Missed \subseteq Missed',
           Process(SessionOf[r])' = "live" => Process(SessionOf[r]) = "live",
           Input(SessionOf[r]) = "closed" => Input(SessionOf[r])' = "closed",
           Unreachable(SessionOf[r]) => Unreachable(SessionOf[r])'
    PROVE  RequestInv(r)'
  <1>1. AnsweringOf(r)' /\ AgreeingOf(r)' /\ FindableOf(r)' /\ SilenceOf(r)'
    BY TalkKept
  <1>2. approvals'[r] = approvals[r] /\ (Unhandled(r)' <=> Unhandled(r))
    BY DEF RequestKept
  <1>3. CarriedOf(r)' /\ FollowingOf(r)'
    BY <1>2, CommandsKept DEF RequestInv
  <1>4. QED
    BY <1>1, <1>3 DEF RequestInv

\* A step that moves nothing but commands that are no requests.
LEMMA QuietStep ==
    ASSUME HInv, Types', SameAgent, SameTasks, ManagerAside,
           UNCHANGED <<inbound, cp, table, approvals, mid, channel, hosted, a2r>>,
           \A s \in Sessions : Starting(s)' <=> Starting(s),
           \A r \in Requests : LinkKept(r),
           Lost \subseteq Lost', Missed \subseteq Missed',
           Unstarted \subseteq Unstarted', Revived \subseteq Revived'
    PROVE  HInv'
  <1>1. ASSUME NEW s \in Sessions PROVE SessionInv(s)'
    <2>1. SameTask(s) /\ (Created(s)' <=> Created(s)) /\ SessionInv(s)
      BY DEF SameTasks, Created, HInv
    <2>2. QED
      BY <2>1, SessionFrame
  <1>2. ASSUME NEW r \in Requests PROVE RequestInv(r)'
    <2>1. SessionOf[r] \in Sessions /\ RequestInv(r) /\ LinkKept(r)
      BY HostAssumption DEF HInv
    <2>2. SameTask(SessionOf[r])
      BY <2>1 DEF SameTasks
    <2>3. RequestKept(r)
      BY <2>2, RequestFrame DEF SameTask
    <2>4. \A d \in Decided : Token(r, d)' <=> Token(r, d)
      BY <2>1, TokensKept
    <2>5. Unreachable(SessionOf[r]) => Unreachable(SessionOf[r])'
      BY <2>2 DEF SameTask, Unreachable
    <2>6. QED
      BY <2>1, <2>2, <2>3, <2>4, <2>5, RequestStays DEF SameTask
  <1>3. QED
    BY <1>1, <1>2 DEF HInv

-----------------------------------------------------------------------------
(* The control plane *)

\* A client sends a command that is no approval and no decision.
LEMMA ClientSends ==
    ASSUME HInv, NEW c \in Commands, c[1] \in {"create", "state", "prompt"},
           link' = Append(link, c), history' \in HistoryRecs, SameHistory,
           UNCHANGED <<inbound, cp, calls, apiVars, hostVars, agent>>
    PROVE  HInv'
  <1>1. Types
    BY DEF HInv
  <1>2. \A r \in Requests : LinkKept(r)
    BY <1>1, LinkAside, CallsUnchanged DEF Speaks
  <1>3. Types'
    <2>1. link' \in Seq(Commands)
      BY <1>1, LinkGrows
    <2>2. CpTypes' /\ ApiTypes' /\ HostTypes' /\ agent' \in AgentRecs
      BY <1>1, <2>1, TypesParts DEF CpTypes, ApiTypes, HostTypes, apiVars, hostVars
    <2>3. QED
      BY <2>2, TypesPartsNext
  <1>4. SameAgent /\ SameTasks
    BY AgentUnchanged, TasksUnchanged DEF hostVars
  <1>5. ManagerAside /\ \A s \in Sessions : Starting(s)' <=> Starting(s)
    BY DEF hostVars, ManagerAside, Starting
  <1>6. QED
    BY <1>2, <1>3, <1>4, <1>5, QuietStep DEF apiVars, hostVars, SameHistory

LEMMA DispatchKeeps ==
    ASSUME HInv, NEW s \in Sessions, Dispatch(s) PROVE HInv'
  <1>1. history \in HistoryRecs
    BY TypesParts DEF HInv
  <1>2. history' \in HistoryRecs /\ SameHistory
    <2> DEFINE d == Append(history.dispatched, s)
    <2>1. d \in Seq(Sessions)
      BY <1>1 DEF HistoryRecs
    <2>2. history' = [history EXCEPT !.dispatched = d]
      BY DEF Dispatch
    <2> HIDE DEF d
    <2>3. QED
      BY <1>1, <2>1, <2>2 DEF HistoryRecs, SameHistory, Lost, Missed, Unstarted, Revived
  <1> DEFINE c == <<"create", s>>
  <1>3. c \in Commands /\ c[1] \in {"create", "state", "prompt"}
    BY DEF Commands
  <1>4. link' = Append(link, c) /\ UNCHANGED <<inbound, cp, calls, apiVars, hostVars, agent>>
    BY DEF Dispatch
  <1> HIDE DEF c
  <1>5. QED
    BY <1>2, <1>3, <1>4, ClientSends

\* One more update is counted.
LEMMA UpdateCounted ==
    ASSUME Types, history' = [history EXCEPT !.updates = @ + 1]
    PROVE  history' \in HistoryRecs /\ SameHistory
  <1>1. history \in HistoryRecs /\ history.updates + 1 \in Nat
    BY TypesParts DEF HistoryRecs
  <1>2. QED
    BY <1>1 DEF HistoryRecs, SameHistory, Lost, Missed, Unstarted, Revived

LEMMA PostStateKeeps ==
    ASSUME HInv, NEW s \in Sessions, NEW state \in ClientStates, PostState(s, state)
    PROVE  HInv'
  <1> DEFINE c == <<"state", s, state>>
  <1>1. c \in Commands /\ c[1] \in {"create", "state", "prompt"}
    BY DEF Commands
  <1>2. link' = Append(link, c) /\ UNCHANGED <<inbound, cp, calls, apiVars, hostVars, agent>>
    BY DEF PostState
  <1>3. history' \in HistoryRecs /\ SameHistory
    BY UpdateCounted DEF PostState, HInv
  <1> HIDE DEF c
  <1>4. QED
    BY <1>1, <1>2, <1>3, ClientSends

LEMMA PromptKeeps ==
    ASSUME HInv, NEW s \in Sessions, Prompt(s) PROVE HInv'
  <1> DEFINE c == <<"prompt", s>>
  <1>1. c \in Commands /\ c[1] \in {"create", "state", "prompt"}
    BY DEF Commands
  <1>2. link' = Append(link, c) /\ UNCHANGED <<inbound, cp, calls, apiVars, hostVars, agent>>
    BY DEF Prompt
  <1>3. history' \in HistoryRecs /\ SameHistory
    BY UpdateCounted DEF Prompt, HInv
  <1> HIDE DEF c
  <1>4. QED
    BY <1>1, <1>2, <1>3, ClientSends

\* The oldest command is lost: whatever it speaks of is recorded as lost.
LEMMA LoseCommandKeeps ==
    ASSUME HInv, LoseCommand PROVE HInv'
  <1> DEFINE c == Head(link)
  <1>1. Types
    BY DEF HInv
  <1>2. /\ ~inbound /\ link # <<>> /\ link' = Tail(link)
        /\ history' = [history EXCEPT !.lost = @ \cup {c[2]}]
        /\ UNCHANGED <<inbound, cp, calls, apiVars, hostVars, agent>>
    BY DEF LoseCommand
  <1>3. /\ link' \in Seq(Commands) /\ c \in Commands
        /\ \A e : Sent(e)' => Sent(e)
        /\ \A e : e # c /\ Sent(e) => Sent(e)'
        /\ \A e : Once(e) => Once(e)'
        /\ \A a, e : a # c /\ Precedes(a, e) => Precedes(a, e)'
    BY <1>1, <1>2, LinkLost
  <1>4. c[2] \in Sessions \cup Requests
    BY <1>3, CommandShape
  <1> HIDE DEF c
  <1>5. /\ history' \in HistoryRecs /\ Lost' = Lost \cup {c[2]} /\ Missed' = Missed
        /\ Unstarted' = Unstarted /\ Revived' = Revived
    <2>1. history \in HistoryRecs
      BY <1>1, TypesParts
    <2>2. QED
      BY <1>2, <1>4, <2>1 DEF HistoryRecs, Lost, Missed, Unstarted, Revived
  <1>6. Types'
    <2>1. CpTypes' /\ ApiTypes' /\ HostTypes' /\ agent' \in AgentRecs
      BY <1>1, <1>2, <1>3, TypesParts DEF CpTypes, ApiTypes, HostTypes, apiVars, hostVars
    <2>2. QED
      BY <1>5, <2>1, TypesPartsNext
  <1>7. SameAgent /\ SameTasks /\ ManagerAside
    BY <1>2, AgentUnchanged, TasksUnchanged DEF hostVars, ManagerAside
  <1>8. ASSUME NEW s \in Sessions PROVE SessionInv(s)'
    <2>1. /\ SameTask(s) /\ (Created(s)' <=> Created(s)) /\ (Starting(s)' <=> Starting(s))
          /\ SessionInv(s) /\ UNCHANGED <<cp, hosted, table>>
      BY <1>2, <1>7 DEF SameTasks, Created, Starting, HInv, apiVars, hostVars
    <2>2. QED
      BY <1>5, <1>7, <2>1, SessionFrame
  <1>9. ASSUME NEW r \in Requests PROVE RequestInv(r)'
    <2>1. SessionOf[r] \in Sessions /\ RequestInv(r)
      BY HostAssumption DEF HInv
    <2>2. SameTask(SessionOf[r]) /\ UNCHANGED <<inbound, cp, approvals, mid, channel, hosted, a2r>>
      BY <1>2, <1>7, <2>1 DEF SameTasks, apiVars, hostVars
    <2>3. RequestKept(r)
      BY <1>7, <2>2, RequestFrame DEF SameTask
    <2>4. Unreachable(SessionOf[r]) => Unreachable(SessionOf[r])'
      BY <2>2 DEF SameTask, Unreachable
    <2>9. CallsKept(r) /\ \A d \in Decided : Token(r, d)' <=> Token(r, d)
      BY <1>2, <1>7, <2>2, TokensKept, CallsUnchanged
    <2>5. CASE ~Speaks(c, r)
      <3>1. LinkKept(r)
        BY <1>1, <1>2, <1>3, <2>5, <2>9, LinkAside DEF c
      <3>3. QED
        BY <1>5, <2>1, <2>2, <2>3, <2>4, <2>9, <3>1, RequestStays DEF SameTask
    <2>6. CASE Speaks(c, r)
      <3>1. r \in Lost'
        BY <1>5, <2>6 DEF Speaks
      <3>2. AnsweringOf(r)' /\ AgreeingOf(r)' /\ FindableOf(r)' /\ SilenceOf(r)'
        BY <1>5, <2>1, <2>2, <2>3, <2>4, <2>9, TalkKept DEF SameTask
      <3>5. CarriedOf(r)'
        BY <1>3, <2>1, <2>2, <2>3, <2>9 DEF RequestInv, CarriedOf, CallsKept, RequestKept
      <3>6. FollowingOf(r)'
        <4>1. PollingOf(r) /\ ~inbound' /\ \A st \in {"Pending"} \cup Decided : ~Recording(r, st)'
          BY <1>2, <2>1, <2>9 DEF RequestInv, FollowingOf, CallsKept
        <4>2. PollingOf(r)'
          BY <1>3, <2>2, <2>9, <3>1, <4>1 DEF PollingOf, CallsKept
        <4>3. QED
          BY <4>1, <4>2 DEF FollowingOf
      <3>8. QED
        BY <3>2, <3>5, <3>6 DEF RequestInv
    <2>7. QED
      BY <2>5, <2>6
  <1>10. QED
    BY <1>6, <1>8, <1>9 DEF HInv

\* A handler of another request goes on.
LEMMA CallsApart ==
    ASSUME NEW r, NEW q, q # r, NEW x, NEW st,
           calls' = calls \cup {<<x, r, st>>} \/ calls' = calls \ {<<x, r, st>>}
    PROVE  CallsKept(q)
  BY DEF CallsKept, Queueing, Recording

\* A handler begins: the runner is called, or the control plane records.
LEMMA ApprovalBegun ==
    ASSUME Types, NEW r \in Requests, NEW st \in {"Pending"} \cup Decided,
           BeginApproval(r, st), inbound' = inbound
    PROVE  /\ CpTypes'
           /\ \A q \in Requests \ {r} : LinkKept(q) /\ cp'[q] = cp[q]
           /\ \/ inbound /\ UNCHANGED <<cp, calls>> /\ link' = Append(link, CommandOf(r, st))
              \/ /\ ~inbound /\ cp'[r] = st /\ UNCHANGED link
                 /\ calls' = calls \cup {<<"queue", r, st>>}
  <1> DEFINE c == CommandOf(r, st)
  <1>1. c \in Commands /\ \A q \in Requests \ {r} : ~Speaks(c, q)
    BY DEF Commands, CommandOf, Speaks, Decided
  <1>2. CpTypes
    BY TypesParts
  <1>3. CASE inbound
    <2>1. UNCHANGED <<cp, calls>> /\ link' = Append(link, c)
      BY <1>3 DEF BeginApproval
    <2> HIDE DEF c
    <2>2. link' \in Seq(Commands) /\ \A q \in Requests \ {r} : LinkKept(q)
      BY <1>1, <2>1, LinkGrows, LinkAside, CallsUnchanged
    <2>3. CpTypes'
      BY <1>2, <2>1, <2>2 DEF CpTypes
    <2>4. QED
      BY <1>3, <2>1, <2>2, <2>3 DEF c
  <1>4. CASE ~inbound
    <2>1. /\ cp' = [cp EXCEPT ![r] = st] /\ UNCHANGED link
          /\ calls' = calls \cup {<<"queue", r, st>>}
      BY <1>4 DEF BeginApproval
    <2>2. ASSUME NEW q \in Requests \ {r} PROVE LinkKept(q)
      <3>1. CallsKept(q)
        BY <2>1, CallsApart
      <3>2. QED
        BY <2>1, <3>1 DEF LinkKept, Sent, Once, Precedes
    <2>3. CpTypes' /\ cp'[r] = st /\ \A q \in Requests \ {r} : cp'[q] = cp[q]
      BY <1>2, <2>1 DEF CpTypes, Calls
    <2>4. QED
      BY <1>4, <2>1, <2>2, <2>3
  <1>5. QED
    BY <1>2, <1>3, <1>4 DEF CpTypes

\* A decision is made on the control plane; the position of a reader may
\* change, but not to or from an opening.
LEMMA DecisionRecorded ==
    ASSUME HInv, NEW r \in Requests, NEW d \in Decided, DecideOnControlPlane(r, d),
           UNCHANGED <<inbound, apiVars, manager, hosted, a2r, agent, history>>,
           \A s \in Sessions : Process(s)' = Process(s) /\ Input(s)' = Input(s),
           \A q \in Requests : (Opening(q)' <=> Opening(q)) /\ (Refused(q)' <=> Refused(q))
    PROVE  CpTypes' /\ \A q \in Requests : RequestInv(q)'
  <1> DEFINE a == <<"approval", r>>
             c == <<"decide", r, d>>
  <1>1. Types /\ \A q \in Requests : RequestInv(q) /\ SessionOf[q] \in Sessions
    BY HostAssumption DEF HInv
  <1>2. cp[r] = "Pending" /\ BeginApproval(r, d) /\ CommandOf(r, d) = c /\ d # "Pending"
    BY DEF DecideOnControlPlane, CommandOf, Decided
  <1>3. /\ CpTypes'
        /\ \A q \in Requests \ {r} : LinkKept(q) /\ cp'[q] = cp[q]
        /\ \/ inbound /\ UNCHANGED <<cp, calls>> /\ link' = Append(link, c)
           \/ /\ ~inbound /\ cp'[r] = d /\ UNCHANGED link
              /\ calls' = calls \cup {<<"queue", r, d>>}
    BY <1>1, <1>2, ApprovalBegun
  <1>4. SameAgent /\ SameHistory /\ ManagerAside
    BY AgentUnchanged, HistoryUnchanged DEF ManagerAside
  <1>5. ASSUME NEW q \in Requests
        PROVE  /\ RequestKept(q) /\ (\A e \in Decided : Token(q, e)' <=> Token(q, e))
               /\ Unreachable(SessionOf[q]) => Unreachable(SessionOf[q])'
    <2>1. Unhandled(q)' <=> Unhandled(q)
      BY <1>1, <1>4, LinesKeep DEF SameAgent
    <2>2. RequestKept(q)
      BY <1>1, <1>4, <2>1, AsideKeeps DEF RequestKept, SameAgent, apiVars
    <2>3. \A e \in Decided : Token(q, e)' <=> Token(q, e)
      BY <1>4, TokensKept DEF apiVars
    <2>4. QED
      BY <1>1, <2>2, <2>3 DEF Unreachable
  <1>6. ASSUME NEW q \in Requests \ {r} PROVE RequestInv(q)'
    BY <1>1, <1>3, <1>4, <1>5, RequestStays DEF apiVars, SameHistory
  <1>7. AnsweringOf(r)' /\ AgreeingOf(r)' /\ FindableOf(r)' /\ SilenceOf(r)'
    BY <1>1, <1>4, <1>5, TalkKept DEF SameHistory
  <1>8. ~Unhandled(r) /\ ~Unhandled(r)' /\ UNCHANGED <<approvals, mid>>
    BY <1>1, <1>2, <1>5 DEF RequestInv, CarriedOf, RequestKept, apiVars
  <1>9. ASSUME inbound, UNCHANGED <<cp, calls>>, link' = Append(link, c)
        PROVE  CarriedOf(r)' /\ FollowingOf(r)'
    <2>1. c \in Commands /\ a # c
      BY DEF Commands
    <2>2. CallsKept(r)
      BY <1>9, CallsUnchanged
    <2> HIDE DEF a, c
    <2>3. /\ \A e : Sent(e)' <=> Sent(e) \/ e = c
          /\ Once(a) => Once(a)'
      BY <1>1, <1>9, <2>1, LinkGrows
    <2>4. CarriedOf(r)'
      BY <1>1, <1>8, <1>9, <2>1, <2>2, <2>3 DEF RequestInv, CarriedOf, CallsKept, a
    <2>5. CalledOf(r) /\ \A st \in {"Pending"} \cup Decided : ~Queueing(r, st)
      BY <1>1, <1>9 DEF RequestInv, FollowingOf
    <2>6. CalledOf(r)'
      BY <1>2, <1>8, <1>9, <2>2, <2>5 DEF CalledOf, CallsKept
    <2>7. FollowingOf(r)'
      BY <1>9, <2>2, <2>5, <2>6 DEF FollowingOf, CallsKept
    <2>8. QED
      BY <2>4, <2>7
  <1>10. ASSUME ~inbound, cp'[r] = d, UNCHANGED link, calls' = calls \cup {<<"queue", r, d>>}
         PROVE  CarriedOf(r)' /\ FollowingOf(r)'
    <2>1. /\ \A st : Queueing(r, st)' <=> Queueing(r, st) \/ st = d
          /\ \A st : Recording(r, st)' <=> Recording(r, st)
          /\ \A e : (Sent(e)' <=> Sent(e)) /\ (Once(e)' <=> Once(e))
      BY <1>10 DEF Queueing, Recording, Sent, Once
    <2>2. CarriedOf(r)'
      BY <1>1, <1>2, <1>8, <2>1 DEF RequestInv, CarriedOf
    <2>3. PollingOf(r) /\ \A st \in {"Pending"} \cup Decided : ~Recording(r, st)
      BY <1>1, <1>10 DEF RequestInv, FollowingOf
    <2>4. ASSUME NEW e \in Decided
          PROVE  /\ ~Queueing(r, e) /\ ~Sent(<<"decide", r, e>>) /\ approvals[r] # e
                 /\ Once(<<"decide", r, e>>) /\ e # "Pending" /\ e # "absent"
      BY <1>2, <2>3 DEF PollingOf, Decided
    <2>5. PollingOf(r)'
      BY <1>2, <1>4, <1>8, <1>10, <2>1, <2>3, <2>4 DEF PollingOf, SameHistory
    <2>6. FollowingOf(r)'
      BY <1>10, <2>1, <2>3, <2>5 DEF FollowingOf
    <2>7. QED
      BY <2>2, <2>6
  <1>11. RequestInv(r)'
    BY <1>3, <1>7, <1>9, <1>10 DEF RequestInv
  <1>12. QED
    BY <1>3, <1>6, <1>11

LEMMA DecideKeeps ==
    ASSUME HInv, NEW r \in Requests, NEW d \in Decided, Decide(r, d) PROVE HInv'
  <1>1. /\ DecideOnControlPlane(r, d)
        /\ UNCHANGED <<inbound, apiVars, hostVars, agent, history>>
    BY DEF Decide
  <1>2. SameTasks /\ SameAgent /\ SameHistory
    BY <1>1, TasksUnchanged, AgentUnchanged, HistoryUnchanged DEF hostVars
  <1>3. \A q \in Requests : (Opening(q)' <=> Opening(q)) /\ (Refused(q)' <=> Refused(q))
    BY <1>2, HostAssumption, ReaderKeeps DEF SameTasks, SameTask
  <1>4. CpTypes' /\ \A q \in Requests : RequestInv(q)'
    BY <1>1, <1>2, <1>3, DecisionRecorded DEF hostVars, SameTasks, SameTask
  <1>5. Types'
    <2>1. ApiTypes' /\ HostTypes' /\ agent' \in AgentRecs /\ history' \in HistoryRecs
      BY <1>1, TypesParts DEF HInv, ApiTypes, HostTypes, apiVars, hostVars
    <2>2. QED
      BY <1>4, <2>1, TypesPartsNext
  <1>6. ASSUME NEW s \in Sessions PROVE SessionInv(s)'
    <2>1. SessionInv(s) /\ SameTask(s)
      BY <1>2 DEF HInv, SameTasks
    <2>2. /\ (Created(s)' <=> Created(s)) /\ (Starting(s)' <=> Starting(s))
          /\ UNCHANGED <<hosted, table>>
      BY <1>1 DEF Created, Starting, apiVars, hostVars
    <2>3. QED
      BY <1>2, <2>1, <2>2, SessionFrame DEF SameHistory
  <1>7. QED
    BY <1>4, <1>5, <1>6 DEF HInv

-----------------------------------------------------------------------------
(* RunnerApi *)

\* The record of s is written: it exists, is marked when the agent is gone for
\* good, and a new one has its event.
Written(s) ==
    \/ table'[s] = table[s]
    \/ /\ table'[s] # "absent"
       /\ ExitTask(s) = "done" => s \in Revived'
       /\ table[s] # "absent" \/ Created(s)' \/ s \in Lost'

LEMMA SessionsWritten ==
    ASSUME HInv, SameAgent, SameTasks, UNCHANGED <<cp, hosted, manager>>,
           \A s \in Sessions : Written(s),
           \A s \in Sessions : Created(s) => Created(s)',
           \A s \in Sessions : Created(s)' => Created(s) \/ table'[s] # "absent",
           Lost \subseteq Lost', Unstarted \subseteq Unstarted', Revived \subseteq Revived'
    PROVE  \A s \in Sessions : SessionInv(s)'
  <1> TAKE s \in Sessions
  <1>1. /\ SessionInv(s) /\ SameTask(s) /\ Pipe(s)' = Pipe(s) /\ Written(s)
        /\ Created(s) => Created(s)'
        /\ Created(s)' => Created(s) \/ table'[s] # "absent"
    BY DEF HInv, SameTasks, SameAgent
  <1>2. AskingOf(s)'
    BY <1>1, AskingKept DEF SessionInv, SameTask, SameAgent
  <1>3. LivingOf(s)'
    BY <1>1, LivingKept DEF SessionInv, Starting
  <1>4. RecordedOf(s)'
    BY <1>1, RecordedKept DEF SessionInv, SameTask, SameAgent, Written
  <1>5. BackedOf(s)'
    BY <1>1 DEF SessionInv, SameTask, BackedOf, Written
  <1>6. QED
    BY <1>2, <1>3, <1>4, <1>5 DEF SessionInv

\* No approval and no decision moves.
LEMMA RequestsAside ==
    ASSUME HInv, NEW r \in Requests, SameAgent, SameTasks, LinkKept(r),
           UNCHANGED <<inbound, cp, mid, hosted, a2r, manager>>,
           approvals'[r] = approvals[r],
           \A d \in Decided : <<"resolved", r, d>> \in ToSet(channel')
                              <=> <<"resolved", r, d>> \in ToSet(channel),
           Lost \subseteq Lost', Missed \subseteq Missed'
    PROVE  RequestInv(r)'
  <1>1. SessionOf[r] \in Sessions /\ RequestInv(r) /\ ManagerAside
    BY HostAssumption DEF HInv, ManagerAside
  <1>2. SameTask(SessionOf[r])
    BY <1>1 DEF SameTasks
  <1>3. RequestKept(r)
    BY <1>1, <1>2, RequestFrame DEF SameTask
  <1>4. \A d \in Decided : Token(r, d)' <=> Token(r, d)
    BY <1>1, TokensKept
  <1>5. Unreachable(SessionOf[r]) => Unreachable(SessionOf[r])'
    BY <1>2 DEF SameTask, Unreachable
  <1>6. QED
    BY <1>1, <1>2, <1>3, <1>4, <1>5, RequestStays DEF SameTask

\* What every application of a command leaves alone.
ApiFrame == UNCHANGED <<inbound, cp, hostVars, agent>>

LEMMA ApiFrameKeeps ==
    ASSUME HInv, ApiFrame
    PROVE  /\ SameAgent /\ SameTasks /\ UNCHANGED <<cp, hosted, manager, inbound, a2r, r2a>>
           /\ HostTypes' /\ agent' \in AgentRecs
           /\ inbound' \in BOOLEAN /\ cp' \in [Requests -> {"absent", "Pending"} \cup Decided]
  <1>1. SameAgent /\ SameTasks /\ UNCHANGED <<cp, hosted, manager, inbound, a2r, r2a>>
    BY AgentUnchanged, TasksUnchanged DEF ApiFrame, hostVars
  <1>2. HostTypes' /\ agent' \in AgentRecs
    BY TypesParts DEF HInv, ApiFrame, HostTypes, hostVars
  <1>3. inbound' \in BOOLEAN
    BY TypesParts, Zenon DEF HInv, CpTypes, ApiFrame
  <1>4. cp' \in [Requests -> {"absent", "Pending"} \cup Decided]
    BY TypesParts DEF HInv, CpTypes, ApiFrame
  <1>5. QED
    BY <1>1, <1>2, <1>3, <1>4

\* A command that is no approval and no decision: a record may be written and
\* an event of its session queued.
LEMMA CommandApplied ==
    ASSUME HInv, ApiFrame, NEW k \in 1 .. Len(link), link' = RemoveAt(link, k), UNCHANGED calls,
           link[k][1] \in {"create", "state", "prompt"},
           ApiTypes', history' \in HistoryRecs, UNCHANGED <<approvals, mid>>,
           \A r \in Requests, d \in Decided :
              <<"resolved", r, d>> \in ToSet(channel') <=> <<"resolved", r, d>> \in ToSet(channel),
           \A s \in Sessions : Written(s),
           \A s \in Sessions : Created(s) => Created(s)',
           \A s \in Sessions : Created(s)' => Created(s) \/ table'[s] # "absent",
           Lost \subseteq Lost', Unstarted \subseteq Unstarted', Revived \subseteq Revived',
           Missed \subseteq Missed'
    PROVE  HInv'
  <1>1. Types /\ link[k] \in Commands
    <2>1. Types /\ link \in Seq(Commands)
      BY DEF HInv, Types
    <2>2. QED
      BY <2>1, SeqSet
  <1>2. link' \in Seq(Commands)
    BY <1>1, LinkTaken
  <1>3. \A r \in Requests : LinkKept(r)
    <2> DEFINE c == link[k]
    <2>1. c \in Commands /\ c[1] \in {"create", "state", "prompt"} /\ c = link[k]
      BY <1>1
    <2> HIDE DEF c
    <2>2. \A r \in Requests : ~Speaks(c, r)
      BY <2>1 DEF Speaks
    <2>3. QED
      BY <1>1, <2>1, <2>2, LinkAside, CallsUnchanged
  <1>4. /\ SameAgent /\ SameTasks /\ UNCHANGED <<cp, hosted, manager, inbound, a2r>>
        /\ HostTypes' /\ agent' \in AgentRecs
        /\ inbound' \in BOOLEAN /\ cp' \in [Requests -> {"absent", "Pending"} \cup Decided]
    BY ApiFrameKeeps
  <1>5. Types'
    <2>1. calls' \subseteq Calls
      BY <1>1, TypesParts DEF CpTypes
    <2>2. QED
      BY <1>2, <1>4, <2>1, TypesPartsNext DEF CpTypes
  <1>6. \A s \in Sessions : SessionInv(s)'
    BY <1>4, SessionsWritten
  <1>7. \A r \in Requests : RequestInv(r)'
    BY <1>3, <1>4, RequestsAside
  <1>8. QED
    BY <1>5, <1>6, <1>7 DEF HInv

\* An operation that does nothing.
LEMMA CommandIgnored ==
    ASSUME HInv, ApiFrame, NEW k \in 1 .. Len(link), link' = RemoveAt(link, k), UNCHANGED calls,
           link[k][1] \in {"create", "state", "prompt"}, UNCHANGED <<apiVars, history>>
    PROVE  HInv'
  <1>1. ApiTypes' /\ history' \in HistoryRecs
    BY TypesParts DEF HInv, ApiTypes, apiVars
  <1>2. SameHistory
    BY HistoryUnchanged
  <1>3. \A s \in Sessions : Written(s) /\ (Created(s)' <=> Created(s))
    BY DEF Written, Created, apiVars
  <1>4. QED
    BY <1>1, <1>2, <1>3, CommandApplied DEF SameHistory, apiVars

LEMMA CreateKeeps ==
    ASSUME HInv, ApiFrame, NEW k \in 1 .. Len(link), link' = RemoveAt(link, k), UNCHANGED calls,
           link[k][1] = "create", NEW s \in Sessions, create_session(s)
    PROVE  HInv'
  <1>1. CASE UNCHANGED <<apiVars, history>>
    BY <1>1, CommandIgnored
  <1>2. CASE /\ table' = [table EXCEPT ![s] = "Pending"]
             /\ emit_event(<<"created", s>>, {s})
             /\ UNCHANGED <<approvals, mid>>
    <2> DEFINE event == <<"created", s>>
               written == {s}
    <2>1. event \in RunnerEvents /\ event[2] = s /\ written \in SUBSET Sessions /\ Types
      BY DEF RunnerEvents, HInv
    <2>2. emit_event(event, written)
      BY <1>2
    <2>3. /\ \A r \in Requests, d \in Decided : <<"resolved", r, d>> # event
          /\ \A t \in Sessions : <<"created", t>> = event <=> t = s
      OBVIOUS
    <2> HIDE DEF event, written
    <2>4. /\ channel' \in Seq(RunnerEvents) /\ Len(channel') <= ChannelCap
          /\ history' \in HistoryRecs
          /\ ToSet(channel') \subseteq ToSet(channel) \cup {event}
          /\ ToSet(channel) \subseteq ToSet(channel')
          /\ event \in ToSet(channel') \/ event[2] \in Lost'
          /\ Lost \subseteq Lost' /\ Missed' = Missed /\ Unstarted' = Unstarted
          /\ Revived' = Revived \cup Touched(written)
      BY <2>1, <2>2, EmitMoves
    <2>5. /\ table \in [Sessions -> {"absent"} \cup RunnerStates]
          /\ approvals \in [Requests -> {"absent", "Pending"} \cup Decided] /\ mid \subseteq Mids
      BY <2>1, TypesParts DEF ApiTypes
    <2>6. /\ table' \in [Sessions -> {"absent"} \cup RunnerStates]
          /\ table'[s] = "Pending" /\ \A t \in Sessions \ {s} : table'[t] = table[t]
      BY <1>2, <2>5 DEF RunnerStates
    <2>7. ApiTypes'
      BY <1>2, <2>4, <2>5, <2>6 DEF ApiTypes
    <2>8. \A t \in Sessions : (Created(t) => Created(t)') /\ (Created(t)' => Created(t) \/ t = s)
      BY <2>3, <2>4 DEF Created
    <2>9. Created(s)' \/ s \in Lost'
      BY <2>1, <2>3, <2>4 DEF Created
    <2>10. ExitTask(s) = "done" => s \in Revived'
      BY <2>4 DEF ExitTask, Touched, written
    <2>11. \A t \in Sessions : Written(t)
      BY <2>6, <2>9, <2>10 DEF Written
    <2>12. \A r \in Requests, d \in Decided :
              <<"resolved", r, d>> \in ToSet(channel') <=> <<"resolved", r, d>> \in ToSet(channel)
      BY <2>3, <2>4
    <2>13. \A t \in Sessions : Created(t)' => Created(t) \/ table'[t] # "absent"
      BY <2>6, <2>8
    <2>14. QED
      BY <1>2, <2>4, <2>7, <2>8, <2>11, <2>12, <2>13, CommandApplied
  <1>3. QED
    BY <1>1, <1>2 DEF create_session

\* A state from a client or from the agent.
LEMMA StateWritten ==
    ASSUME HInv, NEW s \in Sessions, NEW state \in RunnerStates,
           apply_session_state_update(s, state)
    PROVE  /\ ApiTypes' /\ history' \in HistoryRecs /\ UNCHANGED <<approvals, mid, channel>>
           /\ \A t \in Sessions : Written(t)
           /\ Lost' = Lost /\ Missed' = Missed /\ Unstarted' = Unstarted
           /\ Revived \subseteq Revived'
  <1>1. Types /\ ApiTypes /\ history \in HistoryRecs
    BY TypesParts DEF HInv
  <1>2. CASE UNCHANGED <<apiVars, history>>
    BY <1>1, <1>2, HistoryUnchanged DEF ApiTypes, apiVars, SameHistory, Written
  <1>3. CASE /\ table[s] # "absent" /\ table' = [table EXCEPT ![s] = state]
             /\ history' = [history EXCEPT !.revived = @ \cup Touched({s})]
             /\ UNCHANGED <<approvals, mid, channel>>
    <2> DEFINE back == Touched({s})
    <2>1. back \subseteq Sessions /\ (ExitTask(s) = "done" => s \in back)
      BY DEF Touched, ExitTask
    <2>2. history' = [history EXCEPT !.revived = @ \cup back]
      BY <1>3
    <2> HIDE DEF back
    <2>3. /\ history' \in HistoryRecs /\ Revived' = Revived \cup back
          /\ Lost' = Lost /\ Missed' = Missed /\ Unstarted' = Unstarted
      BY <1>1, <2>1, <2>2 DEF HistoryRecs, Lost, Missed, Unstarted, Revived
    <2>4. /\ table' \in [Sessions -> {"absent"} \cup RunnerStates]
          /\ table'[s] = state /\ \A t \in Sessions \ {s} : table'[t] = table[t]
      BY <1>1, <1>3 DEF ApiTypes
    <2>5. state # "absent"
      BY DEF RunnerStates, Terminal
    <2>6. \A t \in Sessions : Written(t)
      BY <1>3, <2>1, <2>3, <2>4, <2>5 DEF Written
    <2>7. ApiTypes'
      BY <1>1, <1>3, <2>4 DEF ApiTypes
    <2>8. QED
      BY <1>3, <2>3, <2>6, <2>7
  <1>4. QED
    BY <1>2, <1>3 DEF apply_session_state_update

LEMMA StateKeeps ==
    ASSUME HInv, ApiFrame, NEW k \in 1 .. Len(link), link' = RemoveAt(link, k), UNCHANGED calls,
           link[k][1] = "state", NEW s \in Sessions, NEW state \in ClientStates,
           apply_session_state_update(s, state)
    PROVE  HInv'
  <1>1. state \in RunnerStates
    BY HostAssumption
  <1>2. /\ ApiTypes' /\ history' \in HistoryRecs /\ UNCHANGED <<approvals, mid, channel>>
        /\ \A t \in Sessions : Written(t)
        /\ Lost' = Lost /\ Missed' = Missed /\ Unstarted' = Unstarted
        /\ Revived \subseteq Revived'
    BY <1>1, StateWritten
  <1>3. \A t \in Sessions : Created(t)' <=> Created(t)
    BY <1>2 DEF Created
  <1>4. QED
    BY <1>2, <1>3, CommandApplied

LEMMA PromptedKeeps ==
    ASSUME HInv, ApiFrame, NEW k \in 1 .. Len(link), link' = RemoveAt(link, k), UNCHANGED calls,
           link[k][1] = "prompt", NEW s \in Sessions, post_session_command(s)
    PROVE  HInv'
  <1>1. CASE UNCHANGED <<channel, history>>
    BY <1>1, CommandIgnored DEF post_session_command, apiVars
  <1>2. CASE emit_event(<<"command", s>>, {})
    <2> DEFINE event == <<"command", s>>
               written == {}
    <2>1. event \in RunnerEvents /\ written \in SUBSET Sessions /\ Types
      BY DEF RunnerEvents, HInv
    <2>2. emit_event(event, written)
      BY <1>2
    <2>3. /\ \A r \in Requests, d \in Decided : <<"resolved", r, d>> # event
          /\ \A t \in Sessions : <<"created", t>> # event
      OBVIOUS
    <2> HIDE DEF event, written
    <2>4. /\ channel' \in Seq(RunnerEvents) /\ Len(channel') <= ChannelCap
          /\ history' \in HistoryRecs
          /\ ToSet(channel') \subseteq ToSet(channel) \cup {event}
          /\ ToSet(channel) \subseteq ToSet(channel')
          /\ Lost \subseteq Lost' /\ Missed' = Missed /\ Unstarted' = Unstarted
          /\ Revived' = Revived \cup Touched(written)
      BY <2>1, <2>2, EmitMoves
    <2>5. UNCHANGED <<table, approvals, mid>>
      BY DEF post_session_command
    <2>6. ApiTypes'
      BY <2>1, <2>4, <2>5, TypesParts DEF ApiTypes
    <2>7. \A t \in Sessions : Written(t) /\ (Created(t)' <=> Created(t))
      BY <2>3, <2>4, <2>5 DEF Written, Created
    <2>8. \A r \in Requests, d \in Decided :
              <<"resolved", r, d>> \in ToSet(channel') <=> <<"resolved", r, d>> \in ToSet(channel)
      BY <2>3, <2>4
    <2>9. QED
      BY <2>4, <2>5, <2>6, <2>7, <2>8, CommandApplied
  <1>3. QED
    BY <1>1, <1>2 DEF post_session_command

\* While the api works, a decision stays on its way or is lost.
LEMMA RequestAtApi ==
    ASSUME HInv, ApiFrame, NEW r \in Requests, approvals'[r] = approvals[r],
           \A d \in Decided : Token(r, d)' => Token(r, d),
           \A d \in Decided : Token(r, d) => Token(r, d)' \/ r \in Lost',
           Lost \subseteq Lost', Missed \subseteq Missed'
    PROVE  AnsweringOf(r)' /\ AgreeingOf(r)' /\ FindableOf(r)' /\ SilenceOf(r)'
  <1>1. SessionOf[r] \in Sessions /\ RequestInv(r)
    BY HostAssumption DEF HInv
  <1>2. SameAgent /\ SameTasks /\ UNCHANGED <<cp, hosted, manager, inbound, a2r>>
    BY ApiFrameKeeps
  <1>3. SameTask(SessionOf[r]) /\ ManagerAside
    BY <1>1, <1>2 DEF SameTasks, ManagerAside
  <1>4. RequestKept(r)
    BY <1>2, <1>3, RequestFrame DEF SameTask
  <1>5. Unreachable(SessionOf[r]) => Unreachable(SessionOf[r])'
    BY <1>2, <1>3 DEF SameTask, Unreachable
  <1>6. AnsweringOf(r)' /\ FindableOf(r)'
    BY <1>1, <1>4, <1>5, AnsweringKept, FindableKept DEF RequestInv
  <1>7. AgreeingOf(r)'
    BY <1>1, <1>4, AgreeingKept DEF RequestInv, RequestKept
  <1>8. Coming(r) => Coming(r)' \/ r \in Lost' \cup Missed'
    BY <1>4 DEF Coming, RequestKept
  <1>9. SilenceOf(r)'
    <2>1. /\ approvals'[r] \in Decided => approvals[r] \in Decided
          /\ Answers(r)' = <<>> => Answers(r) = <<>>
          /\ r \in Withdrawn => r \in Withdrawn'
          /\ Process(SessionOf[r])' = "live" => Process(SessionOf[r]) = "live"
          /\ Input(SessionOf[r]) = "closed" => Input(SessionOf[r])' = "closed"
      BY <1>3, <1>4 DEF SameTask, RequestKept
    <2>2. QED
      BY <1>1, <1>8, <2>1, SilenceKept DEF RequestInv
  <1>10. QED
    BY <1>6, <1>7, <1>9

\* The api is occupied with something else than r.
LEMMA ApiAside ==
    ASSUME HInv, ApiFrame, NEW r \in Requests, LinkKept(r), approvals'[r] = approvals[r],
           \A m : m[2] = r => (m \in mid' <=> m \in mid),
           \A d \in Decided : <<"resolved", r, d>> \in ToSet(channel')
                              <=> <<"resolved", r, d>> \in ToSet(channel),
           Lost \subseteq Lost', Missed \subseteq Missed'
    PROVE  RequestInv(r)'
  <1>1. SameAgent /\ SameTasks /\ UNCHANGED <<cp, hosted, manager, inbound, a2r>>
    BY ApiFrameKeeps
  <1>2. /\ <<"approval", r>> \in mid' <=> <<"approval", r>> \in mid
        /\ \A d, b : <<"decision", r, d, b>> \in mid' <=> <<"decision", r, d, b>> \in mid
    <2>1. <<"approval", r>>[2] = r /\ \A d, b : <<"decision", r, d, b>>[2] = r
      OBVIOUS
    <2>2. QED
      BY <2>1
  <1>3. \A d \in Decided : Token(r, d)' <=> Token(r, d)
    BY <1>1, <1>2 DEF Token
  <1>4. AnsweringOf(r)' /\ AgreeingOf(r)' /\ FindableOf(r)' /\ SilenceOf(r)'
    BY <1>3, RequestAtApi
  <1>5. Unhandled(r)' <=> Unhandled(r)
    BY <1>1, HostAssumption, LinesKeep DEF SameAgent
  <1>6. CarriedOf(r)' /\ FollowingOf(r)'
    BY <1>1, <1>2, <1>5, CommandsKept DEF HInv, RequestInv
  <1>7. QED
    BY <1>4, <1>6 DEF RequestInv

\* The command at k is about r, and about no other request.
LEMMA LinkTakenAside ==
    ASSUME Types, NEW k \in 1 .. Len(link), link' = RemoveAt(link, k), UNCHANGED calls,
           NEW r \in Requests, link[k][2] = r
    PROVE  \A q \in Requests \ {r} : LinkKept(q)
  <1> DEFINE c == link[k]
  <1>1. c \in Commands /\ c = link[k] /\ c[2] = r
    BY SeqSet DEF Types
  <1> HIDE DEF c
  <1>2. \A q \in Requests \ {r} : ~Speaks(c, q)
    BY <1>1 DEF Speaks
  <1>3. QED
    BY <1>1, <1>2, LinkAside, CallsUnchanged

\* First scope of create_approval: never refused.
LEMMA ApprovalKeeps ==
    ASSUME HInv, ApiFrame, NEW k \in 1 .. Len(link), link' = RemoveAt(link, k), UNCHANGED calls,
           NEW r \in Requests, link[k] = <<"approval", r>>, create_approval(r)
    PROVE  HInv'
  <1> DEFINE a == <<"approval", r>>
             s == SessionOf[r]
  <1>1. Types /\ RequestInv(r) /\ s \in Sessions /\ SessionInv(s)
    BY HostAssumption DEF HInv
  <1>2. /\ link' \in Seq(Commands)
        /\ \A e : Sent(e)' => Sent(e)
        /\ \A e : e # a /\ Sent(e) => Sent(e)'
        /\ \A e : Once(e) => Once(e)'
        /\ \A e : e = a /\ Once(e) => ~Sent(e)'
    BY <1>1, LinkTaken
  <1>3. Sent(a)
    BY <1>1, SeqSet DEF Types, Sent
  <1>4. ~Unhandled(r) /\ ~Queueing(r, "Pending") /\ approvals[r] = "absent" /\ Once(a)
    BY <1>1, <1>3 DEF RequestInv, CarriedOf
  <1>5. table[s] # "absent"
    BY <1>1, <1>4 DEF SessionInv, RecordedOf, RequestsOf, Unhandled
  <1>6. /\ table' = [table EXCEPT ![s] = "WaitingApproval"]
        /\ mid' = mid \cup {a}
        /\ history' = [history EXCEPT !.revived = @ \cup Touched({s})]
        /\ UNCHANGED <<approvals, channel>>
    BY <1>4, <1>5 DEF create_approval
  <1> DEFINE back == Touched({s})
  <1>7. back \subseteq Sessions /\ (ExitTask(s) = "done" => s \in back)
    BY <1>1 DEF Touched, ExitTask
  <1>8. history' = [history EXCEPT !.revived = @ \cup back] /\ history \in HistoryRecs /\ ApiTypes
    BY <1>1, <1>6, TypesParts
  <1> HIDE DEF back, s
  <1>9. /\ history' \in HistoryRecs /\ Revived' = Revived \cup back
        /\ Lost' = Lost /\ Missed' = Missed /\ Unstarted' = Unstarted
    BY <1>7, <1>8 DEF HistoryRecs, Lost, Missed, Unstarted, Revived
  <1>10. /\ table' \in [Sessions -> {"absent"} \cup RunnerStates]
         /\ table'[s] = "WaitingApproval" /\ \A t \in Sessions \ {s} : table'[t] = table[t]
    BY <1>1, <1>6, <1>8 DEF ApiTypes, RunnerStates
  <1>11. ApiTypes'
    BY <1>6, <1>8, <1>10 DEF ApiTypes, Mids
  <1>12. \A t \in Sessions : Written(t) /\ (Created(t)' <=> Created(t))
    BY <1>5, <1>6, <1>7, <1>9, <1>10 DEF Written, Created
  <1>13. /\ SameAgent /\ SameTasks /\ UNCHANGED <<cp, hosted, manager, inbound, a2r>>
         /\ HostTypes' /\ agent' \in AgentRecs
         /\ inbound' \in BOOLEAN /\ cp' \in [Requests -> {"absent", "Pending"} \cup Decided]
    BY ApiFrameKeeps
  <1>14. Types'
    <2>1. calls' \subseteq Calls
      BY <1>1, TypesParts DEF CpTypes
    <2>2. QED
      BY <1>2, <1>9, <1>11, <1>13, <2>1, TypesPartsNext DEF CpTypes
  <1>15. \A t \in Sessions : SessionInv(t)'
    BY <1>9, <1>12, <1>13, SessionsWritten
  <1>16. ASSUME NEW q \in Requests \ {r} PROVE RequestInv(q)'
    <2>1. LinkKept(q)
      BY <1>1, LinkTakenAside
    <2>2. \A m : m[2] = q => (m \in mid' <=> m \in mid)
      BY <1>6
    <2>3. QED
      BY <1>6, <1>9, <2>1, <2>2, ApiAside
  <1>17. RequestInv(r)'
    <2>1. \A d \in Decided : /\ <<"decide", r, d>> # a
                             /\ \A b : <<"decision", r, d, b>> # a
      OBVIOUS
    <2> HIDE DEF a
    <2>2. \A d \in Decided : Sent(<<"decide", r, d>>)' <=> Sent(<<"decide", r, d>>)
      BY <1>2, <2>1
    <2>3. \A d \in Decided : Token(r, d)' <=> Token(r, d)
      BY <1>6, <1>13, <2>1 DEF Token
    <2>4. AnsweringOf(r)' /\ AgreeingOf(r)' /\ FindableOf(r)' /\ SilenceOf(r)'
      BY <1>6, <1>9, <2>3, RequestAtApi
    <2>5. ~Sent(a)' /\ Once(a)' /\ CallsKept(r) /\ a \in mid' /\ approvals'[r] = "absent"
      BY <1>2, <1>4, <1>6, CallsUnchanged
    <2>9. ~Unhandled(r)'
      BY <1>1, <1>4, <1>13, LinesKeep DEF SameAgent, s
    <2>6. CarriedOf(r)'
      BY <1>4, <2>5, <2>9 DEF CarriedOf, CallsKept, a
    <2>7. FollowingOf(r)'
      <3>1. CalledOf(r) => CalledOf(r)'
        BY <1>4, <1>6, <1>13, <2>2, <2>5 DEF CalledOf, CallsKept
      <3>2. PollingOf(r) => PollingOf(r)'
        BY <1>2, <1>3, <1>4, <1>9, <1>13, <2>2, <2>5 DEF PollingOf, CallsKept, a
      <3>3. QED
        BY <1>1, <1>13, <2>5, <3>1, <3>2 DEF RequestInv, FollowingOf, CallsKept
    <2>8. QED
      BY <2>4, <2>6, <2>7 DEF RequestInv
  <1>18. QED
    BY <1>14, <1>15, <1>16, <1>17 DEF HInv

\* First scope of apply_approval_decision.  A runner that polls refuses a
\* decision only when the approval was lost or is queued behind it.
LEMMA DecisionKeeps ==
    ASSUME HInv, ApiFrame, NEW k \in 1 .. Len(link), link' = RemoveAt(link, k), UNCHANGED calls,
           inbound \/ (k = 1 /\ mid = {}),
           NEW r \in Requests, NEW d \in Decided, link[k] = <<"decide", r, d>>,
           apply_approval_decision(r, d)
    PROVE  HInv'
  <1> DEFINE a == <<"approval", r>>
             c == <<"decide", r, d>>
  <1>1. Types /\ RequestInv(r) /\ ApiTypes /\ history \in HistoryRecs
    BY TypesParts DEF HInv
  <1>2. /\ link' \in Seq(Commands)
        /\ \A e : Sent(e)' => Sent(e)
        /\ \A e : e # c /\ Sent(e) => Sent(e)'
        /\ \A e : Once(e) => Once(e)'
        /\ \A e : e = c /\ Once(e) => ~Sent(e)'
    BY <1>1, LinkTaken
  <1>3. Sent(c) /\ a # c
    <2>1. link[k] \in ToSet(link) /\ link[k] = c
      BY <1>1, SeqSet DEF Types
    <2>2. a # c
      OBVIOUS
    <2> HIDE DEF a, c
    <2>3. QED
      BY <2>1, <2>2 DEF Sent
  <1>4. ~inbound => PollingOf(r) /\ cp[r] = d /\ Once(c) /\ approvals[r] \notin Decided
    BY <1>1, <1>3 DEF RequestInv, FollowingOf, PollingOf
  <1>5. CallsKept(r) /\ calls' \subseteq Calls
    BY <1>1, CallsUnchanged, TypesParts DEF CpTypes
  <1>6. (~inbound => ~Sent(c)') /\ (Sent(a)' <=> Sent(a)) /\ (Once(a) => Once(a)')
    <2> HIDE DEF a, c
    <2>1. QED
      BY <1>2, <1>3, <1>4
  <1>7. /\ SameAgent /\ SameTasks /\ UNCHANGED <<cp, hosted, manager, inbound, a2r>>
        /\ HostTypes' /\ agent' \in AgentRecs
        /\ inbound' \in BOOLEAN /\ cp' \in [Requests -> {"absent", "Pending"} \cup Decided]
    BY ApiFrameKeeps
  <1>8. d # "absent" /\ d # "Pending"
    BY DEF Decided
  <1>9. \A q \in Requests \ {r} : LinkKept(q)
    BY <1>1, LinkTakenAside
  <1>10. \A e \in Decided : e # d => <<"decide", r, e>> # c
    OBVIOUS
  <1>11. CASE approvals[r] # "Pending"
    <2>1. UNCHANGED <<table, approvals, mid, channel, history>>
      BY <1>11 DEF apply_approval_decision, apiVars
    <2>2. SameHistory
      BY <2>1, HistoryUnchanged
    <2>3. Types'
      <3>1. ApiTypes' /\ history' \in HistoryRecs
        BY <1>1, <2>1 DEF ApiTypes
      <3>2. QED
        BY <1>2, <1>5, <1>7, <3>1, TypesPartsNext DEF CpTypes
    <2>4. \A t \in Sessions : SessionInv(t)'
      BY <1>7, <2>1, <2>2, SessionsWritten DEF Written, Created, SameHistory
    <2>5. ~inbound => r \in Lost \cup Missed
      <3>1. SUFFICES ASSUME ~inbound, r \notin Lost \cup Missed PROVE FALSE
        OBVIOUS
      <3>5. approvals[r] = "absent" /\ mid = {} /\ k = 1
        BY <1>1, <1>4, <1>11, <3>1 DEF ApiTypes
      <3>2. Precedes(a, c)
        BY <1>3, <1>4, <3>1, <3>5 DEF PollingOf
      <3>4. \E j \in 1 .. Len(link) : j < 1
        BY <3>2, <3>5 DEF Precedes
      <3>6. QED
        BY <3>4
    <2>6. RequestInv(r)'
      <3>1. \A e \in Decided : Token(r, e)' <=> Token(r, e)
        BY <1>7, <2>1 DEF Token
      <3>2. AnsweringOf(r)' /\ AgreeingOf(r)' /\ FindableOf(r)' /\ SilenceOf(r)'
        BY <2>1, <2>2, <3>1, RequestAtApi DEF SameHistory
      <3>6. Unhandled(r)' <=> Unhandled(r)
        BY <1>7, HostAssumption, LinesKeep DEF SameAgent
      <3>3. CarriedOf(r)'
        BY <1>1, <1>5, <1>6, <1>7, <2>1, <3>6 DEF RequestInv, CarriedOf, CallsKept
      <3>7. CalledOf(r) => CalledOf(r)'
        BY <1>2, <1>5, <1>7, <2>1 DEF CalledOf, CallsKept
      <3>8. ~inbound => PollingOf(r)'
        BY <1>2, <1>4, <1>5, <1>6, <1>7, <2>1, <2>2, <2>5 DEF PollingOf, CallsKept, SameHistory
      <3>4. FollowingOf(r)'
        BY <1>1, <1>5, <1>7, <3>7, <3>8 DEF RequestInv, FollowingOf, CallsKept
      <3>5. QED
        BY <3>2, <3>3, <3>4 DEF RequestInv
    <2>7. ASSUME NEW q \in Requests \ {r} PROVE RequestInv(q)'
      BY <1>9, <2>1, <2>2, ApiAside DEF SameHistory
    <2>8. QED
      BY <2>3, <2>4, <2>6, <2>7 DEF HInv
  <1>12. CASE approvals[r] = "Pending"
    <2> DEFINE pending == \E q \in RequestsOf(SessionOf[r]) \ {r} : approvals[q] = "Pending"
               m == <<"decision", r, d, pending>>
    <2>1. /\ approvals' = [approvals EXCEPT ![r] = d]
          /\ mid' = mid \cup {m}
          /\ UNCHANGED <<table, channel, history>>
      BY <1>12 DEF apply_approval_decision
    <2>2. pending \in BOOLEAN
      OBVIOUS
    <2> HIDE DEF pending
    <2>3. /\ m \in Mids /\ m[2] = r /\ m # a
          /\ \A e, b : m = <<"decision", r, e, b>> => e = d
          /\ \E b \in BOOLEAN : m = <<"decision", r, d, b>>
      BY <2>2 DEF Mids
    <2> HIDE DEF m
    <2>4. /\ approvals' \in [Requests -> {"absent", "Pending"} \cup Decided]
          /\ approvals'[r] = d /\ \A q \in Requests \ {r} : approvals'[q] = approvals[q]
      BY <1>1, <2>1 DEF ApiTypes
    <2>5. SameHistory
      BY <2>1, HistoryUnchanged
    <2>6. Types'
      <3>1. ApiTypes' /\ history' \in HistoryRecs
        BY <1>1, <2>1, <2>3, <2>4 DEF ApiTypes
      <3>2. QED
        BY <1>2, <1>5, <1>7, <3>1, TypesPartsNext DEF CpTypes
    <2>7. \A t \in Sessions : SessionInv(t)'
      BY <1>7, <2>1, <2>5, SessionsWritten DEF Written, Created, SameHistory
    <2>8. ASSUME NEW q \in Requests \ {r} PROVE RequestInv(q)'
      <3>1. \A x : x[2] = q => (x \in mid' <=> x \in mid)
        BY <2>1, <2>3
      <3>2. QED
        BY <1>9, <2>1, <2>4, <2>5, <3>1, ApiAside DEF SameHistory
    <2>9. RequestInv(r)'
      <3>1. Token(r, d)'
        BY <2>1, <2>3 DEF Token
      <3>2. \A e \in Decided : ~Token(r, e)
        BY <1>1, <1>12 DEF RequestInv, AgreeingOf, Decided
      <3>3. ASSUME NEW e \in Decided, Token(r, e)' PROVE e = d
        BY <1>7, <2>1, <2>3, <3>2, <3>3 DEF Token
      <3>4. /\ Unhandled(r)' <=> Unhandled(r)
            /\ Opening(r)' <=> Opening(r)
            /\ Forwarding(r)' <=> Forwarding(r)
            /\ AtAnswer(r)' <=> AtAnswer(r)
            /\ Answers(r)' = Answers(r)
        <4>1. SessionOf[r] \in Sessions /\ ManagerAside
          BY <1>7, HostAssumption DEF ManagerAside
        <4>2. QED
          BY <1>7, <4>1, LinesKeep, ReaderKeeps, AsideKeeps DEF SameAgent, SameTasks, SameTask
      <3>5. ~Unhandled(r) /\ ~Sent(a) /\ a \notin mid /\ Once(a) /\ ~Queueing(r, "Pending")
        BY <1>1, <1>12 DEF RequestInv, CarriedOf
      <3>6. AnsweringOf(r)'
        BY <1>1, <1>7, <1>12, <3>4 DEF RequestInv, AnsweringOf
      <3>7. AgreeingOf(r)'
        BY <2>4, <3>3 DEF AgreeingOf
      <3>8. FindableOf(r)'
        <4>1. Input(SessionOf[r])' = Input(SessionOf[r])
          BY <1>7, HostAssumption DEF SameTasks, SameTask
        <4>2. QED
          BY <1>1, <1>7, <3>4, <4>1 DEF RequestInv, FindableOf, SameAgent
      <3>9. SilenceOf(r)'
        BY <3>1 DEF SilenceOf, Coming
      <3>10. CarriedOf(r)'
        BY <1>5, <1>6, <2>1, <2>3, <3>4, <3>5 DEF CarriedOf, CallsKept
      <3>11. CalledOf(r) => CalledOf(r)'
        <4> SUFFICES ASSUME CalledOf(r) PROVE CalledOf(r)'
          OBVIOUS
        <4>1. cp \in [Requests -> {"absent", "Pending"} \cup Decided]
          BY <1>1, TypesParts DEF CpTypes
        <4>2. cp[r] = "Pending" /\ ~Recording(r, "Pending") /\ \A e \in Decided : ~Recording(r, e)
          BY <1>3, <1>12, <4>1 DEF CalledOf, Decided
        <4>3. QED
          BY <1>5, <1>7, <1>8, <2>4, <4>2 DEF CalledOf, CallsKept, Decided
      <3>12. ~inbound => PollingOf(r)'
        <4> SUFFICES ASSUME ~inbound PROVE PollingOf(r)'
          OBVIOUS
        <4>1. ASSUME NEW e \in Decided
              PROVE  ~Queueing(r, e)' /\ ~Sent(<<"decide", r, e>>)' /\ Once(<<"decide", r, e>>)'
          BY <1>2, <1>3, <1>4, <1>5, <1>6 DEF PollingOf, CallsKept
        <4>2. QED
          BY <1>4, <1>7, <1>8, <2>4, <4>1 DEF PollingOf
      <3>13. FollowingOf(r)'
        BY <1>1, <1>5, <1>7, <3>11, <3>12 DEF RequestInv, FollowingOf, CallsKept
      <3>14. QED
        BY <3>6, <3>7, <3>8, <3>9, <3>10, <3>13 DEF RequestInv
    <2>10. QED
      BY <2>6, <2>7, <2>8, <2>9 DEF HInv
  <1>13. QED
    BY <1>11, <1>12

LEMMA ApplyCommandKeeps ==
    ASSUME HInv, ApplyCommand PROVE HInv'
  <1>1. Types /\ link \in Seq(Commands) /\ ApiFrame /\ UNCHANGED calls
    BY DEF HInv, Types, ApplyCommand, ApiFrame
  <1>2. PICK k \in Applicable :
          /\ link' = RemoveAt(link, k)
          /\ \/ link[k][1] = "create" /\ create_session(link[k][2])
             \/ link[k][1] = "state" /\ apply_session_state_update(link[k][2], link[k][3])
             \/ link[k][1] = "prompt" /\ post_session_command(link[k][2])
             \/ link[k][1] = "approval" /\ create_approval(link[k][2])
             \/ link[k][1] = "decide" /\ apply_approval_decision(link[k][2], link[k][3])
    BY DEF ApplyCommand
  <1>3. k \in 1 .. Len(link) /\ (inbound \/ (k = 1 /\ mid = {}))
    BY <1>1, <1>2, LenProperties DEF Applicable
  <1>4. link[k] \in Commands
    BY <1>1, <1>3, SeqSet
  <1>5. /\ link[k][1] \in {"create", "prompt", "state"} => link[k][2] \in Sessions
        /\ link[k][1] = "state" => link[k][3] \in ClientStates
        /\ link[k][1] = "approval" => link[k] = <<"approval", link[k][2]>> /\ link[k][2] \in Requests
        /\ link[k][1] = "decide" =>
              /\ link[k] = <<"decide", link[k][2], link[k][3]>>
              /\ link[k][2] \in Requests /\ link[k][3] \in Decided
    BY <1>4, CommandShape
  <1>6. CASE link[k][1] = "create" /\ create_session(link[k][2])
    BY <1>1, <1>2, <1>3, <1>5, <1>6, CreateKeeps
  <1>7. CASE link[k][1] = "state" /\ apply_session_state_update(link[k][2], link[k][3])
    BY <1>1, <1>2, <1>3, <1>5, <1>7, StateKeeps
  <1>8. CASE link[k][1] = "prompt" /\ post_session_command(link[k][2])
    BY <1>1, <1>2, <1>3, <1>5, <1>8, PromptedKeeps
  <1>9. CASE link[k][1] = "approval" /\ create_approval(link[k][2])
    BY <1>1, <1>2, <1>3, <1>5, <1>9, ApprovalKeeps
  <1>10. CASE link[k][1] = "decide" /\ apply_approval_decision(link[k][2], link[k][3])
    BY <1>1, <1>2, <1>3, <1>5, <1>10, DecisionKeeps
  <1>11. QED
    BY <1>2, <1>6, <1>7, <1>8, <1>9, <1>10

\* A call is answered.
LEMMA Acknowledged ==
    ASSUME Types, NEW r \in Requests, NEW st \in {"Pending"} \cup Decided,
           Acknowledge(r, st), UNCHANGED link
    PROVE  /\ calls' \subseteq Calls
           /\ \A q \in Requests \ {r} : LinkKept(q)
           /\ ~inbound => LinkKept(r)
           /\ \A x : Queueing(r, x)' <=> Queueing(r, x)
           /\ \A x : Recording(r, x)' <=> Recording(r, x) \/ (inbound /\ x = st)
  <1>1. calls \subseteq Calls
    BY TypesParts DEF CpTypes
  <1>2. CASE inbound
    <2>1. calls' = calls \cup {<<"record", r, st>>}
      BY <1>2 DEF Acknowledge
    <2>2. calls' \subseteq Calls
      BY <1>1, <2>1 DEF Calls
    <2>3. ASSUME NEW q \in Requests \ {r} PROVE LinkKept(q)
      <3>1. CallsKept(q)
        BY <2>1, CallsApart
      <3>2. QED
        BY <3>1 DEF LinkKept, Sent, Once, Precedes
    <2>4. QED
      BY <1>2, <2>1, <2>2, <2>3 DEF Queueing, Recording
  <1>3. CASE ~inbound
    <2>1. calls' = calls
      BY <1>3 DEF Acknowledge
    <2>2. QED
      BY <1>1, <1>3, <2>1, LinkUnchanged DEF Queueing, Recording
  <1>4. QED
    BY <1>2, <1>3

\* Second scope of create_approval.
LEMMA InsertApprovalKeeps ==
    ASSUME HInv, NEW r \in Requests, InsertApproval(r) PROVE HInv'
  <1> DEFINE a == <<"approval", r>>
  <1>1. /\ a \in mid /\ mid' = mid \ {a} /\ approvals' = [approvals EXCEPT ![r] = "Pending"]
        /\ UNCHANGED <<inbound, cp, link, table, channel, history>> /\ ApiFrame
        /\ Acknowledge(r, "Pending")
    BY DEF InsertApproval, ApiFrame
  <1>2. Types /\ RequestInv(r) /\ ApiTypes /\ CpTypes /\ history \in HistoryRecs
    BY TypesParts DEF HInv
  <1>3. /\ calls' \subseteq Calls
        /\ \A q \in Requests \ {r} : LinkKept(q)
        /\ \A x : Queueing(r, x)' <=> Queueing(r, x)
        /\ \A x : Recording(r, x)' <=> Recording(r, x) \/ (inbound /\ x = "Pending")
    BY <1>1, <1>2, Acknowledged
  <1>4. /\ SameAgent /\ SameTasks /\ UNCHANGED <<cp, hosted, manager, inbound, a2r>>
        /\ HostTypes' /\ agent' \in AgentRecs /\ SameHistory
    BY <1>1, ApiFrameKeeps, HistoryUnchanged
  <1>5. /\ approvals' \in [Requests -> {"absent", "Pending"} \cup Decided]
        /\ approvals'[r] = "Pending" /\ \A q \in Requests \ {r} : approvals'[q] = approvals[q]
    BY <1>1, <1>2 DEF ApiTypes
  <1>6. Types'
    <2>1. CpTypes' /\ ApiTypes' /\ history' \in HistoryRecs
      BY <1>1, <1>2, <1>3, <1>5 DEF ApiTypes, CpTypes
    <2>2. QED
      BY <1>4, <2>1, TypesPartsNext
  <1>7. \A t \in Sessions : SessionInv(t)'
    BY <1>1, <1>4, SessionsWritten DEF Written, Created, SameHistory
  <1>8. a[2] = r /\ \A e, b : <<"decision", r, e, b>> # a
    OBVIOUS
  <1> HIDE DEF a
  <1>9. ASSUME NEW q \in Requests \ {r} PROVE RequestInv(q)'
    <2>1. \A x : x[2] = q => (x \in mid' <=> x \in mid)
      BY <1>1, <1>8
    <2>2. QED
      BY <1>1, <1>3, <1>4, <1>5, <2>1, ApiAside DEF SameHistory
  <1>10. RequestInv(r)'
    <2>1. /\ ~Unhandled(r) /\ ~Sent(a) /\ ~Queueing(r, "Pending")
          /\ approvals[r] = "absent" /\ Once(a)
      BY <1>1, <1>2 DEF RequestInv, CarriedOf, a
    <2>2. \A d \in Decided : d # "absent" /\ d # "Pending"
      BY DEF Decided
    <2>3. \A d \in Decided : ~Token(r, d)'
      <3>1. \A d \in Decided : ~Token(r, d)
        BY <1>2, <2>1, <2>2 DEF RequestInv, AgreeingOf
      <3>2. QED
        BY <1>1, <1>4, <3>1 DEF Token
    <2>4. /\ Unhandled(r)' <=> Unhandled(r)
          /\ Opening(r)' <=> Opening(r)
          /\ Forwarding(r)' <=> Forwarding(r)
          /\ AtAnswer(r)' <=> AtAnswer(r)
          /\ Answers(r)' = Answers(r) /\ Input(SessionOf[r])' = Input(SessionOf[r])
      <3>1. SessionOf[r] \in Sessions /\ ManagerAside
        BY <1>4, HostAssumption DEF ManagerAside
      <3>2. QED
        BY <1>4, <3>1, LinesKeep, ReaderKeeps, AsideKeeps DEF SameAgent, SameTasks, SameTask
    <2>5. AnsweringOf(r)'
      BY <1>2, <1>4, <2>1, <2>4 DEF RequestInv, AnsweringOf
    <2>6. AgreeingOf(r)' /\ SilenceOf(r)'
      BY <1>5, <2>2, <2>3 DEF AgreeingOf, SilenceOf
    <2>7. FindableOf(r)'
      BY <1>2, <1>4, <2>4 DEF RequestInv, FindableOf, SameAgent
    <2>8. ~Sent(a)' /\ Once(a)' /\ a \notin mid'
      BY <1>1, <2>1 DEF Sent, Once
    <2>9. CarriedOf(r)'
      BY <1>3, <2>1, <2>4, <2>8 DEF CarriedOf, a
    <2>10. CASE inbound
      <3>1. CalledOf(r) /\ \A st \in {"Pending"} \cup Decided : ~Queueing(r, st)
        BY <1>2, <2>10 DEF RequestInv, FollowingOf
      <3>2. /\ cp'[r] = "absent"
            /\ \A d \in Decided : ~Sent(<<"decide", r, d>>)' /\ ~Recording(r, d)'
        BY <1>1, <1>3, <2>1, <2>2, <3>1 DEF CalledOf, Sent
      <3>3. CalledOf(r)'
        BY <1>5, <2>2, <3>2 DEF CalledOf
      <3>4. FollowingOf(r)'
        BY <1>1, <1>3, <2>10, <3>1, <3>3 DEF FollowingOf
      <3>5. QED
        BY <2>5, <2>6, <2>7, <2>9, <3>4 DEF RequestInv
    <2>11. CASE ~inbound
      <3>1. PollingOf(r) /\ \A st \in {"Pending"} \cup Decided : ~Recording(r, st)
        BY <1>2, <2>11 DEF RequestInv, FollowingOf
      <3>2. cp'[r] # "absent" /\ cp'[r] = cp[r]
        BY <1>1, <3>1 DEF PollingOf, a
      <3>3. \A e : (Sent(e)' <=> Sent(e)) /\ (Once(e)' <=> Once(e))
        BY <1>1 DEF Sent, Once
      <3>4. PollingOf(r)'
        BY <1>3, <1>4, <1>5, <2>1, <2>2, <3>1, <3>2, <3>3 DEF PollingOf, SameHistory
      <3>5. FollowingOf(r)'
        BY <1>1, <1>3, <2>11, <3>1, <3>4 DEF FollowingOf
      <3>6. QED
        BY <2>5, <2>6, <2>7, <2>9, <3>5 DEF RequestInv
    <2>12. QED
      BY <2>10, <2>11
  <1>11. QED
    BY <1>6, <1>7, <1>9, <1>10 DEF HInv

\* Second scope of apply_approval_decision: the decision goes to the manager,
\* or is lost.
LEMMA FinishDecisionKeeps ==
    ASSUME HInv, NEW m \in mid, FinishDecision(m) PROVE HInv'
  <1> DEFINE r == m[2]
             d == m[3]
             s == SessionOf[r]
             state == session_state_after_approval(d, m[4])
             event == <<"resolved", r, d>>
             written == {s}
  <1>1. Types
    BY DEF HInv
  <1>2. /\ m[1] = "decision" /\ mid' = mid \ {m}
        /\ table' = [table EXCEPT ![s] = state]
        /\ emit_event(event, written)
        /\ UNCHANGED <<inbound, cp, link, approvals>> /\ ApiFrame /\ Acknowledge(r, d)
    BY DEF FinishDecision, ApiFrame
  <1>3. /\ m = <<"decision", r, d, m[4]>> /\ r \in Requests /\ d \in Decided /\ m[4] \in BOOLEAN
    BY <1>1, <1>2, MidShape
  <1>4. s \in Sessions /\ RequestInv(r) /\ SessionInv(s) /\ ApiTypes
    BY <1>1, <1>3, HostAssumption, TypesParts DEF HInv
  <1>5. state \in RunnerStates /\ state # "absent"
    BY DEF session_state_after_approval, RunnerStates, Terminal
  <1>6. event \in RunnerEvents /\ event[2] = r /\ written \in SUBSET Sessions
    BY <1>3, <1>4 DEF RunnerEvents
  <1>7. /\ \A q, e : <<"resolved", q, e>> = event => q = r /\ e = d
        /\ \A t : <<"created", t>> # event
        /\ event = <<"resolved", r, d>>
    OBVIOUS
  <1> HIDE DEF r, d, s, state, event, written
  <1>8. /\ channel' \in Seq(RunnerEvents) /\ Len(channel') <= ChannelCap
        /\ history' \in HistoryRecs
        /\ ToSet(channel') \subseteq ToSet(channel) \cup {event}
        /\ ToSet(channel) \subseteq ToSet(channel')
        /\ event \in ToSet(channel') \/ event[2] \in Lost'
        /\ Lost \subseteq Lost' /\ Missed' = Missed /\ Unstarted' = Unstarted
        /\ Revived' = Revived \cup Touched(written)
    BY <1>1, <1>2, <1>6, EmitMoves
  <1>9. /\ SameAgent /\ SameTasks /\ UNCHANGED <<cp, hosted, manager, inbound, a2r>>
        /\ HostTypes' /\ agent' \in AgentRecs
    BY <1>2, ApiFrameKeeps
  <1>10. /\ table' \in [Sessions -> {"absent"} \cup RunnerStates]
         /\ table'[s] = state /\ \A t \in Sessions \ {s} : table'[t] = table[t]
    BY <1>2, <1>4, <1>5 DEF ApiTypes
  <1>18. /\ calls' \subseteq Calls
         /\ \A q \in Requests \ {r} : LinkKept(q)
         /\ ~inbound => LinkKept(r)
         /\ \A x : Queueing(r, x)' <=> Queueing(r, x)
         /\ \A x : Recording(r, x)' <=> Recording(r, x) \/ (inbound /\ x = d)
    BY <1>1, <1>2, <1>3, Acknowledged
  <1>11. Types'
    <2>1. CpTypes' /\ ApiTypes'
      BY <1>1, <1>2, <1>4, <1>8, <1>10, <1>18, TypesParts DEF ApiTypes, CpTypes
    <2>2. QED
      BY <1>8, <1>9, <2>1, TypesPartsNext
  <1>12. Token(r, d) /\ approvals[r] = d
    <2>1. Token(r, d)
      BY <1>3 DEF Token
    <2>2. QED
      BY <1>3, <1>4, <2>1 DEF RequestInv, AgreeingOf
  <1>13. table[s] # "absent"
    <2>1. approvals[r] # "absent" /\ r \in RequestsOf(s)
      BY <1>3, <1>12 DEF Decided, RequestsOf, s
    <2>2. r \in Asked
      BY <1>4, <2>1 DEF RequestInv, CarriedOf, Unhandled
    <2>3. QED
      BY <1>4, <2>1, <2>2 DEF SessionInv, RecordedOf
  <1>14. \A t \in Sessions : Created(t)' <=> Created(t)
    BY <1>7, <1>8 DEF Created
  <1>15. ExitTask(s) = "done" => s \in Revived'
    BY <1>4, <1>8 DEF Touched, ExitTask, written
  <1>16. \A t \in Sessions : Written(t)
    BY <1>5, <1>10, <1>13, <1>15 DEF Written
  <1>17. \A t \in Sessions : SessionInv(t)'
    BY <1>8, <1>9, <1>14, <1>16, SessionsWritten
  <1>19. ASSUME NEW q \in Requests \ {r} PROVE RequestInv(q)'
    <2>1. \A x : x[2] = q => (x \in mid' <=> x \in mid)
      BY <1>2 DEF r
    <2>2. \A e \in Decided : <<"resolved", q, e>> \in ToSet(channel')
                             <=> <<"resolved", q, e>> \in ToSet(channel)
      BY <1>7, <1>8
    <2>3. QED
      BY <1>2, <1>8, <1>18, <2>1, <2>2, ApiAside
  <1>20. RequestInv(r)'
    <2>1. Token(r, d)' \/ r \in Lost'
      BY <1>6, <1>7, <1>8 DEF Token
    <2>2. ASSUME NEW e \in Decided, Token(r, e)' PROVE Token(r, e)
      <3>1. <<"resolved", r, e>> \in ToSet(channel') => e = d \/ <<"resolved", r, e>> \in ToSet(channel)
        BY <1>7, <1>8
      <3>2. QED
        BY <1>2, <1>9, <1>12, <2>2, <3>1 DEF Token, Sent
    <2>3. \A e \in Decided : Token(r, e) => Token(r, e)' \/ r \in Lost'
      BY <1>4, <1>12, <2>1 DEF RequestInv, AgreeingOf
    <2>4. AnsweringOf(r)' /\ AgreeingOf(r)' /\ FindableOf(r)' /\ SilenceOf(r)'
      BY <1>2, <1>3, <1>8, <2>2, <2>3, RequestAtApi
    <2>5. <<"approval", r>> \in mid' <=> <<"approval", r>> \in mid
      BY <1>2, <1>3
    <2>6. Unhandled(r)' <=> Unhandled(r)
      BY <1>3, <1>9, HostAssumption, LinesKeep DEF SameAgent
    <2>7. CASE ~inbound
      <3>1. CarriedOf(r)' /\ FollowingOf(r)'
        BY <1>2, <1>3, <1>4, <1>8, <1>18, <2>5, <2>6, <2>7, CommandsKept DEF RequestInv
      <3>2. QED
        BY <2>4, <3>1 DEF RequestInv
    <2>8. CASE inbound
      <3>1. \A e : (Sent(e)' <=> Sent(e)) /\ (Once(e)' <=> Once(e))
        BY <1>2 DEF Sent, Once
      <3>2. CarriedOf(r)'
        BY <1>2, <1>4, <1>18, <2>5, <2>6, <3>1 DEF RequestInv, CarriedOf
      <3>3. CalledOf(r) /\ \A st \in {"Pending"} \cup Decided : ~Queueing(r, st)
        BY <1>4, <2>8 DEF RequestInv, FollowingOf
      <3>4. cp[r] \in {"Pending", d} /\ d # "Pending" /\ d # "absent" /\ cp'[r] = cp[r]
        BY <1>2, <1>3, <1>12, <3>3 DEF CalledOf, Decided
      <3>5. CalledOf(r)'
        BY <1>2, <1>12, <1>18, <3>1, <3>3, <3>4 DEF CalledOf
      <3>6. FollowingOf(r)'
        BY <1>2, <1>18, <2>8, <3>3, <3>5 DEF FollowingOf
      <3>7. QED
        BY <2>4, <3>2, <3>6 DEF RequestInv
    <2>9. QED
      BY <2>7, <2>8
  <1>21. QED
    BY <1>3, <1>11, <1>17, <1>19, <1>20 DEF HInv

-----------------------------------------------------------------------------
(* The manager and the tasks *)

\* The manager is not occupied with r, before and after.
Occupied(r) == manager[1] \in {"found", "answering"} /\ manager[2] = r
AsideOf(r) ==
    /\ Forwarding(r)' <=> Forwarding(r)
    /\ AtAnswer(r)' <=> AtAnswer(r)
    /\ \A d : manager' \in {<<"found", r, d>>, <<"answering", r, d>>}
              <=> manager \in {<<"found", r, d>>, <<"answering", r, d>>}

LEMMA Idle ==
    ASSUME NEW r, ~Occupied(r)
    PROVE  /\ ~Forwarding(r) /\ ~AtAnswer(r)
           /\ \A d : manager \notin {<<"found", r, d>>, <<"answering", r, d>>}
  <1>1. \A d : manager \notin {<<"found", r, d>>, <<"answering", r, d>>}
    BY DEF Occupied
  <1>2. QED
    BY <1>1 DEF Forwarding, AtAnswer

LEMMA IdleNext ==
    ASSUME NEW r, ~(manager'[1] \in {"found", "answering"} /\ manager'[2] = r)
    PROVE  /\ ~Forwarding(r)' /\ ~AtAnswer(r)'
           /\ \A d : manager' \notin {<<"found", r, d>>, <<"answering", r, d>>}
  <1>1. \A d : manager' \notin {<<"found", r, d>>, <<"answering", r, d>>}
    OBVIOUS
  <1>2. QED
    BY <1>1 DEF Forwarding, AtAnswer

LEMMA AsideWhen ==
    ASSUME NEW r, \/ manager' = manager
                  \/ /\ ~Occupied(r)
                     /\ ~(manager'[1] \in {"found", "answering"} /\ manager'[2] = r)
    PROVE  AsideOf(r)
  <1>1. CASE manager' = manager
    BY <1>1 DEF AsideOf, Forwarding, AtAnswer
  <1>2. CASE manager' # manager
    BY <1>2, Idle, IdleNext DEF AsideOf
  <1>3. QED
    BY <1>1, <1>2

\* The agents write nothing and no line of theirs is read.
SameLines ==
    /\ Asked' = Asked /\ Withdrawn' = Withdrawn
    /\ \A s \in Sessions : Pipe(s)' = Pipe(s)

\* A step of the manager or of a task that is about another request.
LEMMA RequestApart ==
    ASSUME HInv, NEW r \in Requests, SameLines, Answers(r)' = Answers(r),
           Reader(SessionOf[r])' = Reader(SessionOf[r]),
           UNCHANGED <<inbound, cp, calls, link, approvals, mid>>, r \in a2r' <=> r \in a2r,
           AsideOf(r),
           \A d \in Decided : <<"resolved", r, d>> \in ToSet(channel')
                              <=> <<"resolved", r, d>> \in ToSet(channel),
           Lost \subseteq Lost', Missed \subseteq Missed',
           Process(SessionOf[r])' = "live" => Process(SessionOf[r]) = "live",
           Input(SessionOf[r]) = "closed" => Input(SessionOf[r])' = "closed",
           Unreachable(SessionOf[r]) => Unreachable(SessionOf[r])'
    PROVE  RequestInv(r)'
  <1>1. SessionOf[r] \in Sessions /\ RequestInv(r)
    BY HostAssumption DEF HInv
  <1>2. /\ Unhandled(r)' <=> Unhandled(r)
        /\ Opening(r)' <=> Opening(r)
        /\ Refused(r)' <=> Refused(r)
    BY <1>1, LinesKeep, ReaderKeeps DEF SameLines
  <1>3. RequestKept(r)
    BY <1>2 DEF RequestKept, SameLines, AsideOf
  <1>4. LinkKept(r)
    BY LinkUnchanged
  <1>5. \A d \in Decided : Token(r, d)' <=> Token(r, d)
    BY <1>4 DEF Token, LinkKept, AsideOf
  <1>6. QED
    BY <1>1, <1>3, <1>4, <1>5, RequestStays

LEMMA RequestAside ==
    ASSUME HInv, NEW r \in Requests, SameAgent, Reader(SessionOf[r])' = Reader(SessionOf[r]),
           UNCHANGED <<inbound, cp, calls, link, approvals, mid>>, r \in a2r' <=> r \in a2r,
           AsideOf(r),
           \A d \in Decided : <<"resolved", r, d>> \in ToSet(channel')
                              <=> <<"resolved", r, d>> \in ToSet(channel),
           Lost \subseteq Lost', Missed \subseteq Missed',
           Process(SessionOf[r])' = "live" => Process(SessionOf[r]) = "live",
           Input(SessionOf[r]) = "closed" => Input(SessionOf[r])' = "closed",
           Unreachable(SessionOf[r]) => Unreachable(SessionOf[r])'
    PROVE  RequestInv(r)'
  BY RequestApart DEF SameAgent, SameLines

\* The manager, which was idle, takes an event.
EventTaken ==
    /\ manager = <<"idle">> /\ channel # <<>> /\ channel' = Tail(channel)
    /\ UNCHANGED <<inbound, cpVars, table, approvals, mid, r2a, a2r, agent>>

LEMMA EventTakenKeeps ==
    ASSUME HInv, EventTaken
    PROVE  /\ Head(channel) \in RunnerEvents /\ Head(channel) \in ToSet(channel)
           /\ \A x : x \in ToSet(channel') => x \in ToSet(channel)
           /\ \A x : x # Head(channel) => (x \in ToSet(channel') <=> x \in ToSet(channel))
           /\ CpTypes' /\ ApiTypes' /\ agent' \in AgentRecs /\ SameAgent
           /\ UNCHANGED <<inbound, cp, calls, link, table, approvals, mid, r2a, a2r>>
           /\ \A r : ~Occupied(r)
           /\ \A s : ~Starting(s)
  <1>1. Types /\ channel \in Seq(RunnerEvents) /\ channel # <<>> /\ channel' = Tail(channel)
    BY DEF HInv, Types, EventTaken
  <1>2. /\ Head(channel) \in RunnerEvents /\ Len(channel) \in Nat
        /\ channel' \in Seq(RunnerEvents) /\ Len(channel') = Len(channel) - 1
        /\ ToSet(channel') \subseteq ToSet(channel)
        /\ ToSet(channel) \subseteq ToSet(channel') \cup {Head(channel)}
        /\ Head(channel) \in ToSet(channel)
    BY <1>1, SeqTail
  <1>3. Len(channel') <= ChannelCap
    BY <1>1, <1>2, TypesParts, HostAssumption DEF ApiTypes
  <1>4. CpTypes' /\ ApiTypes' /\ agent' \in AgentRecs
    BY <1>1, <1>2, <1>3, TypesParts DEF CpTypes, ApiTypes, EventTaken, cpVars
  <1>5. SameAgent /\ UNCHANGED <<inbound, cp, calls, link, table, approvals, mid, r2a, a2r>>
    BY AgentUnchanged DEF EventTaken, cpVars
  <1>6. (\A r : ~Occupied(r)) /\ (\A s : ~Starting(s))
    BY DEF EventTaken, Occupied, Starting
  <1>7. QED
    BY <1>2, <1>4, <1>5, <1>6

\* An event that starts no process: it is for an agent that runs, or for one
\* that cannot be started, or no matter for the manager.
LEMMA EventIgnored ==
    ASSUME HInv, EventTaken, Head(channel)[1] \in {"created", "command"},
           manager' = <<"idle">>, UNCHANGED <<hosted, tasks>>, history' \in HistoryRecs,
           Lost' = Lost, Missed' = Missed, Revived' = Revived, Unstarted \subseteq Unstarted',
           \A s \in Sessions : Head(channel) = <<"created", s>> => s \in hosted \cup Unstarted'
    PROVE  HInv'
  <1> DEFINE e == Head(channel)
  <1>1. /\ e \in RunnerEvents /\ e \in ToSet(channel)
        /\ \A x : x \in ToSet(channel') => x \in ToSet(channel)
        /\ \A x : x # e => (x \in ToSet(channel') <=> x \in ToSet(channel))
        /\ CpTypes' /\ ApiTypes' /\ agent' \in AgentRecs /\ SameAgent
        /\ UNCHANGED <<inbound, cp, calls, link, table, approvals, mid, r2a, a2r>>
        /\ \A s : ~Starting(s)
    BY EventTakenKeeps
  <1>2. e[1] \in {"created", "command"} /\ \A s \in Sessions : e = <<"created", s>> => s \in hosted \cup Unstarted'
    OBVIOUS
  <1> HIDE DEF e
  <1>3. SameTasks /\ manager' = manager
    BY TasksUnchanged DEF EventTaken
  <1>4. Types'
    <2>1. HostTypes'
      BY <1>1, <1>3, TypesParts DEF HInv, HostTypes
    <2>2. QED
      BY <1>1, <2>1, TypesPartsNext
  <1>5. ASSUME NEW s \in Sessions PROVE SessionInv(s)'
    <2>1. SessionInv(s) /\ SameTask(s) /\ Pipe(s)' = Pipe(s) /\ (Starting(s)' <=> Starting(s))
      BY <1>1, <1>3 DEF HInv, SameTasks, SameAgent, Starting
    <2>2. Created(s)' => Created(s)
      BY <1>1 DEF Created
    <2>3. AskingOf(s)'
      BY <1>1, <2>1, AskingKept DEF SessionInv, SameTask, SameAgent
    <2>4. LivingOf(s)'
      BY <2>1, LivingKept DEF SessionInv
    <2>5. RecordedOf(s)'
      BY <1>1, <2>1, <2>2, RecordedKept DEF SessionInv, SameTask, SameAgent
    <2>6. Created(s) => Created(s)' \/ Process(s) # "none" \/ s \in Unstarted'
      BY <1>1, <1>2, <2>1 DEF Created, SessionInv, LivingOf
    <2>7. BackedOf(s)'
      BY <1>1, <2>1, <2>6 DEF SessionInv, SameTask, BackedOf
    <2>8. QED
      BY <2>3, <2>4, <2>5, <2>7 DEF SessionInv
  <1>6. ASSUME NEW r \in Requests PROVE RequestInv(r)'
    <2>1. SameTask(SessionOf[r]) /\ AsideOf(r)
      BY <1>3, HostAssumption, AsideWhen DEF SameTasks
    <2>2. \A d \in Decided : <<"resolved", r, d>> # e
      BY <1>2
    <2>3. Unreachable(SessionOf[r]) => Unreachable(SessionOf[r])'
      BY <2>1 DEF SameTask, Unreachable
    <2>4. QED
      BY <1>1, <2>1, <2>2, <2>3, RequestAside DEF SameTask
  <1>7. QED
    BY <1>4, <1>5, <1>6 DEF HInv

\* The process of a session starts: nothing was asked for the session so far.
LEMMA ProcessStarts ==
    ASSUME HInv, EventTaken, NEW s \in Sessions, Head(channel) = <<"created", s>>,
           s \notin hosted, Process(s) = "none",
           hosted' = hosted \cup {s},
           tasks' = [tasks EXCEPT ![s].process = "live", ![s].input = "queue"],
           manager' = <<"starting", s>>, UNCHANGED history
    PROVE  HInv'
  <1> DEFINE e == Head(channel)
  <1>1. /\ e \in RunnerEvents /\ e \in ToSet(channel)
        /\ \A x : x \in ToSet(channel') => x \in ToSet(channel)
        /\ \A x : x # e => (x \in ToSet(channel') <=> x \in ToSet(channel))
        /\ CpTypes' /\ ApiTypes' /\ agent' \in AgentRecs /\ SameAgent
        /\ UNCHANGED <<inbound, cp, calls, link, table, approvals, mid, r2a, a2r>>
        /\ \A r : ~Occupied(r)
        /\ \A t : ~Starting(t)
    BY EventTakenKeeps
  <1>2. /\ e = <<"created", s>> /\ \A t \in Sessions : <<"created", t>> = e => t = s
        /\ \A r \in Requests, d \in Decided : <<"resolved", r, d>> # e
    OBVIOUS
  <1> HIDE DEF e
  <1> DEFINE rec == [tasks[s] EXCEPT !.process = "live", !.input = "queue"]
  <1>3. tasks \in [Sessions -> TaskRecs] /\ HostTypes
    BY TypesParts DEF HInv, HostTypes
  <1>4. tasks' = [tasks EXCEPT ![s] = rec]
    BY <1>3, Zenon
  <1>5. /\ rec \in TaskRecs /\ rec.process = "live" /\ rec.input = "queue"
        /\ rec.exit = ExitTask(s) /\ rec.reader = Reader(s)
    <2>1. tasks[s] \in TaskRecs
      BY <1>3
    <2>2. QED
      BY <2>1 DEF TaskRecs, ExitTask, Reader
  <1> HIDE DEF rec
  <1>6. /\ tasks' \in [Sessions -> TaskRecs]
        /\ \A t \in Sessions \ {s} : SameTask(t)
        /\ Process(s)' = "live" /\ Input(s)' = "queue"
        /\ ExitTask(s)' = ExitTask(s) /\ Reader(s)' = Reader(s)
    BY <1>3, <1>4, <1>5, TaskMoves
  <1>7. SameHistory /\ history' \in HistoryRecs
    BY HistoryUnchanged, TypesParts DEF HInv
  <1>8. Types'
    <2>1. HostTypes'
      BY <1>1, <1>3, <1>6 DEF HostTypes
    <2>2. QED
      BY <1>1, <1>7, <2>1, TypesPartsNext
  <1>9. ASSUME NEW t \in Sessions PROVE Starting(t)' <=> t = s
    BY DEF Starting
  <1>10. ASSUME NEW t \in Sessions \ {s} PROVE SessionInv(t)'
    <2>1. SessionInv(t) /\ SameTask(t) /\ (Starting(t)' <=> Starting(t))
      BY <1>1, <1>6, <1>9 DEF HInv
    <2>2. Created(t)' <=> Created(t)
      BY <1>1, <1>2 DEF Created
    <2>3. t \in hosted' <=> t \in hosted
      OBVIOUS
    <2>4. /\ Pipe(t)' = Pipe(t)
          /\ AskingOf(t)'
      BY <1>1, <2>1, AskingKept DEF SessionInv, SameTask, SameAgent
    <2>5. LivingOf(t)'
      BY <2>1, <2>3, LivingKept DEF SessionInv
    <2>6. RecordedOf(t)'
      BY <1>1, <2>1, <2>2, <2>4, RecordedKept DEF SessionInv, SameTask, SameAgent
    <2>7. BackedOf(t)'
      BY <1>1, <1>7, <2>1, <2>2, BackedKept DEF SessionInv, SameTask, SameHistory
    <2>8. QED
      BY <2>4, <2>5, <2>6, <2>7 DEF SessionInv
  <1>11. SessionInv(s)'
    <2>1. SessionInv(s) /\ Pipe(s)' = Pipe(s)
      BY <1>1 DEF HInv, SameAgent
    <2>2. AskingOf(s)'
      BY <1>1, <1>6, <2>1, AskingKept DEF SessionInv, SameAgent
    <2>3. LivingOf(s)'
      BY <1>6, <1>9, <2>1 DEF SessionInv, LivingOf
    <2>4. table'[s] # "absent"
      BY <1>1, <1>2, <2>1 DEF SessionInv, RecordedOf, Created
    <2>5. RecordedOf(s)' /\ BackedOf(s)'
      <3>1. ExitTask(s)' # "done"
        BY <1>6, <2>1 DEF SessionInv, LivingOf
      <3>2. Process(s)' # "none"
        BY <1>6
      <3>3. QED
        BY <2>4, <3>1, <3>2 DEF RecordedOf, BackedOf
    <2>6. QED
      BY <2>2, <2>3, <2>5 DEF SessionInv
  <1>12. ASSUME NEW r \in Requests PROVE RequestInv(r)'
    <2>1. SessionOf[r] \in Sessions /\ RequestInv(r) /\ AsideOf(r)
      BY <1>1, HostAssumption, AsideWhen DEF HInv
    <2>2. CASE SessionOf[r] # s
      <3>1. SameTask(SessionOf[r]) /\ (Unreachable(SessionOf[r]) => Unreachable(SessionOf[r])')
        BY <1>6, <2>1, <2>2 DEF SameTask, Unreachable
      <3>2. QED
        BY <1>1, <1>2, <1>7, <2>1, <3>1, RequestAside DEF SameTask, SameHistory
    <2>3. CASE SessionOf[r] = s
      <3>1. approvals[r] = "absent" /\ r \notin Asked
        <4>1. SessionInv(s) /\ r \in RequestsOf(s)
          BY <2>3 DEF HInv, RequestsOf
        <4>2. r \notin Asked
          BY <4>1 DEF SessionInv, RecordedOf
        <4>3. QED
          BY <2>1, <4>2 DEF RequestInv, CarriedOf, Unhandled
      <3>2. /\ Unhandled(r)' <=> Unhandled(r)
            /\ Opening(r)' <=> Opening(r)
            /\ Refused(r)' <=> Refused(r)
        BY <1>1, <1>6, <2>3, LinesKeep, ReaderKeeps DEF SameAgent
      <3>3. RequestKept(r)
        BY <1>1, <2>1, <3>2 DEF RequestKept, SameAgent, AsideOf
      <3>4. LinkKept(r)
        BY <1>1, LinkUnchanged
      <3>5. \A d \in Decided : Token(r, d)' <=> Token(r, d)
        BY <1>1, <1>2, <2>1, <3>4 DEF Token, LinkKept, AsideOf
      <3>6. AnsweringOf(r)' /\ AgreeingOf(r)'
        BY <2>1, <3>3, <3>5, AnsweringKept, AgreeingKept DEF RequestInv, RequestKept
      <3>7. FindableOf(r)'
        BY <3>1, <3>2 DEF FindableOf, Unhandled
      <3>8. SilenceOf(r)'
        BY <1>1, <3>1 DEF SilenceOf, Decided
      <3>9. CarriedOf(r)' /\ FollowingOf(r)'
        BY <1>1, <1>7, <2>1, <3>2, <3>4, CommandsKept DEF RequestInv, SameHistory
      <3>10. QED
        BY <3>6, <3>7, <3>8, <3>9 DEF RequestInv
    <2>4. QED
      BY <2>2, <2>3
  <1>13. QED
    BY <1>8, <1>10, <1>11, <1>12 DEF HInv

\* forward_approval_resolution looks for the request.
LEMMA LookUpKeeps ==
    ASSUME HInv, EventTaken, NEW r \in Requests, NEW d \in Decided,
           Head(channel) = <<"resolved", r, d>>, LookUpRequest(r, d)
    PROVE  HInv'
  <1> DEFINE e == Head(channel)
             found == SessionOf[r] \in hosted /\ r \in a2r
  <1>1. /\ e \in RunnerEvents /\ e \in ToSet(channel)
        /\ \A x : x \in ToSet(channel') => x \in ToSet(channel)
        /\ \A x : x # e => (x \in ToSet(channel') <=> x \in ToSet(channel))
        /\ CpTypes' /\ ApiTypes' /\ agent' \in AgentRecs /\ SameAgent
        /\ UNCHANGED <<inbound, cp, calls, link, table, approvals, mid, r2a, a2r>>
        /\ \A q : ~Occupied(q)
        /\ \A t : ~Starting(t)
    BY EventTakenKeeps
  <1>2. /\ e = <<"resolved", r, d>> /\ \A t \in Sessions : <<"created", t>> # e
        /\ \A q \in Requests, x \in Decided : <<"resolved", q, x>> = e => q = r /\ x = d
    OBVIOUS
  <1> HIDE DEF e
  <1>3. /\ UNCHANGED <<hosted, tasks>>
        /\ manager' = IF found THEN <<"found", r, d>> ELSE <<"idle">>
        /\ history' = IF SessionOf[r] \in hosted /\ r \notin a2r
                      THEN [history EXCEPT !.missed = @ \cup {r}] ELSE history
    BY DEF LookUpRequest
  <1>4. HostTypes /\ history \in HistoryRecs /\ SessionOf[r] \in Sessions /\ RequestInv(r)
    BY TypesParts, HostAssumption DEF HInv
  <1>5. SameTasks
    BY <1>3, TasksUnchanged
  <1>6. /\ history' \in HistoryRecs /\ Lost' = Lost /\ Unstarted' = Unstarted /\ Revived' = Revived
        /\ Missed \subseteq Missed' /\ (SessionOf[r] \in hosted /\ r \notin a2r => r \in Missed')
    BY <1>3, <1>4 DEF HistoryRecs, Lost, Missed, Unstarted, Revived
  <1>7. Types'
    <2>1. HostTypes'
      BY <1>1, <1>3, <1>4 DEF HostTypes
    <2>2. QED
      BY <1>1, <1>6, <2>1, TypesPartsNext
  <1>8. \A t \in Sessions : Starting(t)' <=> Starting(t)
    <2>1. \A t \in Sessions : ~Starting(t)'
      BY <1>3 DEF Starting
    <2>2. QED
      BY <1>1, <2>1
  <1>9. ASSUME NEW t \in Sessions PROVE SessionInv(t)'
    <2>1. SessionInv(t) /\ SameTask(t) /\ (Starting(t)' <=> Starting(t))
      BY <1>5, <1>8 DEF HInv, SameTasks
    <2>2. Created(t)' <=> Created(t)
      BY <1>1, <1>2 DEF Created
    <2>3. QED
      BY <1>1, <1>3, <1>6, <2>1, <2>2, SessionFrame
  <1>10. ASSUME NEW q \in Requests \ {r} PROVE RequestInv(q)'
    <2>1. ~(manager'[1] \in {"found", "answering"} /\ manager'[2] = q)
      BY <1>3
    <2>2. SameTask(SessionOf[q]) /\ AsideOf(q)
      BY <1>1, <1>5, <2>1, HostAssumption, AsideWhen DEF SameTasks
    <2>3. Unreachable(SessionOf[q]) => Unreachable(SessionOf[q])'
      BY <1>3, <2>2 DEF SameTask, Unreachable
    <2>4. QED
      BY <1>1, <1>2, <1>6, <2>2, <2>3, RequestAside DEF SameTask
  <1>11. RequestInv(r)'
    <2>1. /\ Unhandled(r)' <=> Unhandled(r)
          /\ Opening(r)' <=> Opening(r)
          /\ Refused(r)' <=> Refused(r)
      BY <1>1, <1>4, <1>5, LinesKeep, ReaderKeeps DEF SameAgent, SameTasks, SameTask
    <2>2. ~Forwarding(r) /\ ~AtAnswer(r) /\ ~AtAnswer(r)'
      <3>1. ~Forwarding(r) /\ ~AtAnswer(r)
        BY <1>1, Idle
      <3>2. \A x : manager' # <<"answering", r, x>>
        BY <1>3
      <3>3. QED
        BY <3>1, <3>2 DEF AtAnswer
    <2>3. Forwarding(r)' => found
      BY <1>3 DEF Forwarding, AtAnswer
    <2>4. Token(r, d) /\ approvals[r] = d
      BY <1>1, <1>2, <1>4 DEF Token, RequestInv, AgreeingOf
    <2>5. ASSUME NEW x \in Decided, Token(r, x)' PROVE Token(r, x)
      <3>1. <<"resolved", r, x>> \in ToSet(channel') => <<"resolved", r, x>> \in ToSet(channel)
        BY <1>1
      <3>2. manager' \in {<<"found", r, x>>, <<"answering", r, x>>} => x = d
        BY <1>3
      <3>3. QED
        BY <1>1, <2>4, <2>5, <3>1, <3>2 DEF Token, Sent
    <2>6. AnsweringOf(r)'
      BY <1>1, <1>4, <2>1, <2>2, <2>3 DEF RequestInv, AnsweringOf, SameAgent
    <2>7. AgreeingOf(r)'
      BY <1>1, <1>4, <2>5, AgreeingKept DEF RequestInv
    <2>8. FindableOf(r)'
      BY <1>1, <1>3, <1>4, <1>5, <2>1, <2>2 DEF RequestInv, FindableOf, SameAgent, SameTasks, SameTask
    <2>9. SilenceOf(r)'
      <3>1. found => Token(r, d)'
        BY <1>3 DEF Token
      <3>2. SessionOf[r] \notin hosted => Process(SessionOf[r])' # "live"
        BY <1>4, <1>5 DEF HInv, SessionInv, LivingOf, SameTasks, SameTask
      <3>3. QED
        BY <1>6, <3>1, <3>2 DEF SilenceOf, Coming
    <2>10. CarriedOf(r)' /\ FollowingOf(r)'
      BY <1>1, <1>4, <1>6, <2>1, LinkUnchanged, CommandsKept DEF RequestInv
    <2>11. QED
      BY <2>6, <2>7, <2>8, <2>9, <2>10 DEF RequestInv
  <1>12. QED
    BY <1>7, <1>9, <1>10, <1>11 DEF HInv

LEMMA HandleEventKeeps ==
    ASSUME HInv, handle_runner_event PROVE HInv'
  <1> DEFINE e == Head(channel)
  <1>1. EventTaken
    BY DEF handle_runner_event, EventTaken
  <1>2. e \in RunnerEvents
    BY <1>1, EventTakenKeeps
  <1>3. /\ e[1] \in {"created", "command"} => e = <<e[1], e[2]>> /\ e[2] \in Sessions
        /\ e[1] = "resolved" => e = <<"resolved", e[2], e[3]>> /\ e[2] \in Requests /\ e[3] \in Decided
    BY <1>2, EventShape
  <1>4. history \in HistoryRecs
    BY TypesParts DEF HInv
  <1>5. CASE e[1] = "created" /\ StartSession(e[2])
    <2>1. e = <<"created", e[2]>> /\ e[2] \in Sessions
          /\ \A t \in Sessions : e = <<"created", t>> => t = e[2]
      BY <1>3, <1>5
    <2>2. CASE /\ e[2] \in hosted /\ manager' = <<"idle">>
               /\ UNCHANGED <<hosted, tasks, history>>
      <3>1. SameHistory
        BY <2>2, HistoryUnchanged
      <3>2. QED
        BY <1>1, <1>4, <1>5, <2>1, <2>2, <3>1, EventIgnored DEF SameHistory
    <2>3. CASE /\ manager' = <<"idle">>
               /\ history' = [history EXCEPT !.unstarted = @ \cup {e[2]}]
               /\ UNCHANGED <<hosted, tasks>>
      <3>1. /\ history' \in HistoryRecs /\ Unstarted' = Unstarted \cup {e[2]}
            /\ Lost' = Lost /\ Missed' = Missed /\ Revived' = Revived
        <4> DEFINE s == e[2]
        <4>1. s \in Sessions /\ history' = [history EXCEPT !.unstarted = @ \cup {s}]
          BY <2>1, <2>3
        <4> HIDE DEF s
        <4>2. /\ history' \in HistoryRecs /\ Unstarted' = Unstarted \cup {s}
              /\ Lost' = Lost /\ Missed' = Missed /\ Revived' = Revived
          BY <1>4, <4>1 DEF HistoryRecs, Lost, Missed, Unstarted, Revived
        <4>3. QED
          BY <4>2 DEF s
      <3>2. QED
        BY <1>1, <1>5, <2>1, <2>3, <3>1, EventIgnored
    <2>4. CASE /\ e[2] \notin hosted /\ tasks[e[2]].process = "none"
               /\ hosted' = hosted \cup {e[2]}
               /\ tasks' = [tasks EXCEPT ![e[2]].process = "live", ![e[2]].input = "queue"]
               /\ manager' = <<"starting", e[2]>> /\ UNCHANGED history
      <3> DEFINE s == e[2]
      <3>1. /\ s \in Sessions /\ e = <<"created", s>> /\ s \notin hosted /\ Process(s) = "none"
            /\ hosted' = hosted \cup {s}
            /\ tasks' = [tasks EXCEPT ![s].process = "live", ![s].input = "queue"]
            /\ manager' = <<"starting", s>> /\ UNCHANGED history
        BY <2>1, <2>4 DEF Process
      <3> HIDE DEF s
      <3>2. QED
        BY <1>1, <3>1, ProcessStarts
    <2>5. QED
      BY <1>5, <2>2, <2>3, <2>4 DEF StartSession
  <1>6. CASE e[1] = "resolved" /\ LookUpRequest(e[2], e[3])
    BY <1>1, <1>3, <1>6, LookUpKeeps
  <1>7. CASE e[1] = "command" /\ UNCHANGED <<manager, hosted, tasks, history>>
    <2>1. SameHistory
      BY <1>7, HistoryUnchanged
    <2>2. \A t \in Sessions : e # <<"created", t>>
      BY <1>7
    <2>3. manager' = <<"idle">>
      BY <1>1, <1>7 DEF EventTaken
    <2>4. QED
      BY <1>1, <1>4, <1>7, <2>1, <2>2, <2>3, EventIgnored DEF SameHistory
  <1>8. QED
    BY <1>5, <1>6, <1>7 DEF handle_runner_event

\* The tasks of a session go on, or are aborted by cleanup_all_tasks.
Cleaned(s) ==
    /\ Input(s)' = Input(s) \/ (Input(s) = "served" /\ Input(s)' = "closed")
    /\ ExitTask(s)' = ExitTask(s) \/ (ExitTask(s) = "waiting" /\ ExitTask(s)' = "aborted")

LEMMA SessionServed ==
    ASSUME HInv, NEW s \in Sessions, SameLines, SameHistory,
           UNCHANGED <<cp, table, channel, hosted>>, Starting(s)' <=> Starting(s),
           Cleaned(s), Process(s)' = Process(s),
           \/ Reader(s)' = Reader(s)
           \/ ExitTask(s) # "off" /\ Reader(s)' \in {<<"off">>, <<"idle">>, <<"ended">>}
    PROVE  SessionInv(s)'
  <1>1. SessionInv(s) /\ Pipe(s)' = Pipe(s) /\ (Created(s)' <=> Created(s))
    BY DEF HInv, SameLines, Created
  <1>2. AskingOf(s)'
    BY <1>1, AskingKept DEF SessionInv, SameLines
  <1>3. LivingOf(s)'
    BY <1>1 DEF SessionInv, LivingOf, Cleaned
  <1>4. RecordedOf(s)'
    BY <1>1, RecordedKept DEF SessionInv, SameLines
  <1>5. BackedOf(s)'
    BY <1>1, BackedKept DEF SessionInv, SameHistory, Cleaned
  <1>6. QED
    BY <1>2, <1>3, <1>4, <1>5 DEF SessionInv

LEMMA SessionCleaned ==
    ASSUME HInv, NEW s \in Sessions, SameAgent, SameHistory,
           UNCHANGED <<cp, table, channel, hosted>>, Starting(s)' <=> Starting(s),
           Cleaned(s), Process(s)' = Process(s),
           \/ Reader(s)' = Reader(s)
           \/ ExitTask(s) # "off" /\ Reader(s)' \in {<<"off">>, <<"idle">>, <<"ended">>}
    PROVE  SessionInv(s)'
  BY SessionServed DEF SameAgent, SameLines

\* The types after a step of the host that leaves the rest alone.
LEMMA HostStepTypes ==
    ASSUME HInv, UNCHANGED <<inbound, cpVars, apiVars, history>>, HostTypes', agent' \in AgentRecs
    PROVE  /\ Types' /\ SameHistory
           /\ UNCHANGED <<inbound, cp, calls, link, table, approvals, mid, channel>>
  <1>1. CpTypes' /\ ApiTypes' /\ history' \in HistoryRecs
    BY TypesParts DEF HInv, CpTypes, ApiTypes, cpVars, apiVars
  <1>2. Types'
    BY <1>1, TypesPartsNext
  <1>3. QED
    BY <1>2, HistoryUnchanged DEF cpVars, apiVars

\* The tasks of a session start.
LEMMA StartTasksKeeps ==
    ASSUME HInv, StartTasks PROVE HInv'
  <1>1. PICK s \in Sessions : manager = <<"starting", s>>
    BY ManagerShape DEF HInv, StartTasks
  <1> DEFINE rec == [tasks[s] EXCEPT !.input = "served", !.reader = <<"idle">>, !.exit = "waiting"]
  <1>2. /\ tasks' = [tasks EXCEPT ![s].input = "served", ![s].reader = <<"idle">>,
                                  ![s].exit = "waiting"]
        /\ manager' = <<"started">>
        /\ UNCHANGED <<inbound, cpVars, apiVars, hosted, r2a, a2r, agent, history>>
    BY <1>1 DEF StartTasks
  <1>3. tasks \in [Sessions -> TaskRecs] /\ HostTypes
    BY TypesParts DEF HInv, HostTypes
  <1>4. tasks' = [tasks EXCEPT ![s] = rec]
    BY <1>1, <1>2, <1>3, Zenon
  <1>5. /\ rec \in TaskRecs /\ rec.input = "served" /\ rec.reader = <<"idle">>
        /\ rec.exit = "waiting" /\ rec.process = Process(s)
    <2>1. tasks[s] \in TaskRecs
      BY <1>1, <1>3
    <2>2. QED
      BY <2>1 DEF TaskRecs, Process, ReaderPcs
  <1> HIDE DEF rec
  <1>6. /\ tasks' \in [Sessions -> TaskRecs]
        /\ \A t \in Sessions \ {s} : SameTask(t)
        /\ Process(s)' = Process(s) /\ Input(s)' = "served"
        /\ ExitTask(s)' = "waiting" /\ Reader(s)' = <<"idle">>
    BY <1>1, <1>3, <1>4, <1>5, TaskMoves
  <1>7. SameAgent /\ agent' \in AgentRecs /\ HostTypes'
    BY <1>2, <1>3, <1>6, AgentUnchanged, TypesParts DEF HInv, HostTypes
  <1>8. Types' /\ SameHistory /\ UNCHANGED <<inbound, cp, calls, link, table, approvals, mid, channel>>
    BY <1>2, <1>7, HostStepTypes
  <1>9. SessionInv(s) /\ Input(s) = "queue" /\ ExitTask(s) = "off" /\ Process(s) # "none"
        /\ Reader(s) = <<"off">>
    BY <1>1 DEF HInv, SessionInv, LivingOf, Starting
  <1>10. ASSUME NEW t \in Sessions \ {s} PROVE SessionInv(t)'
    <2>1. SameTask(t) /\ (Starting(t)' <=> Starting(t))
      BY <1>1, <1>2, <1>6 DEF Starting
    <2>2. QED
      BY <1>2, <1>7, <1>8, <2>1, SessionCleaned DEF SameTask, Cleaned
  <1>11. SessionInv(s)'
    <2>1. Pipe(s)' = Pipe(s) /\ (Created(s)' <=> Created(s)) /\ ~Starting(s)'
      BY <1>1, <1>2, <1>7, <1>8 DEF SameAgent, Created, Starting
    <2>2. AskingOf(s)'
      BY <1>1, <1>6, <1>7, <1>9, <2>1, AskingKept DEF SessionInv, SameAgent
    <2>3. LivingOf(s)'
      BY <1>2, <1>6, <1>9, <2>1 DEF SessionInv, LivingOf
    <2>4. RecordedOf(s)'
      BY <1>1, <1>6, <1>7, <1>8, <1>9, <2>1, RecordedKept DEF SessionInv, SameAgent
    <2>5. BackedOf(s)'
      BY <1>1, <1>6, <1>8, <1>9, <2>1, BackedKept DEF SessionInv, SameHistory
    <2>6. QED
      BY <2>2, <2>3, <2>4, <2>5 DEF SessionInv
  <1>12. ASSUME NEW r \in Requests PROVE RequestInv(r)'
    <2>1. SessionOf[r] \in Sessions /\ RequestInv(r)
      BY HostAssumption DEF HInv
    <2>2. AsideOf(r)
      BY <1>1, <1>2, AsideWhen DEF Occupied
    <2>3. CASE SessionOf[r] # s
      <3>1. SameTask(SessionOf[r]) /\ (Unreachable(SessionOf[r]) => Unreachable(SessionOf[r])')
        BY <1>2, <1>6, <2>1, <2>3 DEF SameTask, Unreachable
      <3>2. QED
        BY <1>2, <1>7, <1>8, <2>2, <3>1, RequestAside DEF SameTask, SameHistory
    <2>4. CASE SessionOf[r] = s
      <3>1. (Opening(r)' <=> Opening(r)) /\ (Refused(r)' <=> Refused(r))
        BY <1>6, <1>9, <2>4 DEF Opening, Refused
      <3>2. RequestKept(r)
        BY <1>2, <1>7, <1>8, <2>1, <2>2, <3>1, LinesKeep DEF RequestKept, SameAgent, AsideOf
      <3>3. LinkKept(r)
        BY <1>8, LinkUnchanged
      <3>4. \A d \in Decided : Token(r, d)' <=> Token(r, d)
        BY <1>8, <2>2, <3>3 DEF Token, LinkKept, AsideOf
      <3>5. Unreachable(s) => Unreachable(s)'
        BY <1>2, <1>9 DEF Unreachable
      <3>6. QED
        BY <1>6, <1>8, <1>9, <2>1, <2>4, <3>2, <3>3, <3>4, <3>5, RequestStays DEF SameHistory
    <2>5. QED
      BY <2>3, <2>4
  <1>13. QED
    BY <1>8, <1>10, <1>11, <1>12 DEF HInv

\* spawn_hosted_session returns and drops a clone of the manager.
LEMMA EndSpawnKeeps ==
    ASSUME HInv, EndSpawn PROVE HInv'
  <1>1. /\ manager = <<"started">> /\ manager' = <<"idle">> /\ DropClone(tasks)
        /\ UNCHANGED <<inbound, cpVars, apiVars, hosted, r2a, a2r, agent, history>>
    BY DEF EndSpawn
  <1>2. HostTypes /\ tasks \in [Sessions -> TaskRecs] /\ agent \in AgentRecs
    BY TypesParts DEF HInv, HostTypes
  <1>3. /\ tasks' \in [Sessions -> TaskRecs]
        /\ \A s \in Sessions :
              /\ Process(s)' = Process(s) /\ Reader(s)' = Reader(s) /\ Cleaned(s)
    BY <1>1, <1>2, DropMoves DEF Process, Reader, Input, ExitTask, Cleaned
  <1>4. SameAgent /\ agent' \in AgentRecs /\ HostTypes'
    BY <1>1, <1>2, <1>3, AgentUnchanged DEF HostTypes
  <1>5. Types' /\ SameHistory /\ UNCHANGED <<inbound, cp, calls, link, table, approvals, mid, channel>>
    BY <1>1, <1>4, HostStepTypes
  <1>6. ASSUME NEW s \in Sessions PROVE SessionInv(s)'
    <2>1. Starting(s)' <=> Starting(s)
      BY <1>1 DEF Starting
    <2>2. QED
      BY <1>1, <1>3, <1>4, <1>5, <2>1, SessionCleaned
  <1>7. ASSUME NEW r \in Requests PROVE RequestInv(r)'
    <2>1. AsideOf(r) /\ SessionOf[r] \in Sessions
      BY <1>1, HostAssumption, AsideWhen DEF Occupied
    <2>2. /\ Input(SessionOf[r]) = "closed" => Input(SessionOf[r])' = "closed"
          /\ Unreachable(SessionOf[r]) => Unreachable(SessionOf[r])'
      BY <1>1, <1>3, <2>1 DEF Cleaned, Unreachable
    <2>3. QED
      BY <1>1, <1>3, <1>4, <1>5, <2>1, <2>2, RequestAside DEF SameHistory
  <1>8. QED
    BY <1>5, <1>6, <1>7 DEF HInv

\* Second scope of forward_approval_resolution: the request leaves the maps.
LEMMA ForgetRequestKeeps ==
    ASSUME HInv, ForgetRequest PROVE HInv'
  <1>1. PICK r \in Requests, d \in Decided : manager = <<"found", r, d>>
    <2>1. /\ manager = <<manager[1], manager[2], manager[3]>>
          /\ manager[2] \in Requests /\ manager[3] \in Decided /\ manager[1] = "found"
      BY ManagerShape DEF HInv, ForgetRequest
    <2>2. QED
      BY <2>1
  <1>2. /\ r2a' = r2a \ {r} /\ a2r' = a2r \ {r} /\ manager' = <<"answering", r, d>>
        /\ UNCHANGED <<inbound, cpVars, apiVars, hosted, tasks, agent, history>>
    BY <1>1 DEF ForgetRequest
  <1>3. HostTypes /\ agent \in AgentRecs /\ SessionOf[r] \in Sessions /\ RequestInv(r)
    BY HostAssumption, TypesParts DEF HInv
  <1>4. SameAgent /\ SameTasks /\ agent' \in AgentRecs
    BY <1>2, <1>3, AgentUnchanged, TasksUnchanged
  <1>5. HostTypes'
    BY <1>2, <1>3 DEF HostTypes
  <1>6. Types' /\ SameHistory /\ UNCHANGED <<inbound, cp, calls, link, table, approvals, mid, channel>>
    BY <1>2, <1>4, <1>5, HostStepTypes
  <1>7. ASSUME NEW s \in Sessions PROVE SessionInv(s)'
    <2>1. (Starting(s)' <=> Starting(s)) /\ SameTask(s)
      BY <1>1, <1>2, <1>4 DEF Starting, SameTasks
    <2>2. QED
      BY <1>2, <1>4, <1>6, <2>1, SessionCleaned DEF SameTask, Cleaned
  <1>8. ASSUME NEW q \in Requests \ {r} PROVE RequestInv(q)'
    <2>1. ~Occupied(q) /\ ~(manager'[1] \in {"found", "answering"} /\ manager'[2] = q)
      BY <1>1, <1>2 DEF Occupied
    <2>2. AsideOf(q) /\ SameTask(SessionOf[q])
      BY <1>4, <2>1, HostAssumption, AsideWhen DEF SameTasks
    <2>3. Unreachable(SessionOf[q]) => Unreachable(SessionOf[q])'
      BY <1>2, <2>2 DEF SameTask, Unreachable
    <2>4. QED
      BY <1>2, <1>4, <1>6, <2>2, <2>3, RequestAside DEF SameTask, SameHistory
  <1>9. RequestInv(r)'
    <2>1. Forwarding(r) /\ Token(r, d) /\ AtAnswer(r)' /\ Token(r, d)'
      BY <1>1, <1>2 DEF Forwarding, Token, AtAnswer
    <2>2. ~Unhandled(r) /\ ~Opening(r) /\ Answers(r) = <<>>
      BY <1>3, <2>1 DEF RequestInv, AnsweringOf
    <2>3. /\ Unhandled(r)' <=> Unhandled(r)
          /\ Opening(r)' <=> Opening(r)
      BY <1>3, <1>4, LinesKeep, ReaderKeeps DEF SameAgent, SameTasks, SameTask
    <2>4. \A e \in Decided : Token(r, e)' => Token(r, e)
      <3>1. \A e : manager' \in {<<"found", r, e>>, <<"answering", r, e>>} => e = d
        BY <1>2
      <3>2. QED
        BY <1>6, <2>1, <3>1 DEF Token, Sent
    <2>5. AnsweringOf(r)'
      BY <1>2, <1>3, <1>4, <1>6, <2>2, <2>3 DEF RequestInv, AnsweringOf, SameAgent
    <2>6. AgreeingOf(r)'
      BY <1>3, <1>6, <2>4, AgreeingKept DEF RequestInv
    <2>7. FindableOf(r)' /\ SilenceOf(r)'
      BY <2>1 DEF FindableOf, SilenceOf, Coming
    <2>8. CarriedOf(r)' /\ FollowingOf(r)'
      BY <1>3, <1>6, <2>3, LinkUnchanged, CommandsKept DEF RequestInv, SameHistory
    <2>9. QED
      BY <2>5, <2>6, <2>7, <2>8 DEF RequestInv
  <1>10. QED
    BY <1>6, <1>7, <1>8, <1>9 DEF HInv

\* The agent is told, once, unless its input is gone.
LEMMA AnswerGiven ==
    ASSUME HInv, NEW r \in Requests, NEW behavior \in {"allow", "deny"},
           send_json_line(r, behavior), Answers(r) = <<>>
    PROVE  /\ agent' \in AgentRecs /\ SameLines
           /\ \A q \in Requests \ {r} : Answers(q)' = Answers(q)
           /\ \/ Answers(r)' = <<behavior>>
              \/ Answers(r)' = <<>> /\ Unreachable(SessionOf[r])
  <1>1. /\ agent' \in AgentRecs /\ Asked' = Asked /\ Withdrawn' = Withdrawn
        /\ \A s \in Sessions : Pipe(s)' = Pipe(s)
        /\ \A q \in Requests \ {r} : Answers(q)' = Answers(q)
        /\ IF SessionOf[r] \in hosted /\ Input(SessionOf[r]) # "closed"
           THEN Answers(r)' = Append(Answers(r), behavior)
           ELSE Answers(r)' = Answers(r)
    BY SendMoves DEF HInv
  <1>2. Append(<<>>, behavior) = <<behavior>>
    OBVIOUS
  <1>3. QED
    BY <1>1, <1>2 DEF SameLines, Unreachable

LEMMA ForwardAnswerKeeps ==
    ASSUME HInv, ForwardAnswer PROVE HInv'
  <1>1. PICK r \in Requests, d \in Decided : manager = <<"answering", r, d>>
    <2>1. /\ manager = <<manager[1], manager[2], manager[3]>>
          /\ manager[2] \in Requests /\ manager[3] \in Decided /\ manager[1] = "answering"
      BY ManagerShape DEF HInv, ForwardAnswer
    <2>2. QED
      BY <2>1
  <1> DEFINE behavior == Behavior(d)
  <1>2. /\ send_json_line(r, behavior) /\ manager' = <<"idle">>
        /\ UNCHANGED <<inbound, cpVars, apiVars, hosted, r2a, a2r, tasks, history>>
    BY <1>1 DEF ForwardAnswer
  <1>3. behavior \in {"allow", "deny"} /\ (behavior = "allow" => d = "Approved")
    BY DEF Behavior
  <1> HIDE DEF behavior
  <1>4. HostTypes /\ SessionOf[r] \in Sessions /\ RequestInv(r)
    BY HostAssumption, TypesParts DEF HInv
  <1>5. AtAnswer(r) /\ Forwarding(r) /\ Token(r, d)
    BY <1>1 DEF Forwarding, Token, AtAnswer
  <1>6. ~Unhandled(r) /\ ~Opening(r) /\ Answers(r) = <<>> /\ r \notin a2r /\ approvals[r] = d
    BY <1>4, <1>5 DEF RequestInv, AnsweringOf, AgreeingOf
  <1>7. /\ agent' \in AgentRecs /\ SameLines
        /\ \A q \in Requests \ {r} : Answers(q)' = Answers(q)
        /\ \/ Answers(r)' = <<behavior>>
           \/ Answers(r)' = <<>> /\ Unreachable(SessionOf[r])
    BY <1>2, <1>3, <1>6, AnswerGiven
  <1>8. HostTypes' /\ SameTasks
    BY <1>2, <1>4, TasksUnchanged DEF HostTypes
  <1>9. Types' /\ SameHistory /\ UNCHANGED <<inbound, cp, calls, link, table, approvals, mid, channel>>
    BY <1>2, <1>7, <1>8, HostStepTypes
  <1>10. ASSUME NEW s \in Sessions PROVE SessionInv(s)'
    <2>1. (Starting(s)' <=> Starting(s)) /\ SameTask(s)
      BY <1>1, <1>2, <1>8 DEF Starting, SameTasks
    <2>2. QED
      BY <1>2, <1>7, <1>9, <2>1, SessionServed DEF SameTask, Cleaned
  <1>11. ASSUME NEW q \in Requests \ {r} PROVE RequestInv(q)'
    <2>1. ~Occupied(q) /\ ~(manager'[1] \in {"found", "answering"} /\ manager'[2] = q)
      BY <1>1, <1>2 DEF Occupied
    <2>2. AsideOf(q) /\ SameTask(SessionOf[q])
      BY <1>8, <2>1, HostAssumption, AsideWhen DEF SameTasks
    <2>3. Unreachable(SessionOf[q]) => Unreachable(SessionOf[q])'
      BY <1>2, <2>2 DEF SameTask, Unreachable
    <2>4. QED
      BY <1>2, <1>7, <1>9, <2>2, <2>3, RequestApart DEF SameTask, SameHistory
  <1>12. RequestInv(r)'
    <2>1. /\ ~Forwarding(r)' /\ ~AtAnswer(r)'
          /\ \A e : manager' \notin {<<"found", r, e>>, <<"answering", r, e>>}
      BY <1>2, IdleNext
    <2>2. /\ Unhandled(r)' <=> Unhandled(r)
          /\ Opening(r)' <=> Opening(r)
      BY <1>4, <1>7, <1>8, LinesKeep, ReaderKeeps DEF SameLines, SameTasks, SameTask
    <2>3. \A e \in Decided : Token(r, e)' => Token(r, e)
      BY <1>9, <2>1 DEF Token, Sent
    <2>4. Answers(r)' = <<"allow">> => d = "Approved"
      BY <1>3, <1>7
    <2>5. Answers(r)' \in {<<>>, <<"allow">>, <<"deny">>}
      BY <1>3, <1>7
    <2>6. AnsweringOf(r)'
      BY <1>2, <1>6, <1>9, <2>1, <2>2, <2>4, <2>5 DEF AnsweringOf
    <2>7. AgreeingOf(r)'
      BY <1>4, <1>9, <2>3, AgreeingKept DEF RequestInv
    <2>8. Answers(r)' # <<>> \/ Unreachable(SessionOf[r])'
      <3>1. <<behavior>> # <<>>
        OBVIOUS
      <3>2. Unreachable(SessionOf[r]) => Unreachable(SessionOf[r])'
        BY <1>2, <1>4, <1>8 DEF Unreachable, SameTasks, SameTask
      <3>3. QED
        BY <1>7, <3>1, <3>2
    <2>9. FindableOf(r)'
      BY <2>8 DEF FindableOf, Unreachable
    <2>10. SessionOf[r] \notin hosted' => Process(SessionOf[r])' # "live"
      BY <1>4, <1>10 DEF SessionInv, LivingOf
    <2>11. SilenceOf(r)'
      BY <2>8, <2>10 DEF SilenceOf, Unreachable
    <2>12. CarriedOf(r)' /\ FollowingOf(r)'
      BY <1>4, <1>9, <2>2, LinkUnchanged, CommandsKept DEF RequestInv, SameHistory
    <2>13. QED
      BY <2>6, <2>7, <2>9, <2>11, <2>12 DEF RequestInv
  <1>13. QED
    BY <1>9, <1>10, <1>11, <1>12 DEF HInv

-----------------------------------------------------------------------------
(* The agent *)

\* A live agent writes a line; it asks for a request once.
LEMMA LineAdded ==
    ASSUME HInv, NEW s \in Sessions, NEW line \in Lines,
           NEW asked \in SUBSET Requests, NEW cancelled \in SUBSET Requests,
           Writes(asked, cancelled, s, line), Process(s) = "live",
           UNCHANGED <<inbound, cpVars, apiVars, hostVars>>,
           history' \in HistoryRecs, SameHistory,
           Asked \subseteq asked, Withdrawn \subseteq cancelled,
           \A r \in Requests : line = <<"ask", r>> => s = SessionOf[r] /\ r \in asked /\ r \notin Asked,
           \A r \in Requests : line = <<"cancel", r>> => s = SessionOf[r] /\ r \in cancelled,
           \A r \in Requests : r \in asked => r \in Asked \/ line = <<"ask", r>>
    PROVE  HInv'
  <1>1. Types /\ Pipe(s) \in Seq(Lines)
    BY FieldTypes DEF HInv
  <1>2. /\ agent' \in AgentRecs /\ Asked' = asked /\ Withdrawn' = cancelled
        /\ \A t \in Sessions \ {s} : Pipe(t)' = Pipe(t)
        /\ Pipe(s)' = Append(Pipe(s), line)
        /\ \A q \in Requests : Answers(q)' = Answers(q)
    BY <1>1, LineWritten
  <1>3. /\ Len(Pipe(s)') = Len(Pipe(s)) + 1 /\ Len(Pipe(s)) \in Nat
        /\ \A i \in 1 .. Len(Pipe(s)) : Pipe(s)'[i] = Pipe(s)[i]
        /\ Pipe(s)'[Len(Pipe(s)) + 1] = line
    BY <1>1, <1>2, SeqAppend
  <1> DEFINE n == Len(Pipe(s))
  <1>4. /\ \A i \in 1 .. Len(Pipe(s)') : i \in 1 .. n \/ i = n + 1
        /\ \A i \in 1 .. n : i \in 1 .. Len(Pipe(s)') /\ i # n + 1
        /\ n + 1 \in 1 .. Len(Pipe(s)')
    BY <1>3
  <1>5. SameTasks /\ UNCHANGED <<inbound, cp, calls, link, table, approvals, mid, channel, manager, hosted, a2r>>
    BY TasksUnchanged DEF cpVars, apiVars, hostVars
  <1>6. Types'
    <2>1. CpTypes' /\ ApiTypes' /\ HostTypes'
      BY <1>1, TypesParts DEF CpTypes, ApiTypes, HostTypes, cpVars, apiVars, hostVars
    <2>2. QED
      BY <1>2, <2>1, TypesPartsNext
  <1>7. ASSUME NEW t \in Sessions, AskingOf(t)' PROVE SessionInv(t)'
    <2>1. SessionInv(t) /\ SameTask(t)
      BY <1>5 DEF HInv, SameTasks
    <2>2. (Starting(t)' <=> Starting(t)) /\ (Created(t)' <=> Created(t))
      BY <1>5 DEF Starting, Created
    <2>3. LivingOf(t)'
      BY <1>5, <2>1, <2>2, LivingKept DEF SessionInv
    <2>4. RecordedOf(t)'
      <3>1. Pipe(t)' = Pipe(t) \/ Process(t) # "none"
        BY <1>2
      <3>2. \A r \in RequestsOf(t) : r \in Asked' => r \in Asked \/ Process(t) # "none"
        BY <1>2 DEF RequestsOf
      <3>3. QED
        BY <1>5, <2>1, <2>2, <3>1, <3>2, RecordedKept DEF SessionInv, SameTask
    <2>5. BackedOf(t)'
      BY <1>5, <2>1, <2>2, BackedKept DEF SessionInv, SameTask, SameHistory
    <2>6. QED
      BY <1>7, <2>3, <2>4, <2>5 DEF SessionInv
  <1>8. ASSUME NEW t \in Sessions \ {s} PROVE AskingOf(t)'
    BY <1>2, <1>5, AskingKept DEF HInv, SessionInv, SameTasks, SameTask
  <1>9. AskingOf(s)'
    <2>1. AskingOf(s) /\ Reader(s)' = Reader(s)
      BY <1>5 DEF HInv, SessionInv, SameTasks, SameTask
    <2>2. ASSUME NEW r \in Requests, NEW i \in 1 .. Len(Pipe(s)')
          PROVE  /\ Pipe(s)'[i] = <<"ask", r>> => s = SessionOf[r] /\ r \in Asked'
                 /\ Pipe(s)'[i] = <<"cancel", r>> => s = SessionOf[r] /\ r \in Withdrawn'
      <3>1. CASE i \in 1 .. n
        BY <1>2, <1>3, <2>1, <3>1 DEF AskingOf
      <3>2. CASE i = n + 1
        BY <1>2, <1>3, <3>2
      <3>3. QED
        BY <1>4, <3>1, <3>2
    <2>3. ASSUME NEW r \in Requests, NEW i \in 1 .. Len(Pipe(s)'), NEW j \in 1 .. Len(Pipe(s)'),
                 Pipe(s)'[i] = <<"ask", r>>, Pipe(s)'[j] = <<"ask", r>>
          PROVE  i = j
      <3>1. \A l \in 1 .. n : Pipe(s)'[l] = <<"ask", r>> => r \in Asked
        BY <1>3, <2>1 DEF AskingOf
      <3>2. Pipe(s)'[n + 1] = <<"ask", r>> => r \notin Asked
        BY <1>3
      <3>3. CASE i \in 1 .. n /\ j \in 1 .. n
        BY <1>3, <2>1, <2>3, <3>3 DEF AskingOf
      <3>4. QED
        BY <1>4, <2>3, <3>1, <3>2, <3>3
    <2>4. QED
      BY <1>2, <2>1, <2>2, <2>3 DEF AskingOf
  <1>10. ASSUME NEW r \in Requests PROVE RequestInv(r)'
    <2>1. SessionOf[r] \in Sessions /\ RequestInv(r) /\ AsideOf(r)
      BY <1>5, HostAssumption, AsideWhen DEF HInv
    <2>2. SameTask(SessionOf[r])
      BY <1>5, <2>1 DEF SameTasks
    <2>3. Unhandled(r)' <=> Unhandled(r)
      <3>1. CASE line = <<"ask", r>>
        <4>1. InPipe(r)' /\ r \notin Asked
          BY <1>3, <1>4, <3>1 DEF InPipe
        <4>2. QED
          BY <4>1 DEF Unhandled
      <3>2. CASE line # <<"ask", r>>
        <4>1. r \in Asked' <=> r \in Asked
          BY <1>2, <3>2
        <4>2. CASE SessionOf[r] # s
          BY <1>2, <2>1, <4>1, <4>2 DEF Unhandled, InPipe
        <4>3. CASE SessionOf[r] = s
          <5>1. (\E i \in 1 .. Len(Pipe(s)') : Pipe(s)'[i] = <<"ask", r>>)
                <=> (\E i \in 1 .. n : Pipe(s)[i] = <<"ask", r>>)
            <6>1. ASSUME NEW i \in 1 .. Len(Pipe(s)'), Pipe(s)'[i] = <<"ask", r>>
                  PROVE  i \in 1 .. n /\ Pipe(s)[i] = <<"ask", r>>
              BY <1>3, <1>4, <3>2, <6>1
            <6>2. ASSUME NEW i \in 1 .. n, Pipe(s)[i] = <<"ask", r>>
                  PROVE  i \in 1 .. Len(Pipe(s)') /\ Pipe(s)'[i] = <<"ask", r>>
              BY <1>3, <1>4, <6>2
            <6>3. QED
              BY <6>1, <6>2
          <5>2. QED
            BY <4>1, <4>3, <5>1 DEF Unhandled, InPipe
        <4>4. QED
          BY <4>2, <4>3
      <3>3. QED
        BY <3>1, <3>2
    <2>4. (Opening(r)' <=> Opening(r)) /\ (Refused(r)' <=> Refused(r))
      BY <2>2, ReaderKeeps DEF SameTask
    <2>5. RequestKept(r)
      BY <1>2, <1>5, <2>1, <2>3, <2>4 DEF RequestKept, AsideOf
    <2>6. LinkKept(r)
      BY <1>5, LinkUnchanged
    <2>7. \A d \in Decided : Token(r, d)' <=> Token(r, d)
      BY <1>5, <2>1, <2>6 DEF Token, LinkKept, AsideOf
    <2>8. Unreachable(SessionOf[r]) => Unreachable(SessionOf[r])'
      BY <1>5, <2>2 DEF SameTask, Unreachable
    <2>9. QED
      BY <1>5, <2>1, <2>2, <2>5, <2>6, <2>7, <2>8, RequestStays DEF SameTask, SameHistory
  <1>11. QED
    BY <1>6, <1>7, <1>8, <1>9, <1>10 DEF HInv

LEMMA AskKeeps ==
    ASSUME HInv, NEW r \in Requests, Ask(r) PROVE HInv'
  <1> DEFINE s == SessionOf[r]
             line == <<"ask", r>>
             asked == Asked \cup {r}
             cancelled == Withdrawn
  <1>1. Types /\ agent \in AgentRecs /\ history \in HistoryRecs /\ s \in Sessions
    BY TypesParts, HostAssumption DEF HInv
  <1>2. Writes(asked, cancelled, s, line)
    BY <1>1 DEF Ask, Writes, Asked, Withdrawn, Pipe, AgentRecs
  <1>3. /\ line \in Lines /\ asked \in SUBSET Requests /\ cancelled \in SUBSET Requests
        /\ Asked \subseteq asked /\ Withdrawn \subseteq cancelled
    BY <1>1, FieldTypes DEF Lines
  <1>4. Process(s) = "live" /\ r \notin Asked /\ UNCHANGED <<inbound, cpVars, apiVars, hostVars, history>>
    BY DEF Ask, Live, Process, Asked
  <1>5. /\ \A q \in Requests : line = <<"ask", q>> => s = SessionOf[q] /\ q \in asked /\ q \notin Asked
        /\ \A q \in Requests : line # <<"cancel", q>>
        /\ \A q \in Requests : q \in asked => q \in Asked \/ line = <<"ask", q>>
    BY <1>4
  <1> HIDE DEF s, line, asked, cancelled
  <1>6. QED
    BY <1>1, <1>2, <1>3, <1>4, <1>5, HistoryUnchanged, LineAdded

LEMMA WithdrawKeeps ==
    ASSUME HInv, NEW r \in Requests, Withdraw(r) PROVE HInv'
  <1> DEFINE s == SessionOf[r]
             line == <<"cancel", r>>
             asked == Asked
             cancelled == Withdrawn \cup {r}
  <1>1. Types /\ agent \in AgentRecs /\ history \in HistoryRecs /\ s \in Sessions
    BY TypesParts, HostAssumption DEF HInv
  <1>2. Writes(asked, cancelled, s, line)
    BY <1>1 DEF Withdraw, Writes, Asked, Withdrawn, Pipe, AgentRecs
  <1>3. /\ line \in Lines /\ asked \in SUBSET Requests /\ cancelled \in SUBSET Requests
        /\ Asked \subseteq asked /\ Withdrawn \subseteq cancelled
    BY <1>1, FieldTypes DEF Lines
  <1>4. Process(s) = "live" /\ UNCHANGED <<inbound, cpVars, apiVars, hostVars, history>>
    BY DEF Withdraw, Live, Process
  <1>5. /\ \A q \in Requests : line # <<"ask", q>>
        /\ \A q \in Requests : line = <<"cancel", q>> => s = SessionOf[q] /\ q \in cancelled
        /\ \A q \in Requests : q \in asked => q \in Asked
    OBVIOUS
  <1> HIDE DEF s, line, asked, cancelled
  <1>6. QED
    BY <1>1, <1>2, <1>3, <1>4, <1>5, HistoryUnchanged, LineAdded

LEMMA ReportKeeps ==
    ASSUME HInv, NEW s \in Sessions, NEW state \in AgentStates, Report(s, state) PROVE HInv'
  <1> DEFINE line == <<"state", state>>
             asked == Asked
             cancelled == Withdrawn
  <1>1. Types /\ agent \in AgentRecs
    BY TypesParts DEF HInv
  <1>2. Writes(asked, cancelled, s, line)
    BY <1>1 DEF Report, Writes, Asked, Withdrawn, Pipe, AgentRecs
  <1>3. /\ line \in Lines /\ asked \in SUBSET Requests /\ cancelled \in SUBSET Requests
        /\ Asked \subseteq asked /\ Withdrawn \subseteq cancelled
    BY <1>1, FieldTypes DEF Lines
  <1>4. Process(s) = "live" /\ UNCHANGED <<inbound, cpVars, apiVars, hostVars>>
    BY DEF Report, Live, Process
  <1>5. /\ \A q \in Requests : line # <<"ask", q>> /\ line # <<"cancel", q>>
        /\ \A q \in Requests : q \in asked => q \in Asked
    OBVIOUS
  <1>6. history' \in HistoryRecs /\ SameHistory
    BY <1>1, UpdateCounted DEF Report
  <1> HIDE DEF line, asked, cancelled
  <1>7. QED
    BY <1>1, <1>2, <1>3, <1>4, <1>5, <1>6, LineAdded

\* The process of an agent ends.
LEMMA ExitKeeps ==
    ASSUME HInv, NEW s \in Sessions, Exit(s) PROVE HInv'
  <1> DEFINE rec == [tasks[s] EXCEPT !.process = "exited"]
  <1>1. HostTypes /\ tasks \in [Sessions -> TaskRecs] /\ agent \in AgentRecs
    BY TypesParts DEF HInv, HostTypes
  <1>2. /\ tasks' = [tasks EXCEPT ![s] = rec] /\ Process(s) = "live"
        /\ UNCHANGED <<inbound, cpVars, apiVars, manager, hosted, r2a, a2r, agent, history>>
    BY Zenon DEF Exit, Live, Process
  <1>3. /\ rec \in TaskRecs /\ rec.process = "exited" /\ rec.input = Input(s)
        /\ rec.exit = ExitTask(s) /\ rec.reader = Reader(s)
    <2>1. tasks[s] \in TaskRecs
      BY <1>1
    <2>2. QED
      BY <2>1 DEF TaskRecs, Input, ExitTask, Reader
  <1> HIDE DEF rec
  <1>4. /\ tasks' \in [Sessions -> TaskRecs]
        /\ \A t \in Sessions \ {s} : SameTask(t)
        /\ Process(s)' = "exited" /\ Input(s)' = Input(s)
        /\ ExitTask(s)' = ExitTask(s) /\ Reader(s)' = Reader(s)
    BY <1>1, <1>2, <1>3, TaskMoves
  <1>5. SameAgent /\ agent' \in AgentRecs /\ HostTypes'
    BY <1>1, <1>2, <1>4, AgentUnchanged DEF HostTypes
  <1>6. Types' /\ SameHistory /\ UNCHANGED <<inbound, cp, calls, link, table, approvals, mid, channel>>
    BY <1>2, <1>5, HostStepTypes
  <1>7. \A t \in Sessions : (Starting(t)' <=> Starting(t)) /\ (Created(t)' <=> Created(t))
    BY <1>2, <1>6 DEF Starting, Created
  <1>8. ASSUME NEW t \in Sessions \ {s} PROVE SessionInv(t)'
    BY <1>2, <1>4, <1>5, <1>6, <1>7, SessionCleaned DEF SameTask, Cleaned
  <1>9. SessionInv(s)'
    <2>1. SessionInv(s) /\ Pipe(s)' = Pipe(s)
      BY <1>5 DEF HInv, SameAgent
    <2>2. AskingOf(s)'
      BY <1>4, <1>5, <2>1, AskingKept DEF SessionInv, SameAgent
    <2>3. LivingOf(s)'
      BY <1>2, <1>4, <1>7, <2>1 DEF SessionInv, LivingOf
    <2>4. table'[s] # "absent" /\ Process(s)' # "none"
      BY <1>2, <1>4, <1>6, <2>1 DEF SessionInv, RecordedOf
    <2>5. RecordedOf(s)'
      BY <2>4 DEF RecordedOf
    <2>6. BackedOf(s)'
      BY <1>4, <1>6, <2>1, <2>4 DEF SessionInv, BackedOf, SameHistory
    <2>7. QED
      BY <2>2, <2>3, <2>5, <2>6 DEF SessionInv
  <1>10. ASSUME NEW r \in Requests PROVE RequestInv(r)'
    <2>1. AsideOf(r) /\ SessionOf[r] \in Sessions
      BY <1>2, HostAssumption, AsideWhen
    <2>2. /\ Reader(SessionOf[r])' = Reader(SessionOf[r])
          /\ Input(SessionOf[r])' = Input(SessionOf[r])
          /\ Process(SessionOf[r])' = "live" => Process(SessionOf[r]) = "live"
      BY <1>4, <2>1 DEF SameTask
    <2>3. Unreachable(SessionOf[r]) => Unreachable(SessionOf[r])'
      BY <1>2, <2>2 DEF Unreachable
    <2>4. QED
      BY <1>2, <1>5, <1>6, <2>1, <2>2, <2>3, RequestAside DEF SameHistory
  <1>11. QED
    BY <1>6, <1>8, <1>9, <1>10 DEF HInv

-----------------------------------------------------------------------------
(* The exit task *)

\* The handle is removed once the process is gone.
LEMMA RemoveHandleKeeps ==
    ASSUME HInv, NEW s \in Sessions, RemoveHandle(s) PROVE HInv'
  <1> DEFINE rec == [tasks[s] EXCEPT !.exit = "removed"]
  <1>1. HostTypes /\ tasks \in [Sessions -> TaskRecs] /\ agent \in AgentRecs
    BY TypesParts DEF HInv, HostTypes
  <1>2. /\ tasks' = [tasks EXCEPT ![s] = rec] /\ hosted' = hosted \ {s}
        /\ Process(s) = "exited" /\ ExitTask(s) = "waiting"
        /\ UNCHANGED <<inbound, cpVars, apiVars, manager, r2a, a2r, agent, history>>
    BY Zenon DEF RemoveHandle, Process, ExitTask
  <1>3. /\ rec \in TaskRecs /\ rec.process = Process(s) /\ rec.input = Input(s)
        /\ rec.exit = "removed" /\ rec.reader = Reader(s)
    <2>1. tasks[s] \in TaskRecs
      BY <1>1
    <2>2. QED
      BY <2>1 DEF TaskRecs, Input, Process, Reader
  <1> HIDE DEF rec
  <1>4. /\ tasks' \in [Sessions -> TaskRecs]
        /\ \A t \in Sessions \ {s} : SameTask(t)
        /\ Process(s)' = Process(s) /\ Input(s)' = Input(s)
        /\ ExitTask(s)' = "removed" /\ Reader(s)' = Reader(s)
    BY <1>1, <1>2, <1>3, TaskMoves
  <1>5. SameAgent /\ agent' \in AgentRecs /\ HostTypes'
    BY <1>1, <1>2, <1>4, AgentUnchanged DEF HostTypes
  <1>6. Types' /\ SameHistory /\ UNCHANGED <<inbound, cp, calls, link, table, approvals, mid, channel>>
    BY <1>2, <1>5, HostStepTypes
  <1>7. \A t \in Sessions : (Starting(t)' <=> Starting(t)) /\ (Created(t)' <=> Created(t))
    BY <1>2, <1>6 DEF Starting, Created
  <1>8. ASSUME NEW t \in Sessions PROVE SessionInv(t)'
    <2>1. SessionInv(t) /\ Pipe(t)' = Pipe(t) /\ Process(t)' = Process(t) /\ Reader(t)' = Reader(t)
          /\ Input(t)' = Input(t)
      BY <1>4, <1>5 DEF HInv, SameAgent, SameTask
    <2>2. AskingOf(t)'
      BY <1>5, <2>1, AskingKept DEF SessionInv, SameAgent
    <2>3. LivingOf(t)'
      BY <1>2, <1>4, <1>7, <2>1 DEF SessionInv, LivingOf, SameTask
    <2>4. RecordedOf(t)'
      BY <1>5, <1>6, <1>7, <2>1, RecordedKept DEF SessionInv, SameAgent
    <2>5. BackedOf(t)'
      BY <1>4, <1>6, <1>7, <2>1, BackedKept DEF SessionInv, SameHistory, SameTask
    <2>6. QED
      BY <2>2, <2>3, <2>4, <2>5 DEF SessionInv
  <1>9. ASSUME NEW r \in Requests PROVE RequestInv(r)'
    <2>1. AsideOf(r) /\ SessionOf[r] \in Sessions
      BY <1>2, HostAssumption, AsideWhen
    <2>2. /\ Reader(SessionOf[r])' = Reader(SessionOf[r])
          /\ Input(SessionOf[r])' = Input(SessionOf[r])
          /\ Process(SessionOf[r])' = Process(SessionOf[r])
      BY <1>4, <2>1 DEF SameTask
    <2>3. Unreachable(SessionOf[r]) => Unreachable(SessionOf[r])'
      BY <1>2, <2>2 DEF Unreachable
    <2>4. QED
      BY <1>2, <1>5, <1>6, <2>1, <2>2, <2>3, RequestAside DEF SameHistory
  <1>10. QED
    BY <1>6, <1>8, <1>9 DEF HInv

\* The end of the session is recorded.
LEMMA RecordExitKeeps ==
    ASSUME HInv, NEW s \in Sessions, RecordExit(s) PROVE HInv'
  <1> DEFINE rec == [tasks[s] EXCEPT !.exit = "done"]
             ts == [tasks EXCEPT ![s] = rec]
  <1>1. /\ CpTypes /\ ApiTypes /\ HostTypes /\ tasks \in [Sessions -> TaskRecs] /\ agent \in AgentRecs
        /\ history \in HistoryRecs
    BY TypesParts DEF HInv, HostTypes
  <1>2. /\ ExitTask(s) = "removed" /\ table' \in Ended(s) /\ DropClone(ts)
        /\ UNCHANGED <<inbound, cpVars, approvals, mid, channel, manager, hosted, r2a, a2r,
                       agent, history>>
    BY Zenon DEF RecordExit, ExitTask
  <1>3. /\ rec \in TaskRecs /\ rec.process = Process(s) /\ rec.input = Input(s)
        /\ rec.exit = "done" /\ rec.reader = Reader(s)
    <2>1. tasks[s] \in TaskRecs
      BY <1>1
    <2>2. QED
      BY <2>1 DEF TaskRecs, Input, Process, Reader
  <1> HIDE DEF rec
  <1>4. /\ ts \in [Sessions -> TaskRecs] /\ ts[s] = rec
        /\ \A t \in Sessions \ {s} : ts[t] = tasks[t]
    BY <1>1, <1>3
  <1> HIDE DEF ts
  <1>12. /\ tasks' \in [Sessions -> TaskRecs]
         /\ \A t \in Sessions :
               /\ Process(t)' = ts[t].process /\ Reader(t)' = ts[t].reader
               /\ Input(t)' = ts[t].input \/ (ts[t].input = "served" /\ Input(t)' = "closed")
               /\ ExitTask(t)' = ts[t].exit \/ (ts[t].exit = "waiting" /\ ExitTask(t)' = "aborted")
    BY <1>2, <1>4, DropMoves
  <1>13. /\ \A t \in Sessions :
               /\ Process(t)' = Process(t) /\ Reader(t)' = Reader(t)
               /\ Input(t)' = Input(t) \/ (Input(t) = "served" /\ Input(t)' = "closed")
         /\ \A t \in Sessions \ {s} : Cleaned(t)
         /\ ExitTask(s)' = "done"
    BY <1>3, <1>4, <1>12 DEF Process, Reader, Input, ExitTask, Cleaned
  <1>5. /\ table' \in [Sessions -> {"absent"} \cup RunnerStates]
        /\ table'[s] \in {"Completed", "Failed"}
        /\ \A t \in Sessions \ {s} : table'[t] = table[t]
    <2>1. PICK state \in {"Completed", "Failed"} : table' = [table EXCEPT ![s] = state]
      BY <1>2 DEF Ended
    <2>2. table \in [Sessions -> {"absent"} \cup RunnerStates] /\ state \in RunnerStates
      BY <1>1 DEF ApiTypes, RunnerStates, Terminal
    <2>3. QED
      BY <2>1, <2>2
  <1>6. SameAgent /\ SameHistory
    BY <1>2, AgentUnchanged, HistoryUnchanged
  <1>7. Types'
    <2>1. CpTypes' /\ ApiTypes' /\ HostTypes' /\ agent' \in AgentRecs /\ history' \in HistoryRecs
      BY <1>1, <1>2, <1>5, <1>12 DEF CpTypes, ApiTypes, HostTypes, cpVars
    <2>2. QED
      BY <2>1, TypesPartsNext
  <1>8. /\ \A t \in Sessions : (Starting(t)' <=> Starting(t)) /\ (Created(t)' <=> Created(t))
        /\ UNCHANGED <<cp, calls, link>>
    BY <1>2 DEF Starting, Created, cpVars
  <1>9. ASSUME NEW t \in Sessions PROVE SessionInv(t)'
    <2>1. SessionInv(t) /\ Pipe(t)' = Pipe(t) /\ Process(t)' = Process(t) /\ Reader(t)' = Reader(t)
      BY <1>6, <1>13 DEF HInv, SameAgent
    <2>2. AskingOf(t)'
      BY <1>6, <2>1, AskingKept DEF SessionInv, SameAgent
    <2>3. LivingOf(t)'
      <3>1. CASE t # s
        BY <1>2, <1>8, <1>13, <2>1, <3>1 DEF SessionInv, LivingOf, Cleaned
      <3>2. CASE t = s
        BY <1>2, <1>8, <1>13, <2>1, <3>2 DEF SessionInv, LivingOf
      <3>3. QED
        BY <3>1, <3>2
    <2>4. RecordedOf(t)'
      BY <1>5, <1>6, <1>8, <2>1, RecordedKept DEF SessionInv, SameAgent
    <2>5. BackedOf(t)'
      <3>1. CASE t # s
        BY <1>5, <1>6, <1>8, <1>13, <2>1, <3>1, BackedKept DEF SessionInv, SameHistory, Cleaned
      <3>2. CASE t = s
        <4>1. Process(s)' # "none" /\ table'[s] \notin Counted
          BY <1>2, <1>5, <2>1, <3>2 DEF SessionInv, LivingOf, Counted
        <4>2. QED
          BY <3>2, <4>1 DEF BackedOf
      <3>3. QED
        BY <3>1, <3>2
    <2>6. QED
      BY <2>2, <2>3, <2>4, <2>5 DEF SessionInv
  <1>10. ASSUME NEW r \in Requests PROVE RequestInv(r)'
    <2>1. AsideOf(r) /\ SessionOf[r] \in Sessions
      BY <1>2, HostAssumption, AsideWhen
    <2>2. /\ Reader(SessionOf[r])' = Reader(SessionOf[r])
          /\ Input(SessionOf[r]) = "closed" => Input(SessionOf[r])' = "closed"
          /\ Process(SessionOf[r])' = Process(SessionOf[r])
      BY <1>13, <2>1
    <2>3. Unreachable(SessionOf[r]) => Unreachable(SessionOf[r])'
      BY <1>2, <2>2 DEF Unreachable
    <2>4. QED
      BY <1>2, <1>6, <1>8, <2>1, <2>2, <2>3, RequestAside DEF SameHistory
  <1>11. QED
    BY <1>7, <1>9, <1>10 DEF HInv

-----------------------------------------------------------------------------
(* The reader of a session *)

\* A reader moves while the rest of the invariant's variables stand still: every
\* session is all right, and every request it does not open, store or close.
LEMMA ReaderStepKeeps ==
    ASSUME HInv, NEW s \in Sessions, NEW pc \in ReaderPcs, ReaderAt(s, pc),
           Reader(s)[1] \in ReaderSteps,
           \A r \in Requests, x \in ReaderSteps : pc = <<x, r>> =>
              s = SessionOf[r] /\ (x \in {"cancelling", "posted", "withdrawn", "failed"} => r \in Withdrawn),
           UNCHANGED <<inbound, cpVars, apiVars, manager, hosted, agent, history>>,
           r2a' \subseteq Requests, a2r' \subseteq Requests
    PROVE  /\ Types' /\ SameHistory /\ SameAgent
           /\ UNCHANGED <<inbound, cp, calls, link, table, approvals, mid, channel>>
           /\ \A t \in Sessions : SessionInv(t)' /\ Process(t)' = Process(t) /\ Input(t)' = Input(t)
           /\ Reader(s)' = pc
           /\ \A q \in Requests : SessionOf[q] # s => Reader(SessionOf[q])' = Reader(SessionOf[q])
           /\ \A q \in Requests : AsideOf(q) /\ (Unhandled(q)' <=> Unhandled(q))
           /\ \A q \in Requests :
                 /\ q \in a2r' <=> q \in a2r
                 /\ Opening(q)' <=> Opening(q)
                 /\ Refused(q)' <=> Refused(q)
                 => RequestInv(q)'
  <1>1. Types /\ HostTypes /\ agent \in AgentRecs
    BY TypesParts DEF HInv
  <1>2. /\ tasks' \in [Sessions -> TaskRecs]
        /\ \A t \in Sessions \ {s} : SameTask(t)
        /\ Process(s)' = Process(s) /\ Input(s)' = Input(s)
        /\ ExitTask(s)' = ExitTask(s) /\ Reader(s)' = pc
    BY <1>1, ReaderMoves
  <1>3. HostTypes' /\ SameAgent /\ agent' \in AgentRecs
    BY <1>1, <1>2, AgentUnchanged DEF HostTypes
  <1>4. Types' /\ SameHistory /\ UNCHANGED <<inbound, cp, calls, link, table, approvals, mid, channel>>
    BY <1>3, HostStepTypes
  <1>5. \A t \in Sessions : (Starting(t)' <=> Starting(t)) /\ (Created(t)' <=> Created(t))
    BY <1>4 DEF Starting, Created
  <1>6. ASSUME NEW t \in Sessions \ {s} PROVE SessionInv(t)'
    BY <1>2, <1>3, <1>4, <1>5, SessionCleaned DEF SameTask, Cleaned
  <1>7. SessionInv(s)'
    <2>1. SessionInv(s) /\ Pipe(s)' = Pipe(s)
      BY <1>3 DEF HInv, SameAgent
    <2>2. AskingOf(s)'
      BY <1>2, <1>3, <2>1 DEF SessionInv, AskingOf, SameAgent
    <2>3. Reader(s) # <<"off">>
      BY DEF ReaderSteps
    <2>4. LivingOf(s)'
      BY <1>2, <1>5, <2>1, <2>3 DEF SessionInv, LivingOf
    <2>5. RecordedOf(s)'
      BY <1>2, <1>3, <1>4, <1>5, <2>1, RecordedKept DEF SessionInv, SameAgent
    <2>6. BackedOf(s)'
      BY <1>2, <1>4, <1>5, <2>1, BackedKept DEF SessionInv, SameHistory
    <2>7. QED
      BY <2>2, <2>4, <2>5, <2>6 DEF SessionInv
  <1>8. ASSUME NEW q \in Requests
        PROVE  /\ SessionOf[q] \in Sessions
               /\ AsideOf(q) /\ (Unhandled(q)' <=> Unhandled(q))
               /\ SessionOf[q] # s => Reader(SessionOf[q])' = Reader(SessionOf[q])
               /\ Process(SessionOf[q])' = Process(SessionOf[q])
               /\ Input(SessionOf[q])' = Input(SessionOf[q])
    <2>1. SessionOf[q] \in Sessions /\ AsideOf(q)
      BY HostAssumption, AsideWhen
    <2>2. Unhandled(q)' <=> Unhandled(q)
      BY <1>3, <2>1, LinesKeep DEF SameAgent
    <2>3. QED
      BY <1>2, <2>1, <2>2 DEF SameTask
  <1>9. ASSUME NEW q \in Requests,
               (q \in a2r' <=> q \in a2r), (Opening(q)' <=> Opening(q)), (Refused(q)' <=> Refused(q))
        PROVE  RequestInv(q)'
    <2>1. RequestInv(q) /\ LinkKept(q)
      BY <1>4, LinkUnchanged DEF HInv
    <2>2. RequestKept(q)
      BY <1>3, <1>4, <1>8, <1>9 DEF RequestKept, SameAgent, AsideOf
    <2>3. \A d \in Decided : Token(q, d)' <=> Token(q, d)
      BY <1>4, <1>8, <2>1 DEF Token, LinkKept, AsideOf
    <2>4. Unreachable(SessionOf[q]) => Unreachable(SessionOf[q])'
      BY <1>8 DEF Unreachable
    <2>5. QED
      BY <1>4, <1>8, <2>1, <2>2, <2>3, <2>4, RequestStays DEF SameHistory
  <1>10. \A t \in Sessions : SessionInv(t)' /\ Process(t)' = Process(t) /\ Input(t)' = Input(t)
    BY <1>2, <1>6, <1>7 DEF SameTask
  <1>11. QED
    BY <1>2, <1>3, <1>4, <1>8, <1>9, <1>10

\* Where a reader stands, it opens nothing else.
LEMMA ReaderElsewhere ==
    ASSUME NEW q \in Requests, NEW s \in Sessions, SessionOf[q] = s,
           Reader(s)[1] \in {"idle", "ended", "cancelling", "posted", "withdrawn", "failed"} \/ Reader(s)[2] # q
    PROVE  ~Opening(q) /\ ~Refused(q)
  BY DEF Opening, Refused

LEMMA ReaderElsewhereNext ==
    ASSUME NEW q \in Requests, NEW s \in Sessions, SessionOf[q] = s, NEW pc, Reader(s)' = pc,
           pc[1] \in {"idle", "ended", "cancelling", "posted", "withdrawn", "failed"} \/ pc[2] # q
    PROVE  ~Opening(q)' /\ ~Refused(q)'
  BY DEF Opening, Refused

\* First map of handle_control_request.
LEMMA StoreRequestKeeps ==
    ASSUME HInv, NEW s \in Sessions, StoreRequest(s) PROVE HInv'
  <1>1. PICK r \in Requests : Reader(s) = <<"created", r>>
    BY ReaderShape DEF HInv, StoreRequest, ReaderSteps
  <1> DEFINE pc == <<"stored", r>>
  <1>2. /\ r2a' = r2a \cup {r} /\ ReaderAt(s, pc)
        /\ UNCHANGED <<inbound, cpVars, apiVars, manager, hosted, a2r, agent, history>>
    BY <1>1 DEF StoreRequest
  <1>3. HostTypes /\ s = SessionOf[r]
    BY <1>1, TypesParts DEF HInv, SessionInv, AskingOf, ReaderSteps
  <1>4. r2a' \subseteq Requests /\ a2r' \subseteq Requests
    BY <1>2, <1>3 DEF HostTypes
  <1>5. /\ pc \in ReaderPcs /\ Reader(s)[1] \in ReaderSteps
        /\ \A q \in Requests, x \in ReaderSteps : pc = <<x, q>> =>
              s = SessionOf[q] /\ (x \in {"cancelling", "posted", "withdrawn", "failed"} => q \in Withdrawn)
    BY <1>1, <1>3 DEF ReaderPcs, ReaderSteps
  <1>6. pc = <<"stored", r>>
    OBVIOUS
  <1> HIDE DEF pc
  <1>7. /\ Types' /\ \A t \in Sessions : SessionInv(t)'
        /\ Reader(s)' = pc
        /\ \A q \in Requests : SessionOf[q] # s => Reader(SessionOf[q])' = Reader(SessionOf[q])
        /\ \A q \in Requests :
              /\ q \in a2r' <=> q \in a2r
              /\ Opening(q)' <=> Opening(q)
              /\ Refused(q)' <=> Refused(q)
              => RequestInv(q)'
    BY <1>2, <1>4, <1>5, ReaderStepKeeps
  <1>8. ASSUME NEW q \in Requests PROVE (Opening(q)' <=> Opening(q)) /\ (Refused(q)' <=> Refused(q))
    <2>1. CASE SessionOf[q] # s
      BY <1>7, <2>1, ReaderKeeps
    <2>2. CASE SessionOf[q] = s
      BY <1>1, <1>6, <1>7, <2>2 DEF Opening, Refused
    <2>3. QED
      BY <2>1, <2>2
  <1>9. QED
    BY <1>2, <1>7, <1>8 DEF HInv

\* A reader comes back to idle: what ReaderStepKeeps says of it.
LEMMA ReaderReturns ==
    ASSUME HInv, NEW s \in Sessions, NEW r \in Requests, NEW x \in ReaderSteps, Reader(s) = <<x, r>>,
           ReaderAt(s, <<"idle">>),
           UNCHANGED <<inbound, cpVars, apiVars, manager, hosted, agent, history>>,
           r2a' \subseteq Requests, a2r' \subseteq Requests,
           \A q \in Requests \ {r} : q \in a2r' <=> q \in a2r
    PROVE  /\ Types' /\ SameHistory /\ SameAgent /\ s = SessionOf[r]
           /\ x \in {"cancelling", "posted", "withdrawn", "failed"} => r \in Withdrawn
           /\ UNCHANGED <<inbound, cp, calls, link, table, approvals, mid, channel>>
           /\ \A t \in Sessions : SessionInv(t)' /\ Process(t)' = Process(t) /\ Input(t)' = Input(t)
           /\ AsideOf(r) /\ (Unhandled(r)' <=> Unhandled(r)) /\ ~Opening(r)' /\ ~Refused(r)'
           /\ \A q \in Requests \ {r} : RequestInv(q)'
           /\ /\ r \in a2r' <=> r \in a2r
              /\ x \in {"cancelling", "posted", "withdrawn", "failed"}
              => RequestInv(r)'
  <1> DEFINE pc == <<"idle">>
  <1>1. /\ pc \in ReaderPcs /\ \A q, y : pc # <<y, q>>
        /\ Reader(s)[1] \in ReaderSteps /\ pc[1] = "idle"
    BY DEF ReaderPcs
  <1>2. s = SessionOf[r] /\ (x \in {"cancelling", "posted", "withdrawn", "failed"} => r \in Withdrawn)
    BY DEF HInv, SessionInv, AskingOf
  <1>3. ReaderAt(s, pc)
    OBVIOUS
  <1> HIDE DEF pc
  <1>4. /\ Types' /\ SameHistory /\ SameAgent
        /\ UNCHANGED <<inbound, cp, calls, link, table, approvals, mid, channel>>
        /\ \A t \in Sessions : SessionInv(t)' /\ Process(t)' = Process(t) /\ Input(t)' = Input(t)
        /\ Reader(s)' = pc
        /\ \A q \in Requests : SessionOf[q] # s => Reader(SessionOf[q])' = Reader(SessionOf[q])
        /\ \A q \in Requests : AsideOf(q) /\ (Unhandled(q)' <=> Unhandled(q))
        /\ \A q \in Requests :
              /\ q \in a2r' <=> q \in a2r
              /\ Opening(q)' <=> Opening(q)
              /\ Refused(q)' <=> Refused(q)
              => RequestInv(q)'
    BY <1>1, <1>3, ReaderStepKeeps
  <1>5. \A q \in Requests : SessionOf[q] = s => ~Opening(q)' /\ ~Refused(q)'
    BY <1>1, <1>4, ReaderElsewhereNext
  <1>6. ASSUME NEW q \in Requests, q # r \/ x \in {"cancelling", "posted", "withdrawn", "failed"}
        PROVE  (Opening(q)' <=> Opening(q)) /\ (Refused(q)' <=> Refused(q))
    <2>1. CASE SessionOf[q] # s
      BY <1>4, <2>1, ReaderKeeps
    <2>2. CASE SessionOf[q] = s
      <3>1. ~Opening(q) /\ ~Refused(q)
        BY <1>6, <2>2, ReaderElsewhere
      <3>2. QED
        BY <1>5, <2>2, <3>1
    <2>3. QED
      BY <2>1, <2>2
  <1>7. QED
    BY <1>2, <1>4, <1>5, <1>6

\* Second map of handle_control_request: the request can be found.
LEMMA StoreApprovalKeeps ==
    ASSUME HInv, NEW s \in Sessions, StoreApproval(s) PROVE HInv'
  <1>1. PICK r \in Requests : Reader(s) = <<"stored", r>>
    BY ReaderShape DEF HInv, StoreApproval, ReaderSteps
  <1>2. /\ a2r' = a2r \cup {r} /\ ReaderAt(s, <<"idle">>) /\ UNCHANGED r2a
        /\ UNCHANGED <<inbound, cpVars, apiVars, manager, hosted, agent, history>>
    BY <1>1 DEF StoreApproval, ReverseStored
  <1>3. r2a' \subseteq Requests /\ a2r' \subseteq Requests
    BY <1>2, TypesParts DEF HInv, HostTypes
  <1>4. \A q \in Requests \ {r} : q \in a2r' <=> q \in a2r
    BY <1>2
  <1>5. /\ Types' /\ SameHistory /\ SameAgent /\ s = SessionOf[r]
        /\ UNCHANGED <<inbound, cp, calls, link, table, approvals, mid, channel>>
        /\ \A t \in Sessions : SessionInv(t)' /\ Process(t)' = Process(t) /\ Input(t)' = Input(t)
        /\ AsideOf(r) /\ (Unhandled(r)' <=> Unhandled(r)) /\ ~Opening(r)'
        /\ \A q \in Requests \ {r} : RequestInv(q)'
    BY <1>1, <1>2, <1>3, <1>4, ReaderReturns DEF ReaderSteps
  <1>6. RequestInv(r)'
    <2>1. RequestInv(r) /\ Opening(r) /\ ~Refused(r)
      BY <1>1, <1>5 DEF HInv, Opening, Refused
    <2>2. ~Unhandled(r) /\ ~Forwarding(r) /\ Answers(r) = <<>>
      BY <2>1 DEF RequestInv, AnsweringOf
    <2>3. AtAnswer(r)' => Forwarding(r)'
      BY DEF Forwarding
    <2>4. AnsweringOf(r)'
      BY <1>5, <2>1, <2>2, <2>3 DEF RequestInv, AnsweringOf, SameAgent, AsideOf
    <2>5. \A d \in Decided : Token(r, d)' <=> Token(r, d)
      BY <1>5 DEF Token, Sent, AsideOf
    <2>6. AgreeingOf(r)'
      BY <1>5, <2>1, <2>5, AgreeingKept DEF RequestInv
    <2>7. FindableOf(r)'
      BY <1>2 DEF FindableOf
    <2>8. SilenceOf(r)'
      <3>1. Coming(r) => Coming(r)'
        BY <2>1, <2>5 DEF Coming
      <3>2. QED
        BY <1>5, <2>1, <3>1, SilenceKept DEF RequestInv, SameAgent, SameHistory
    <2>9. CarriedOf(r)' /\ FollowingOf(r)'
      BY <1>5, <2>1, LinkUnchanged, CommandsKept DEF RequestInv, SameHistory
    <2>10. QED
      BY <2>4, <2>6, <2>7, <2>8, <2>9 DEF RequestInv
  <1>7. QED
    BY <1>5, <1>6 DEF HInv

\* cancel_pending_approval, last scope: the withdrawn request leaves the map.
LEMMA EndCancelKeeps ==
    ASSUME HInv, NEW s \in Sessions, EndCancel(s) PROVE HInv'
  <1>1. PICK r \in Requests : Reader(s) = <<"withdrawn", r>>
    BY ReaderShape DEF HInv, EndCancel, ReaderSteps
  <1>2. /\ a2r' = a2r \ {r} /\ ReaderAt(s, <<"idle">>) /\ UNCHANGED r2a
        /\ UNCHANGED <<inbound, cpVars, apiVars, manager, hosted, agent, history>>
    BY <1>1 DEF EndCancel
  <1>3. r2a' \subseteq Requests /\ a2r' \subseteq Requests
    BY <1>2, TypesParts DEF HInv, HostTypes
  <1>4. \A q \in Requests \ {r} : q \in a2r' <=> q \in a2r
    BY <1>2
  <1>5. /\ Types' /\ SameHistory /\ SameAgent /\ s = SessionOf[r] /\ r \in Withdrawn
        /\ UNCHANGED <<inbound, cp, calls, link, table, approvals, mid, channel>>
        /\ \A t \in Sessions : SessionInv(t)' /\ Process(t)' = Process(t) /\ Input(t)' = Input(t)
        /\ AsideOf(r) /\ (Unhandled(r)' <=> Unhandled(r)) /\ ~Opening(r)'
        /\ \A q \in Requests \ {r} : RequestInv(q)'
    BY <1>1, <1>2, <1>3, <1>4, ReaderReturns DEF ReaderSteps
  <1>6. RequestInv(r)'
    <2>1. RequestInv(r) /\ r \in Withdrawn' /\ r \notin a2r'
      BY <1>2, <1>5 DEF HInv, SameAgent
    <2>2. AnsweringOf(r)'
      BY <1>5, <2>1 DEF RequestInv, AnsweringOf, SameAgent, AsideOf
    <2>3. \A d \in Decided : Token(r, d)' <=> Token(r, d)
      BY <1>5 DEF Token, Sent, AsideOf
    <2>4. AgreeingOf(r)'
      BY <1>5, <2>1, <2>3, AgreeingKept DEF RequestInv
    <2>5. FindableOf(r)' /\ SilenceOf(r)'
      BY <2>1 DEF FindableOf, SilenceOf
    <2>6. CarriedOf(r)' /\ FollowingOf(r)'
      BY <1>5, <2>1, LinkUnchanged, CommandsKept DEF RequestInv, SameHistory
    <2>7. QED
      BY <2>2, <2>4, <2>5, <2>6 DEF RequestInv
  <1>7. QED
    BY <1>5, <1>6 DEF HInv

\* The entry is put back after a cancellation that was refused.
LEMMA RestoreRequestKeeps ==
    ASSUME HInv, NEW s \in Sessions, RestoreRequest(s) PROVE HInv'
  <1>1. PICK r \in Requests : Reader(s) = <<"failed", r>>
    BY ReaderShape DEF HInv, RestoreRequest, ReaderSteps
  <1>2. /\ r2a' = r2a \cup {r} /\ ReaderAt(s, <<"idle">>) /\ UNCHANGED a2r
        /\ UNCHANGED <<inbound, cpVars, apiVars, manager, hosted, agent, history>>
    BY <1>1 DEF RestoreRequest
  <1>3. r2a' \subseteq Requests /\ a2r' \subseteq Requests
    BY <1>2, TypesParts DEF HInv, HostTypes
  <1>4. \A q \in Requests \ {r} : q \in a2r' <=> q \in a2r
    BY <1>2
  <1>5. /\ Types' /\ \A t \in Sessions : SessionInv(t)'
        /\ RequestInv(r)' /\ \A q \in Requests \ {r} : RequestInv(q)'
    BY <1>1, <1>2, <1>3, <1>4, ReaderReturns DEF ReaderSteps
  <1>6. QED
    BY <1>5 DEF HInv

\* The end of stdout: the reader drops its clones of the manager.
LEMMA EndReaderKeeps ==
    ASSUME HInv, NEW s \in Sessions, EndReader(s) PROVE HInv'
  <1> DEFINE rec == [tasks[s] EXCEPT !.reader = <<"ended">>]
             ts == [tasks EXCEPT ![s] = rec]
  <1>1. HostTypes /\ tasks \in [Sessions -> TaskRecs] /\ agent \in AgentRecs
    BY TypesParts DEF HInv, HostTypes
  <1>2. /\ Reader(s) = <<"idle">> /\ DropClone(ts)
        /\ UNCHANGED <<inbound, cpVars, apiVars, manager, hosted, r2a, a2r, agent, history>>
    BY Zenon DEF EndReader
  <1>3. /\ rec \in TaskRecs /\ rec.process = Process(s) /\ rec.input = Input(s)
        /\ rec.exit = ExitTask(s) /\ rec.reader = <<"ended">>
    <2>1. tasks[s] \in TaskRecs
      BY <1>1
    <2>2. QED
      BY <2>1 DEF TaskRecs, Input, Process, ExitTask, ReaderPcs
  <1> HIDE DEF rec
  <1>4. /\ ts \in [Sessions -> TaskRecs] /\ ts[s] = rec
        /\ \A t \in Sessions \ {s} : ts[t] = tasks[t]
    BY <1>1, <1>3
  <1> HIDE DEF ts
  <1>5. /\ tasks' \in [Sessions -> TaskRecs]
        /\ \A t \in Sessions :
              /\ Process(t)' = ts[t].process /\ Reader(t)' = ts[t].reader
              /\ Input(t)' = ts[t].input \/ (ts[t].input = "served" /\ Input(t)' = "closed")
              /\ ExitTask(t)' = ts[t].exit \/ (ts[t].exit = "waiting" /\ ExitTask(t)' = "aborted")
    BY <1>2, <1>4, DropMoves
  <1>6. /\ \A t \in Sessions : Process(t)' = Process(t) /\ Cleaned(t)
        /\ \A t \in Sessions \ {s} : Reader(t)' = Reader(t)
        /\ Reader(s)' = <<"ended">>
    BY <1>3, <1>4, <1>5 DEF Process, Reader, Input, ExitTask, Cleaned
  <1>7. SameAgent /\ agent' \in AgentRecs /\ HostTypes'
    BY <1>1, <1>2, <1>5, AgentUnchanged DEF HostTypes
  <1>8. Types' /\ SameHistory /\ UNCHANGED <<inbound, cp, calls, link, table, approvals, mid, channel>>
    BY <1>2, <1>7, HostStepTypes
  <1>9. ASSUME NEW t \in Sessions PROVE SessionInv(t)'
    <2>1. Starting(t)' <=> Starting(t)
      BY <1>2 DEF Starting
    <2>2. t = s => ExitTask(t) # "off"
      BY <1>2 DEF HInv, SessionInv, LivingOf
    <2>3. QED
      BY <1>2, <1>6, <1>7, <1>8, <2>1, <2>2, SessionCleaned
  <1>10. ASSUME NEW q \in Requests PROVE RequestInv(q)'
    <2>1. SessionOf[q] \in Sessions /\ RequestInv(q) /\ LinkKept(q) /\ AsideOf(q)
      BY <1>2, <1>8, HostAssumption, LinkUnchanged, AsideWhen DEF HInv
    <2>2. (Opening(q)' <=> Opening(q)) /\ (Refused(q)' <=> Refused(q))
      <3>1. CASE SessionOf[q] # s
        BY <1>6, <2>1, <3>1, ReaderKeeps
      <3>2. CASE SessionOf[q] = s
        BY <1>2, <1>6, <3>2 DEF Opening, Refused
      <3>3. QED
        BY <3>1, <3>2
    <2>3. RequestKept(q)
      BY <1>2, <1>7, <1>8, <2>1, <2>2, LinesKeep DEF RequestKept, SameAgent, AsideOf
    <2>4. \A d \in Decided : Token(q, d)' <=> Token(q, d)
      BY <1>8, <2>1 DEF Token, LinkKept, AsideOf
    <2>5. /\ Input(SessionOf[q]) = "closed" => Input(SessionOf[q])' = "closed"
          /\ Unreachable(SessionOf[q]) => Unreachable(SessionOf[q])'
      BY <1>2, <1>6, <2>1 DEF Unreachable, Cleaned
    <2>6. QED
      BY <1>6, <1>8, <2>1, <2>3, <2>4, <2>5, RequestStays DEF SameHistory
  <1>11. QED
    BY <1>8, <1>9, <1>10 DEF HInv

\* The host says no itself, and nobody else will answer.
LEMMA DenyRequestKeeps ==
    ASSUME HInv, NEW s \in Sessions, DenyRequest(s) PROVE HInv'
  <1>1. PICK r \in Requests : Reader(s) = <<"refused", r>>
    BY ReaderShape DEF HInv, DenyRequest, ReaderSteps
  <1> DEFINE pc == <<"idle">>
  <1>2. /\ send_json_line(r, "deny") /\ ReaderAt(s, pc)
        /\ UNCHANGED <<inbound, cpVars, apiVars, manager, hosted, r2a, a2r, history>>
    BY <1>1 DEF DenyRequest
  <1>3. Types /\ HostTypes /\ s = SessionOf[r] /\ RequestInv(r)
    BY <1>1, TypesParts DEF HInv, SessionInv, AskingOf, ReaderSteps
  <1>4. Opening(r) /\ Refused(r)
    BY <1>1, <1>3 DEF Opening, Refused
  <1>5. ~Unhandled(r) /\ ~Forwarding(r) /\ Answers(r) = <<>> /\ r \notin a2r
    BY <1>3, <1>4 DEF RequestInv, AnsweringOf
  <1>6. /\ agent' \in AgentRecs /\ SameLines
        /\ \A q \in Requests \ {r} : Answers(q)' = Answers(q)
        /\ \/ Answers(r)' = <<"deny">>
           \/ Answers(r)' = <<>> /\ Unreachable(SessionOf[r])
    BY <1>2, <1>5, AnswerGiven
  <1>7. pc \in ReaderPcs /\ pc[1] = "idle" /\ pc = <<"idle">>
    BY DEF ReaderPcs
  <1> HIDE DEF pc
  <1>8. /\ tasks' \in [Sessions -> TaskRecs]
        /\ \A t \in Sessions \ {s} : SameTask(t)
        /\ Process(s)' = Process(s) /\ Input(s)' = Input(s)
        /\ ExitTask(s)' = ExitTask(s) /\ Reader(s)' = pc
    BY <1>2, <1>3, <1>7, ReaderMoves
  <1>9. HostTypes'
    BY <1>2, <1>3, <1>8 DEF HostTypes
  <1>10. Types' /\ SameHistory /\ UNCHANGED <<inbound, cp, calls, link, table, approvals, mid, channel>>
    BY <1>2, <1>6, <1>9, HostStepTypes
  <1>11. ASSUME NEW t \in Sessions PROVE SessionInv(t)'
    <2>1. Starting(t)' <=> Starting(t)
      BY <1>2 DEF Starting
    <2>2. ExitTask(s) # "off"
      BY <1>1 DEF HInv, SessionInv, LivingOf
    <2>3. CASE t # s
      BY <1>2, <1>6, <1>8, <1>10, <2>1, <2>3, SessionServed DEF SameTask, Cleaned
    <2>4. CASE t = s
      BY <1>2, <1>6, <1>7, <1>8, <1>10, <2>1, <2>2, <2>4, SessionServed DEF Cleaned
    <2>5. QED
      BY <2>3, <2>4
  <1>12. ASSUME NEW q \in Requests
         PROVE  /\ SessionOf[q] \in Sessions /\ RequestInv(q) /\ LinkKept(q) /\ AsideOf(q)
                /\ Unhandled(q)' <=> Unhandled(q)
                /\ \A d \in Decided : Token(q, d)' <=> Token(q, d)
                /\ Process(SessionOf[q])' = Process(SessionOf[q])
                /\ Input(SessionOf[q])' = Input(SessionOf[q])
                /\ Unreachable(SessionOf[q]) => Unreachable(SessionOf[q])'
    <2>1. SessionOf[q] \in Sessions /\ RequestInv(q) /\ LinkKept(q) /\ AsideOf(q)
      BY <1>2, <1>10, HostAssumption, LinkUnchanged, AsideWhen DEF HInv
    <2>2. Unhandled(q)' <=> Unhandled(q)
      BY <1>6, <2>1, LinesKeep DEF SameLines
    <2>3. \A d \in Decided : Token(q, d)' <=> Token(q, d)
      BY <1>10, <2>1 DEF Token, LinkKept, AsideOf
    <2>4. /\ Process(SessionOf[q])' = Process(SessionOf[q])
          /\ Input(SessionOf[q])' = Input(SessionOf[q])
      BY <1>8, <2>1 DEF SameTask
    <2>5. Unreachable(SessionOf[q]) => Unreachable(SessionOf[q])'
      BY <1>2, <2>4 DEF Unreachable
    <2>6. QED
      BY <2>1, <2>2, <2>3, <2>4, <2>5
  <1>13. ASSUME NEW q \in Requests \ {r} PROVE RequestInv(q)'
    <2>1. (Opening(q)' <=> Opening(q)) /\ (Refused(q)' <=> Refused(q))
      <3>1. CASE SessionOf[q] # s
        BY <1>8, <1>12, <3>1, ReaderKeeps DEF SameTask
      <3>2. CASE SessionOf[q] = s
        <4>1. ~Opening(q) /\ ~Refused(q)
          BY <1>1, <3>2, ReaderElsewhere
        <4>2. ~Opening(q)' /\ ~Refused(q)'
          BY <1>7, <1>8, <3>2, ReaderElsewhereNext
        <4>3. QED
          BY <4>1, <4>2
      <3>3. QED
        BY <3>1, <3>2
    <2>2. RequestKept(q)
      BY <1>2, <1>6, <1>10, <1>12, <2>1 DEF RequestKept, SameLines, AsideOf
    <2>3. QED
      BY <1>10, <1>12, <2>2, RequestStays DEF SameHistory
  <1>14. RequestInv(r)'
    <2>1. ~Opening(r)' /\ ~Refused(r)'
      BY <1>3, <1>7, <1>8, ReaderElsewhereNext
    <2>2. AtAnswer(r)' => Forwarding(r)'
      BY DEF Forwarding
    <2>3. Answers(r)' \in {<<>>, <<"allow">>, <<"deny">>} /\ Answers(r)' # <<"allow">>
      BY <1>6
    <2>4. AnsweringOf(r)'
      BY <1>2, <1>5, <1>10, <1>12, <2>1, <2>2, <2>3 DEF AnsweringOf, AsideOf
    <2>5. AgreeingOf(r)'
      BY <1>3, <1>10, <1>12, AgreeingKept DEF RequestInv
    <2>6. Answers(r)' # <<>> \/ Unreachable(SessionOf[r])'
      <3>1. <<"deny">> # <<>>
        OBVIOUS
      <3>2. Unreachable(SessionOf[r]) => Unreachable(SessionOf[r])'
        BY <1>12
      <3>3. QED
        BY <1>6, <3>1, <3>2
    <2>7. FindableOf(r)'
      BY <2>6 DEF FindableOf, Unreachable
    <2>8. SessionOf[r] \notin hosted' => Process(SessionOf[r])' # "live"
      BY <1>3, <1>11 DEF SessionInv, LivingOf
    <2>9. SilenceOf(r)'
      BY <2>6, <2>8 DEF SilenceOf, Unreachable
    <2>10. CarriedOf(r)' /\ FollowingOf(r)'
      BY <1>3, <1>10, <1>12, LinkUnchanged, CommandsKept DEF RequestInv, SameHistory
    <2>11. QED
      BY <2>4, <2>5, <2>7, <2>9, <2>10 DEF RequestInv
  <1>15. QED
    BY <1>10, <1>11, <1>13, <1>14 DEF HInv

\* cancel_pending_approval posts its decision, which may be refused.
LEMMA PostCancelKeeps ==
    ASSUME HInv, NEW s \in Sessions, PostCancel(s) PROVE HInv'
  <1>1. PICK r \in Requests : Reader(s) = <<"cancelling", r>>
    BY ReaderShape DEF HInv, PostCancel, ReaderSteps
  <1>2. UNCHANGED <<inbound, apiVars, manager, hosted, r2a, a2r, agent, history>>
    BY DEF PostCancel
  <1>3. Types /\ HostTypes /\ s = SessionOf[r] /\ r \in Withdrawn /\ r2a' \subseteq Requests
        /\ a2r' \subseteq Requests
    BY <1>1, <1>2, TypesParts DEF HInv, SessionInv, AskingOf, ReaderSteps, HostTypes
  <1>4. PICK x \in {"posted", "failed"} :
           /\ ReaderAt(s, <<x, r>>)
           /\ DecideOnControlPlane(r, "Cancelled") \/ UNCHANGED cpVars
    BY <1>1 DEF PostCancel
  <1> DEFINE pc == <<x, r>>
  <1>5. /\ pc \in ReaderPcs /\ Reader(s)[1] \in ReaderSteps /\ ReaderAt(s, pc)
        /\ pc[1] \in {"idle", "ended", "cancelling", "posted", "withdrawn", "failed"}
        /\ \A q \in Requests, y \in ReaderSteps : pc = <<y, q>> =>
              s = SessionOf[q] /\ (y \in {"cancelling", "posted", "withdrawn", "failed"} => q \in Withdrawn)
    BY <1>1, <1>3, <1>4 DEF ReaderPcs, ReaderSteps
  <1> HIDE DEF pc
  <1>6. /\ tasks' \in [Sessions -> TaskRecs]
        /\ \A t \in Sessions \ {s} : SameTask(t)
        /\ Process(s)' = Process(s) /\ Input(s)' = Input(s)
        /\ ExitTask(s)' = ExitTask(s) /\ Reader(s)' = pc
    BY <1>3, <1>5, ReaderMoves
  <1>7. ASSUME NEW q \in Requests PROVE (Opening(q)' <=> Opening(q)) /\ (Refused(q)' <=> Refused(q))
    <2>1. CASE SessionOf[q] # s
      BY <1>6, <2>1, HostAssumption, ReaderKeeps DEF SameTask
    <2>2. CASE SessionOf[q] = s
      <3>1. ~Opening(q) /\ ~Refused(q)
        BY <1>1, <2>2, ReaderElsewhere
      <3>2. ~Opening(q)' /\ ~Refused(q)'
        BY <1>5, <1>6, <2>2, ReaderElsewhereNext
      <3>3. QED
        BY <3>1, <3>2
    <2>3. QED
      BY <2>1, <2>2
  <1>8. CASE UNCHANGED cpVars
    <2>1. /\ Types' /\ \A t \in Sessions : SessionInv(t)'
          /\ \A q \in Requests :
              /\ q \in a2r' <=> q \in a2r
              /\ Opening(q)' <=> Opening(q)
              /\ Refused(q)' <=> Refused(q)
              => RequestInv(q)'
      BY <1>2, <1>3, <1>5, <1>8, ReaderStepKeeps
    <2>2. QED
      BY <1>2, <1>7, <2>1 DEF HInv
  <1>9. CASE DecideOnControlPlane(r, "Cancelled")
    <2>1. "Cancelled" \in Decided
      BY DEF Decided
    <2>2. \A t \in Sessions : Process(t)' = Process(t) /\ Input(t)' = Input(t)
      BY <1>6 DEF SameTask
    <2>3. CpTypes' /\ \A q \in Requests : RequestInv(q)'
      BY <1>2, <1>7, <1>9, <2>1, <2>2, DecisionRecorded
    <2>4. Types'
      <3>1. ApiTypes' /\ HostTypes' /\ agent' \in AgentRecs /\ history' \in HistoryRecs
        BY <1>2, <1>3, <1>6, TypesParts DEF ApiTypes, HostTypes, apiVars
      <3>2. QED
        BY <2>3, <3>1, TypesPartsNext
    <2>5. SameAgent /\ SameHistory
      BY <1>2, AgentUnchanged, HistoryUnchanged
    <2>6. ASSUME NEW t \in Sessions PROVE SessionInv(t)'
      <3>1. SessionInv(t) /\ Pipe(t)' = Pipe(t) /\ ExitTask(t)' = ExitTask(t)
        BY <1>6, <2>5 DEF HInv, SameAgent, SameTask
      <3>2. /\ (Created(t)' <=> Created(t)) /\ (Starting(t)' <=> Starting(t))
            /\ UNCHANGED <<hosted, table>>
        BY <1>2 DEF Created, Starting, apiVars
      <3>3. AskingOf(t)'
        <4>1. CASE t # s
          BY <1>6, <2>5, <3>1, <4>1, AskingKept DEF SessionInv, SameTask, SameAgent
        <4>2. CASE t = s
          BY <1>5, <1>6, <2>5, <3>1, <4>2 DEF SessionInv, AskingOf, SameAgent
        <4>3. QED
          BY <4>1, <4>2
      <3>4. t = s => ExitTask(t) # "off"
        BY <1>1, <3>1 DEF SessionInv, LivingOf
      <3>5. LivingOf(t)'
        BY <1>6, <2>2, <3>1, <3>2, <3>4 DEF SessionInv, LivingOf, SameTask
      <3>6. RecordedOf(t)'
        BY <2>2, <2>3, <2>5, <3>1, <3>2, RecordedKept DEF SessionInv, RequestsOf, SameAgent
      <3>7. BackedOf(t)'
        BY <2>2, <2>5, <3>1, <3>2, BackedKept DEF SessionInv, SameHistory
      <3>8. QED
        BY <3>3, <3>5, <3>6, <3>7 DEF SessionInv
    <2>7. QED
      BY <2>3, <2>4, <2>6 DEF HInv
  <1>10. QED
    BY <1>4, <1>8, <1>9

\* The lines of s still speak of its own requests, each asked for once.
Speaking(s) ==
    /\ \A r \in Requests : \A i \in 1 .. Len(Pipe(s)) :
          /\ Pipe(s)[i] = <<"ask", r>> => s = SessionOf[r] /\ r \in Asked
          /\ Pipe(s)[i] = <<"cancel", r>> => s = SessionOf[r] /\ r \in Withdrawn
    /\ \A r \in Requests : \A i, j \in 1 .. Len(Pipe(s)) :
          Pipe(s)[i] = <<"ask", r>> /\ Pipe(s)[j] = <<"ask", r>> => i = j

LEMMA LineTaken ==
    ASSUME HInv, NEW s \in Sessions, Pipe(s) # <<>>, Reads(s)
    PROVE  /\ agent' \in AgentRecs /\ Asked' = Asked /\ Withdrawn' = Withdrawn
           /\ \A t \in Sessions \ {s} : Pipe(t)' = Pipe(t)
           /\ \A q \in Requests : Answers(q)' = Answers(q)
           /\ Head(Pipe(s)) \in Lines
           /\ \A r \in Requests : Head(Pipe(s)) \in {<<"ask", r>>, <<"cancel", r>>} => s = SessionOf[r]
           /\ \A r \in Requests : Head(Pipe(s)) = <<"cancel", r>> => r \in Withdrawn
           /\ \A r \in Requests : Head(Pipe(s)) = <<"ask", r>> => Unhandled(r) /\ ~Unhandled(r)'
           /\ \A r \in Requests : Head(Pipe(s)) # <<"ask", r>> => (Unhandled(r)' <=> Unhandled(r))
           /\ Speaking(s)'
  <1>1. Types /\ Pipe(s) \in Seq(Lines) /\ AskingOf(s)
    BY FieldTypes DEF HInv, SessionInv
  <1>2. /\ agent' \in AgentRecs /\ Asked' = Asked /\ Withdrawn' = Withdrawn
        /\ \A t \in Sessions \ {s} : Pipe(t)' = Pipe(t)
        /\ Pipe(s)' = Tail(Pipe(s))
        /\ \A q \in Requests : Answers(q)' = Answers(q)
    BY <1>1, LineRead
  <1> DEFINE n == Len(Pipe(s))
             line == Head(Pipe(s))
  <1>3. /\ line \in Lines /\ line = Pipe(s)[1] /\ n \in Nat \ {0}
        /\ Len(Pipe(s)') = n - 1
        /\ \A i \in 1 .. Len(Pipe(s)') : Pipe(s)'[i] = Pipe(s)[i + 1]
    BY <1>1, <1>2, SeqTail
  <1>4. /\ 1 \in 1 .. n
        /\ \A i \in 1 .. Len(Pipe(s)') : i + 1 \in 1 .. n /\ i + 1 # 1
        /\ \A i \in 1 .. n : i = 1 \/ (i - 1 \in 1 .. Len(Pipe(s)') /\ (i - 1) + 1 = i)
        /\ \A i, j \in 1 .. Len(Pipe(s)') : i + 1 = j + 1 => i = j
    BY <1>3
  <1> HIDE DEF line
  <1>5. /\ \A r \in Requests : line \in {<<"ask", r>>, <<"cancel", r>>} => s = SessionOf[r]
        /\ \A r \in Requests : line = <<"cancel", r>> => r \in Withdrawn
        /\ \A r \in Requests : line = <<"ask", r>> => r \in Asked
    BY <1>1, <1>3, <1>4 DEF AskingOf
  <1>6. Speaking(s)'
    <2>1. ASSUME NEW r \in Requests, NEW i \in 1 .. Len(Pipe(s)')
          PROVE  /\ Pipe(s)'[i] = <<"ask", r>> => s = SessionOf[r] /\ r \in Asked'
                 /\ Pipe(s)'[i] = <<"cancel", r>> => s = SessionOf[r] /\ r \in Withdrawn'
      <3>1. Pipe(s)'[i] = Pipe(s)[i + 1] /\ i + 1 \in 1 .. n
        BY <1>3, <1>4
      <3>2. QED
        BY <1>1, <1>2, <3>1 DEF AskingOf
    <2>2. ASSUME NEW r \in Requests, NEW i \in 1 .. Len(Pipe(s)'), NEW j \in 1 .. Len(Pipe(s)'),
                 Pipe(s)'[i] = <<"ask", r>>, Pipe(s)'[j] = <<"ask", r>>
          PROVE  i = j
      <3>1. /\ Pipe(s)[i + 1] = <<"ask", r>> /\ i + 1 \in 1 .. n
            /\ Pipe(s)[j + 1] = <<"ask", r>> /\ j + 1 \in 1 .. n
        BY <1>3, <1>4, <2>2
      <3>2. i + 1 = j + 1
        BY <1>1, <3>1 DEF AskingOf
      <3>3. QED
        BY <1>4, <3>2
    <2>3. QED
      BY <2>1, <2>2 DEF Speaking
  <1>7. ASSUME NEW r \in Requests, line = <<"ask", r>> PROVE Unhandled(r) /\ ~Unhandled(r)'
    <2>1. s = SessionOf[r] /\ r \in Asked'
      BY <1>2, <1>5, <1>7
    <2>2. InPipe(r)
      BY <1>3, <1>4, <1>7, <2>1 DEF InPipe
    <2>3. ASSUME NEW i \in 1 .. Len(Pipe(s)'), Pipe(s)'[i] = <<"ask", r>> PROVE FALSE
      <3>1. Pipe(s)[i + 1] = <<"ask", r>> /\ i + 1 \in 1 .. n /\ i + 1 # 1
        BY <1>3, <1>4, <2>3
      <3>2. Pipe(s)[1] = <<"ask", r>>
        BY <1>3, <1>7
      <3>3. QED
        BY <1>1, <1>4, <3>1, <3>2 DEF AskingOf
    <2>4. ~InPipe(r)'
      BY <2>1, <2>3 DEF InPipe
    <2>5. QED
      BY <2>1, <2>2, <2>4 DEF Unhandled
  <1>8. ASSUME NEW r \in Requests, line # <<"ask", r>> PROVE Unhandled(r)' <=> Unhandled(r)
    <2>1. CASE SessionOf[r] # s
      BY <1>2, <2>1, HostAssumption DEF Unhandled, InPipe
    <2>2. CASE SessionOf[r] = s
      <3>1. ASSUME NEW i \in 1 .. Len(Pipe(s)'), Pipe(s)'[i] = <<"ask", r>>
            PROVE  \E j \in 1 .. n : Pipe(s)[j] = <<"ask", r>>
        BY <1>3, <1>4, <3>1
      <3>2. ASSUME NEW i \in 1 .. n, Pipe(s)[i] = <<"ask", r>>
            PROVE  \E j \in 1 .. Len(Pipe(s)') : Pipe(s)'[j] = <<"ask", r>>
        <4>1. i # 1
          BY <1>3, <1>8, <3>2
        <4>2. i - 1 \in 1 .. Len(Pipe(s)') /\ (i - 1) + 1 = i
          BY <1>4, <4>1
        <4>3. Pipe(s)'[i - 1] = Pipe(s)[(i - 1) + 1]
          BY <1>3, <4>2
        <4>4. QED
          BY <3>2, <4>2, <4>3
      <3>3. InPipe(r)' <=> InPipe(r)
        BY <2>2, <3>1, <3>2 DEF InPipe
      <3>4. QED
        BY <1>2, <3>3 DEF Unhandled
    <2>3. QED
      BY <2>1, <2>2
  <1>9. QED
    BY <1>2, <1>3, <1>5, <1>6, <1>7, <1>8 DEF line

\* What handle_protocol_line leaves alone, and where the reader goes.
LineHandled(s, pc) ==
    /\ Reader(s) = <<"idle">> /\ Pipe(s) # <<>> /\ Reads(s)
    /\ Reader(s)' = pc
    /\ \A t \in Sessions \ {s} : SameTask(t)
    /\ Process(s)' = Process(s) /\ Input(s)' = Input(s) /\ ExitTask(s)' = ExitTask(s)
    /\ UNCHANGED <<inbound, mid, channel, manager, hosted, a2r>>

\* The sessions after a line was handled.
LEMMA SessionsRead ==
    ASSUME HInv, NEW s \in Sessions, NEW pc, LineHandled(s, pc),
           \A r \in Requests, x \in ReaderSteps : pc = <<x, r>> =>
              s = SessionOf[r] /\ (x \in {"cancelling", "posted", "withdrawn", "failed"} => r \in Withdrawn),
           \A t \in Sessions : Written(t),
           Lost \subseteq Lost', Unstarted \subseteq Unstarted', Revived \subseteq Revived'
    PROVE  \A t \in Sessions : SessionInv(t)'
  <1>1. /\ Asked' = Asked /\ Withdrawn' = Withdrawn
        /\ \A t \in Sessions \ {s} : Pipe(t)' = Pipe(t)
        /\ Speaking(s)'
    BY LineTaken DEF LineHandled
  <1>2. SessionInv(s) /\ Pipe(s) # <<>> /\ Reader(s) = <<"idle">>
    BY DEF HInv, LineHandled
  <1>3. Process(s) # "none" /\ ExitTask(s) # "off"
    BY <1>2 DEF SessionInv, RecordedOf, LivingOf
  <1> TAKE t \in Sessions
  <1>4. /\ SessionInv(t) /\ Written(t)
        /\ Process(t)' = Process(t) /\ Input(t)' = Input(t) /\ ExitTask(t)' = ExitTask(t)
        /\ t # s => Reader(t)' = Reader(t)
    BY DEF HInv, LineHandled, SameTask
  <1>5. (Starting(t)' <=> Starting(t)) /\ (Created(t)' <=> Created(t)) /\ (t \in hosted' <=> t \in hosted)
    BY DEF LineHandled, Starting, Created
  <1>6. AskingOf(t)'
    <2>1. CASE t # s
      BY <1>1, <1>4, <2>1, AskingKept DEF SessionInv
    <2>2. CASE t = s
      <3>1. Reader(s)' = pc
        BY DEF LineHandled
      <3>2. QED
        BY <1>1, <2>2, <3>1 DEF AskingOf, Speaking
    <2>3. QED
      BY <2>1, <2>2
  <1>7. LivingOf(t)'
    BY <1>3, <1>4, <1>5 DEF SessionInv, LivingOf
  <1>8. RecordedOf(t)'
    <2>1. Pipe(t)' = Pipe(t) \/ Process(t) # "none"
      BY <1>1, <1>3
    <2>2. \A r \in RequestsOf(t) : r \in Asked' => r \in Asked
      BY <1>1
    <2>3. table[t] # "absent" => table'[t] # "absent"
      BY <1>4 DEF Written
    <2>4. QED
      BY <1>4, <1>5, <2>1, <2>2, <2>3, RecordedKept DEF SessionInv
  <1>9. BackedOf(t)'
    BY <1>4, <1>5 DEF SessionInv, BackedOf, Written
  <1>10. QED
    BY <1>6, <1>7, <1>8, <1>9 DEF SessionInv

\* A request that was not the subject of the line.
LEMMA RequestRead ==
    ASSUME HInv, NEW s \in Sessions, NEW pc, LineHandled(s, pc), NEW q \in Requests,
           Head(Pipe(s)) # <<"ask", q>>,
           pc[1] \in {"idle", "ended", "cancelling", "posted", "withdrawn", "failed"} \/ pc[2] # q,
           LinkKept(q), cp'[q] = cp[q], UNCHANGED approvals,
           Lost \subseteq Lost', Missed \subseteq Missed'
    PROVE  RequestInv(q)'
  <1>1. /\ Withdrawn' = Withdrawn /\ Answers(q)' = Answers(q) /\ (Unhandled(q)' <=> Unhandled(q))
    BY LineTaken DEF LineHandled
  <1>2. SessionOf[q] \in Sessions /\ RequestInv(q) /\ AsideOf(q)
    BY HostAssumption, AsideWhen DEF HInv, LineHandled
  <1>3. (Opening(q)' <=> Opening(q)) /\ (Refused(q)' <=> Refused(q))
    <2>1. CASE SessionOf[q] # s
      BY <1>2, <2>1, ReaderKeeps DEF LineHandled, SameTask
    <2>2. CASE SessionOf[q] = s
      <3>1. Reader(s) = <<"idle">> /\ Reader(s)' = pc
        BY DEF LineHandled
      <3>2. ~Opening(q) /\ ~Refused(q)
        BY <2>2, <3>1, ReaderElsewhere
      <3>3. ~Opening(q)' /\ ~Refused(q)'
        BY <2>2, <3>1, ReaderElsewhereNext
      <3>4. QED
        BY <3>2, <3>3
    <2>3. QED
      BY <2>1, <2>2
  <1>4. RequestKept(q)
    BY <1>1, <1>2, <1>3 DEF RequestKept, AsideOf, LineHandled
  <1>5. \A d \in Decided : Token(q, d)' <=> Token(q, d)
    BY <1>2 DEF Token, LinkKept, AsideOf, LineHandled
  <1>6. /\ Process(SessionOf[q])' = Process(SessionOf[q])
        /\ Input(SessionOf[q])' = Input(SessionOf[q])
        /\ Unreachable(SessionOf[q]) => Unreachable(SessionOf[q])'
    BY <1>2 DEF LineHandled, SameTask, Unreachable
  <1>7. inbound' = inbound /\ (<<"approval", q>> \in mid' <=> <<"approval", q>> \in mid)
    BY DEF LineHandled
  <1>8. QED
    BY <1>2, <1>4, <1>5, <1>6, <1>7, RequestStays

\* A state the agent reports.
LEMMA StateLineKeeps ==
    ASSUME HInv, NEW s \in Sessions, Reader(s) = <<"idle">>, Pipe(s) # <<>>, Reads(s),
           NEW state \in AgentStates, Head(Pipe(s)) = <<"state", state>>,
           apply_session_state_update(s, state),
           UNCHANGED <<cpVars, r2a, tasks, inbound, manager, hosted, a2r>>
    PROVE  HInv'
  <1> DEFINE pc == <<"idle">>
  <1>1. /\ agent' \in AgentRecs
    BY LineTaken
  <1>2. state \in RunnerStates
    BY HostAssumption
  <1>3. /\ ApiTypes' /\ history' \in HistoryRecs /\ UNCHANGED <<approvals, mid, channel>>
        /\ \A t \in Sessions : Written(t)
        /\ Lost' = Lost /\ Missed' = Missed /\ Unstarted' = Unstarted
        /\ Revived \subseteq Revived'
    BY <1>2, StateWritten
  <1>4. SameTasks /\ CpTypes' /\ HostTypes' /\ UNCHANGED <<cp, calls, link>>
    BY TasksUnchanged, TypesParts DEF HInv, CpTypes, HostTypes, cpVars
  <1>5. Types'
    BY <1>1, <1>3, <1>4, TypesPartsNext
  <1>6. LineHandled(s, pc)
    BY <1>3, <1>4 DEF LineHandled, SameTasks, SameTask
  <1>7. pc[1] = "idle" /\ \A r, x : pc # <<x, r>>
    OBVIOUS
  <1> HIDE DEF pc
  <1>8. \A t \in Sessions : SessionInv(t)'
    BY <1>3, <1>4, <1>6, <1>7, SessionsRead
  <1>9. ASSUME NEW q \in Requests PROVE RequestInv(q)'
    <2>1. Head(Pipe(s)) # <<"ask", q>> /\ LinkKept(q)
      BY <1>4, LinkUnchanged
    <2>2. QED
      BY <1>3, <1>4, <1>6, <1>7, <2>1, RequestRead
  <1>10. QED
    BY <1>5, <1>8, <1>9 DEF HInv

\* The agent cancels a request.
LEMMA CancelLineKeeps ==
    ASSUME HInv, NEW s \in Sessions, Reader(s) = <<"idle">>, Pipe(s) # <<>>, Reads(s),
           NEW r \in Requests, Head(Pipe(s)) = <<"cancel", r>>, BeginCancel(s, r),
           UNCHANGED <<cpVars, apiVars, history, inbound, manager, hosted, a2r>>
    PROVE  HInv'
  <1> DEFINE pc == IF r \in r2a THEN <<"cancelling", r>> ELSE <<"idle">>
  <1>1. agent' \in AgentRecs /\ s = SessionOf[r] /\ r \in Withdrawn
    BY LineTaken
  <1>2. r2a' = r2a \ {r} /\ ReaderAt(s, pc)
    BY DEF BeginCancel
  <1>3. /\ pc \in ReaderPcs /\ pc[1] \in {"idle", "ended", "cancelling", "posted", "withdrawn", "failed"}
        /\ \A q \in Requests, x \in ReaderSteps : pc = <<x, q>> =>
              s = SessionOf[q] /\ (x \in {"cancelling", "posted", "withdrawn", "failed"} => q \in Withdrawn)
    BY <1>1 DEF ReaderPcs, ReaderSteps
  <1> SUFFICES ASSUME NEW place, place = pc PROVE HInv'
    OBVIOUS
  <1>4. /\ place \in ReaderPcs /\ place[1] \in {"idle", "ended", "cancelling", "posted", "withdrawn", "failed"}
        /\ \A q \in Requests, x \in ReaderSteps : place = <<x, q>> =>
              s = SessionOf[q] /\ (x \in {"cancelling", "posted", "withdrawn", "failed"} => q \in Withdrawn)
        /\ ReaderAt(s, place)
    BY <1>2, <1>3
  <1>5. /\ tasks' \in [Sessions -> TaskRecs]
        /\ \A t \in Sessions \ {s} : SameTask(t)
        /\ Process(s)' = Process(s) /\ Input(s)' = Input(s)
        /\ ExitTask(s)' = ExitTask(s) /\ Reader(s)' = place
    BY <1>4, ReaderMoves DEF HInv
  <1>6. LineHandled(s, place) /\ UNCHANGED <<cp, calls, link, approvals, table>> /\ SameHistory
    BY <1>5, HistoryUnchanged DEF LineHandled, cpVars, apiVars
  <1>7. Types'
    <2>1. CpTypes' /\ ApiTypes' /\ HostTypes' /\ history' \in HistoryRecs
      BY <1>2, <1>5, TypesParts DEF HInv, CpTypes, ApiTypes, HostTypes, cpVars, apiVars
    <2>2. QED
      BY <1>1, <2>1, TypesPartsNext
  <1>8. \A t \in Sessions : SessionInv(t)'
    BY <1>4, <1>6, SessionsRead DEF Written, SameHistory
  <1>9. ASSUME NEW q \in Requests PROVE RequestInv(q)'
    <2>1. Head(Pipe(s)) # <<"ask", q>> /\ LinkKept(q)
      BY <1>6, LinkUnchanged
    <2>2. QED
      BY <1>4, <1>6, <2>1, RequestRead DEF SameHistory
  <1>10. QED
    BY <1>7, <1>8, <1>9 DEF HInv

\* The agent asks: the control plane is asked for an approval and the reader
\* waits, or believes that the request was refused.
LEMMA AskLineKeeps ==
    ASSUME HInv, NEW s \in Sessions, Reader(s) = <<"idle">>, Pipe(s) # <<>>, Reads(s),
           NEW r \in Requests, Head(Pipe(s)) = <<"ask", r>>, RequestApproval(s, r),
           UNCHANGED <<apiVars, r2a, history, inbound, manager, hosted, a2r>>
    PROVE  HInv'
  <1> DEFINE a == <<"approval", r>>
  <1>1. /\ agent' \in AgentRecs /\ s = SessionOf[r] /\ Unhandled(r) /\ ~Unhandled(r)'
        /\ Withdrawn' = Withdrawn /\ Answers(r)' = Answers(r)
    BY LineTaken
  <1>2. PICK x \in {"asking", "refused"} :
           /\ ReaderAt(s, <<x, r>>)
           /\ BeginApproval(r, "Pending") \/ UNCHANGED <<cp, calls, link>>
    BY DEF RequestApproval, cpVars
  <1> DEFINE pc == <<x, r>>
  <1>3. /\ pc \in ReaderPcs /\ ReaderAt(s, pc) /\ pc[2] = r
        /\ pc \in {<<"asking", r>>, <<"refused", r>>}
        /\ \A q \in Requests, y \in ReaderSteps : pc = <<y, q>> =>
              s = SessionOf[q] /\ (y \in {"cancelling", "posted", "withdrawn", "failed"} => q \in Withdrawn)
    BY <1>1, <1>2 DEF ReaderPcs, ReaderSteps
  <1> HIDE DEF pc
  <1>4. /\ tasks' \in [Sessions -> TaskRecs]
        /\ \A t \in Sessions \ {s} : SameTask(t)
        /\ Process(s)' = Process(s) /\ Input(s)' = Input(s)
        /\ ExitTask(s)' = ExitTask(s) /\ Reader(s)' = pc
    BY <1>3, ReaderMoves DEF HInv
  <1>5. LineHandled(s, pc) /\ UNCHANGED <<approvals, mid, channel, table>> /\ SameHistory
    BY <1>4, HistoryUnchanged DEF LineHandled, apiVars
  <1>6. Types /\ CpTypes /\ RequestInv(r)
    BY TypesParts DEF HInv
  <1>7. /\ cp[r] = "absent" /\ ~Queueing(r, "Pending") /\ ~Sent(a) /\ a \notin mid
        /\ approvals[r] = "absent" /\ Once(a)
        /\ r \notin a2r /\ ~Forwarding(r) /\ Answers(r) = <<>>
    BY <1>1, <1>6 DEF RequestInv, AnsweringOf, CarriedOf
  <1>8. \A d \in Decided : ~Token(r, d) /\ d # "absent" /\ d # "Pending"
    BY <1>6, <1>7 DEF RequestInv, AgreeingOf, Decided
  <1>9. /\ CpTypes'
        /\ \A q \in Requests \ {r} : cp'[q] = cp[q] /\ LinkKept(q)
        /\ \/ UNCHANGED <<cp, calls, link>>
           \/ inbound /\ UNCHANGED <<cp, calls>> /\ link' = Append(link, a)
           \/ /\ ~inbound /\ cp'[r] = "Pending" /\ UNCHANGED link
              /\ calls' = calls \cup {<<"queue", r, "Pending">>}
    <2>1. CASE UNCHANGED <<cp, calls, link>>
      BY <1>6, <2>1, LinkUnchanged DEF CpTypes
    <2>2. CASE BeginApproval(r, "Pending")
      <3>1. CommandOf(r, "Pending") = a
        BY DEF CommandOf
      <3>2. QED
        BY <1>5, <1>6, <2>2, <3>1, ApprovalBegun
    <2>3. QED
      BY <1>2, <2>1, <2>2
  <1>10. \/ inbound /\ CalledOf(r) /\ \A st \in {"Pending"} \cup Decided : ~Queueing(r, st)
         \/ ~inbound /\ PollingOf(r) /\ \A st \in {"Pending"} \cup Decided : ~Recording(r, st)
    BY <1>6 DEF RequestInv, FollowingOf
  <1>11. ASSUME UNCHANGED <<cp, calls, link>> PROVE CarriedOf(r)' /\ FollowingOf(r)'
    <2>1. LinkKept(r)
      BY <1>11, LinkUnchanged
    <2>2. CarriedOf(r)'
      BY <1>1, <1>5, <1>6, <2>1 DEF RequestInv, CarriedOf, LinkKept, CallsKept
    <2>3. CalledOf(r) => CalledOf(r)'
      BY <1>5, <1>11, <2>1 DEF CalledOf, LinkKept, CallsKept
    <2>4. PollingOf(r) => PollingOf(r)'
      BY <1>5, <1>11, <2>1 DEF PollingOf, LinkKept, CallsKept, SameHistory
    <2>5. QED
      BY <1>10, <2>1, <2>2, <2>3, <2>4 DEF FollowingOf, LinkKept, CallsKept
  <1>12. ASSUME inbound, UNCHANGED <<cp, calls>>, link' = Append(link, a)
         PROVE  CarriedOf(r)' /\ FollowingOf(r)'
    <2>1. a \in Commands /\ \A d \in Decided : <<"decide", r, d>> # a
      BY DEF Commands
    <2>2. CallsKept(r)
      BY <1>12, CallsUnchanged
    <2> HIDE DEF a
    <2>3. (\A e : Sent(e)' <=> Sent(e) \/ e = a) /\ (~Sent(a) => Once(a)')
      BY <1>6, <1>12, <2>1, LinkGrows
    <2>4. CarriedOf(r)'
      BY <1>1, <1>5, <1>7, <1>10, <1>12, <2>2, <2>3 DEF CarriedOf, CallsKept, a
    <2>5. CalledOf(r)'
      BY <1>5, <1>7, <1>10, <1>12, <2>1, <2>2, <2>3 DEF CalledOf, CallsKept
    <2>6. QED
      BY <1>10, <1>12, <2>2, <2>4, <2>5 DEF FollowingOf, CallsKept
  <1>13. ASSUME ~inbound, cp'[r] = "Pending", UNCHANGED link,
                calls' = calls \cup {<<"queue", r, "Pending">>}
         PROVE  CarriedOf(r)' /\ FollowingOf(r)'
    <2>1. /\ \A st : Queueing(r, st)' <=> Queueing(r, st) \/ st = "Pending"
          /\ \A st : Recording(r, st)' <=> Recording(r, st)
          /\ \A e : (Sent(e)' <=> Sent(e)) /\ (Once(e)' <=> Once(e))
      BY <1>13 DEF Queueing, Recording, Sent, Once
    <2>2. CarriedOf(r)'
      BY <1>1, <1>5, <1>7, <2>1 DEF CarriedOf
    <2>3. ASSUME NEW d \in Decided
          PROVE  ~Queueing(r, d) /\ ~Sent(<<"decide", r, d>>) /\ Once(<<"decide", r, d>>)
      BY <1>7, <1>8, <1>10, <1>13 DEF PollingOf
    <2>4. PollingOf(r)'
      BY <1>5, <1>7, <1>8, <1>13, <2>1, <2>3 DEF PollingOf
    <2>5. QED
      BY <1>10, <1>13, <2>1, <2>2, <2>4 DEF FollowingOf
  <1>14. Types'
    <2>1. ApiTypes' /\ HostTypes' /\ history' \in HistoryRecs
      BY <1>4, <1>6, TypesParts DEF ApiTypes, HostTypes, apiVars
    <2>2. QED
      BY <1>1, <1>9, <2>1, TypesPartsNext
  <1>15. \A t \in Sessions : SessionInv(t)'
    BY <1>3, <1>5, SessionsRead DEF Written, SameHistory
  <1>16. ASSUME NEW q \in Requests \ {r} PROVE RequestInv(q)'
    <2>1. Head(Pipe(s)) # <<"ask", q>>
      OBVIOUS
    <2>2. QED
      BY <1>3, <1>5, <1>9, <2>1, RequestRead DEF SameHistory
  <1>17. RequestInv(r)'
    <2>1. Opening(r)' /\ AsideOf(r)
      BY <1>1, <1>3, <1>4, AsideWhen DEF Opening, Refused
    <2>2. AtAnswer(r)' => Forwarding(r)'
      BY DEF Forwarding
    <2>3. AnsweringOf(r)'
      BY <1>1, <1>7, <2>1, <2>2 DEF AnsweringOf, AsideOf
    <2>4. \A d \in Decided : ~Token(r, d)'
      BY <1>5, <1>8, <2>1 DEF Token, AsideOf
    <2>5. AgreeingOf(r)' /\ FindableOf(r)'
      BY <2>1, <2>4 DEF AgreeingOf, FindableOf
    <2>6. SilenceOf(r)'
      BY <1>5, <1>7, <1>8 DEF SilenceOf
    <2>7. CarriedOf(r)' /\ FollowingOf(r)'
      BY <1>9, <1>11, <1>12, <1>13
    <2>8. QED
      BY <2>3, <2>5, <2>6, <2>7 DEF RequestInv
  <1>18. QED
    BY <1>14, <1>15, <1>16, <1>17 DEF HInv

LEMMA HandleLineKeeps ==
    ASSUME HInv, NEW s \in Sessions, handle_protocol_line(s) PROVE HInv'
  <1> DEFINE line == Head(Pipe(s))
  <1>1. /\ Reader(s) = <<"idle">> /\ Pipe(s) # <<>> /\ Reads(s)
        /\ UNCHANGED <<inbound, manager, hosted, a2r>>
    BY DEF handle_protocol_line, Pipe, Reads
  <1>2. line \in Lines
    BY <1>1, LineTaken
  <1>3. /\ line[1] = "ask" => line = <<"ask", line[2]>> /\ line[2] \in Requests
        /\ line[1] = "cancel" => line = <<"cancel", line[2]>> /\ line[2] \in Requests
        /\ line[1] = "state" => line = <<"state", line[2]>> /\ line[2] \in AgentStates
    BY <1>2, LineShape
  <1>4. CASE /\ line[1] = "state" /\ apply_session_state_update(s, line[2])
             /\ UNCHANGED <<cpVars, r2a, tasks>>
    BY <1>1, <1>3, <1>4, StateLineKeeps
  <1>5. CASE /\ line[1] = "ask" /\ RequestApproval(s, line[2])
             /\ UNCHANGED <<apiVars, r2a, history>>
    BY <1>1, <1>3, <1>5, AskLineKeeps
  <1>6. CASE /\ line[1] = "cancel" /\ BeginCancel(s, line[2])
             /\ UNCHANGED <<cpVars, apiVars, history>>
    BY <1>1, <1>3, <1>6, CancelLineKeeps
  <1>7. QED
    BY <1>4, <1>5, <1>6 DEF handle_protocol_line, Pipe

-----------------------------------------------------------------------------
(* The handlers of the control plane *)

\* A reader that waits may hear the answer; it opens what it opened before.
LEMMA ReplyMoves ==
    ASSUME HInv, NEW r \in Requests, NEW st, Reply(r, st)
    PROVE  /\ tasks' \in [Sessions -> TaskRecs]
           /\ \A t \in Sessions : /\ Process(t)' = Process(t) /\ Input(t)' = Input(t)
                                  /\ ExitTask(t)' = ExitTask(t)
           /\ \A q \in Requests : (Opening(q)' <=> Opening(q)) /\ (Refused(q)' <=> Refused(q))
           /\ \A t \in Sessions : Reader(t)' = Reader(t)
                 \/ \E x, y \in ReaderSteps :
                       /\ Reader(t) = <<x, r>> /\ Reader(t)' = <<y, r>>
                       /\ y \in {"cancelling", "posted", "withdrawn", "failed"} =>
                             x \in {"cancelling", "posted", "withdrawn", "failed"}
  <1> DEFINE s == SessionOf[r]
             old == tasks[s].reader
             pc == CASE st = "Pending" /\ old = <<"asking", r>> -> <<"created", r>>
                     [] st = "Cancelled" /\ old = <<"posted", r>> -> <<"withdrawn", r>>
                     [] OTHER -> old
  <1>1. Types /\ s \in Sessions /\ tasks \in [Sessions -> TaskRecs] /\ old = Reader(s)
    BY HostAssumption, TypesParts DEF HInv, HostTypes, Reader
  <1>2. old \in ReaderPcs
    BY <1>1, FieldTypes
  <1>3. CASE UNCHANGED tasks
    BY <1>1, <1>3, HostAssumption, TasksUnchanged, ReaderKeeps DEF SameTasks, SameTask
  <1>4. CASE ReaderAt(s, pc)
    <2>1. \/ pc = old
          \/ old = <<"asking", r>> /\ pc = <<"created", r>>
          \/ old = <<"posted", r>> /\ pc = <<"withdrawn", r>>
      OBVIOUS
    <2> HIDE DEF pc
    <2>2. pc \in ReaderPcs
      BY <1>2, <2>1 DEF ReaderPcs, ReaderSteps
    <2> HIDE DEF s
    <2>3. /\ tasks' \in [Sessions -> TaskRecs]
          /\ \A t \in Sessions \ {s} : SameTask(t)
          /\ Process(s)' = Process(s) /\ Input(s)' = Input(s)
          /\ ExitTask(s)' = ExitTask(s) /\ Reader(s)' = pc
      BY <1>1, <1>4, <2>2, ReaderMoves
    <2> HIDE DEF old
    <2>4. ASSUME NEW q \in Requests PROVE (Opening(q)' <=> Opening(q)) /\ (Refused(q)' <=> Refused(q))
      <3>1. CASE SessionOf[q] # s
        BY <2>3, <3>1, HostAssumption, ReaderKeeps DEF SameTask
      <3>2. CASE SessionOf[q] = s
        BY <1>1, <2>1, <2>3, <3>2 DEF Opening, Refused
      <3>3. QED
        BY <3>1, <3>2
    <2>5. \/ Reader(s)' = Reader(s)
          \/ \E x, y \in ReaderSteps :
                /\ Reader(s) = <<x, r>> /\ Reader(s)' = <<y, r>>
                /\ y \in {"cancelling", "posted", "withdrawn", "failed"} =>
                      x \in {"cancelling", "posted", "withdrawn", "failed"}
      <3>1. {"asking", "created", "posted", "withdrawn"} \subseteq ReaderSteps
        BY DEF ReaderSteps
      <3>2. QED
        BY <1>1, <2>1, <2>3, <3>1
    <2>6. QED
      BY <2>3, <2>4, <2>5 DEF SameTask
  <1>5. QED
    BY <1>3, <1>4 DEF Reply, ReaderAt

\* The last scope of a handler for r, or its end.
LEMMA HandlerEnds ==
    ASSUME HInv, NEW r \in Requests, NEW st, Reply(r, st), CpTypes', history' \in HistoryRecs,
           UNCHANGED <<inbound, apiVars, manager, hosted, r2a, a2r, agent>>,
           \A q \in Requests \ {r} : LinkKept(q) /\ cp'[q] = cp[q],
           CarriedOf(r)', FollowingOf(r)',
           Lost \subseteq Lost', Missed \subseteq Missed', Unstarted' = Unstarted, Revived' = Revived
    PROVE  HInv'
  <1>1. /\ tasks' \in [Sessions -> TaskRecs]
        /\ \A t \in Sessions : /\ Process(t)' = Process(t) /\ Input(t)' = Input(t)
                               /\ ExitTask(t)' = ExitTask(t)
        /\ \A q \in Requests : (Opening(q)' <=> Opening(q)) /\ (Refused(q)' <=> Refused(q))
        /\ \A t \in Sessions : Reader(t)' = Reader(t)
              \/ \E x, y \in ReaderSteps :
                    /\ Reader(t) = <<x, r>> /\ Reader(t)' = <<y, r>>
                    /\ y \in {"cancelling", "posted", "withdrawn", "failed"} =>
                          x \in {"cancelling", "posted", "withdrawn", "failed"}
    BY ReplyMoves
  <1>2. Types'
    <2>1. ApiTypes' /\ HostTypes' /\ agent' \in AgentRecs
      BY <1>1, TypesParts DEF HInv, ApiTypes, HostTypes, apiVars
    <2>2. QED
      BY <2>1, TypesPartsNext
  <1>3. SameAgent /\ ManagerAside /\ UNCHANGED <<table, approvals, mid, channel>>
    BY AgentUnchanged DEF ManagerAside, apiVars
  <1>4. ASSUME NEW t \in Sessions PROVE SessionInv(t)'
    <2>1. SessionInv(t) /\ Pipe(t)' = Pipe(t)
      BY <1>3 DEF HInv, SameAgent
    <2>2. (Created(t)' <=> Created(t)) /\ (Starting(t)' <=> Starting(t))
      BY <1>3 DEF Created, Starting
    <2>3. AskingOf(t)'
      <3>1. CASE Reader(t)' = Reader(t)
        BY <1>3, <2>1, <3>1, AskingKept DEF SessionInv, SameAgent
      <3>2. ASSUME NEW x \in ReaderSteps, NEW y \in ReaderSteps,
                   Reader(t) = <<x, r>>, Reader(t)' = <<y, r>>,
                   y \in {"cancelling", "posted", "withdrawn", "failed"} =>
                      x \in {"cancelling", "posted", "withdrawn", "failed"}
            PROVE  AskingOf(t)'
        BY <1>3, <2>1, <3>2 DEF SessionInv, AskingOf, SameAgent
      <3>3. QED
        BY <1>1, <3>1, <3>2
    <2>4. ExitTask(t) = "off" => Reader(t)' = Reader(t)
      BY <1>1, <2>1 DEF SessionInv, LivingOf
    <2>5. LivingOf(t)'
      BY <1>1, <2>1, <2>2, <2>4 DEF SessionInv, LivingOf
    <2>6. RecordedOf(t)'
      BY <1>1, <1>3, <2>1, <2>2, RecordedKept DEF SessionInv, SameAgent
    <2>7. BackedOf(t)'
      BY <1>1, <1>3, <2>1, <2>2, BackedKept DEF SessionInv
    <2>8. QED
      BY <2>3, <2>5, <2>6, <2>7 DEF SessionInv
  <1>5. ASSUME NEW q \in Requests PROVE RequestInv(q)'
    <2>1. RequestInv(q) /\ SessionOf[q] \in Sessions
      BY HostAssumption DEF HInv
    <2>2. Unhandled(q)' <=> Unhandled(q)
      BY <1>3, <2>1, LinesKeep DEF SameAgent
    <2>3. RequestKept(q)
      BY <1>1, <1>3, <2>2, AsideKeeps DEF RequestKept, SameAgent
    <2>4. \A d \in Decided : Token(q, d)' <=> Token(q, d)
      BY <1>3, TokensKept
    <2>5. Unreachable(SessionOf[q]) => Unreachable(SessionOf[q])'
      BY <1>1, <2>1 DEF Unreachable
    <2>6. CASE q # r
      BY <1>1, <1>3, <2>1, <2>3, <2>4, <2>5, <2>6, RequestStays
    <2>7. CASE q = r
      <3>1. AnsweringOf(r)' /\ AgreeingOf(r)' /\ FindableOf(r)' /\ SilenceOf(r)'
        BY <1>1, <2>1, <2>3, <2>4, <2>5, <2>7, TalkKept
      <3>2. QED
        BY <2>7, <3>1 DEF RequestInv
    <2>8. QED
      BY <2>6, <2>7
  <1>6. QED
    BY <1>2, <1>4, <1>5 DEF HInv

\* The command is queued, perhaps ahead of the one it depends on.
LEMMA QueueCommandKeeps ==
    ASSUME HInv, NEW r \in Requests, NEW st \in {"Pending"} \cup Decided, QueueCommand(r, st)
    PROVE  HInv'
  <1> DEFINE a == <<"approval", r>>
             c == CommandOf(r, st)
  <1>1. /\ Queueing(r, st) /\ calls' = calls \ {<<"queue", r, st>>} /\ link' = Append(link, c)
        /\ Reply(r, st) /\ UNCHANGED <<inbound, cp, apiVars, manager, hosted, r2a, a2r, agent>>
    BY DEF QueueCommand, Queueing
  <1>2. Types /\ CpTypes /\ RequestInv(r) /\ history \in HistoryRecs /\ SessionOf[r] \in Sessions
    BY HostAssumption, TypesParts DEF HInv
  <1>3. ~inbound /\ PollingOf(r) /\ \A s2 \in {"Pending"} \cup Decided : ~Recording(r, s2)
    BY <1>1, <1>2 DEF RequestInv, FollowingOf
  <1>4. /\ c \in Commands /\ \A q \in Requests \ {r} : ~Speaks(c, q)
        /\ st = "Pending" => c = a
        /\ st # "Pending" => c = <<"decide", r, st>> /\ c # a
    BY DEF Commands, CommandOf, Speaks, Decided
  <1>5. \A q \in Requests \ {r} : CallsKept(q)
    BY <1>1, CallsApart
  <1>6. /\ \A x : Queueing(r, x)' <=> Queueing(r, x) /\ x # st
        /\ \A x : Recording(r, x)' <=> Recording(r, x)
    BY <1>1 DEF Queueing, Recording
  <1>7. /\ history' \in HistoryRecs /\ Lost' = Lost /\ Missed \subseteq Missed'
        /\ Unstarted' = Unstarted /\ Revived' = Revived
        /\ Queueing(r, "Pending")' => r \in Missed'
    <2>1. CASE <<"queue", r, "Pending">> \in calls'
      <3>1. history' = [history EXCEPT !.overtaken = @ \cup {r}]
        BY <2>1 DEF QueueCommand
      <3>2. QED
        BY <1>2, <3>1 DEF HistoryRecs, Lost, Missed, Unstarted, Revived
    <2>2. CASE <<"queue", r, "Pending">> \notin calls'
      <3>1. UNCHANGED history
        BY <2>2 DEF QueueCommand
      <3>2. QED
        BY <1>2, <2>2, <3>1, HistoryUnchanged DEF SameHistory, Queueing
    <2>3. QED
      BY <2>1, <2>2
  <1>8. Unhandled(r)' <=> Unhandled(r)
    BY <1>1, <1>2, AgentUnchanged, LinesKeep DEF SameAgent
  <1>9. UNCHANGED <<approvals, mid>>
    BY <1>1 DEF apiVars
  <1> HIDE DEF c
  <1>10. /\ link' \in Seq(Commands)
         /\ \A e : Sent(e)' <=> Sent(e) \/ e = c
         /\ \A e : e # c /\ Once(e) => Once(e)'
         /\ ~Sent(c) => Once(c)'
         /\ \A e : e # c /\ Precedes(a, e) => Precedes(a, e)'
         /\ Sent(a) /\ ~Sent(c) => Precedes(a, c)'
    BY <1>1, <1>2, <1>4, LinkGrows
  <1>11. CpTypes' /\ \A q \in Requests \ {r} : LinkKept(q) /\ cp'[q] = cp[q]
    BY <1>1, <1>2, <1>4, <1>5, <1>10, LinkAside DEF CpTypes
  <1>12. ASSUME st = "Pending" PROVE CarriedOf(r)' /\ FollowingOf(r)'
    <2>1. c = a /\ \A d \in Decided : <<"decide", r, d>> # a /\ d # "Pending"
      BY <1>4, <1>12 DEF Decided
    <2>2. ~Sent(a) /\ a \notin mid /\ approvals[r] = "absent" /\ ~Unhandled(r) /\ Once(a)
      BY <1>1, <1>2, <1>12 DEF RequestInv, CarriedOf
    <2>3. cp[r] # "absent"
      BY <1>1, <1>3, <1>12 DEF PollingOf
    <2> HIDE DEF a
    <2>4. CarriedOf(r)'
      BY <1>6, <1>8, <1>9, <1>10, <1>12, <2>1, <2>2 DEF CarriedOf, a
    <2>5. PollingOf(r)'
      BY <1>1, <1>3, <1>6, <1>7, <1>9, <1>10, <2>1, <2>2, <2>3 DEF PollingOf, a
    <2>6. QED
      BY <1>1, <1>3, <1>6, <2>4, <2>5 DEF FollowingOf
  <1>13. ASSUME st \in Decided PROVE CarriedOf(r)' /\ FollowingOf(r)'
    <2>1. c = <<"decide", r, st>> /\ c # a /\ st # "Pending" /\ st # "absent"
      BY <1>4, <1>13 DEF Decided
    <2>2. cp[r] = st /\ ~Sent(c) /\ approvals[r] \notin Decided
      BY <1>1, <1>3, <1>13, <2>1 DEF PollingOf
    <2>3. ASSUME NEW e \in Decided, e # st
          PROVE  /\ ~Queueing(r, e) /\ ~Sent(<<"decide", r, e>>) /\ <<"decide", r, e>> # c
                 /\ Once(<<"decide", r, e>>)
      BY <1>3, <2>1, <2>2, <2>3 DEF PollingOf
    <2>4. ~Unhandled(r)
      BY <1>2, <2>1, <2>2 DEF RequestInv, CarriedOf
    <2> HIDE DEF a
    <2>5. CarriedOf(r)'
      BY <1>2, <1>6, <1>8, <1>9, <1>10, <2>1, <2>4 DEF RequestInv, CarriedOf, a
    <2>6. Queueing(r, "Pending") => r \in Missed'
      BY <1>6, <1>7, <2>1
    <2>7. \/ r \in Lost' \cup Missed' \/ a \in mid \/ Precedes(a, c)' \/ approvals[r] # "absent"
      BY <1>3, <1>7, <1>10, <2>1, <2>2, <2>6 DEF PollingOf, a
    <2>8. Once(c)' /\ Sent(c)' /\ ~Queueing(r, st)'
      BY <1>6, <1>10, <2>2
    <2>9. \A e \in Decided : e # st =>
             ~Queueing(r, e)' /\ ~Sent(<<"decide", r, e>>)' /\ Once(<<"decide", r, e>>)'
      BY <1>6, <1>10, <2>3
    <2>10. \/ Queueing(r, "Pending")' \/ Sent(a)' \/ a \in mid' \/ approvals'[r] # "absent" \/ r \in Lost'
      BY <1>3, <1>6, <1>7, <1>9, <1>10, <2>1, <2>2 DEF PollingOf, a
    <2>11. PollingOf(r)'
      BY <1>1, <1>9, <2>1, <2>2, <2>7, <2>8, <2>9, <2>10 DEF PollingOf, a
    <2>12. QED
      BY <1>1, <1>3, <1>6, <2>5, <2>11 DEF FollowingOf
  <1>14. QED
    BY <1>1, <1>7, <1>11, <1>12, <1>13, HandlerEnds

\* The control plane records what the runner has done.
LEMMA RecordApprovalKeeps ==
    ASSUME HInv, NEW r \in Requests, NEW st \in {"Pending"} \cup Decided, RecordApproval(r, st)
    PROVE  HInv'
  <1> DEFINE a == <<"approval", r>>
  <1>1. /\ Recording(r, st) /\ (st # "Pending" => cp[r] = "Pending")
        /\ calls' = calls \ {<<"record", r, st>>} /\ cp' = [cp EXCEPT ![r] = st]
        /\ Reply(r, st) /\ UNCHANGED <<inbound, link, apiVars, manager, hosted, r2a, a2r, agent, history>>
    BY DEF RecordApproval, Recording
  <1>2. Types /\ CpTypes /\ RequestInv(r) /\ history \in HistoryRecs /\ SessionOf[r] \in Sessions
    BY HostAssumption, TypesParts DEF HInv
  <1>3. inbound /\ CalledOf(r) /\ \A x \in {"Pending"} \cup Decided : ~Queueing(r, x)
    BY <1>1, <1>2 DEF RequestInv, FollowingOf
  <1>4. /\ \A x : Recording(r, x)' <=> Recording(r, x) /\ x # st
        /\ \A x : Queueing(r, x)' <=> Queueing(r, x)
        /\ \A e : (Sent(e)' <=> Sent(e)) /\ (Once(e)' <=> Once(e))
    BY <1>1 DEF Queueing, Recording, Sent, Once
  <1>5. CpTypes' /\ cp'[r] = st /\ \A q \in Requests \ {r} : cp'[q] = cp[q]
    BY <1>1, <1>2 DEF CpTypes
  <1>6. ASSUME NEW q \in Requests \ {r} PROVE LinkKept(q)
    <2>1. CallsKept(q)
      BY <1>1, CallsApart
    <2>2. QED
      BY <1>1, <2>1 DEF LinkKept, Sent, Once, Precedes
  <1>7. (Unhandled(r)' <=> Unhandled(r)) /\ UNCHANGED <<approvals, mid>>
    BY <1>1, <1>2, AgentUnchanged, LinesKeep DEF SameAgent, apiVars
  <1>8. approvals[r] = st /\ st # "absent"
    BY <1>1, <1>3 DEF CalledOf, Decided
  <1>9. CarriedOf(r)'
    BY <1>2, <1>4, <1>7, <1>8 DEF RequestInv, CarriedOf
  <1>10. CalledOf(r)'
    <2>1. CASE st = "Pending"
      <3>1. \A d \in Decided : d # "Pending"
        BY DEF Decided
      <3>2. QED
        BY <1>3, <1>4, <1>5, <1>7, <1>8, <2>1, <3>1 DEF CalledOf
    <2>2. CASE st # "Pending"
      <3>1. ~Recording(r, "Pending")
        BY <1>1, <1>3, <2>2 DEF CalledOf
      <3>2. QED
        BY <1>3, <1>4, <1>5, <1>7, <1>8, <2>2, <3>1 DEF CalledOf
    <2>3. QED
      BY <2>1, <2>2
  <1>11. FollowingOf(r)'
    BY <1>1, <1>3, <1>4, <1>10 DEF FollowingOf
  <1>12. QED
    BY <1>1, <1>2, <1>5, <1>6, <1>9, <1>11, HistoryUnchanged, HandlerEnds DEF SameHistory

\* A handler ends early: what was not queued is lost.
LEMMA DropHandlerKeeps ==
    ASSUME HInv, NEW call \in calls, DropHandler(call) PROVE HInv'
  <1>1. Types /\ CpTypes /\ history \in HistoryRecs
    BY TypesParts DEF HInv
  <1>2. PICK x \in {"queue", "record"}, r \in Requests, st \in {"Pending"} \cup Decided :
           call = <<x, r, st>>
    <2>1. call \in {"queue", "record"} \X Requests \X ({"Pending"} \cup Decided)
      BY <1>1 DEF CpTypes, Calls
    <2>2. /\ call = <<call[1], call[2], call[3]>> /\ call[1] \in {"queue", "record"}
          /\ call[2] \in Requests /\ call[3] \in {"Pending"} \cup Decided
      BY <2>1
    <2>3. QED
      BY <2>2, Zenon
  <1> DEFINE gone == IF x = "queue" THEN {r} ELSE {}
  <1>3. /\ calls' = calls \ {<<x, r, st>>}
        /\ history' = [history EXCEPT !.lost = @ \cup gone]
        /\ UNCHANGED <<inbound, cp, link, apiVars, hostVars, agent>>
    BY <1>2 DEF DropHandler
  <1>4. gone \subseteq Requests /\ (x = "queue" => r \in gone)
    OBVIOUS
  <1> HIDE DEF gone
  <1>5. /\ history' \in HistoryRecs /\ Lost' = Lost \cup gone /\ Missed' = Missed
        /\ Unstarted' = Unstarted /\ Revived' = Revived
    BY <1>1, <1>3, <1>4 DEF HistoryRecs, Lost, Missed, Unstarted, Revived
  <1>6. RequestInv(r) /\ SessionOf[r] \in Sessions
    BY HostAssumption DEF HInv
  <1>7. (Unhandled(r)' <=> Unhandled(r)) /\ UNCHANGED <<approvals, mid>>
    BY <1>3, <1>6, AgentUnchanged, LinesKeep DEF SameAgent, apiVars
  <1>8. /\ \A y : Recording(r, y)' => Recording(r, y)
        /\ \A y : Queueing(r, y)' => Queueing(r, y)
        /\ x = "record" => \A y : Queueing(r, y)' <=> Queueing(r, y)
        /\ \A e : (Sent(e)' <=> Sent(e)) /\ (Once(e)' <=> Once(e))
        /\ \A b, e : Precedes(b, e)' <=> Precedes(b, e)
    BY <1>3 DEF Queueing, Recording, Sent, Once, Precedes
  <1>9. ASSUME NEW q \in Requests \ {r} PROVE LinkKept(q)
    <2>1. CallsKept(q)
      BY <1>3, CallsApart
    <2>2. QED
      BY <1>3, <2>1 DEF LinkKept, Sent, Once, Precedes
  <1>10. CpTypes'
    BY <1>1, <1>3 DEF CpTypes
  <1>11. CarriedOf(r)'
    BY <1>3, <1>6, <1>7, <1>8 DEF RequestInv, CarriedOf
  <1>12. CalledOf(r) => CalledOf(r)'
    BY <1>3, <1>7, <1>8 DEF CalledOf
  <1>13. ASSUME ~inbound PROVE PollingOf(r)'
    <2>1. PollingOf(r) /\ x = "queue"
      <3>1. x = "record" => Recording(r, st)
        BY <1>2 DEF Recording
      <3>2. QED
        BY <1>6, <1>13, <3>1 DEF RequestInv, FollowingOf
    <2>2. r \in Lost'
      BY <1>4, <1>5, <2>1
    <2>3. QED
      BY <1>3, <1>5, <1>7, <1>8, <2>1, <2>2 DEF PollingOf
  <1>14. FollowingOf(r)'
    BY <1>3, <1>6, <1>8, <1>12, <1>13 DEF RequestInv, FollowingOf
  <1>15. Reply(r, st) /\ UNCHANGED <<inbound, apiVars, manager, hosted, r2a, a2r, agent>>
    BY <1>3 DEF Reply, hostVars
  <1>16. QED
    BY <1>3, <1>5, <1>9, <1>10, <1>11, <1>14, <1>15, HandlerEnds

\* The reader is told of an error or waits no longer.
LEMMA GiveUpKeeps ==
    ASSUME HInv, NEW s \in Sessions, GiveUp(s) PROVE HInv'
  <1>1. PICK r \in Requests, x \in {"asking", "posted"} : Reader(s) = <<x, r>>
    BY ReaderShape DEF HInv, GiveUp, ReaderSteps
  <1> DEFINE pc == IF x = "asking" THEN <<"refused", r>> ELSE <<"failed", r>>
  <1>2. /\ ReaderAt(s, pc)
        /\ UNCHANGED <<inbound, cpVars, apiVars, manager, hosted, r2a, a2r, agent, history>>
    BY <1>1 DEF GiveUp
  <1>3. HostTypes /\ s = SessionOf[r] /\ (x = "posted" => r \in Withdrawn)
    BY <1>1, TypesParts DEF HInv, SessionInv, AskingOf, ReaderSteps
  <1>4. r2a' \subseteq Requests /\ a2r' \subseteq Requests
    BY <1>2, <1>3 DEF HostTypes
  <1>5. /\ pc \in ReaderPcs /\ Reader(s)[1] \in ReaderSteps
        /\ \A q \in Requests, y \in ReaderSteps : pc = <<y, q>> =>
              s = SessionOf[q] /\ (y \in {"cancelling", "posted", "withdrawn", "failed"} => q \in Withdrawn)
    BY <1>1, <1>3 DEF ReaderPcs, ReaderSteps
  <1>6. (x = "asking" /\ pc = <<"refused", r>>) \/ (x = "posted" /\ pc = <<"failed", r>>)
    OBVIOUS
  <1> HIDE DEF pc
  <1>7. /\ Types' /\ SameHistory /\ SameAgent
        /\ UNCHANGED <<inbound, cp, calls, link, table, approvals, mid, channel>>
        /\ \A t \in Sessions : SessionInv(t)' /\ Process(t)' = Process(t) /\ Input(t)' = Input(t)
        /\ Reader(s)' = pc
        /\ \A q \in Requests : SessionOf[q] # s => Reader(SessionOf[q])' = Reader(SessionOf[q])
        /\ \A q \in Requests : AsideOf(q) /\ (Unhandled(q)' <=> Unhandled(q))
        /\ \A q \in Requests :
              /\ q \in a2r' <=> q \in a2r
              /\ Opening(q)' <=> Opening(q)
              /\ Refused(q)' <=> Refused(q)
              => RequestInv(q)'
    BY <1>2, <1>4, <1>5, ReaderStepKeeps
  <1>8. ASSUME NEW q \in Requests
        PROVE  (Opening(q)' <=> Opening(q)) /\ (q # r \/ x = "posted" => (Refused(q)' <=> Refused(q)))
    <2>1. CASE SessionOf[q] # s
      BY <1>7, <2>1, ReaderKeeps
    <2>2. CASE SessionOf[q] = s
      BY <1>1, <1>6, <1>7, <2>2 DEF Opening, Refused
    <2>3. QED
      BY <2>1, <2>2
  <1>9. ASSUME NEW q \in Requests, q # r \/ x = "posted" PROVE RequestInv(q)'
    BY <1>2, <1>7, <1>8, <1>9
  <1>10. ASSUME x = "asking" PROVE RequestInv(r)'
    <2>1. RequestInv(r) /\ Refused(r)' /\ AsideOf(r) /\ SessionOf[r] \in Sessions
      BY <1>3, <1>6, <1>7, <1>10, HostAssumption DEF HInv, Refused
    <2>2. (Unhandled(r)' <=> Unhandled(r)) /\ (Opening(r)' <=> Opening(r))
      BY <1>7, <1>8
    <2>3. AnsweringOf(r)'
      BY <1>2, <1>7, <2>1, <2>2 DEF RequestInv, AnsweringOf, SameAgent, AsideOf
    <2>4. \A d \in Decided : Token(r, d)' <=> Token(r, d)
      BY <1>7, <2>1 DEF Token, AsideOf
    <2>5. AgreeingOf(r)'
      BY <1>7, <2>1, <2>4, AgreeingKept DEF RequestInv
    <2>6. Opening(r)'
      BY <2>1 DEF Opening, Refused
    <2>7. FindableOf(r)' /\ SilenceOf(r)'
      BY <2>1, <2>6 DEF FindableOf, SilenceOf, Coming
    <2>8. CarriedOf(r)' /\ FollowingOf(r)'
      BY <1>7, <2>1, <2>2, LinkUnchanged, CommandsKept DEF RequestInv, SameHistory
    <2>9. QED
      BY <2>3, <2>5, <2>7, <2>8 DEF RequestInv
  <1>11. QED
    BY <1>1, <1>7, <1>9, <1>10 DEF HInv

-----------------------------------------------------------------------------
(* The invariant *)

LEMMA InvInit == HostInit => HInv
  <1> SUFFICES ASSUME HostInit PROVE HInv
    OBVIOUS
  <1> DEFINE task == [process |-> "none", input |-> "none", reader |-> <<"off">>, exit |-> "off"]
  <1>1. /\ inbound \in BOOLEAN /\ cp = [r \in Requests |-> "absent"] /\ calls = {} /\ link = <<>>
        /\ table = [s \in Sessions |-> "absent"] /\ approvals = [r \in Requests |-> "absent"]
        /\ mid = {} /\ channel = <<>> /\ manager = <<"idle">>
        /\ hosted = {} /\ r2a = {} /\ a2r = {}
        /\ tasks = [s \in Sessions |-> task]
    BY DEF HostInit
  <1>2. /\ Asked = {} /\ Withdrawn = {} /\ agent \in AgentRecs
        /\ \A r \in Requests : Answers(r) = <<>>
        /\ \A s \in Sessions : Pipe(s) = <<>>
    <2>1. agent = [asked |-> {}, cancelled |-> {}, answers |-> [r \in Requests |-> <<>>],
                   pipe |-> [s \in Sessions |-> <<>>]]
      BY DEF HostInit
    <2>2. QED
      BY <2>1 DEF AgentRecs, Asked, Withdrawn, Answers, Pipe
  <1>3. history \in HistoryRecs
    <2>1. history = [dispatched |-> <<>>, updates |-> 0,
                     lost |-> {}, overtaken |-> {}, missed |-> {},
                     unstarted |-> {}, revived |-> {}]
      BY DEF HostInit
    <2>2. QED
      BY <2>1 DEF HistoryRecs
  <1>4. task \in TaskRecs /\ task.process = "none" /\ task.input = "none"
        /\ task.reader = <<"off">> /\ task.exit = "off"
    BY DEF TaskRecs, ReaderPcs
  <1> HIDE DEF task
  <1>5. \A s \in Sessions : /\ Process(s) = "none" /\ Input(s) = "none"
                            /\ ExitTask(s) = "off" /\ Reader(s) = <<"off">>
    BY <1>1, <1>4 DEF Process, Input, ExitTask, Reader
  <1>6. /\ Len(link) = 0 /\ link \in Seq(Commands)
        /\ Len(channel) = 0 /\ channel \in Seq(RunnerEvents)
    BY <1>1
  <1>7. Types
    <2>1. CpTypes
      BY <1>1, <1>6 DEF CpTypes
    <2>2. ApiTypes
      BY <1>1, <1>6, HostAssumption DEF ApiTypes
    <2>3. HostTypes
      BY <1>1, <1>4 DEF HostTypes
    <2>4. QED
      BY <1>2, <1>3, <2>1, <2>2, <2>3, TypesParts
  <1>8. (\A c : ~Sent(c) /\ Once(c)) /\ (\A e : e \notin ToSet(channel))
    <2>1. \A i \in 1 .. 0 : FALSE
      OBVIOUS
    <2>2. /\ \A e : e \in ToSet(link) <=> \E i \in 1 .. Len(link) : link[i] = e
          /\ \A e : e \in ToSet(channel) <=> \E i \in 1 .. Len(channel) : channel[i] = e
      BY <1>6, SeqSet
    <2>3. QED
      BY <1>6, <2>1, <2>2 DEF Sent, Once
  <1>9. ASSUME NEW s \in Sessions PROVE SessionInv(s)
    <2>1. Len(Pipe(s)) = 0 /\ \A i \in 1 .. 0 : FALSE
      BY <1>2
    <2>2. AskingOf(s)
      BY <1>5, <2>1 DEF AskingOf
    <2>3. LivingOf(s)
      BY <1>1, <1>5 DEF LivingOf, Starting
    <2>4. RecordedOf(s)
      BY <1>1, <1>2, <1>5, <1>8 DEF RecordedOf, Created, RequestsOf
    <2>5. BackedOf(s)
      BY <1>1, <1>5 DEF BackedOf
    <2>6. QED
      BY <2>2, <2>3, <2>4, <2>5 DEF SessionInv
  <1>10. ASSUME NEW r \in Requests PROVE RequestInv(r)
    <2>1. SessionOf[r] \in Sessions /\ Unhandled(r) /\ cp[r] = "absent" /\ approvals[r] = "absent"
      BY <1>1, <1>2, HostAssumption DEF Unhandled
    <2>2. ~Opening(r)
      BY <1>5, <2>1 DEF Opening, Refused
    <2>3. /\ ~Forwarding(r) /\ ~AtAnswer(r)
          /\ \A d : manager \notin {<<"found", r, d>>, <<"answering", r, d>>}
      BY <1>1, Idle DEF Occupied
    <2>4. \A d \in Decided : ~Token(r, d)
      BY <1>1, <1>8, <2>3 DEF Token
    <2>5. AnsweringOf(r)
      BY <1>1, <1>2, <2>1, <2>2, <2>3 DEF AnsweringOf
    <2>6. AgreeingOf(r) /\ FindableOf(r)
      BY <2>1, <2>4 DEF AgreeingOf, FindableOf
    <2>7. SilenceOf(r)
      BY <2>1 DEF SilenceOf, Decided
    <2>8. \A st : ~Queueing(r, st) /\ ~Recording(r, st)
      BY <1>1 DEF Queueing, Recording
    <2>10. CarriedOf(r)
      BY <1>1, <1>8, <2>1, <2>8 DEF CarriedOf
    <2>11. CalledOf(r)
      BY <1>8, <2>1, <2>8 DEF CalledOf, Decided
    <2>12. PollingOf(r)
      BY <1>1, <1>8, <2>1, <2>8 DEF PollingOf, Decided
    <2>13. FollowingOf(r)
      BY <2>8, <2>11, <2>12 DEF FollowingOf
    <2>9. QED
      BY <2>5, <2>6, <2>7, <2>10, <2>13 DEF RequestInv
  <1>11. QED
    BY <1>7, <1>9, <1>10 DEF HInv

LEMMA InvStutters == HInv /\ UNCHANGED vars => HInv'
  <1> SUFFICES ASSUME HInv, UNCHANGED vars PROVE HInv'
    OBVIOUS
  <1>1. UNCHANGED <<inbound, cp, calls, link, table, approvals, mid, channel, manager, hosted, a2r,
                    cpVars, apiVars, hostVars, agent, history>>
    BY DEF vars, cpVars, apiVars, hostVars
  <1>2. SameAgent /\ SameTasks /\ SameHistory /\ ManagerAside
    BY <1>1, AgentUnchanged, TasksUnchanged, HistoryUnchanged DEF hostVars, ManagerAside
  <1>3. Types'
    <2>1. CpTypes' /\ ApiTypes' /\ HostTypes' /\ agent' \in AgentRecs /\ history' \in HistoryRecs
      BY <1>1, TypesParts DEF HInv, CpTypes, ApiTypes, HostTypes, hostVars
    <2>2. QED
      BY <2>1, TypesPartsNext
  <1>4. \A s \in Sessions : Starting(s)' <=> Starting(s)
    BY <1>1 DEF Starting
  <1>5. \A r \in Requests : LinkKept(r)
    BY <1>1, LinkUnchanged
  <1>6. QED
    BY <1>1, <1>2, <1>3, <1>4, <1>5, QuietStep DEF SameHistory

\* Every step of the runner and of the control plane keeps the invariant.
LEMMA InvNext == HInv /\ [HostNext]_vars => HInv'
  <1> SUFFICES ASSUME HInv, [HostNext]_vars PROVE HInv'
    OBVIOUS
  <1>1. CASE UNCHANGED vars
    BY <1>1, InvStutters
  <1>2. CASE ControlPlaneStep
    <2>1. \A d \in {"Approved", "Denied"} : d \in Decided
      BY DEF Decided
    <2>2. QED
      BY <1>2, <2>1, DispatchKeeps, PromptKeeps, PostStateKeeps, DecideKeeps, QueueCommandKeeps,
         RecordApprovalKeeps, DropHandlerKeeps, LoseCommandKeeps DEF ControlPlaneStep
  <1>3. CASE ApiStep
    BY <1>3, ApplyCommandKeeps, InsertApprovalKeeps, FinishDecisionKeeps DEF ApiStep
  <1>4. CASE ManagerStep
    BY <1>4, HandleEventKeeps, StartTasksKeeps, EndSpawnKeeps, ForgetRequestKeeps, ForwardAnswerKeeps
      DEF ManagerStep
  <1>5. CASE AgentStep
    BY <1>5, AskKeeps, WithdrawKeeps, ReportKeeps, ExitKeeps DEF AgentStep
  <1>6. ASSUME NEW s \in Sessions, ReaderStep(s) PROVE HInv'
    BY <1>6, HandleLineKeeps, GiveUpKeeps, StoreRequestKeeps, StoreApprovalKeeps, DenyRequestKeeps,
       PostCancelKeeps, EndCancelKeeps, RestoreRequestKeeps, EndReaderKeeps DEF ReaderStep
  <1>7. ASSUME NEW s \in Sessions, ExitStep(s) PROVE HInv'
    BY <1>7, RemoveHandleKeeps, RecordExitKeeps DEF ExitStep
  <1>8. QED
    BY <1>1, <1>2, <1>3, <1>4, <1>5, <1>6, <1>7 DEF HostNext

\* The invariant of the runner holds in every state, whatever the sessions,
\* the requests, the capacities and the order of the steps.
THEOREM RunnerInvariance == HostSpec => []HInv
  BY InvInit, InvNext, PTL DEF HostSpec

\* Every variable keeps its type and the channel its capacity.
THEOREM RunnerTypeCorrect == HostSpec => []TypeOK
  <1>1. HInv => TypeOK
    BY DEF HInv, Types
  <1>2. QED
    BY <1>1, RunnerInvariance, PTL

\* An agent hears of a request at most once, and "allow" only when the runner
\* has Approved and the control plane nothing else: Approved, or still Pending
\* for a runner that is called and acts first (forward_approval_resolution,
\* handle_control_request, apply_approval_decision).
THEOREM AnswersCorrect == HostSpec => []AnsweredOnceAsDecided
  <1>1. HInv => AnsweredOnceAsDecided
    <2> SUFFICES ASSUME HInv, NEW r \in Requests
                 PROVE  /\ Len(agent.answers[r]) <= 1
                        /\ agent.answers[r] = <<"allow">> =>
                              /\ approvals[r] = "Approved"
                              /\ cp[r] = "Approved" \/ (inbound /\ cp[r] = "Pending")
      BY DEF AnsweredOnceAsDecided
    <2>1. AnsweringOf(r) /\ FollowingOf(r) /\ "Approved" \in Decided
      BY DEF HInv, RequestInv, Decided
    <2>2. /\ Answers(r) \in {<<>>, <<"allow">>, <<"deny">>}
          /\ Answers(r) = <<"allow">> => approvals[r] = "Approved"
      BY <2>1 DEF AnsweringOf
    <2>3. approvals[r] = "Approved" => cp[r] = "Approved" \/ (inbound /\ cp[r] = "Pending")
      BY <2>1 DEF FollowingOf, CalledOf, PollingOf
    <2>4. Len(<<>>) <= 1 /\ Len(<<"allow">>) <= 1 /\ Len(<<"deny">>) <= 1
      OBVIOUS
    <2>5. QED
      BY <2>2, <2>3, <2>4 DEF Answers
  <1>2. QED
    BY <1>1, RunnerInvariance, PTL

\* An agent that still waits for a request that was decided has the decision on
\* its way, or one of the known causes has struck: a handler, a command or an
\* event lost, the decision queued ahead of the approval, the request not in the
\* map when the manager looked, the input closed.
THEOREM SilencesExplained == HostSpec => []SilenceHasCause
  <1>1. HInv => SilenceHasCause
    <2> SUFFICES ASSUME HInv, NEW r \in Requests, cp[r] \in Decided, agent.answers[r] = <<>>,
                        r \notin agent.cancelled, Live(SessionOf[r])
                 PROVE  \/ OnItsWay(r)
                        \/ r \in history.lost \cup history.overtaken \cup history.missed
                        \/ tasks[SessionOf[r]].input = "closed"
      BY DEF SilenceHasCause
    <2>1. SilenceOf(r) /\ FollowingOf(r) /\ link \in Seq(Commands) /\ channel \in Seq(RunnerEvents)
      BY DEF HInv, RequestInv, Types
    <2>2. approvals[r] \in Decided =>
             Coming(r) \/ r \in Lost \cup Missed \/ Input(SessionOf[r]) = "closed"
      BY <2>1 DEF SilenceOf, Answers, Withdrawn, Live, Process
    <2>5. \/ approvals[r] \in Decided
          \/ ~inbound /\ (Queueing(r, cp[r]) \/ Sent(<<"decide", r, cp[r]>>))
          \/ r \in Lost \cup Missed
      BY <2>1 DEF FollowingOf, CalledOf, PollingOf
    <2>3. ASSUME Coming(r) PROVE OnItsWay(r)
      <3>1. CASE Refused(r)
        BY <3>1 DEF Refused, OnItsWay
      <3>2. ASSUME NEW d \in Decided, Token(r, d) PROVE OnItsWay(r)
        <4>2. CASE \E b \in BOOLEAN : <<"decision", r, d, b>> \in mid
          <5>1. PICK b \in BOOLEAN : <<"decision", r, d, b>> \in mid
            BY <4>2
          <5>2. <<"decision", r, d, b>>[1] = "decision" /\ <<"decision", r, d, b>>[2] = r
            OBVIOUS
          <5>3. QED
            BY <5>1, <5>2 DEF OnItsWay
        <4>3. CASE <<"resolved", r, d>> \in ToSet(channel)
          <5>1. PICK i \in DOMAIN channel : channel[i] = <<"resolved", r, d>>
            BY <4>3 DEF ToSet
          <5>2. channel[i][1] = "resolved" /\ channel[i][2] = r
            BY <5>1
          <5>3. QED
            BY <5>2 DEF OnItsWay
        <4>4. CASE manager \in {<<"found", r, d>>, <<"answering", r, d>>}
          BY <4>4 DEF OnItsWay
        <4>5. QED
          BY <3>2, <4>2, <4>3, <4>4 DEF Token
      <3>3. QED
        BY <2>3, <3>1, <3>2 DEF Coming
    <2>4. ~inbound /\ (Queueing(r, cp[r]) \/ Sent(<<"decide", r, cp[r]>>)) => OnItsWay(r)
      BY DEF Queueing, Sent, OnItsWay
    <2>6. QED
      BY <2>2, <2>3, <2>4, <2>5 DEF Lost, Missed, Input
  <1>2. QED
    BY <1>1, RunnerInvariance, PTL

\* A session that counts against max_parallel_sessions has an agent, or will
\* have one, or is about to be ended, unless one of the known causes has struck.
THEOREM CapacityExplained == HostSpec => []CapacityHeldByAgents
  <1>1. HInv => CapacityHeldByAgents
    <2> SUFFICES ASSUME HInv, NEW s \in Sessions, table[s] \in Counted
                 PROVE  \/ tasks[s].process = "live"
                        \/ tasks[s].exit \in {"waiting", "removed"}
                        \/ \E i \in DOMAIN channel : channel[i] = <<"created", s>>
                        \/ manager = <<"starting", s>>
                        \/ s \in history.lost \cup history.unstarted \cup history.revived
                        \/ tasks[s].exit = "aborted"
      BY DEF CapacityHeldByAgents
    <2>1. LivingOf(s) /\ BackedOf(s) /\ Types
      BY DEF HInv, SessionInv
    <2>2. Created(s) => \E i \in DOMAIN channel : channel[i] = <<"created", s>>
      BY DEF Created, ToSet
    <2>3. table[s] # "absent"
      BY DEF Counted
    <2>4. ExitTask(s) \in {"off", "waiting", "aborted", "removed", "done"}
      BY <2>1, FieldTypes
    <2>5. Process(s) # "none" \/ Created(s) \/ s \in Lost \cup Unstarted
      BY <2>1, <2>3 DEF BackedOf
    <2>6. Process(s) # "none" =>
            Starting(s) \/ ExitTask(s) \in {"waiting", "aborted", "removed"} \/ s \in Revived
      BY <2>1, <2>4 DEF LivingOf, BackedOf
    <2>7. QED
      BY <2>2, <2>5, <2>6 DEF ExitTask, Starting, Lost, Unstarted, Revived
  <1>2. QED
    BY <1>1, RunnerInvariance, PTL

-----------------------------------------------------------------------------
(* What makes the manager miss a request *)

\* The first scope of create_approval leaves missed alone.
LEMMA RecordsKeepMissed ==
    ASSUME Types, NEW r \in Requests, create_approval(r)
    PROVE  NotFound' = NotFound
  <1>1. history \in HistoryRecs
    BY TypesParts
  <1>2. CASE UNCHANGED history
    BY <1>2 DEF NotFound
  <1>3. ASSUME NEW back, history' = [history EXCEPT !.revived = @ \cup back]
        PROVE  NotFound' = NotFound
    BY <1>1, <1>3 DEF HistoryRecs, NotFound
  <1>4. QED
    BY <1>2, <1>3 DEF create_approval

\* So does a state from a client or from the agent.
LEMMA StatesKeepMissed ==
    ASSUME Types, NEW s, NEW state, apply_session_state_update(s, state)
    PROVE  NotFound' = NotFound
  <1>1. history \in HistoryRecs
    BY TypesParts
  <1>2. CASE UNCHANGED history
    BY <1>2 DEF NotFound
  <1>3. ASSUME NEW back, history' = [history EXCEPT !.revived = @ \cup back]
        PROVE  NotFound' = NotFound
    BY <1>1, <1>3 DEF HistoryRecs, NotFound
  <1>4. QED
    BY <1>2, <1>3 DEF apply_session_state_update

\* No command that is applied makes the manager miss a request.
LEMMA CommandsKeepMissed ==
    ASSUME HInv, ApplyCommand
    PROVE  NotFound' = NotFound
  <1>1. Types /\ link \in Seq(Commands)
    BY DEF HInv, Types
  <1>2. PICK i \in Applicable :
           \/ link[i][1] = "create" /\ create_session(link[i][2])
           \/ link[i][1] = "state" /\ apply_session_state_update(link[i][2], link[i][3])
           \/ link[i][1] = "prompt" /\ post_session_command(link[i][2])
           \/ link[i][1] = "approval" /\ create_approval(link[i][2])
           \/ link[i][1] = "decide" /\ apply_approval_decision(link[i][2], link[i][3])
    BY DEF ApplyCommand
  <1> DEFINE c == link[i]
  <1>3. c \in Commands
    BY <1>1, LenProperties DEF Applicable
  <1> HIDE DEF c
  <1>4. UNCHANGED history => NotFound' = NotFound
    BY DEF NotFound
  <1>5. CASE c[1] = "create" /\ create_session(c[2])
    <2> DEFINE s == c[2]
    <2>1. s \in Sessions /\ create_session(s)
      BY <1>3, <1>5, CommandShape
    <2> HIDE DEF s
    <2>2. <<"created", s>> \in RunnerEvents /\ {s} \in SUBSET Sessions
      BY <2>1 DEF RunnerEvents
    <2>3. UNCHANGED history \/ emit_event(<<"created", s>>, {s})
      BY <2>1 DEF create_session
    <2>4. QED
      BY <1>1, <1>4, <2>2, <2>3, EmitMoves
  <1>6. CASE c[1] = "state" /\ apply_session_state_update(c[2], c[3])
    BY <1>1, <1>6, StatesKeepMissed
  <1>7. CASE c[1] = "prompt" /\ post_session_command(c[2])
    <2> DEFINE s == c[2]
    <2>1. s \in Sessions /\ post_session_command(s)
      BY <1>3, <1>7, CommandShape
    <2> HIDE DEF s
    <2>2. <<"command", s>> \in RunnerEvents /\ {} \in SUBSET Sessions
      BY <2>1 DEF RunnerEvents
    <2>3. UNCHANGED history \/ emit_event(<<"command", s>>, {})
      BY <2>1 DEF post_session_command
    <2>4. QED
      BY <1>1, <1>4, <2>2, <2>3, EmitMoves
  <1>8. CASE c[1] = "approval" /\ create_approval(c[2])
    <2>1. c[2] \in Requests
      BY <1>3, <1>8, CommandShape
    <2>2. QED
      BY <1>1, <1>8, <2>1, RecordsKeepMissed
  <1>9. CASE c[1] = "decide" /\ apply_approval_decision(c[2], c[3])
    <2>1. UNCHANGED history
      BY <1>9 DEF apply_approval_decision
    <2>2. QED
      BY <1>4, <2>1
  <1>10. QED
    BY <1>2, <1>5, <1>6, <1>7, <1>8, <1>9 DEF c

\* The first look at the maps misses a request only where it may be missing.
Excused(r) ==
    \/ Reader(SessionOf[r]) \in {"asking", "created", "stored", "refused"} \X {r}
    \/ agent.answers[r] # <<>>
    \/ r \in agent.cancelled
    \/ tasks[SessionOf[r]].input = "closed"

LEMMA LookUpMisses ==
    ASSUME HInv, EventTaken, NEW r \in Requests, NEW d \in Decided,
           Head(channel) = <<"resolved", r, d>>, LookUpRequest(r, d)
    PROVE  \A q \in NotFound' \ NotFound : Excused(q)
  <1>1. RequestInv(r) /\ history \in HistoryRecs
    BY TypesParts DEF HInv
  <1>2. Head(channel) \in ToSet(channel) /\ \A q : ~Occupied(q)
    BY EventTakenKeeps
  <1>3. approvals[r] = d
    BY <1>1, <1>2 DEF Token, RequestInv, AgreeingOf
  <1>4. ~Unhandled(r) /\ ~AtAnswer(r)
    BY <1>1, <1>2, <1>3, Idle DEF RequestInv, CarriedOf, Decided
  <1>5. SessionOf[r] \in hosted /\ r \notin a2r => Excused(r)
    BY <1>1, <1>4 DEF RequestInv, FindableOf, Opening, Refused, Withdrawn, Answers, Input, Excused
  <1>6. CASE SessionOf[r] \in hosted /\ r \notin a2r
    <2>1. history' = [history EXCEPT !.missed = @ \cup {r}]
      BY <1>6 DEF LookUpRequest
    <2>2. NotFound' = NotFound \cup {r}
      BY <1>1, <2>1 DEF HistoryRecs, NotFound
    <2>3. QED
      BY <1>5, <1>6, <2>2
  <1>7. CASE ~(SessionOf[r] \in hosted /\ r \notin a2r)
    <2>1. history' = history
      BY <1>7 DEF LookUpRequest
    <2>2. QED
      BY <2>1 DEF NotFound
  <1>8. QED
    BY <1>6, <1>7

\* The manager takes an event.
LEMMA EventsMiss ==
    ASSUME HInv, handle_runner_event
    PROVE  \A q \in NotFound' \ NotFound : Excused(q)
  <1> DEFINE e == Head(channel)
  <1>1. EventTaken
    BY DEF handle_runner_event, EventTaken
  <1>2. e \in RunnerEvents /\ history \in HistoryRecs
    BY <1>1, EventTakenKeeps, TypesParts DEF HInv
  <1>3. CASE e[1] = "created" /\ StartSession(e[2])
    <2>1. ASSUME NEW s, history' = [history EXCEPT !.unstarted = @ \cup {s}]
          PROVE  NotFound' = NotFound
      BY <1>2, <2>1 DEF HistoryRecs, NotFound
    <2>2. UNCHANGED history => NotFound' = NotFound
      BY DEF NotFound
    <2>3. NotFound' = NotFound
      BY <1>3, <2>1, <2>2 DEF StartSession
    <2>4. QED
      BY <2>3
  <1>4. CASE e[1] = "resolved" /\ LookUpRequest(e[2], e[3])
    <2>1. e = <<"resolved", e[2], e[3]>> /\ e[2] \in Requests /\ e[3] \in Decided
      BY <1>2, <1>4, EventShape
    <2>2. QED
      BY <1>1, <1>4, <2>1, LookUpMisses
  <1>5. CASE UNCHANGED history
    BY <1>5 DEF NotFound
  <1>6. QED
    BY <1>3, <1>4, <1>5 DEF handle_runner_event

\* Every step.
LEMMA StepsMiss ==
    ASSUME HInv, [HostNext]_vars
    PROVE  \A q \in NotFound' \ NotFound : Excused(q)
  <1>1. Types /\ history \in HistoryRecs
    BY TypesParts DEF HInv
  <1>2. UNCHANGED history => NotFound' = NotFound
    BY DEF NotFound
  <1>3. history' = [history EXCEPT !.updates = @ + 1] => NotFound' = NotFound
    BY <1>1 DEF HistoryRecs, NotFound
  <1>4. CASE UNCHANGED vars
    BY <1>2, <1>4 DEF vars
  <1>5. CASE ControlPlaneStep
    <2>1. ASSUME NEW s \in Sessions, Dispatch(s) PROVE NotFound' = NotFound
      <3>1. history' = [history EXCEPT !.dispatched = Append(@, s)]
        BY <2>1 DEF Dispatch
      <3>2. QED
        BY <1>1, <3>1 DEF HistoryRecs, NotFound
    <2>2. ASSUME LoseCommand PROVE NotFound' = NotFound
      <3> DEFINE gone == {Head(link)[2]}
      <3>1. history' = [history EXCEPT !.lost = @ \cup gone]
        BY <2>2 DEF LoseCommand
      <3> HIDE DEF gone
      <3>2. QED
        BY <1>1, <3>1 DEF HistoryRecs, NotFound
    <2>3. ASSUME NEW s \in Sessions, Prompt(s) PROVE NotFound' = NotFound
      BY <1>3, <2>3 DEF Prompt
    <2>4. ASSUME NEW s \in Sessions, NEW state \in ClientStates, PostState(s, state)
          PROVE  NotFound' = NotFound
      BY <1>3, <2>4 DEF PostState
    <2>5. ASSUME NEW r \in Requests, NEW d \in {"Approved", "Denied"}, Decide(r, d)
          PROVE  NotFound' = NotFound
      BY <1>2, <2>5 DEF Decide
    <2>6. ASSUME NEW r \in Requests, NEW state \in {"Pending"} \cup Decided,
                 QueueCommand(r, state) \/ RecordApproval(r, state)
          PROVE  NotFound' = NotFound
      <3>1. UNCHANGED history \/ history' = [history EXCEPT !.overtaken = @ \cup {r}]
        BY <2>6 DEF QueueCommand, RecordApproval
      <3>2. QED
        BY <1>1, <1>2, <3>1 DEF HistoryRecs, NotFound
    <2>7. ASSUME NEW call \in calls, DropHandler(call) PROVE NotFound' = NotFound
      <3> DEFINE gone == IF call[1] = "queue" THEN {call[2]} ELSE {}
      <3>1. history' = [history EXCEPT !.lost = @ \cup gone]
        BY <2>7 DEF DropHandler
      <3> HIDE DEF gone
      <3>2. QED
        BY <1>1, <3>1 DEF HistoryRecs, NotFound
    <2>8. QED
      BY <1>5, <2>1, <2>2, <2>3, <2>4, <2>5, <2>6, <2>7 DEF ControlPlaneStep
  <1>6. CASE ApiStep
    <2>1. ASSUME NEW r \in Requests, InsertApproval(r) PROVE NotFound' = NotFound
      BY <1>2, <2>1 DEF InsertApproval
    <2>2. ASSUME NEW m \in mid, FinishDecision(m) PROVE NotFound' = NotFound
      <3> DEFINE event == <<"resolved", m[2], m[3]>>
                 written == {SessionOf[m[2]]}
      <3>1. emit_event(event, written) /\ m[1] = "decision"
        BY <2>2 DEF FinishDecision
      <3>2. m[2] \in Requests /\ m[3] \in Decided
        BY <1>1, <3>1, MidShape, TypesParts DEF ApiTypes
      <3>3. event \in RunnerEvents /\ written \in SUBSET Sessions
        BY <3>2, HostAssumption DEF RunnerEvents
      <3> HIDE DEF event, written
      <3>4. QED
        BY <1>1, <3>1, <3>3, EmitMoves
    <2>3. QED
      BY <1>6, <2>1, <2>2, CommandsKeepMissed DEF ApiStep
  <1>7. CASE ManagerStep
    <2>1. CASE handle_runner_event
      BY <2>1, EventsMiss
    <2>2. CASE UNCHANGED history
      BY <1>2, <2>2
    <2>3. QED
      BY <1>7, <2>1, <2>2 DEF ManagerStep, StartTasks, EndSpawn, ForgetRequest, ForwardAnswer
  <1>8. CASE AgentStep
    <2>1. ASSUME NEW r \in Requests, Ask(r) \/ Withdraw(r) PROVE NotFound' = NotFound
      BY <1>2, <2>1 DEF Ask, Withdraw
    <2>2. ASSUME NEW s \in Sessions, Exit(s) PROVE NotFound' = NotFound
      BY <1>2, <2>2 DEF Exit
    <2>3. ASSUME NEW s \in Sessions, NEW state \in AgentStates, Report(s, state)
          PROVE  NotFound' = NotFound
      BY <1>3, <2>3 DEF Report
    <2>4. QED
      BY <1>8, <2>1, <2>2, <2>3 DEF AgentStep
  <1>9. ASSUME NEW s \in Sessions, ReaderStep(s) PROVE NotFound' = NotFound
    <2>1. CASE handle_protocol_line(s)
      <3> DEFINE line == Head(agent.pipe[s])
      <3>1. CASE line[1] = "state" /\ apply_session_state_update(s, line[2])
        BY <1>1, <3>1, StatesKeepMissed
      <3>2. CASE UNCHANGED history
        BY <1>2, <3>2
      <3>3. QED
        BY <2>1, <3>1, <3>2 DEF handle_protocol_line
    <2>2. CASE UNCHANGED history
      BY <1>2, <2>2
    <2>3. QED
      BY <1>9, <2>1, <2>2 DEF ReaderStep, GiveUp, StoreRequest, StoreApproval,
        DenyRequest, PostCancel, EndCancel, RestoreRequest, EndReader
  <1>10. ASSUME NEW s \in Sessions, ExitStep(s) PROVE NotFound' = NotFound
    BY <1>2, <1>10 DEF ExitStep, RemoveHandle, RecordExit
  <1>11. QED
    BY <1>4, <1>5, <1>6, <1>7, <1>8, <1>9, <1>10 DEF HostNext

\* The manager misses a request only while the reader is between its request to
\* the control plane and its second insert, or when the agent has been told no,
\* has withdrawn or cannot be told, its input being closed
\* (forward_approval_resolution, handle_control_request).
THEOREM MissesInWindow == HostSpec => MissedOnlyInWindow
  <1>1. HInv /\ [HostNext]_vars =>
          [\A r \in history'.missed \ history.missed :
              \/ Reader(SessionOf[r]) \in {"asking", "created", "stored", "refused"} \X {r}
              \/ agent.answers[r] # <<>>
              \/ r \in agent.cancelled
              \/ tasks[SessionOf[r]].input = "closed"]_vars
    BY StepsMiss DEF NotFound, Excused
  <1>2. QED
    BY <1>1, RunnerInvariance, PTL DEF HostSpec, MissedOnlyInWindow
=============================================================================
