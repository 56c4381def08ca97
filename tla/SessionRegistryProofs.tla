------------------------ MODULE SessionRegistryProofs ------------------------
(***************************************************************************)
(* Proofs about SessionRegistry, for any number of runners, sessions,      *)
(* approvals and handlers.                                                 *)
(***************************************************************************)
EXTENDS SessionRegistry, FiniteSetTheorems, SequenceTheorems, TLAPS

\* What a handler remembers is still in the registry: entries are never
\* removed, so a plan can be stale but never dangling.
TaskKnown(task, knownRunners, knownSessions, approved) ==
    /\ task.op # "idle" => task.runner \in knownRunners \cup {NoRunner}
    /\ task.op \in {"update", "command", "approval", "dispatching"} =>
          task.session \in knownSessions
    /\ task.op = "decision" => task.approval \in DOMAIN approved
    /\ task.op = "decision" /\ task.pc = "enqueue" =>
          approved[task.approval].state = task.decision
    /\ task.op = "approval" /\ task.pc = "enqueue" => task.runner \in PullRunners

TasksKnown ==
    \A t \in Tasks :
        TaskKnown(tasks[t], DOMAIN runners, DOMAIN sessions, approvals)

ApprovalsKnown ==
    \A a \in DOMAIN approvals :
        /\ approvals[a].session \in DOMAIN sessions
        /\ approvals[a].runner \in DOMAIN runners \cup {NoRunner}

\* The inductive invariant.
IInv ==
    /\ TypeOK
    /\ OwnersRegistered
    /\ ApprovalsKnown
    /\ TasksKnown
    /\ IndexMirrorsOwner
    /\ DecisionCommandsAgree

-----------------------------------------------------------------------------
(* The operators the model is built from *)

\* A recount is a well-typed snapshot: the sessions counted are finitely many.
LEMMA RefreshType ==
    ASSUME NEW rs, rs \in [DOMAIN rs -> RunnerSnapshots],
           NEW R, NEW ss, NEW idx, DOMAIN idx \subseteq Sessions,
           NEW age \in Ages
    PROVE  /\ DOMAIN refresh_runner_session_counts(rs, R, ss, idx, age) = DOMAIN rs
           /\ refresh_runner_session_counts(rs, R, ss, idx, age)
                 \in [DOMAIN rs -> RunnerSnapshots]
  <1>1. ASSUME NEW r, NEW states
        PROVE  Cardinality(OwnedIn(r, ss, idx, states)) \in Nat
    <2>1. OwnedIn(r, ss, idx, states) \subseteq Sessions
      BY DEF OwnedIn
    <2>2. IsFiniteSet(OwnedIn(r, ss, idx, states))
      BY <2>1, FS_Subset, ConstantsAssumption
    <2>3. QED
      BY <2>2, FS_CardinalityType
  <1>2. ASSUME NEW r \in DOMAIN rs
        PROVE  Refreshed(rs[r], r, ss, idx, age) \in RunnerSnapshots
    <2>1. Lesser(rs[r].age, age) \in Ages
      BY ConstantsAssumption DEF Lesser, Ages, RunnerSnapshots
    <2>2. QED
      BY <1>1, <2>1 DEF Refreshed, RunnerSnapshots, RunnerStates
  <1>3. QED
    BY <1>2 DEF refresh_runner_session_counts

\* Queueing a command keeps the queues well-typed and, of the commands in a
\* queue, adds only the new one.
LEMMA EnqueuedType ==
    ASSUME TypeOK, NEW r \in Runners, NEW c \in Commands
    PROVE  /\ Enqueued(r, c) \in [Runners -> Seq(Commands)]
           /\ \A q \in Runners : \A i \in 1 .. Len(Enqueued(r, c)[q]) :
                 \/ q = r /\ Enqueued(r, c)[q][i] = c
                 \/ \E j \in 1 .. Len(queues[q]) : Enqueued(r, c)[q][i] = queues[q][j]
  <1> DEFINE queue == Append(queues[r], c)
             kept == IF Len(queue) > MaxCommandsPerRunner THEN Tail(queue) ELSE queue
  <1>1. /\ queues[r] \in Seq(Commands) /\ Len(queues[r]) \in Nat
        /\ queue \in Seq(Commands) /\ Len(queue) = Len(queues[r]) + 1
        /\ \A i \in 1 .. Len(queue) :
              queue[i] = IF i = Len(queue) THEN c ELSE queues[r][i]
    BY DEF TypeOK
  <1>2. /\ Tail(queue) \in Seq(Commands) /\ Len(Tail(queue)) = Len(queue) - 1
        /\ \A i \in 1 .. Len(Tail(queue)) : Tail(queue)[i] = queue[i + 1]
    <2> HIDE DEF queue
    <2>1. queue # << >>
      BY <1>1
    <2>2. QED
      BY <1>1, <2>1, HeadTailProperties
  <1>3. /\ kept \in Seq(Commands)
        /\ \A i \in 1 .. Len(kept) :
              kept[i] = c \/ \E j \in 1 .. Len(queues[r]) : kept[i] = queues[r][j]
    <2> HIDE DEF queue
    <2>1. QED
      BY <1>1, <1>2
  <1>4. Enqueued(r, c) = [queues EXCEPT ![r] = kept]
    BY DEF Enqueued
  <1> HIDE DEF kept
  <1>5. /\ Enqueued(r, c) \in [Runners -> Seq(Commands)]
        /\ Enqueued(r, c)[r] = kept
        /\ \A q \in Runners \ {r} : Enqueued(r, c)[q] = queues[q]
    BY <1>3, <1>4 DEF TypeOK
  <1>6. QED
    BY <1>3, <1>5

\* Pulling leaves a suffix of the queue.
LEMMA AfterPullType ==
    ASSUME NEW queue \in Seq(Commands), NEW limit \in Nat
    PROVE  /\ AfterPull(queue, limit) \in Seq(Commands)
           /\ \A i \in 1 .. Len(AfterPull(queue, limit)) :
                 \E j \in 1 .. Len(queue) : AfterPull(queue, limit)[i] = queue[j]
  <1> DEFINE m == Lesser(limit, Len(queue))
  <1>1. Len(queue) \in Nat /\ m \in 0 .. Len(queue)
    BY DEF Lesser
  <1> HIDE DEF m
  <1>2. \A i \in m + 1 .. Len(queue) : queue[i] \in Commands
    BY <1>1
  <1>3. /\ SubSeq(queue, m + 1, Len(queue)) \in Seq(Commands)
        /\ Len(SubSeq(queue, m + 1, Len(queue))) = Len(queue) - m
        /\ \A i \in 1 .. Len(queue) - m :
              SubSeq(queue, m + 1, Len(queue))[i] = queue[m + i]
    BY <1>1, <1>2
  <1>4. QED
    BY <1>1, <1>3 DEF AfterPull, m

-----------------------------------------------------------------------------
(* Frame lemmas *)

\* The registry only grows, an approval keeps its session and runner, and a
\* resolved approval keeps everything.  Every step has this property.
Growth ==
    /\ DOMAIN runners \subseteq DOMAIN runners'
    /\ DOMAIN sessions \subseteq DOMAIN sessions'
    /\ DOMAIN approvals \subseteq DOMAIN approvals'
    /\ \A a \in DOMAIN approvals :
          /\ approvals'[a].session = approvals[a].session
          /\ approvals'[a].runner = approvals[a].runner
          /\ approvals[a].state # "Pending" => approvals'[a] = approvals[a]

\* The registry proper: what IInv says of everything but queues and tasks.
RegistryOK ==
    /\ DOMAIN runners \subseteq Runners
    /\ runners \in [DOMAIN runners -> RunnerSnapshots]
    /\ DOMAIN sessions \subseteq Sessions
    /\ sessions \in [DOMAIN sessions -> SessionRecords]
    /\ DOMAIN index \subseteq Sessions
    /\ index \in [DOMAIN index -> Runners]
    /\ DOMAIN approvals \subseteq Approvals
    /\ approvals \in [DOMAIN approvals -> ApprovalRecords]
    /\ OwnersRegistered
    /\ ApprovalsKnown
    /\ IndexMirrorsOwner

\* The operation of a handler determines the shape of its record.
LEMMA TaskKinds ==
    ASSUME NEW task \in TaskRecords
    PROVE  /\ task.op \in {"create", "update"} => task \in StateTasks
           /\ task.op = "command" => task \in CommandTasks
           /\ task.op = "approval" => task \in ApprovalTasks
           /\ task.op = "decision" => task \in DecisionTasks
           /\ task.op = "dispatch" => task \in DispatchTasks
           /\ task.op = "dispatching" => task \in DispatchingTasks
  BY DEF TaskRecords, StateTasks, CommandTasks, ApprovalTasks, DecisionTasks,
         DispatchTasks, DispatchingTasks

\* One handler moves on to a record that is known; the others keep theirs.
LEMMA TasksAfter ==
    ASSUME IInv, Growth, NEW t \in Tasks, NEW rec \in TaskRecords,
           Become(t, rec),
           TaskKnown(rec, DOMAIN runners', DOMAIN sessions', approvals')
    PROVE  tasks' \in [Tasks -> TaskRecords] /\ TasksKnown'
  <1>1. tasks' \in [Tasks -> TaskRecords]
    BY DEF IInv, TypeOK, Become
  <1>2. ASSUME NEW u \in Tasks, u # t
        PROVE  TaskKnown(tasks'[u], DOMAIN runners', DOMAIN sessions', approvals')
    <2>1. tasks'[u] = tasks[u] /\ tasks[u] \in TaskRecords
      BY <1>2 DEF IInv, TypeOK, Become
    <2>2. TaskKnown(tasks[u], DOMAIN runners, DOMAIN sessions, approvals)
      BY DEF IInv, TasksKnown
    <2>3. tasks[u].op = "decision" /\ tasks[u].pc = "enqueue" =>
             approvals'[tasks[u].approval] = approvals[tasks[u].approval]
      <3>1. HAVE tasks[u].op = "decision" /\ tasks[u].pc = "enqueue"
      <3>2. tasks[u] \in DecisionTasks
        BY <2>1, <3>1, TaskKinds
      <3>3. approvals[tasks[u].approval].state # "Pending"
        BY <2>2, <3>1, <3>2 DEF TaskKnown, DecisionTasks, Decisions
      <3>4. QED
        BY <2>2, <3>1, <3>3 DEF TaskKnown, Growth
    <2>4. QED
      BY <2>1, <2>2, <2>3 DEF TaskKnown, Growth
  <1>3. tasks'[t] = rec
    BY DEF IInv, TypeOK, Become
  <1>4. QED
    BY <1>1, <1>2, <1>3 DEF TasksKnown

\* A queued decision stays the recorded one, whatever a step does.
LEMMA DecisionStaysRecorded ==
    ASSUME IInv, Growth, NEW r \in Runners, NEW i \in 1 .. Len(queues[r]),
           queues[r][i].kind = "ApplyApprovalDecision"
    PROVE  /\ queues[r][i].approval \in DOMAIN approvals'
           /\ approvals'[queues[r][i].approval].state = queues[r][i].state
           /\ approvals'[queues[r][i].approval].runner = r
  <1> DEFINE c == queues[r][i]
  <1>1. c \in Commands
    BY DEF IInv, TypeOK
  <1>2. c.state \in Decisions
    BY <1>1 DEF Commands
  <1>3. /\ c.approval \in DOMAIN approvals
        /\ approvals[c.approval].state = c.state
        /\ approvals[c.approval].runner = r
    BY DEF IInv, DecisionCommandsAgree
  <1>4. approvals[c.approval].state # "Pending"
    BY <1>2, <1>3 DEF Decisions
  <1>5. QED
    BY <1>3, <1>4 DEF Growth

\* A step that touches no queue leaves queued decisions agreeing.
LEMMA QueuesKept ==
    ASSUME IInv, Growth, UNCHANGED queues
    PROVE  queues' \in [Runners -> Seq(Commands)] /\ DecisionCommandsAgree'
  BY DecisionStaysRecorded DEF IInv, TypeOK, DecisionCommandsAgree

\* Queueing one more command keeps the queues agreeing if that command does.
LEMMA QueuesAfter ==
    ASSUME IInv, Growth, NEW r \in Runners, NEW c \in Commands,
           queues' = Enqueued(r, c),
           c.kind = "ApplyApprovalDecision" =>
              /\ c.approval \in DOMAIN approvals'
              /\ approvals'[c.approval].state = c.state
              /\ approvals'[c.approval].runner = r
    PROVE  queues' \in [Runners -> Seq(Commands)] /\ DecisionCommandsAgree'
  <1>1. /\ queues' \in [Runners -> Seq(Commands)]
        /\ \A q \in Runners : \A i \in 1 .. Len(queues'[q]) :
              \/ q = r /\ queues'[q][i] = c
              \/ \E j \in 1 .. Len(queues[q]) : queues'[q][i] = queues[q][j]
    BY EnqueuedType DEF IInv
  <1>2. ASSUME NEW q \in Runners, NEW i \in 1 .. Len(queues'[q]),
               queues'[q][i].kind = "ApplyApprovalDecision"
        PROVE  /\ queues'[q][i].approval \in DOMAIN approvals'
               /\ approvals'[queues'[q][i].approval].state = queues'[q][i].state
               /\ approvals'[queues'[q][i].approval].runner = q
    <2>1. CASE q = r /\ queues'[q][i] = c
      BY <1>2, <2>1
    <2>2. CASE \E j \in 1 .. Len(queues[q]) : queues'[q][i] = queues[q][j]
      BY <1>2, <2>2, DecisionStaysRecorded
    <2>3. QED
      BY <1>1, <2>1, <2>2
  <1>3. QED
    BY <1>1, <1>2 DEF DecisionCommandsAgree

\* A step that leaves the registry proper alone grows it trivially.
LEMMA RegistryKept ==
    ASSUME IInv, UNCHANGED <<runners, sessions, index, approvals>>
    PROVE  Growth /\ RegistryOK'
  BY DEF IInv, TypeOK, Growth, RegistryOK, OwnersRegistered, ApprovalsKnown, IndexMirrorsOwner

\* A step that only moves a handler.
LEMMA PlanStep ==
    ASSUME IInv, NEW t \in Tasks, NEW rec \in TaskRecords, Become(t, rec),
           TaskKnown(rec, DOMAIN runners, DOMAIN sessions, approvals),
           UNCHANGED <<runners, sessions, index, approvals, queues>>
    PROVE  IInv' /\ Growth
  <1>1. Growth /\ RegistryOK'
    BY RegistryKept
  <1>2. queues' \in [Runners -> Seq(Commands)] /\ DecisionCommandsAgree'
    BY <1>1, QueuesKept
  <1>3. tasks' \in [Tasks -> TaskRecords] /\ TasksKnown'
    BY <1>1, TasksAfter
  <1>4. QED
    BY <1>1, <1>2, <1>3 DEF IInv, RegistryOK, TypeOK

\* A step that moves a handler and queues a command.
LEMMA EnqueueStep ==
    ASSUME IInv, NEW t \in Tasks, NEW rec \in TaskRecords, Become(t, rec),
           TaskKnown(rec, DOMAIN runners, DOMAIN sessions, approvals),
           UNCHANGED <<runners, sessions, index, approvals>>,
           NEW r \in Runners, NEW c \in Commands, queues' = Enqueued(r, c),
           c.kind = "ApplyApprovalDecision" =>
              /\ c.approval \in DOMAIN approvals
              /\ approvals[c.approval].state = c.state
              /\ approvals[c.approval].runner = r
    PROVE  IInv' /\ Growth
  <1>1. Growth /\ RegistryOK'
    BY RegistryKept
  <1>2. queues' \in [Runners -> Seq(Commands)] /\ DecisionCommandsAgree'
    BY <1>1, QueuesAfter
  <1>3. tasks' \in [Tasks -> TaskRecords] /\ TasksKnown'
    BY <1>1, TasksAfter
  <1>4. QED
    BY <1>1, <1>2, <1>3 DEF IInv, RegistryOK, TypeOK

\* A step that changes the registry proper and no queue.
LEMMA CommitStep ==
    ASSUME IInv, Growth, RegistryOK',
           NEW t \in Tasks, NEW rec \in TaskRecords, Become(t, rec),
           TaskKnown(rec, DOMAIN runners', DOMAIN sessions', approvals'),
           UNCHANGED queues
    PROVE  IInv'
  <1>1. queues' \in [Runners -> Seq(Commands)] /\ DecisionCommandsAgree'
    BY QueuesKept
  <1>2. tasks' \in [Tasks -> TaskRecords] /\ TasksKnown'
    BY TasksAfter
  <1>3. QED
    BY <1>1, <1>2 DEF IInv, RegistryOK, TypeOK

\* A handler that has ended remembers nothing.
LEMMA IdleKnown ==
    ASSUME NEW R, NEW S, NEW A
    PROVE  Idle \in TaskRecords /\ TaskKnown(Idle, R, S, A)
  BY DEF Idle, TaskRecords, TaskKnown

-----------------------------------------------------------------------------
(* Plans *)

\* create_session's plan names a registered runner or none.
LEMMA PlanSessionInv ==
    ASSUME IInv, NEW t \in Tasks, NEW s \in Sessions,
           NEW preferred \in Runners \cup {NoRunner}, PlanSession(t, s, preferred)
    PROVE  IInv' /\ Growth
  <1>1. PICK r \in select_runner(s, preferred) :
           Become(t, [op |-> "create", session |-> s, runner |-> r, age |-> 0,
                      pc |-> IF r = NoRunner THEN "commit" ELSE "relay",
                      state |-> IF r = NoRunner THEN "Pending" ELSE "Assigned"])
    BY DEF PlanSession
  <1> DEFINE rec == [op |-> "create", session |-> s, runner |-> r, age |-> 0,
                     pc |-> IF r = NoRunner THEN "commit" ELSE "relay",
                     state |-> IF r = NoRunner THEN "Pending" ELSE "Assigned"]
  <1>2. r \in DOMAIN runners \cup {NoRunner} /\ DOMAIN runners \subseteq Runners
    BY DEF select_runner, Hosts, IInv, TypeOK
  <1>3. rec \in StateTasks
    BY <1>2, ConstantsAssumption DEF StateTasks, SessionStates, Ages, MaxAge
  <1>4. rec \in TaskRecords
    BY <1>3 DEF TaskRecords
  <1>5. TaskKnown(rec, DOMAIN runners, DOMAIN sessions, approvals)
    BY <1>2 DEF TaskKnown
  <1> HIDE DEF rec
  <1>6. QED
    BY <1>1, <1>4, <1>5, PlanStep DEF PlanSession, rec

\* update_session_state's plan names the session and its registered owner.
LEMMA PlanStateUpdateInv ==
    ASSUME IInv, NEW t \in Tasks, NEW s \in Sessions, NEW state \in ClientStates,
           PlanStateUpdate(t, s, state)
    PROVE  IInv' /\ Growth
  <1> DEFINE r == sessions[s].owner
             rec == [op |-> "update", session |-> s, state |-> state, age |-> 0,
                     runner |-> IF r \in DOMAIN runners THEN r ELSE NoRunner,
                     pc |-> IF r \in DOMAIN runners THEN "relay" ELSE "commit"]
  <1>1. rec \in StateTasks
    BY ConstantsAssumption DEF IInv, TypeOK, StateTasks, Ages, MaxAge
  <1>2. rec \in TaskRecords
    BY <1>1 DEF TaskRecords
  <1>3. TaskKnown(rec, DOMAIN runners, DOMAIN sessions, approvals)
    BY DEF TaskKnown, PlanStateUpdate
  <1>4. Become(t, rec) /\ UNCHANGED <<runners, sessions, index, approvals, queues>>
    BY DEF PlanStateUpdate
  <1> HIDE DEF rec
  <1>5. QED
    BY <1>2, <1>3, <1>4, PlanStep

\* post_session_command's plan names a registered polling runner.
LEMMA PlanSessionCommandInv ==
    ASSUME IInv, NEW t \in Tasks, NEW s \in Sessions, PlanSessionCommand(t, s)
    PROVE  IInv' /\ Growth
  <1> DEFINE rec == [op |-> "command", session |-> s, runner |-> sessions[s].owner]
  <1>1. rec \in CommandTasks
    BY DEF IInv, TypeOK, CommandTasks, PlanSessionCommand
  <1>2. rec \in TaskRecords
    BY <1>1 DEF TaskRecords
  <1>3. TaskKnown(rec, DOMAIN runners, DOMAIN sessions, approvals)
    BY DEF TaskKnown, PlanSessionCommand
  <1>4. Become(t, rec) /\ UNCHANGED <<runners, sessions, index, approvals, queues>>
    BY DEF PlanSessionCommand
  <1> HIDE DEF rec
  <1>5. QED
    BY <1>2, <1>3, <1>4, PlanStep

\* create_approval's plan names the session and its owner.
LEMMA PlanApprovalInv ==
    ASSUME IInv, NEW t \in Tasks, NEW s \in Sessions, NEW a \in Approvals,
           PlanApproval(t, s, a)
    PROVE  IInv' /\ Growth
  <1> DEFINE r == sessions[s].owner
             rec == [op |-> "approval", session |-> s, approval |-> a, runner |-> r,
                     pc |-> IF r \in DOMAIN runners \ PullRunners
                            THEN "relay" ELSE "commit",
                     age |-> 0]
  <1>1. s \in DOMAIN sessions
    BY DEF PlanApproval
  <1>2. r \in Runners \cup {NoRunner} /\ r \in DOMAIN runners \cup {NoRunner}
    BY <1>1 DEF IInv, TypeOK, SessionRecords, OwnersRegistered
  <1>3. rec \in ApprovalTasks
    BY <1>2, ConstantsAssumption DEF ApprovalTasks, Ages, MaxAge
  <1>4. rec \in TaskRecords
    BY <1>3 DEF TaskRecords
  <1>5. TaskKnown(rec, DOMAIN runners, DOMAIN sessions, approvals)
    BY <1>1, <1>2 DEF TaskKnown
  <1>6. Become(t, rec) /\ UNCHANGED <<runners, sessions, index, approvals, queues>>
    BY DEF PlanApproval
  <1> HIDE DEF rec
  <1>7. QED
    BY <1>4, <1>5, <1>6, PlanStep

\* apply_approval_decision's plan names an approval of the registry.
LEMMA PlanDecisionInv ==
    ASSUME IInv, NEW t \in Tasks, NEW a \in Approvals, NEW d \in Decisions,
           plan_approval_decision(t, a, d)
    PROVE  IInv' /\ Growth
  <1> DEFINE s == approvals[a].session
             r == sessions[s].owner
             others == OtherPending(a)
             rec == [op |-> "decision", approval |-> a, decision |-> d,
                     state |-> session_state_after_approval(d, others # {}),
                     runner |-> IF r \in DOMAIN runners THEN r ELSE NoRunner,
                     pc |-> IF r \in DOMAIN runners \ PullRunners
                            THEN "relay" ELSE "commit",
                     age |-> 0]
  <1>1. a \in DOMAIN approvals
    BY DEF plan_approval_decision
  <1>2. session_state_after_approval(d, others # {}) \in SessionStates
    BY DEF session_state_after_approval, Decisions, SessionStates
  <1> HIDE DEF others
  <1>3. rec \in DecisionTasks
    BY <1>2, ConstantsAssumption DEF IInv, TypeOK, DecisionTasks, Ages, MaxAge
  <1>4. rec \in TaskRecords
    BY <1>3 DEF TaskRecords
  <1>5. TaskKnown(rec, DOMAIN runners, DOMAIN sessions, approvals)
    BY <1>1 DEF TaskKnown
  <1>6. Become(t, rec) /\ UNCHANGED <<runners, sessions, index, approvals, queues>>
    BY DEF plan_approval_decision, others
  <1> HIDE DEF rec
  <1>7. QED
    BY <1>4, <1>5, <1>6, PlanStep

\* A turn of the dispatch loop plans a session of the registry.
LEMMA PlanDispatchInv ==
    ASSUME IInv, NEW t \in Tasks, PlanDispatch(t)
    PROVE  IInv' /\ Growth
  <1>1. PICK s \in DOMAIN sessions \ tasks[t].skipped :
          Become(t, [op |-> "dispatching", pc |-> "relay", session |-> s,
                     runner |-> tasks[t].runner, skipped |-> tasks[t].skipped,
                     round |-> tasks[t].round + 1, age |-> 0])
    BY DEF PlanDispatch
  <1> DEFINE rec == [op |-> "dispatching", pc |-> "relay", session |-> s,
                     runner |-> tasks[t].runner, skipped |-> tasks[t].skipped,
                     round |-> tasks[t].round + 1, age |-> 0]
  <1>2. tasks[t].op = "dispatch" /\ tasks[t] \in TaskRecords
        /\ tasks[t].round < MaxDispatchIterations
    BY DEF PlanDispatch, RoundsLeft, IInv, TypeOK
  <1>3. tasks[t] \in DispatchTasks
    BY <1>2, TaskKinds
  <1>4. rec \in DispatchingTasks
    BY <1>2, <1>3, ConstantsAssumption
       DEF DispatchTasks, DispatchingTasks, IInv, TypeOK, Ages, MaxAge
  <1>5. rec \in TaskRecords
    BY <1>4 DEF TaskRecords
  <1>6. TaskKnown(rec, DOMAIN runners, DOMAIN sessions, approvals)
    BY <1>2 DEF IInv, TasksKnown, TaskKnown
  <1> HIDE DEF rec
  <1>7. QED
    BY <1>1, <1>5, <1>6, PlanStep DEF PlanDispatch, rec

\* Leaving the dispatch loop changes nothing but the handler.
LEMMA EndDispatchInv ==
    ASSUME IInv, NEW t \in Tasks, EndDispatch(t)
    PROVE  IInv' /\ Growth
  BY IdleKnown, PlanStep DEF EndDispatch

-----------------------------------------------------------------------------
(* Relays and queues *)

\* Both kinds of relay to a session's runner: queue a command, or call.
LEMMA RelayInv ==
    ASSUME IInv, NEW t \in Tasks,
           tasks[t].op \in {"create", "update"},
           NEW c \in Commands, c.kind # "ApplyApprovalDecision",
           NEW state \in SessionStates,
           UNCHANGED <<runners, sessions, index, approvals>>,
           \/ /\ tasks[t].runner \in PullRunners
              /\ queues' = Enqueued(tasks[t].runner, c)
              /\ Become(t, [tasks[t] EXCEPT !.pc = "commit"])
           \/ /\ \/ Become(t, Idle)
                 \/ Become(t, [tasks[t] EXCEPT !.pc = "commit", !.age = 0,
                                  !.state = state])
              /\ UNCHANGED queues
    PROVE  IInv' /\ Growth
  <1> DEFINE rec1 == [tasks[t] EXCEPT !.pc = "commit"]
             rec2 == [tasks[t] EXCEPT !.pc = "commit", !.age = 0, !.state = state]
  <1>1. tasks[t] \in StateTasks
    BY TaskKinds DEF IInv, TypeOK
  <1>2. rec1 \in StateTasks /\ rec2 \in StateTasks
    <2>1. 0 \in Ages
      BY ConstantsAssumption DEF Ages, MaxAge
    <2>2. rec1 \in StateTasks
      BY <1>1 DEF StateTasks
    <2>3. rec2 \in StateTasks
      BY <1>1, <2>1 DEF StateTasks
    <2>4. QED
      BY <2>2, <2>3
  <1>3. rec1 \in TaskRecords /\ rec2 \in TaskRecords
    BY <1>2 DEF TaskRecords
  <1>4. /\ TaskKnown(rec1, DOMAIN runners, DOMAIN sessions, approvals)
        /\ TaskKnown(rec2, DOMAIN runners, DOMAIN sessions, approvals)
    <2>1. TaskKnown(tasks[t], DOMAIN runners, DOMAIN sessions, approvals)
      BY DEF IInv, TasksKnown
    <2>2. /\ rec1.op = tasks[t].op /\ rec1.runner = tasks[t].runner
          /\ rec1.session = tasks[t].session
          /\ rec2.op = tasks[t].op /\ rec2.runner = tasks[t].runner
          /\ rec2.session = tasks[t].session
      BY <1>1 DEF StateTasks
    <2> HIDE DEF rec1, rec2
    <2>3. QED
      BY <2>1, <2>2 DEF TaskKnown
  <1> HIDE DEF rec1, rec2
  <1>5. CASE /\ tasks[t].runner \in PullRunners
             /\ queues' = Enqueued(tasks[t].runner, c)
             /\ Become(t, rec1)
    BY <1>3, <1>4, <1>5, EnqueueStep, ConstantsAssumption
  <1>6. CASE Become(t, Idle) /\ UNCHANGED queues
    BY <1>6, IdleKnown, PlanStep
  <1>7. CASE Become(t, rec2) /\ UNCHANGED queues
    BY <1>3, <1>4, <1>7, PlanStep
  <1>8. QED
    BY <1>5, <1>6, <1>7 DEF rec1, rec2

\* create_session's relay or queueing of CreateSession.
LEMMA RelaySessionInv ==
    ASSUME IInv, NEW t \in Tasks, RelaySession(t)
    PROVE  IInv' /\ Growth
  <1> DEFINE c == [kind |-> "CreateSession", session |-> tasks[t].session]
             state == session_state_from_runner("Pending")
  <1>1. tasks[t].op = "create" /\ tasks[t] \in StateTasks
    BY TaskKinds DEF RelaySession, IInv, TypeOK
  <1>2. c \in Commands /\ c.kind # "ApplyApprovalDecision"
    BY <1>1 DEF Commands, StateTasks, session_state_to_runner, SessionStates,
                RunnerSessionStates
  <1>3. state \in SessionStates
    BY DEF session_state_from_runner, SessionStates
  <1> HIDE DEF c, state
  <1>4. QED
    BY <1>1, <1>2, <1>3, RelayInv DEF RelaySession, c, state

\* update_session_state's relay or queueing of UpdateSessionState.
LEMMA RelayStateUpdateInv ==
    ASSUME IInv, NEW t \in Tasks, RelayStateUpdate(t)
    PROVE  IInv' /\ Growth
  <1> DEFINE c == [kind |-> "UpdateSessionState",
                   session |-> tasks[t].session,
                   state |-> session_state_to_runner(tasks[t].state)]
             state == session_state_from_runner(session_state_to_runner(tasks[t].state))
  <1>1. tasks[t].op = "update" /\ tasks[t] \in StateTasks
    BY TaskKinds DEF RelayStateUpdate, IInv, TypeOK
  <1>2. c \in Commands /\ c.kind # "ApplyApprovalDecision"
    BY <1>1 DEF Commands, StateTasks, session_state_to_runner, SessionStates,
                RunnerSessionStates
  <1>3. state \in SessionStates
    BY <1>1 DEF StateTasks, session_state_from_runner, session_state_to_runner,
                SessionStates
  <1>4. [tasks[t] EXCEPT !.pc = "commit", !.age = 0,
            !.state = session_state_from_runner(session_state_to_runner(@))]
          = [tasks[t] EXCEPT !.pc = "commit", !.age = 0, !.state = state]
    BY <1>1 DEF StateTasks
  <1> HIDE DEF c, state
  <1>5. QED
    BY <1>1, <1>2, <1>3, <1>4, RelayInv DEF RelayStateUpdate, c

\* post_session_command's queueing of the command.
LEMMA EnqueueSessionCommandInv ==
    ASSUME IInv, NEW t \in Tasks, EnqueueSessionCommand(t)
    PROVE  IInv' /\ Growth
  <1> DEFINE c == [kind |-> "SessionCommand", session |-> tasks[t].session]
  <1>1. tasks[t] \in CommandTasks
    BY TaskKinds DEF EnqueueSessionCommand, IInv, TypeOK
  <1>2. c \in Commands /\ c.kind # "ApplyApprovalDecision" /\ tasks[t].runner \in Runners
    BY <1>1 DEF Commands, CommandTasks
  <1> HIDE DEF c
  <1>3. QED
    BY <1>2, IdleKnown, EnqueueStep DEF EnqueueSessionCommand, c

\* The relays of create_approval and apply_approval_decision.
LEMMA RelayApprovalInv ==
    ASSUME IInv, NEW t \in Tasks, RelayApproval(t) \/ RelayDecision(t)
    PROVE  IInv' /\ Growth
  <1> DEFINE rec == [tasks[t] EXCEPT !.pc = "commit"]
  <1>1. tasks[t] \in ApprovalTasks \cup DecisionTasks
    BY TaskKinds DEF RelayApproval, RelayDecision, IInv, TypeOK
  <1>2. rec \in ApprovalTasks \cup DecisionTasks
    BY <1>1 DEF ApprovalTasks, DecisionTasks
  <1>3. rec \in TaskRecords
    BY <1>2 DEF TaskRecords
  <1>4. TaskKnown(rec, DOMAIN runners, DOMAIN sessions, approvals)
    <2>1. TaskKnown(tasks[t], DOMAIN runners, DOMAIN sessions, approvals)
      BY DEF IInv, TasksKnown
    <2>2. /\ rec.op = tasks[t].op /\ rec.runner = tasks[t].runner
          /\ rec.approval = tasks[t].approval /\ rec.pc = "commit"
          /\ rec.op = "approval" => rec.session = tasks[t].session
      BY <1>1 DEF ApprovalTasks, DecisionTasks
    <2>3. rec.op \in {"approval", "decision"}
      BY <1>2 DEF ApprovalTasks, DecisionTasks
    <2> HIDE DEF rec
    <2>4. QED
      BY <2>1, <2>2, <2>3 DEF TaskKnown
  <1>5. /\ Become(t, Idle) \/ Become(t, rec)
        /\ UNCHANGED <<runners, sessions, index, approvals, queues>>
    BY DEF RelayApproval, RelayDecision
  <1> HIDE DEF rec
  <1>6. QED
    BY <1>3, <1>4, <1>5, IdleKnown, PlanStep

\* CreateApproval is queued for the polling runner of the plan.
LEMMA EnqueueApprovalInv ==
    ASSUME IInv, NEW t \in Tasks, EnqueueApproval(t)
    PROVE  IInv' /\ Growth
  <1> DEFINE c == [kind |-> "CreateApproval", session |-> tasks[t].session,
                   approval |-> tasks[t].approval]
  <1>1. tasks[t] \in ApprovalTasks
    BY TaskKinds DEF EnqueueApproval, IInv, TypeOK
  <1>2. c \in Commands /\ c.kind # "ApplyApprovalDecision"
    BY <1>1 DEF Commands, ApprovalTasks
  <1>3. tasks[t].runner \in Runners
    BY ConstantsAssumption DEF EnqueueApproval, IInv, TasksKnown, TaskKnown
  <1> HIDE DEF c
  <1>4. QED
    BY <1>2, <1>3, IdleKnown, EnqueueStep DEF EnqueueApproval, c

\* The decision queued is the one recorded: the commit before it wrote it.
LEMMA EnqueueDecisionInv ==
    ASSUME IInv, NEW t \in Tasks, EnqueueDecision(t)
    PROVE  IInv' /\ Growth
  <1> DEFINE a == tasks[t].approval
             r == approvals[a].runner
             c == [kind |-> "ApplyApprovalDecision", approval |-> a,
                   state |-> tasks[t].decision]
  <1>1. tasks[t] \in DecisionTasks
    BY TaskKinds DEF EnqueueDecision, IInv, TypeOK
  <1>2. c \in Commands
    BY <1>1 DEF Commands, DecisionTasks
  <1>3. a \in DOMAIN approvals /\ approvals[a].state = tasks[t].decision
    BY DEF EnqueueDecision, IInv, TasksKnown, TaskKnown
  <1>4. r \in Runners \cup {NoRunner}
    BY <1>3 DEF IInv, TypeOK, ApprovalRecords
  <1>5. /\ Become(t, Idle) /\ UNCHANGED <<runners, sessions, index, approvals>>
        /\ queues' = IF r = NoRunner THEN queues ELSE Enqueued(r, c)
    BY DEF EnqueueDecision
  <1>6. CASE r = NoRunner
    BY <1>5, <1>6, IdleKnown, PlanStep
  <1>7. CASE r # NoRunner
    <2>1. c.approval = a /\ c.state = tasks[t].decision
      OBVIOUS
    <2> HIDE DEF c
    <2>2. r \in Runners /\ queues' = Enqueued(r, c)
      BY <1>4, <1>5, <1>7
    <2>3. /\ c.approval \in DOMAIN approvals
          /\ approvals[c.approval].state = c.state
          /\ approvals[c.approval].runner = r
      BY <1>3, <2>1
    <2> HIDE DEF r
    <2>4. QED
      BY <1>2, <1>5, <2>2, <2>3, IdleKnown, EnqueueStep
  <1>8. QED
    BY <1>6, <1>7

\* Pulling removes commands from the front and disturbs nothing else.
LEMMA PullInv ==
    ASSUME IInv, NEW r \in Runners, NEW limit \in Nat, pull_runner_commands(r, limit)
    PROVE  IInv' /\ Growth
  <1> USE DEF pull_runner_commands
  <1>1. Growth /\ RegistryOK'
    BY RegistryKept
  <1>2. /\ queues[r] \in Seq(Commands)
        /\ queues' = [queues EXCEPT ![r] = AfterPull(queues[r], limit)]
    BY DEF IInv, TypeOK
  <1>3. /\ AfterPull(queues[r], limit) \in Seq(Commands)
        /\ \A i \in 1 .. Len(AfterPull(queues[r], limit)) :
              \E j \in 1 .. Len(queues[r]) : AfterPull(queues[r], limit)[i] = queues[r][j]
    BY <1>2, AfterPullType
  <1>4. queues' \in [Runners -> Seq(Commands)]
    BY <1>2, <1>3 DEF IInv, TypeOK
  <1>5. \A q \in Runners : \A i \in 1 .. Len(queues'[q]) :
            \E j \in 1 .. Len(queues[q]) : queues'[q][i] = queues[q][j]
    <2>1. queues'[r] = AfterPull(queues[r], limit)
      BY <1>2 DEF IInv, TypeOK
    <2>2. \A q \in Runners \ {r} : queues'[q] = queues[q]
      BY <1>2 DEF IInv, TypeOK
    <2>3. \A i \in 1 .. Len(queues'[r]) :
             \E j \in 1 .. Len(queues[r]) : queues'[r][i] = queues[r][j]
      BY <1>3, <2>1
    <2>4. ASSUME NEW q \in Runners \ {r}, NEW i \in 1 .. Len(queues'[q])
          PROVE  \E j \in 1 .. Len(queues[q]) : queues'[q][i] = queues[q][j]
      BY <2>2, <2>4
    <2>5. QED
      BY <2>3, <2>4
  <1>6. DecisionCommandsAgree'
    <2> SUFFICES ASSUME NEW q \in Runners, NEW i \in 1 .. Len(queues'[q]),
                        queues'[q][i].kind = "ApplyApprovalDecision"
                 PROVE  /\ queues'[q][i].approval \in DOMAIN approvals'
                        /\ approvals'[queues'[q][i].approval].state = queues'[q][i].state
                        /\ approvals'[queues'[q][i].approval].runner = q
      BY DEF DecisionCommandsAgree
    <2>1. PICK j \in 1 .. Len(queues[q]) : queues'[q][i] = queues[q][j]
      BY <1>5
    <2>2. QED
      BY <1>1, <2>1, DecisionStaysRecorded
  <1>7. tasks' \in [Tasks -> TaskRecords] /\ TasksKnown'
    BY DEF IInv, TypeOK, TasksKnown
  <1>8. QED
    BY <1>1, <1>4, <1>6, <1>7 DEF IInv, RegistryOK, TypeOK

\* The passing of time changes only ages.
LEMMA TickInv ==
    ASSUME IInv, Tick
    PROVE  IInv' /\ Growth
  <1>1. ASSUME NEW age \in Ages
        PROVE  Lesser(age + 1, MaxAge) \in Ages
    BY ConstantsAssumption DEF Ages, MaxAge, Lesser
  <1>2. DOMAIN runners' = DOMAIN runners /\ runners' \in [DOMAIN runners' -> RunnerSnapshots]
    <2>1. ASSUME NEW r \in DOMAIN runners
          PROVE  [runners[r] EXCEPT !.age = Lesser(@ + 1, MaxAge)] \in RunnerSnapshots
      BY <1>1 DEF IInv, TypeOK, RunnerSnapshots
    <2>2. QED
      BY <2>1 DEF Tick
  <1>3. Growth /\ RegistryOK'
    BY <1>2 DEF Tick, IInv, TypeOK, Growth, RegistryOK, OwnersRegistered,
                ApprovalsKnown, IndexMirrorsOwner
  <1>4. queues' \in [Runners -> Seq(Commands)] /\ DecisionCommandsAgree'
    BY <1>3, QueuesKept DEF Tick
  <1>5. ASSUME NEW t \in Tasks
        PROVE  /\ tasks'[t] \in TaskRecords
               /\ TaskKnown(tasks'[t], DOMAIN runners, DOMAIN sessions, approvals)
    <2> DEFINE rec == [tasks[t] EXCEPT !.age = Lesser(@ + 1, MaxAge)]
    <2>1. /\ tasks[t] \in TaskRecords
          /\ TaskKnown(tasks[t], DOMAIN runners, DOMAIN sessions, approvals)
      BY DEF IInv, TypeOK, TasksKnown
    <2>2. CASE ~HoldsTimestamp(tasks[t])
      BY <2>1, <2>2 DEF Tick
    <2>3. CASE HoldsTimestamp(tasks[t])
      <3>1. tasks'[t] = rec
        BY <2>3 DEF Tick
      <3>2. tasks[t] \in StateTasks \cup ApprovalTasks \cup DecisionTasks
                         \cup DispatchingTasks
        BY <2>1, <2>3, TaskKinds DEF HoldsTimestamp
      <3>3. CASE tasks[t] \in StateTasks
        <4>1. rec \in StateTasks /\ rec.op = tasks[t].op
              /\ rec.runner = tasks[t].runner /\ rec.session = tasks[t].session
          BY <3>3, <1>1 DEF StateTasks
        <4>2. rec.op \in {"create", "update"}
          BY <4>1 DEF StateTasks
        <4> HIDE DEF rec
        <4>3. QED
          BY <2>1, <3>1, <4>1, <4>2 DEF TaskKnown, TaskRecords
      <3>4. CASE tasks[t] \in ApprovalTasks
        <4>1. rec \in ApprovalTasks /\ rec.op = tasks[t].op /\ rec.pc = tasks[t].pc
              /\ rec.runner = tasks[t].runner /\ rec.session = tasks[t].session
          BY <3>4, <1>1 DEF ApprovalTasks
        <4>2. rec.op = "approval"
          BY <4>1 DEF ApprovalTasks
        <4> HIDE DEF rec
        <4>3. QED
          BY <2>1, <3>1, <4>1, <4>2 DEF TaskKnown, TaskRecords
      <3>5. CASE tasks[t] \in DecisionTasks
        <4>1. rec \in DecisionTasks /\ rec.op = tasks[t].op /\ rec.pc = tasks[t].pc
              /\ rec.runner = tasks[t].runner /\ rec.approval = tasks[t].approval
              /\ rec.decision = tasks[t].decision
          BY <3>5, <1>1 DEF DecisionTasks
        <4>2. rec.op = "decision"
          BY <4>1 DEF DecisionTasks
        <4> HIDE DEF rec
        <4>3. QED
          BY <2>1, <3>1, <4>1, <4>2 DEF TaskKnown, TaskRecords
      <3>6. CASE tasks[t] \in DispatchingTasks
        <4>1. rec \in DispatchingTasks /\ rec.op = tasks[t].op
              /\ rec.runner = tasks[t].runner /\ rec.session = tasks[t].session
          BY <3>6, <1>1 DEF DispatchingTasks
        <4>2. rec.op = "dispatching"
          BY <4>1 DEF DispatchingTasks
        <4> HIDE DEF rec
        <4>3. QED
          BY <2>1, <3>1, <4>1, <4>2 DEF TaskKnown, TaskRecords
      <3>7. QED
        BY <3>2, <3>3, <3>4, <3>5, <3>6
    <2>4. QED
      BY <2>2, <2>3
  <1>6. tasks' \in [Tasks -> TaskRecords] /\ TasksKnown'
    <2>1. DOMAIN tasks' = Tasks /\ tasks' = [t \in Tasks |-> tasks'[t]]
      BY DEF Tick
    <2>2. UNCHANGED <<sessions, approvals>>
      BY DEF Tick
    <2>3. QED
      BY <1>2, <1>5, <2>1, <2>2 DEF TasksKnown
  <1>7. QED
    BY <1>3, <1>4, <1>6 DEF IInv, RegistryOK, TypeOK

-----------------------------------------------------------------------------
(* Commits *)

\* The dispatch record a handler returns to is known.
LEMMA DispatchKnown ==
    ASSUME NEW r \in Runners, NEW skipped \in SUBSET Sessions,
           NEW round \in 0 .. MaxDispatchIterations,
           NEW R, r \in R, NEW S, NEW A
    PROVE  /\ Dispatch(r, skipped, round) \in TaskRecords
           /\ TaskKnown(Dispatch(r, skipped, round), R, S, A)
  <1>1. Dispatch(r, skipped, round) \in DispatchTasks
    BY DEF Dispatch, DispatchTasks
  <1>2. QED
    BY <1>1 DEF TaskRecords, Dispatch, TaskKnown

\* register_runner adds or replaces one snapshot.
LEMMA RegisterInv ==
    ASSUME IInv, NEW t \in Tasks, NEW r \in Runners, register_runner(t, r)
    PROVE  IInv' /\ Growth
  <1> DEFINE fresh == [state |-> "Idle", active |-> 0, queued |-> 0, age |-> 0]
             with == Insert(runners, r, fresh)
  <1>1. 0 \in Ages
    BY ConstantsAssumption DEF Ages, MaxAge
  <1>2. fresh \in RunnerSnapshots
    BY <1>1 DEF RunnerSnapshots, RunnerStates
  <1> HIDE DEF fresh
  <1>3. DOMAIN with = DOMAIN runners \cup {r} /\ with \in [DOMAIN with -> RunnerSnapshots]
    BY <1>2 DEF Insert, IInv, TypeOK
  <1>4. runners' = refresh_runner_session_counts(with, {r}, sessions, index, 0)
    BY DEF register_runner, WithRegistered, fresh
  <1> HIDE DEF with
  <1>5. /\ DOMAIN runners' = DOMAIN runners \cup {r}
        /\ runners' \in [DOMAIN runners' -> RunnerSnapshots]
    <2>1. DOMAIN index \subseteq Sessions
      BY DEF IInv, TypeOK
    <2>2. /\ DOMAIN runners' = DOMAIN with
          /\ runners' \in [DOMAIN with -> RunnerSnapshots]
      BY <1>1, <1>3, <1>4, <2>1, RefreshType
    <2>3. QED
      BY <1>3, <2>2
  <1>6. /\ UNCHANGED <<sessions, index, approvals, queues>>
        /\ Become(t, Dispatch(r, {}, 0))
    BY DEF register_runner
  <1>7. Growth /\ RegistryOK'
    BY <1>5, <1>6 DEF IInv, TypeOK, Growth, RegistryOK, OwnersRegistered,
                      ApprovalsKnown, IndexMirrorsOwner
  <1>8. /\ Dispatch(r, {}, 0) \in TaskRecords
        /\ TaskKnown(Dispatch(r, {}, 0), DOMAIN runners', DOMAIN sessions', approvals')
    BY <1>5, DispatchKnown, ConstantsAssumption
  <1>9. QED
    BY <1>6, <1>7, <1>8, CommitStep

\* A heartbeat and the reaping after it keep owners and index in step.
LEMMA HeartbeatInv ==
    ASSUME IInv, NEW t \in Tasks, NEW r \in Runners, NEW hb \in Heartbeats,
           update_runner_heartbeat(t, r, hb)
    PROVE  IInv' /\ Growth
  <1> DEFINE heard == apply_heartbeat(r, hb)
             orphans == Orphans(heard)
             lost == LostOwners(orphans)
             ss == [s \in DOMAIN sessions |->
                       IF s \in orphans
                       THEN [state |-> "Pending", owner |-> NoRunner]
                       ELSE sessions[s]]
  <1>1. /\ r \in DOMAIN runners /\ sessions' = ss /\ index' = Without(index, orphans)
        /\ runners' = refresh_runner_session_counts(heard, lost, ss, index', 0)
        /\ Become(t, Dispatch(r, {}, 0)) /\ UNCHANGED <<approvals, queues>>
    BY DEF update_runner_heartbeat, Unindexed
  <1>2. hb \in RunnerSnapshots
    BY ConstantsAssumption DEF RunnerSnapshots, Ages, MaxAge
  <1>3. DOMAIN heard = DOMAIN runners /\ heard \in [DOMAIN heard -> RunnerSnapshots]
    BY <1>2 DEF apply_heartbeat, IInv, TypeOK
  <1>4. orphans \subseteq {s \in DOMAIN sessions : sessions[s].owner # NoRunner}
    BY DEF Orphans
  <1>5. /\ DOMAIN sessions' = DOMAIN sessions
        /\ sessions' \in [DOMAIN sessions' -> SessionRecords]
        /\ \A s \in orphans : sessions'[s].owner = NoRunner
        /\ \A s \in DOMAIN sessions \ orphans : sessions'[s] = sessions[s]
    <2> HIDE DEF orphans
    <2>1. QED
      BY <1>1, <1>4 DEF IInv, TypeOK, SessionRecords, SessionStates
  <1>6. /\ DOMAIN index' = DOMAIN index \ orphans
        /\ \A s \in DOMAIN index' : index'[s] = index[s]
        /\ DOMAIN index' \subseteq Sessions
        /\ index' \in [DOMAIN index' -> Runners]
    <2> HIDE DEF orphans
    <2>1. QED
      BY <1>1 DEF Without, IInv, TypeOK
  <1> HIDE DEF heard, orphans, lost, ss
  <1>7. /\ DOMAIN runners' = DOMAIN runners
        /\ runners' \in [DOMAIN runners' -> RunnerSnapshots]
    <2>1. 0 \in Ages
      BY ConstantsAssumption DEF Ages, MaxAge
    <2>2. QED
      BY <1>1, <1>3, <1>6, <2>1, RefreshType
  <1>8. Growth
    BY <1>1, <1>5, <1>7 DEF Growth
  <1>9. RegistryOK'
    <2>1. IndexMirrorsOwner'
      BY <1>4, <1>5, <1>6 DEF IInv, IndexMirrorsOwner
    <2>2. OwnersRegistered'
      BY <1>4, <1>5, <1>7 DEF IInv, OwnersRegistered
    <2>3. ApprovalsKnown'
      BY <1>1, <1>5, <1>7 DEF IInv, ApprovalsKnown
    <2>4. QED
      BY <1>1, <1>5, <1>6, <1>7, <2>1, <2>2, <2>3 DEF IInv, TypeOK, RegistryOK
  <1>10. /\ Dispatch(r, {}, 0) \in TaskRecords
         /\ TaskKnown(Dispatch(r, {}, 0), DOMAIN runners', DOMAIN sessions', approvals')
    <2>1. r \in DOMAIN runners' /\ 0 \in 0 .. MaxDispatchIterations
      BY <1>1, <1>7, ConstantsAssumption
    <2>2. QED
      BY <2>1, DispatchKnown
  <1>11. QED
    BY <1>1, <1>8, <1>9, <1>10, CommitStep

\* Assigning an unowned session, or a session not seen before, to a runner.
LEMMA AssignKeepsRegistry ==
    ASSUME IInv, NEW s \in Sessions, NEW r \in DOMAIN runners \cup {NoRunner},
           NEW state \in SessionStates, NEW age \in Ages,
           s \in DOMAIN sessions => sessions[s].owner = NoRunner,
           sessions' = Insert(sessions, s, [state |-> state, owner |-> r]),
           index' = IF r = NoRunner THEN index ELSE Insert(index, s, r),
           runners' = refresh_runner_session_counts(runners, {r}, sessions', index', age),
           UNCHANGED approvals
    PROVE  Growth /\ RegistryOK'
  <1>1. s \notin DOMAIN index
    BY DEF IInv, IndexMirrorsOwner
  <1>2. r \in Runners \cup {NoRunner} /\ (r # NoRunner => r \in Runners)
    BY DEF IInv, TypeOK
  <1>3. /\ DOMAIN sessions' = DOMAIN sessions \cup {s}
        /\ sessions'[s] = [state |-> state, owner |-> r]
        /\ \A x \in DOMAIN sessions \ {s} : sessions'[x] = sessions[x]
        /\ sessions' \in [DOMAIN sessions' -> SessionRecords]
    BY <1>2 DEF Insert, IInv, TypeOK, SessionRecords
  <1>4. /\ DOMAIN index' = IF r = NoRunner THEN DOMAIN index ELSE DOMAIN index \cup {s}
        /\ r # NoRunner => index'[s] = r
        /\ \A x \in DOMAIN index : index'[x] = index[x]
        /\ DOMAIN index' \subseteq Sessions
        /\ index' \in [DOMAIN index' -> Runners]
    BY <1>1, <1>2 DEF Insert, IInv, TypeOK
  <1>5. /\ DOMAIN runners' = DOMAIN runners
        /\ runners' \in [DOMAIN runners' -> RunnerSnapshots]
    <2>1. runners \in [DOMAIN runners -> RunnerSnapshots]
      BY DEF IInv, TypeOK
    <2>2. DOMAIN index' \subseteq Sessions
      BY <1>4
    <2>3. QED
      BY <2>1, <2>2, RefreshType
  <1>6. Growth
    BY <1>3, <1>5 DEF Growth
  <1>7. IndexMirrorsOwner'
    <2>1. sessions'[s].owner = r
      BY <1>3
    <2>2. \A x \in DOMAIN sessions : x # s => sessions'[x].owner = sessions[x].owner
      BY <1>3
    <2>3. /\ DOMAIN index = {x \in DOMAIN sessions : sessions[x].owner # NoRunner}
          /\ \A x \in DOMAIN index : index[x] = sessions[x].owner
      BY DEF IInv, IndexMirrorsOwner
    <2>4. DOMAIN index' = {x \in DOMAIN sessions' : sessions'[x].owner # NoRunner}
      BY <1>1, <1>3, <1>4, <2>1, <2>2, <2>3
    <2>5. \A x \in DOMAIN index' : index'[x] = sessions'[x].owner
      BY <1>1, <1>4, <2>1, <2>2, <2>3
    <2>6. QED
      BY <2>4, <2>5 DEF IndexMirrorsOwner
  <1>8. OwnersRegistered'
    <2>1. sessions'[s].owner = r
      BY <1>3
    <2>2. \A x \in DOMAIN sessions : x # s => sessions'[x].owner = sessions[x].owner
      BY <1>3
    <2>3. \A x \in DOMAIN sessions : sessions[x].owner \in DOMAIN runners \cup {NoRunner}
      BY DEF IInv, OwnersRegistered
    <2>4. \A x \in DOMAIN sessions' : sessions'[x].owner \in DOMAIN runners' \cup {NoRunner}
      BY <1>3, <1>5, <2>1, <2>2, <2>3
    <2>5. QED
      BY <2>4 DEF OwnersRegistered
  <1>9. ApprovalsKnown'
    BY <1>3, <1>5 DEF IInv, ApprovalsKnown
  <1>10. QED
    BY <1>3, <1>4, <1>5, <1>6, <1>7, <1>8, <1>9 DEF IInv, TypeOK, RegistryOK

\* commit_pending_session_dispatch, accepted or refused.
LEMMA CommitDispatchInv ==
    ASSUME IInv, NEW t \in Tasks, tasks[t].op = "dispatching", NEW age \in Ages,
           CommitDispatch(t, age), UNCHANGED approvals
    PROVE  /\ Growth /\ RegistryOK'
           /\ tasks' \in [Tasks -> TaskRecords] /\ TasksKnown'
  <1> DEFINE s == tasks[t].session
             r == tasks[t].runner
             skipped == tasks[t].skipped
             round == tasks[t].round
  <1>1. /\ tasks[t] \in DispatchingTasks
        /\ TaskKnown(tasks[t], DOMAIN runners, DOMAIN sessions, approvals)
    BY TaskKinds DEF IInv, TypeOK, TasksKnown
  <1>2. /\ s \in Sessions /\ r \in Runners /\ skipped \in SUBSET Sessions
        /\ round \in 0 .. MaxDispatchIterations
    BY <1>1 DEF DispatchingTasks
  <1>3. r \in DOMAIN runners /\ s \in DOMAIN sessions
    BY <1>1, <1>2, ConstantsAssumption DEF TaskKnown
  <1>4. CASE sessions[s] = [state |-> "Pending", owner |-> NoRunner]
    <2> DEFINE state == session_state_from_runner("Pending")
    <2>1. /\ sessions' = [sessions EXCEPT ![s] = [state |-> state, owner |-> r]]
          /\ index' = Insert(index, s, r)
          /\ runners' = refresh_runner_session_counts(runners, {r}, sessions', index', age)
          /\ Become(t, Dispatch(r, skipped, round))
      BY <1>4 DEF CommitDispatch
    <2>2. state \in SessionStates
      BY DEF session_state_from_runner, SessionStates
    <2> HIDE DEF state
    <2>3. sessions' = Insert(sessions, s, [state |-> state, owner |-> r])
      BY <1>3, <2>1 DEF Insert, IInv, TypeOK
    <2>4. r # NoRunner /\ sessions[s].owner = NoRunner
      <3>1. r # NoRunner
        BY <1>2, ConstantsAssumption
      <3>2. sessions[s].owner = NoRunner
        BY <1>4
      <3>3. QED
        BY <3>1, <3>2
    <2> HIDE DEF s, r, skipped, round
    <2>5. Growth /\ RegistryOK'
      BY <1>2, <1>3, <2>1, <2>2, <2>3, <2>4, AssignKeepsRegistry
    <2>6. r \in DOMAIN runners'
      BY <1>3, <2>5 DEF Growth
    <2>7. /\ Dispatch(r, skipped, round) \in TaskRecords
          /\ TaskKnown(Dispatch(r, skipped, round), DOMAIN runners',
                       DOMAIN sessions', approvals')
      BY <1>2, <2>6, DispatchKnown
    <2>8. QED
      BY <2>1, <2>5, <2>7, TasksAfter
  <1>5. CASE sessions[s] # [state |-> "Pending", owner |-> NoRunner]
    <2>1. /\ UNCHANGED <<sessions, index, runners>>
          /\ Become(t, Dispatch(r, skipped \cup {s}, round))
      BY <1>5 DEF CommitDispatch
    <2>2. skipped \cup {s} \in SUBSET Sessions
      BY <1>2
    <2> HIDE DEF s, r, skipped, round
    <2>3. Growth /\ RegistryOK'
      BY <2>1, RegistryKept
    <2>4. r \in DOMAIN runners'
      BY <1>3, <2>1
    <2>5. /\ Dispatch(r, skipped \cup {s}, round) \in TaskRecords
          /\ TaskKnown(Dispatch(r, skipped \cup {s}, round), DOMAIN runners',
                       DOMAIN sessions', approvals')
      BY <1>2, <2>2, <2>4, DispatchKnown
    <2>6. QED
      BY <2>1, <2>3, <2>5, TasksAfter
  <1>6. QED
    BY <1>4, <1>5

\* Dispatch to a polling runner: queue and commit in one lock scope.
LEMMA DispatchByQueueInv ==
    ASSUME IInv, NEW t \in Tasks, DispatchByQueue(t)
    PROVE  IInv' /\ Growth
  <1> DEFINE c == [kind |-> "CreateSession", session |-> tasks[t].session]
  <1>1. tasks[t].op = "dispatching" /\ tasks[t] \in DispatchingTasks
    BY TaskKinds DEF DispatchByQueue, IInv, TypeOK
  <1>2. c \in Commands /\ c.kind # "ApplyApprovalDecision" /\ tasks[t].runner \in Runners
    BY <1>1 DEF Commands, DispatchingTasks
  <1>3. 0 \in Ages
    BY ConstantsAssumption DEF Ages, MaxAge
  <1>4. /\ CommitDispatch(t, 0) /\ UNCHANGED approvals
        /\ queues' = Enqueued(tasks[t].runner, c)
    BY DEF DispatchByQueue
  <1> HIDE DEF c
  <1>5. /\ Growth /\ RegistryOK'
        /\ tasks' \in [Tasks -> TaskRecords] /\ TasksKnown'
    BY <1>1, <1>3, <1>4, CommitDispatchInv
  <1>6. queues' \in [Runners -> Seq(Commands)] /\ DecisionCommandsAgree'
    BY <1>2, <1>4, <1>5, QueuesAfter
  <1>7. QED
    BY <1>5, <1>6 DEF IInv, RegistryOK, TypeOK

\* Dispatch to an inbound runner: relay, then commit.
LEMMA DispatchByRelayInv ==
    ASSUME IInv, NEW t \in Tasks, DispatchByRelay(t)
    PROVE  IInv' /\ Growth
  <1> DEFINE failed == Dispatch(tasks[t].runner, tasks[t].skipped \cup {tasks[t].session},
                                tasks[t].round)
             answered == [tasks[t] EXCEPT !.pc = "commit", !.age = 0]
  <1>1. /\ tasks[t].op = "dispatching" /\ tasks[t] \in DispatchingTasks
        /\ TaskKnown(tasks[t], DOMAIN runners, DOMAIN sessions, approvals)
    BY TaskKinds DEF DispatchByRelay, IInv, TypeOK, TasksKnown
  <1>2. 0 \in Ages
    BY ConstantsAssumption DEF Ages, MaxAge
  <1>3. failed \in TaskRecords
        /\ TaskKnown(failed, DOMAIN runners, DOMAIN sessions, approvals)
    <2>1. /\ tasks[t].runner \in Runners /\ tasks[t].runner # NoRunner
          /\ tasks[t].skipped \cup {tasks[t].session} \in SUBSET Sessions
          /\ tasks[t].round \in 0 .. MaxDispatchIterations
      BY <1>1, ConstantsAssumption DEF DispatchingTasks
    <2>2. tasks[t].runner \in DOMAIN runners
      BY <1>1, <2>1 DEF TaskKnown
    <2>3. QED
      BY <2>1, <2>2, DispatchKnown
  <1>4. answered \in TaskRecords
        /\ TaskKnown(answered, DOMAIN runners, DOMAIN sessions, approvals)
    <2>1. answered \in DispatchingTasks
      BY <1>1, <1>2 DEF DispatchingTasks
    <2>2. /\ answered.op = "dispatching" /\ answered.runner = tasks[t].runner
          /\ answered.session = tasks[t].session
      BY <1>1 DEF DispatchingTasks
    <2> HIDE DEF answered
    <2>3. QED
      BY <1>1, <2>1, <2>2 DEF TaskKnown, TaskRecords
  <1> HIDE DEF failed, answered
  <1>5. CASE /\ Become(t, failed) \/ Become(t, answered)
             /\ UNCHANGED <<runners, sessions, index, approvals, queues>>
    BY <1>3, <1>4, <1>5, PlanStep
  <1>6. CASE CommitDispatch(t, tasks[t].age) /\ UNCHANGED <<approvals, queues>>
    <2>1. tasks[t].age \in Ages
      BY <1>1 DEF DispatchingTasks
    <2>2. /\ Growth /\ RegistryOK'
          /\ tasks' \in [Tasks -> TaskRecords] /\ TasksKnown'
      BY <1>1, <1>6, <2>1, CommitDispatchInv
    <2>3. queues' \in [Runners -> Seq(Commands)] /\ DecisionCommandsAgree'
      BY <1>6, <2>2, QueuesKept
    <2>4. QED
      BY <2>2, <2>3 DEF IInv, RegistryOK, TypeOK
  <1>7. QED
    BY <1>5, <1>6 DEF DispatchByRelay, failed, answered

\* commit_session adds the session, or refuses one that exists by now.
LEMMA CommitSessionInv ==
    ASSUME IInv, NEW t \in Tasks, commit_session(t)
    PROVE  IInv' /\ Growth
  <1> DEFINE s == tasks[t].session
             r == tasks[t].runner
             state == tasks[t].state
             age == tasks[t].age
  <1>1. /\ tasks[t] \in StateTasks /\ tasks[t].op = "create"
        /\ TaskKnown(tasks[t], DOMAIN runners, DOMAIN sessions, approvals)
    BY TaskKinds DEF commit_session, IInv, TypeOK, TasksKnown
  <1>2. s \in Sessions /\ state \in SessionStates /\ age \in Ages
    BY <1>1 DEF StateTasks
  <1>3. r \in DOMAIN runners \cup {NoRunner}
    BY <1>1 DEF TaskKnown
  <1>4. Become(t, Idle) /\ UNCHANGED <<approvals, queues>>
    BY DEF commit_session
  <1>5. Growth /\ RegistryOK'
    <2>1. CASE s \in DOMAIN sessions
      <3>1. UNCHANGED <<runners, sessions, index>>
        BY <2>1 DEF commit_session
      <3>2. QED
        BY <1>4, <3>1, RegistryKept
    <2>2. CASE s \notin DOMAIN sessions
      <3>1. /\ sessions' = Insert(sessions, s, [state |-> state, owner |-> r])
            /\ index' = IF r = NoRunner THEN index ELSE Insert(index, s, r)
            /\ runners' = refresh_runner_session_counts(
                              runners, {r}, sessions', index', age)
        BY <2>2 DEF commit_session
      <3> HIDE DEF s, r, state, age
      <3>2. QED
        BY <1>2, <1>3, <1>4, <2>2, <3>1, AssignKeepsRegistry
    <2>3. QED
      BY <2>1, <2>2
  <1>6. QED
    BY <1>4, <1>5, IdleKnown, CommitStep

\* Changing the state of a session, and recounting its owner, keeps the
\* registry: the owner, and with it the index, stays what it was.
LEMMA StateKeepsRegistry ==
    ASSUME IInv, NEW s \in DOMAIN sessions, NEW state \in SessionStates, NEW age \in Ages,
           sessions' = [sessions EXCEPT ![s].state = state],
           UNCHANGED index,
           runners' = refresh_runner_session_counts(
                          runners, {sessions[s].owner}, sessions', index', age)
    PROVE  /\ DOMAIN runners' = DOMAIN runners
           /\ runners' \in [DOMAIN runners' -> RunnerSnapshots]
           /\ DOMAIN sessions' = DOMAIN sessions
           /\ sessions' \in [DOMAIN sessions' -> SessionRecords]
           /\ OwnersRegistered' /\ IndexMirrorsOwner'
  <1>1. /\ runners \in [DOMAIN runners -> RunnerSnapshots]
        /\ DOMAIN index \subseteq Sessions
    BY DEF IInv, TypeOK
  <1>2. /\ DOMAIN runners' = DOMAIN runners
        /\ runners' \in [DOMAIN runners' -> RunnerSnapshots]
    <2> DEFINE R == {sessions[s].owner}
    <2>1. runners' = refresh_runner_session_counts(runners, R, sessions', index, age)
      OBVIOUS
    <2> HIDE DEF R
    <2>2. QED
      BY <1>1, <2>1, RefreshType
  <1>3. /\ DOMAIN sessions' = DOMAIN sessions
        /\ sessions' \in [DOMAIN sessions' -> SessionRecords]
        /\ \A x \in DOMAIN sessions : sessions'[x].owner = sessions[x].owner
    BY DEF IInv, TypeOK, SessionRecords
  <1>4. OwnersRegistered'
    BY <1>2, <1>3 DEF IInv, OwnersRegistered
  <1>5. IndexMirrorsOwner'
    BY <1>3 DEF IInv, IndexMirrorsOwner
  <1>6. QED
    BY <1>2, <1>3, <1>4, <1>5

\* apply_session_state_update: its rewriting of the index changes nothing.
LEMMA ApplyStateInv ==
    ASSUME IInv, NEW t \in Tasks, apply_session_state_update(t)
    PROVE  IInv' /\ Growth
  <1> DEFINE s == tasks[t].session
             r == sessions[s].owner
             state == tasks[t].state
             age == IF tasks[t].runner \notin PullRunners \cup {NoRunner}
                    THEN tasks[t].age ELSE 0
  <1>1. /\ tasks[t] \in StateTasks /\ tasks[t].op = "update"
        /\ TaskKnown(tasks[t], DOMAIN runners, DOMAIN sessions, approvals)
    BY TaskKinds DEF apply_session_state_update, IInv, TypeOK, TasksKnown
  <1>2. state \in SessionStates /\ age \in Ages
    BY <1>1, ConstantsAssumption DEF StateTasks, Ages, MaxAge
  <1>3. s \in DOMAIN sessions
    BY <1>1 DEF TaskKnown
  <1>4. Become(t, Idle) /\ UNCHANGED <<approvals, queues>>
    BY DEF apply_session_state_update
  <1>5. Growth /\ RegistryOK'
    <2>1. CASE ~is_valid_session_transition(sessions[s].state, state)
      <3>1. UNCHANGED <<runners, sessions, index>>
        BY <2>1 DEF apply_session_state_update
      <3>2. QED
        BY <1>4, <3>1, RegistryKept
    <2>2. CASE is_valid_session_transition(sessions[s].state, state)
      <3>1. /\ sessions' = [sessions EXCEPT ![s].state = state]
            /\ index' = IF r = NoRunner THEN Without(index, {s}) ELSE Insert(index, s, r)
            /\ runners' = refresh_runner_session_counts(
                              runners, {r}, sessions', index', age)
        BY <2>2 DEF apply_session_state_update
      <3>2. index' = index
        <4>1. /\ s \in DOMAIN index <=> r # NoRunner
              /\ s \in DOMAIN index => index[s] = r
          BY <1>3 DEF IInv, IndexMirrorsOwner
        <4>2. index = [x \in DOMAIN index |-> index[x]]
          BY DEF IInv, TypeOK
        <4> HIDE DEF s, r
        <4>3. CASE r = NoRunner
          BY <3>1, <4>1, <4>2, <4>3 DEF Without
        <4>4. CASE r # NoRunner
          BY <3>1, <4>1, <4>2, <4>4 DEF Insert
        <4>5. QED
          BY <4>3, <4>4
      <3>3. /\ DOMAIN runners' = DOMAIN runners
            /\ runners' \in [DOMAIN runners' -> RunnerSnapshots]
            /\ DOMAIN sessions' = DOMAIN sessions
            /\ sessions' \in [DOMAIN sessions' -> SessionRecords]
            /\ OwnersRegistered' /\ IndexMirrorsOwner'
        <4> HIDE DEF s, state, age
        <4>1. QED
          BY <1>2, <1>3, <3>1, <3>2, StateKeepsRegistry
      <3>4. Growth
        BY <1>4, <3>3 DEF Growth
      <3>5. ApprovalsKnown'
        BY <1>4, <3>3 DEF IInv, ApprovalsKnown
      <3>6. QED
        BY <1>4, <3>2, <3>3, <3>4, <3>5 DEF IInv, TypeOK, RegistryOK
    <2>3. QED
      BY <2>1, <2>2
  <1>6. QED
    BY <1>4, <1>5, IdleKnown, CommitStep

\* commit_planned_approval adds a pending approval of a known session.
LEMMA CommitApprovalInv ==
    ASSUME IInv, NEW t \in Tasks, commit_planned_approval(t)
    PROVE  IInv' /\ Growth
  <1> DEFINE s == tasks[t].session
             a == tasks[t].approval
             r == tasks[t].runner
             age == tasks[t].age
             full == Cardinality({b \in DOMAIN approvals : approvals[b].session = s})
                       >= MaxApprovalsPerSession
             rec == IF r \in PullRunners THEN [tasks[t] EXCEPT !.pc = "enqueue"] ELSE Idle
  <1>1. /\ tasks[t] \in ApprovalTasks /\ tasks[t].op = "approval"
        /\ TaskKnown(tasks[t], DOMAIN runners, DOMAIN sessions, approvals)
    BY TaskKinds DEF commit_planned_approval, IInv, TypeOK, TasksKnown
  <1>2. s \in Sessions /\ a \in Approvals /\ r \in Runners \cup {NoRunner} /\ age \in Ages
    BY <1>1 DEF ApprovalTasks
  <1>3. s \in DOMAIN sessions /\ r \in DOMAIN runners \cup {NoRunner}
    BY <1>1 DEF TaskKnown
  <1>4. UNCHANGED <<index, queues>>
    BY DEF commit_planned_approval
  <1>5. CASE a \in DOMAIN approvals \/ full
    <2>1. Become(t, Idle) /\ UNCHANGED <<runners, sessions, approvals>>
      BY <1>5 DEF commit_planned_approval
    <2>2. QED
      BY <1>4, <2>1, IdleKnown, PlanStep
  <1>6. CASE ~(a \in DOMAIN approvals \/ full)
    <2> DEFINE new == [state |-> "Pending", session |-> s, runner |-> r]
    <2>1. /\ sessions' = [sessions EXCEPT ![s].state = "WaitingApproval"]
          /\ approvals' = Insert(approvals, a, new)
          /\ runners' = refresh_runner_session_counts(
                            runners, {sessions[s].owner}, sessions', index', age)
          /\ Become(t, rec)
      BY <1>4, <1>6 DEF commit_planned_approval
    <2>2. "WaitingApproval" \in SessionStates
      BY DEF SessionStates
    <2>3. /\ DOMAIN runners' = DOMAIN runners
          /\ runners' \in [DOMAIN runners' -> RunnerSnapshots]
          /\ DOMAIN sessions' = DOMAIN sessions
          /\ sessions' \in [DOMAIN sessions' -> SessionRecords]
          /\ OwnersRegistered' /\ IndexMirrorsOwner'
      <3> HIDE DEF s, age
      <3>1. QED
        BY <1>2, <1>3, <1>4, <2>1, <2>2, StateKeepsRegistry
    <2>4. new \in ApprovalRecords /\ new.session = s /\ new.runner = r
      BY <1>2 DEF ApprovalRecords
    <2> HIDE DEF new, s, r, a, rec
    <2>5. /\ DOMAIN approvals' = DOMAIN approvals \cup {a}
          /\ approvals' \in [DOMAIN approvals' -> ApprovalRecords]
          /\ approvals'[a] = new
          /\ \A b \in DOMAIN approvals : approvals'[b] = approvals[b]
      BY <1>6, <2>1, <2>4 DEF Insert, IInv, TypeOK
    <2>6. Growth
      BY <2>3, <2>5 DEF Growth
    <2>7. ApprovalsKnown'
      <3>1. \A b \in DOMAIN approvals :
               /\ approvals[b].session \in DOMAIN sessions
               /\ approvals[b].runner \in DOMAIN runners \cup {NoRunner}
        BY DEF IInv, ApprovalsKnown
      <3>2. \A b \in DOMAIN approvals' :
               /\ approvals'[b].session \in DOMAIN sessions'
               /\ approvals'[b].runner \in DOMAIN runners' \cup {NoRunner}
        BY <1>3, <2>3, <2>4, <2>5, <3>1
      <3>3. QED
        BY <3>2 DEF ApprovalsKnown
    <2>8. RegistryOK'
      BY <1>2, <1>4, <2>3, <2>5, <2>7 DEF IInv, TypeOK, RegistryOK
    <2>9. /\ rec \in TaskRecords
          /\ TaskKnown(rec, DOMAIN runners', DOMAIN sessions', approvals')
      <3> DEFINE next == [tasks[t] EXCEPT !.pc = "enqueue"]
      <3>1. /\ next \in ApprovalTasks /\ next.op = "approval" /\ next.runner = r
            /\ next.session = s
        BY <1>1 DEF ApprovalTasks, r, s
      <3> HIDE DEF next
      <3>2. next \in TaskRecords
        BY <3>1 DEF TaskRecords
      <3>3. r \in PullRunners =>
               TaskKnown(next, DOMAIN runners', DOMAIN sessions', approvals')
        BY <1>3, <2>3, <3>1 DEF TaskKnown
      <3>4. rec = IF r \in PullRunners THEN next ELSE Idle
        BY DEF rec, next
      <3>5. QED
        BY <3>2, <3>3, <3>4, IdleKnown
    <2>10. QED
      BY <1>4, <2>1, <2>6, <2>8, <2>9, CommitStep
  <1>7. QED
    BY <1>5, <1>6

\* commit_planned_approval_decision resolves a pending approval, or refuses.
LEMMA CommitDecisionInv ==
    ASSUME IInv, NEW t \in Tasks, commit_planned_approval_decision(t)
    PROVE  IInv' /\ Growth
  <1> DEFINE a == tasks[t].approval
             s == approvals[a].session
             age == tasks[t].age
             state == tasks[t].state
             decision == tasks[t].decision
             rec == IF tasks[t].runner \in PullRunners
                    THEN [tasks[t] EXCEPT !.pc = "enqueue"] ELSE Idle
  <1>1. /\ tasks[t] \in DecisionTasks /\ tasks[t].op = "decision"
        /\ TaskKnown(tasks[t], DOMAIN runners, DOMAIN sessions, approvals)
    BY TaskKinds DEF commit_planned_approval_decision, IInv, TypeOK, TasksKnown
  <1>2. state \in SessionStates /\ age \in Ages /\ decision \in Decisions
    BY <1>1 DEF DecisionTasks
  <1>3. a \in DOMAIN approvals
    BY <1>1 DEF TaskKnown
  <1>4. s \in DOMAIN sessions
    BY <1>3 DEF IInv, ApprovalsKnown
  <1>5. UNCHANGED <<index, queues>>
    BY DEF commit_planned_approval_decision
  <1>6. CASE approvals[a].state # "Pending"
    <2>1. Become(t, Idle) /\ UNCHANGED <<runners, sessions, approvals>>
      BY <1>6 DEF commit_planned_approval_decision, StillPending
    <2>2. QED
      BY <1>5, <2>1, IdleKnown, PlanStep
  <1>7. CASE approvals[a].state = "Pending"
    <2>1. /\ sessions' = [sessions EXCEPT ![s].state = state]
          /\ approvals' = [approvals EXCEPT ![a].state = decision]
          /\ runners' = refresh_runner_session_counts(
                            runners, {sessions[s].owner}, sessions', index', age)
          /\ Become(t, rec)
      BY <1>5, <1>7 DEF commit_planned_approval_decision, StillPending
    <2>2. /\ DOMAIN runners' = DOMAIN runners
          /\ runners' \in [DOMAIN runners' -> RunnerSnapshots]
          /\ DOMAIN sessions' = DOMAIN sessions
          /\ sessions' \in [DOMAIN sessions' -> SessionRecords]
          /\ OwnersRegistered' /\ IndexMirrorsOwner'
      <3> HIDE DEF s, age, state
      <3>1. QED
        BY <1>2, <1>4, <1>5, <2>1, StateKeepsRegistry
    <2> HIDE DEF s, a, state, decision, rec
    <2>3. /\ DOMAIN approvals' = DOMAIN approvals
          /\ approvals' \in [DOMAIN approvals' -> ApprovalRecords]
          /\ approvals'[a].state = decision
          /\ \A b \in DOMAIN approvals \ {a} : approvals'[b] = approvals[b]
          /\ \A b \in DOMAIN approvals :
                /\ approvals'[b].session = approvals[b].session
                /\ approvals'[b].runner = approvals[b].runner
      BY <1>2, <1>3, <2>1 DEF IInv, TypeOK, ApprovalRecords
    <2>4. Growth
      BY <1>7, <2>2, <2>3 DEF Growth
    <2>5. ApprovalsKnown'
      BY <2>2, <2>3 DEF IInv, ApprovalsKnown
    <2>6. RegistryOK'
      BY <1>5, <2>2, <2>3, <2>5 DEF IInv, TypeOK, RegistryOK
    <2>7. /\ rec \in TaskRecords
          /\ TaskKnown(rec, DOMAIN runners', DOMAIN sessions', approvals')
      <3> DEFINE next == [tasks[t] EXCEPT !.pc = "enqueue"]
      <3>1. /\ next \in DecisionTasks /\ next.op = "decision"
            /\ next.runner = tasks[t].runner /\ next.approval = a
            /\ next.decision = decision
        BY <1>1 DEF DecisionTasks, a, decision
      <3> HIDE DEF next
      <3>2. next \in TaskRecords
        BY <3>1 DEF TaskRecords
      <3>3. TaskKnown(next, DOMAIN runners', DOMAIN sessions', approvals')
        BY <1>1, <1>3, <2>2, <2>3, <3>1 DEF TaskKnown
      <3>4. rec = IF tasks[t].runner \in PullRunners THEN next ELSE Idle
        BY DEF rec, next
      <3>5. QED
        BY <3>2, <3>3, <3>4, IdleKnown
    <2>8. QED
      BY <1>5, <2>1, <2>4, <2>6, <2>7, CommitStep
  <1>8. QED
    BY <1>6, <1>7

-----------------------------------------------------------------------------
(* The theorems *)

\* The empty registry satisfies the invariant.
LEMMA InitInv == Init => IInv
  <1> SUFFICES ASSUME Init PROVE IInv
    OBVIOUS
  <1>1. queues \in [Runners -> Seq(Commands)]
    BY DEF Init
  <1>2. tasks \in [Tasks -> TaskRecords]
    BY IdleKnown DEF Init
  <1>3. /\ DOMAIN runners = {} /\ DOMAIN sessions = {}
        /\ DOMAIN index = {} /\ DOMAIN approvals = {}
    BY DEF Init
  <1>4. TypeOK
    <2>1. /\ runners = [x \in {} |-> 0] /\ sessions = [x \in {} |-> 0]
          /\ index = [x \in {} |-> 0] /\ approvals = [x \in {} |-> 0]
      BY DEF Init
    <2>2. QED
      BY <1>1, <1>2, <1>3, <2>1 DEF TypeOK
  <1>5. TasksKnown
    BY IdleKnown DEF Init, TasksKnown
  <1>6. DecisionCommandsAgree
    BY DEF Init, DecisionCommandsAgree
  <1>7. QED
    BY <1>3, <1>4, <1>5, <1>6
       DEF IInv, OwnersRegistered, ApprovalsKnown, IndexMirrorsOwner

\* Every step preserves the invariant and only lets the registry grow.
LEMMA NextInv == IInv /\ [Next]_vars => IInv' /\ Growth
  <1> SUFFICES ASSUME IInv, [Next]_vars PROVE IInv' /\ Growth
    OBVIOUS
  <1>1. ASSUME NEW t \in Tasks, Request(t) PROVE IInv' /\ Growth
    BY <1>1, RegisterInv, HeartbeatInv, PlanSessionInv, PlanStateUpdateInv,
       PlanSessionCommandInv, PlanApprovalInv, PlanDecisionInv DEF Request
  <1>2. ASSUME NEW t \in Tasks, Continue(t) PROVE IInv' /\ Growth
    <2>1. CASE PlanDispatch(t) \/ EndDispatch(t)
      BY <2>1, PlanDispatchInv, EndDispatchInv
    <2>2. CASE DispatchByQueue(t) \/ DispatchByRelay(t)
      BY <2>2, DispatchByQueueInv, DispatchByRelayInv
    <2>3. CASE RelaySession(t) \/ commit_session(t)
      BY <2>3, RelaySessionInv, CommitSessionInv
    <2>4. CASE RelayStateUpdate(t) \/ apply_session_state_update(t)
               \/ EnqueueSessionCommand(t)
      BY <2>4, RelayStateUpdateInv, ApplyStateInv, EnqueueSessionCommandInv
    <2>5. CASE RelayApproval(t) \/ commit_planned_approval(t) \/ EnqueueApproval(t)
      BY <2>5, RelayApprovalInv, CommitApprovalInv, EnqueueApprovalInv
    <2>6. CASE RelayDecision(t) \/ commit_planned_approval_decision(t)
               \/ EnqueueDecision(t)
      BY <2>6, RelayApprovalInv, CommitDecisionInv, EnqueueDecisionInv
    <2>7. QED
      BY <1>2, <2>1, <2>2, <2>3, <2>4, <2>5, <2>6 DEF Continue
  <1>3. ASSUME NEW r \in Runners, NEW limit \in 1 .. MaxCommandsPerRunner,
               pull_runner_commands(r, limit)
        PROVE  IInv' /\ Growth
    BY <1>3, PullInv, ConstantsAssumption
  <1>4. CASE Tick
    BY <1>4, TickInv
  <1>5. CASE UNCHANGED vars
    <2>1. Growth /\ RegistryOK'
      BY <1>5, RegistryKept DEF vars
    <2>2. queues' \in [Runners -> Seq(Commands)] /\ DecisionCommandsAgree'
      BY <1>5, <2>1, QueuesKept DEF vars
    <2>3. tasks' \in [Tasks -> TaskRecords] /\ TasksKnown'
      BY <1>5 DEF vars, IInv, TypeOK, TasksKnown
    <2>4. QED
      BY <2>1, <2>2, <2>3 DEF IInv, RegistryOK, TypeOK
  <1>6. QED
    BY <1>1, <1>2, <1>3, <1>4, <1>5 DEF Next

\* The inductive invariant holds throughout every behaviour.
THEOREM Invariance == Spec => []IInv
  <1>1. IInv /\ [Next]_vars => IInv'
    BY NextInv
  <1>2. QED
    BY InitInv, <1>1, PTL DEF Spec

\* Type correctness of the registry and of everything handlers carry.
THEOREM TypeCorrect == Spec => []TypeOK
  BY Invariance, PTL DEF IInv

\* The reverse index always agrees with the owner recorded in each session.
THEOREM IndexCorrect == Spec => []IndexMirrorsOwner
  BY Invariance, PTL DEF IInv

\* Owners are always registered runners.
THEOREM OwnersCorrect == Spec => []OwnersRegistered
  BY Invariance, PTL DEF IInv

\* A queued decision is always the recorded one, at the approval's runner.
THEOREM DecisionsCorrect == Spec => []DecisionCommandsAgree
  BY Invariance, PTL DEF IInv

\* No handler ever changes a resolved approval or drops one.
THEOREM DecidedOnce == Spec => ApprovalDecidedOnce
  <1>1. IInv /\ [Next]_vars =>
          [\A a \in DOMAIN approvals :
             /\ a \in DOMAIN approvals'
             /\ approvals[a].state # "Pending" => approvals'[a] = approvals[a]]_vars
    BY NextInv DEF Growth
  <1>2. QED
    BY Invariance, <1>1, PTL DEF Spec, ApprovalDecidedOnce

-----------------------------------------------------------------------------
(* What a step may do to the sessions.  A step that touches a session is of *)
(* one of three kinds; the action properties follow kind by kind.           *)

\* A session that nobody owned, or that is new, is given to a runner.
Assigns(s, r, state, age) ==
    /\ s \in DOMAIN sessions => sessions[s] = [state |-> "Pending", owner |-> NoRunner]
    /\ sessions' = Insert(sessions, s, [state |-> state, owner |-> r])
    /\ index' = IF r = NoRunner THEN index ELSE Insert(index, s, r)
    /\ runners' = refresh_runner_session_counts(runners, {r}, sessions', index', age)

\* A session changes its state, by the table or by an approval.
SetsState(s, state, age) ==
    /\ sessions' = [sessions EXCEPT ![s].state = state]
    /\ index' = index
    /\ runners' = refresh_runner_session_counts(
                      runners, {sessions[s].owner}, sessions', index', age)

\* A heartbeat is recorded and the orphans are taken back.
Reaps(r, hb) ==
    LET heard   == apply_heartbeat(r, hb)
        orphans == Orphans(heard)
    IN  /\ r \in DOMAIN runners
        /\ \E t \in Tasks : update_runner_heartbeat(t, r, hb)
        /\ sessions' = [s \in DOMAIN sessions |->
                          IF s \in orphans
                          THEN [state |-> "Pending", owner |-> NoRunner]
                          ELSE sessions[s]]
        /\ index' = Without(index, orphans)
        /\ runners' = refresh_runner_session_counts(
                          heard, LostOwners(orphans), sessions', index', 0)

SessionStep ==
    \/ UNCHANGED <<sessions, index>>
    \/ \E s \in Sessions, r \in DOMAIN runners \cup {NoRunner},
          state \in SessionStates, age \in Ages : Assigns(s, r, state, age)
    \/ \E s \in DOMAIN sessions, state \in SessionStates, age \in Ages :
          SetsState(s, state, age)
    \/ \E r \in Runners, hb \in Heartbeats : Reaps(r, hb)

\* commit_pending_session_dispatch assigns the session or leaves it alone.
LEMMA CommitDispatchKind ==
    ASSUME IInv, NEW t \in Tasks, tasks[t].op = "dispatching", NEW age \in Ages,
           CommitDispatch(t, age)
    PROVE  SessionStep
  <1> DEFINE s == tasks[t].session
             r == tasks[t].runner
             state == session_state_from_runner("Pending")
  <1>1. /\ tasks[t] \in DispatchingTasks
        /\ TaskKnown(tasks[t], DOMAIN runners, DOMAIN sessions, approvals)
    BY TaskKinds DEF IInv, TypeOK, TasksKnown
  <1>2. s \in Sessions /\ r \in Runners /\ state \in SessionStates
    BY <1>1 DEF DispatchingTasks, session_state_from_runner, SessionStates
  <1>3. r \in DOMAIN runners /\ s \in DOMAIN sessions /\ r # NoRunner
    BY <1>1, <1>2, ConstantsAssumption DEF TaskKnown
  <1>4. CASE sessions[s] = [state |-> "Pending", owner |-> NoRunner]
    <2>1. /\ sessions' = [sessions EXCEPT ![s] = [state |-> state, owner |-> r]]
          /\ index' = Insert(index, s, r)
          /\ runners' = refresh_runner_session_counts(runners, {r}, sessions', index', age)
      BY <1>4 DEF CommitDispatch
    <2> HIDE DEF state
    <2>2. sessions' = Insert(sessions, s, [state |-> state, owner |-> r])
      BY <1>3, <2>1 DEF Insert, IInv, TypeOK
    <2> HIDE DEF s, r
    <2>3. Assigns(s, r, state, age)
      BY <1>3, <1>4, <2>1, <2>2 DEF Assigns
    <2>4. QED
      BY <1>2, <1>3, <2>3 DEF SessionStep
  <1>5. CASE sessions[s] # [state |-> "Pending", owner |-> NoRunner]
    BY <1>5 DEF CommitDispatch, SessionStep
  <1>6. QED
    BY <1>4, <1>5

\* commit_session assigns a new session or refuses.
LEMMA CommitSessionKind ==
    ASSUME IInv, NEW t \in Tasks, commit_session(t)
    PROVE  SessionStep
  <1> DEFINE s == tasks[t].session
             r == tasks[t].runner
             state == tasks[t].state
             age == tasks[t].age
  <1>1. /\ tasks[t] \in StateTasks /\ tasks[t].op = "create"
        /\ TaskKnown(tasks[t], DOMAIN runners, DOMAIN sessions, approvals)
    BY TaskKinds DEF commit_session, IInv, TypeOK, TasksKnown
  <1>2. /\ s \in Sessions /\ state \in SessionStates /\ age \in Ages
        /\ r \in DOMAIN runners \cup {NoRunner}
    BY <1>1 DEF StateTasks, TaskKnown
  <1>3. CASE s \in DOMAIN sessions
    BY <1>3 DEF commit_session, SessionStep
  <1>4. CASE s \notin DOMAIN sessions
    <2>1. Assigns(s, r, state, age)
      BY <1>4 DEF commit_session, Assigns
    <2> HIDE DEF s, r, state, age
    <2>2. QED
      BY <1>2, <2>1 DEF SessionStep
  <1>5. QED
    BY <1>3, <1>4

\* apply_session_state_update follows the table; its rewriting of the index
\* changes nothing.
LEMMA ApplyStateKind ==
    ASSUME IInv, NEW t \in Tasks, apply_session_state_update(t)
    PROVE  SessionStep
  <1> DEFINE s == tasks[t].session
             r == sessions[s].owner
             state == tasks[t].state
             age == IF tasks[t].runner \notin PullRunners \cup {NoRunner}
                    THEN tasks[t].age ELSE 0
  <1>1. /\ tasks[t] \in StateTasks /\ tasks[t].op = "update"
        /\ TaskKnown(tasks[t], DOMAIN runners, DOMAIN sessions, approvals)
    BY TaskKinds DEF apply_session_state_update, IInv, TypeOK, TasksKnown
  <1>2. state \in SessionStates /\ age \in Ages /\ s \in DOMAIN sessions
    BY <1>1, ConstantsAssumption DEF StateTasks, Ages, MaxAge, TaskKnown
  <1>3. CASE ~is_valid_session_transition(sessions[s].state, state)
    BY <1>3 DEF apply_session_state_update, SessionStep
  <1>4. CASE is_valid_session_transition(sessions[s].state, state)
    <2>1. /\ sessions' = [sessions EXCEPT ![s].state = state]
          /\ index' = IF r = NoRunner THEN Without(index, {s}) ELSE Insert(index, s, r)
          /\ runners' = refresh_runner_session_counts(
                            runners, {r}, sessions', index', age)
      BY <1>4 DEF apply_session_state_update
    <2>2. index' = index
      <3>1. /\ s \in DOMAIN index <=> r # NoRunner
            /\ s \in DOMAIN index => index[s] = r
        BY <1>2 DEF IInv, IndexMirrorsOwner
      <3>2. index = [x \in DOMAIN index |-> index[x]]
        BY DEF IInv, TypeOK
      <3> HIDE DEF s, r
      <3>3. CASE r = NoRunner
        BY <2>1, <3>1, <3>2, <3>3 DEF Without
      <3>4. CASE r # NoRunner
        BY <2>1, <3>1, <3>2, <3>4 DEF Insert
      <3>5. QED
        BY <3>3, <3>4
    <2> HIDE DEF s, state, age
    <2>3. SetsState(s, state, age)
      BY <1>4, <2>1, <2>2 DEF SetsState
    <2>4. QED
      BY <1>2, <2>3 DEF SessionStep
  <1>5. QED
    BY <1>3, <1>4

\* commit_planned_approval changes a state only together with the approvals.
LEMMA CommitApprovalKind ==
    ASSUME IInv, NEW t \in Tasks, commit_planned_approval(t)
    PROVE  SessionStep
  <1> DEFINE s == tasks[t].session
             a == tasks[t].approval
             age == tasks[t].age
             full == Cardinality({b \in DOMAIN approvals : approvals[b].session = s})
                       >= MaxApprovalsPerSession
  <1>1. /\ tasks[t] \in ApprovalTasks /\ tasks[t].op = "approval"
        /\ TaskKnown(tasks[t], DOMAIN runners, DOMAIN sessions, approvals)
    BY TaskKinds DEF commit_planned_approval, IInv, TypeOK, TasksKnown
  <1>2. s \in DOMAIN sessions /\ age \in Ages /\ "WaitingApproval" \in SessionStates
    BY <1>1 DEF ApprovalTasks, TaskKnown, SessionStates
  <1>3. UNCHANGED index
    BY DEF commit_planned_approval
  <1>4. CASE a \in DOMAIN approvals \/ full
    BY <1>3, <1>4 DEF commit_planned_approval, SessionStep
  <1>5. CASE ~(a \in DOMAIN approvals \/ full)
    <2>1. /\ sessions' = [sessions EXCEPT ![s].state = "WaitingApproval"]
          /\ runners' = refresh_runner_session_counts(
                            runners, {sessions[s].owner}, sessions', index', age)
      BY <1>3, <1>5 DEF commit_planned_approval
    <2>2. a \in DOMAIN approvals'
      BY <1>5 DEF commit_planned_approval, Insert
    <2>3. approvals' # approvals
      BY <1>5, <2>2
    <2> HIDE DEF s, a, age
    <2>4. SetsState(s, "WaitingApproval", age)
      BY <1>3, <2>1, <2>3 DEF SetsState
    <2>5. QED
      BY <1>2, <2>4 DEF SessionStep
  <1>6. QED
    BY <1>4, <1>5

\* commit_planned_approval_decision does as well.
LEMMA CommitDecisionKind ==
    ASSUME IInv, NEW t \in Tasks, commit_planned_approval_decision(t)
    PROVE  SessionStep
  <1> DEFINE a == tasks[t].approval
             s == approvals[a].session
             age == tasks[t].age
             state == tasks[t].state
  <1>1. /\ tasks[t] \in DecisionTasks /\ tasks[t].op = "decision"
        /\ TaskKnown(tasks[t], DOMAIN runners, DOMAIN sessions, approvals)
    BY TaskKinds DEF commit_planned_approval_decision, IInv, TypeOK, TasksKnown
  <1>2. /\ state \in SessionStates /\ age \in Ages /\ tasks[t].decision # "Pending"
        /\ a \in DOMAIN approvals
    BY <1>1 DEF DecisionTasks, TaskKnown, Decisions
  <1>3. s \in DOMAIN sessions
    BY <1>2 DEF IInv, ApprovalsKnown
  <1>4. UNCHANGED index
    BY DEF commit_planned_approval_decision
  <1>5. CASE approvals[a].state # "Pending"
    BY <1>4, <1>5 DEF commit_planned_approval_decision, StillPending, SessionStep
  <1>6. CASE approvals[a].state = "Pending"
    <2>1. /\ sessions' = [sessions EXCEPT ![s].state = state]
          /\ approvals' = [approvals EXCEPT ![a].state = tasks[t].decision]
          /\ runners' = refresh_runner_session_counts(
                            runners, {sessions[s].owner}, sessions', index', age)
      BY <1>4, <1>6 DEF commit_planned_approval_decision, StillPending
    <2>2. approvals'[a].state = tasks[t].decision
      BY <1>2, <2>1 DEF IInv, TypeOK, ApprovalRecords
    <2>3. approvals' # approvals
      BY <1>2, <1>6, <2>2
    <2> HIDE DEF s, a, age, state
    <2>4. SetsState(s, state, age)
      BY <1>4, <2>1, <2>3 DEF SetsState
    <2>5. QED
      BY <1>2, <1>3, <2>4 DEF SessionStep
  <1>7. QED
    BY <1>5, <1>6

\* A heartbeat reaps.
LEMMA HeartbeatKind ==
    ASSUME NEW t \in Tasks, NEW r \in Runners, NEW hb \in Heartbeats,
           update_runner_heartbeat(t, r, hb)
    PROVE  SessionStep
  <1>1. Reaps(r, hb)
    BY DEF update_runner_heartbeat, Reaps, Unindexed
  <1>2. QED
    BY <1>1 DEF SessionStep

\* Every step is of one of the kinds, and only the commits and the heartbeat
\* touch a session.
LEMMA StepKinds == IInv /\ [Next]_vars => SessionStep
  <1> SUFFICES ASSUME IInv, [Next]_vars PROVE SessionStep
    OBVIOUS
  <1>1. ASSUME NEW t \in Tasks, Request(t) PROVE SessionStep
    <2>1. CASE \E r \in Runners, hb \in Heartbeats : update_runner_heartbeat(t, r, hb)
      BY <2>1, HeartbeatKind
    <2>2. CASE ~\E r \in Runners, hb \in Heartbeats : update_runner_heartbeat(t, r, hb)
      <3>1. UNCHANGED <<sessions, index>>
        BY <1>1, <2>2 DEF Request, register_runner, PlanSession, PlanStateUpdate,
                          PlanSessionCommand, PlanApproval, plan_approval_decision
      <3>2. QED
        BY <3>1 DEF SessionStep
    <2>3. QED
      BY <2>1, <2>2
  <1>2. ASSUME NEW t \in Tasks, Continue(t) PROVE SessionStep
    <2>1. CASE DispatchByQueue(t)
      <3>1. 0 \in Ages
        BY ConstantsAssumption DEF Ages, MaxAge
      <3>2. QED
        BY <2>1, <3>1, CommitDispatchKind DEF DispatchByQueue
    <2>2. CASE DispatchByRelay(t)
      <3>1. tasks[t].op = "dispatching" /\ tasks[t] \in DispatchingTasks
        BY <2>2, TaskKinds DEF DispatchByRelay, IInv, TypeOK
      <3>2. tasks[t].age \in Ages
        BY <3>1 DEF DispatchingTasks
      <3>3. \/ UNCHANGED <<sessions, index>>
            \/ CommitDispatch(t, tasks[t].age)
        BY <2>2 DEF DispatchByRelay
      <3>4. QED
        BY <3>1, <3>2, <3>3, CommitDispatchKind DEF SessionStep
    <2>3. CASE commit_session(t) \/ apply_session_state_update(t)
      BY <2>3, CommitSessionKind, ApplyStateKind
    <2>4. CASE commit_planned_approval(t) \/ commit_planned_approval_decision(t)
      BY <2>4, CommitApprovalKind, CommitDecisionKind
    <2>5. CASE \/ PlanDispatch(t) \/ EndDispatch(t) \/ RelaySession(t)
               \/ RelayStateUpdate(t) \/ EnqueueSessionCommand(t) \/ RelayApproval(t)
               \/ EnqueueApproval(t) \/ RelayDecision(t) \/ EnqueueDecision(t)
      BY <2>5 DEF PlanDispatch, EndDispatch, RelaySession, RelayStateUpdate,
                  EnqueueSessionCommand, RelayApproval, EnqueueApproval,
                  RelayDecision, EnqueueDecision, SessionStep
    <2>6. QED
      BY <1>2, <2>1, <2>2, <2>3, <2>4, <2>5 DEF Continue
  <1>3. CASE Tick \/ UNCHANGED vars
             \/ \E r \in Runners, limit \in 1 .. MaxCommandsPerRunner :
                   pull_runner_commands(r, limit)
    BY <1>3 DEF Tick, vars, pull_runner_commands, SessionStep
  <1>4. QED
    BY <1>1, <1>2, <1>3 DEF Next

\* A recounted runner has the counts of the sessions it owns.
LEMMA RecountCounts ==
    ASSUME NEW rs, NEW R, NEW ss, NEW idx, NEW age, NEW q \in DOMAIN rs, q \in R
    PROVE  /\ refresh_runner_session_counts(rs, R, ss, idx, age)[q].active
                 = Cardinality(OwnedIn(q, ss, idx, ActiveStates))
           /\ refresh_runner_session_counts(rs, R, ss, idx, age)[q].queued
                 = Cardinality(OwnedIn(q, ss, idx, {"Pending"}))
  BY DEF refresh_runner_session_counts, Refreshed

\* Reaping takes only sessions that are Assigned to a runner whose last_seen_at
\* is more than three leases old: as it reports it, or as it was.
LEMMA ReapsFromSilent ==
    ASSUME IInv, NEW r \in Runners, NEW hb \in Heartbeats, Reaps(r, hb),
           NEW s \in Orphans(apply_heartbeat(r, hb))
    PROVE  /\ s \in DOMAIN sessions /\ sessions[s].state = "Assigned"
           /\ sessions'[s] = [state |-> "Pending", owner |-> NoRunner]
           /\ (IF r = sessions[s].owner THEN hb.age ELSE runners[sessions[s].owner].age)
                 > 3 * LeaseTtl
  <1> DEFINE heard == apply_heartbeat(r, hb)
             o == sessions[s].owner
  <1>1. /\ s \in DOMAIN sessions /\ sessions[s].state = "Assigned" /\ o # NoRunner
        /\ o \in DOMAIN heard => heard[o].age > 3 * LeaseTtl
    BY DEF Orphans
  <1>2. o \in DOMAIN runners /\ r \in DOMAIN runners
    BY <1>1 DEF IInv, OwnersRegistered, Reaps
  <1>3. /\ DOMAIN heard = DOMAIN runners /\ heard[r] = hb
        /\ \A q \in DOMAIN runners \ {r} : heard[q] = runners[q]
    BY <1>2 DEF apply_heartbeat, IInv, TypeOK
  <1>4. sessions'[s] = [state |-> "Pending", owner |-> NoRunner]
    BY <1>1 DEF Reaps
  <1> HIDE DEF heard
  <1>5. (IF r = o THEN hb.age ELSE runners[o].age) > 3 * LeaseTtl
    BY <1>1, <1>2, <1>3
  <1>6. QED
    BY <1>1, <1>4, <1>5

\* The other sessions stay as they are.
LEMMA ReapsOnlyOrphans ==
    ASSUME NEW r, NEW hb, Reaps(r, hb)
    PROVE  /\ DOMAIN sessions' = DOMAIN sessions
           /\ \A s \in DOMAIN sessions \ Orphans(apply_heartbeat(r, hb)) :
                 sessions'[s] = sessions[s]
  BY DEF Reaps

\* A session leaves its runner only when the reaper takes it back, and the
\* reaper takes only unstarted sessions of runners whose last_seen_at, as just
\* reported or as it was, is more than three leases old.
THEOREM OwnersTakenFromSilent == Spec => OwnerTakenOnlyFromSilent
  <1>1. ASSUME IInv, SessionStep, NEW s \in DOMAIN sessions
        PROVE  /\ s \in DOMAIN sessions'
               /\ LET o == sessions[s].owner
                  IN  o # NoRunner /\ sessions'[s].owner # o =>
                        /\ sessions[s].state = "Assigned"
                        /\ sessions'[s] = [state |-> "Pending", owner |-> NoRunner]
                        /\ \E r \in Runners, hb \in Heartbeats :
                              /\ \E t \in Tasks : update_runner_heartbeat(t, r, hb)
                              /\ (IF r = o THEN hb.age ELSE runners[o].age) > 3 * LeaseTtl
    <2>1. CASE UNCHANGED <<sessions, index>>
      BY <2>1
    <2>2. ASSUME NEW x \in Sessions, NEW r \in DOMAIN runners \cup {NoRunner},
                 NEW state, NEW age, Assigns(x, r, state, age)
          PROVE  /\ s \in DOMAIN sessions'
                 /\ sessions[s].owner # NoRunner => sessions'[s].owner = sessions[s].owner
      <3>1. x \in DOMAIN sessions => sessions[x].owner = NoRunner
        BY <2>2 DEF Assigns
      <3>2. sessions' = Insert(sessions, x, [state |-> state, owner |-> r])
        BY <2>2 DEF Assigns
      <3>3. QED
        BY <3>1, <3>2 DEF Insert
    <2>3. ASSUME NEW x \in DOMAIN sessions, NEW state, NEW age, SetsState(x, state, age)
          PROVE  s \in DOMAIN sessions' /\ sessions'[s].owner = sessions[s].owner
      <3>1. sessions' = [sessions EXCEPT ![x].state = state]
        BY <2>3 DEF SetsState
      <3>2. QED
        BY <1>1, <3>1 DEF IInv, TypeOK, SessionRecords
    <2>4. ASSUME NEW r \in Runners, NEW hb \in Heartbeats, Reaps(r, hb)
          PROVE  /\ s \in DOMAIN sessions'
                 /\ sessions'[s].owner # sessions[s].owner =>
                        /\ sessions[s].state = "Assigned"
                        /\ sessions'[s] = [state |-> "Pending", owner |-> NoRunner]
                        /\ \E t \in Tasks : update_runner_heartbeat(t, r, hb)
                        /\ (IF r = sessions[s].owner THEN hb.age
                            ELSE runners[sessions[s].owner].age) > 3 * LeaseTtl
      <3>1. CASE s \in Orphans(apply_heartbeat(r, hb))
        <4>1. \E t \in Tasks : update_runner_heartbeat(t, r, hb)
          BY <2>4 DEF Reaps
        <4>2. QED
          BY <1>1, <2>4, <3>1, <4>1, ReapsFromSilent, ReapsOnlyOrphans
      <3>2. CASE s \notin Orphans(apply_heartbeat(r, hb))
        BY <2>4, <3>2, ReapsOnlyOrphans
      <3>3. QED
        BY <3>1, <3>2
    <2>5. QED
      BY <1>1, <2>1, <2>2, <2>3, <2>4 DEF SessionStep
  <1>2. IInv /\ [Next]_vars =>
          [\A s \in DOMAIN sessions :
             /\ s \in DOMAIN sessions'
             /\ LET o == sessions[s].owner
                IN  o # NoRunner /\ sessions'[s].owner # o =>
                      /\ sessions[s].state = "Assigned"
                      /\ sessions'[s] = [state |-> "Pending", owner |-> NoRunner]
                      /\ \E r \in Runners, hb \in Heartbeats :
                            /\ \E t \in Tasks : update_runner_heartbeat(t, r, hb)
                            /\ (IF r = o THEN hb.age ELSE runners[o].age) > 3 * LeaseTtl]_vars
    BY <1>1, StepKinds
  <1>3. QED
    BY Invariance, <1>2, PTL DEF Spec, OwnerTakenOnlyFromSilent

\* The counts of q are those of its sessions after the step, or its sessions
\* in the states counted are the ones they were.
CountsUpToDate(q) ==
    \/ /\ OwnedIn(q, sessions', index', ActiveStates)
             = OwnedIn(q, sessions, index, ActiveStates)
       /\ OwnedIn(q, sessions', index', {"Pending"})
             = OwnedIn(q, sessions, index, {"Pending"})
    \/ /\ runners'[q].active = Cardinality(OwnedIn(q, sessions', index', ActiveStates))
       /\ runners'[q].queued = Cardinality(OwnedIn(q, sessions', index', {"Pending"}))

\* A session assigned to r was counted for nobody.
LEMMA AssignCounts ==
    ASSUME IInv, NEW s \in Sessions, NEW r \in DOMAIN runners \cup {NoRunner},
           NEW state, NEW age, Assigns(s, r, state, age), NEW q \in DOMAIN runners
    PROVE  CountsUpToDate(q)
  <1>1. s \notin DOMAIN index
    BY DEF IInv, IndexMirrorsOwner, Assigns
  <1>2. CASE q = r
    BY <1>2, RecountCounts DEF Assigns, CountsUpToDate
  <1>3. CASE q # r
    <2>1. ASSUME NEW states
          PROVE  OwnedIn(q, sessions', index', states) = OwnedIn(q, sessions, index, states)
      <3>1. /\ sessions' = Insert(sessions, s, [state |-> state, owner |-> r])
            /\ index' = IF r = NoRunner THEN index ELSE Insert(index, s, r)
        BY DEF Assigns
      <3>2. QED
        BY <1>1, <1>3, <3>1 DEF OwnedIn, Insert
    <2>2. QED
      BY <2>1 DEF CountsUpToDate
  <1>4. QED
    BY <1>2, <1>3

\* A session whose state changes is counted for its owner only.
LEMMA StateCounts ==
    ASSUME IInv, NEW s \in DOMAIN sessions, NEW state, NEW age,
           SetsState(s, state, age), NEW q \in DOMAIN runners
    PROVE  CountsUpToDate(q)
  <1>1. CASE q = sessions[s].owner
    <2> DEFINE R == {sessions[s].owner}
    <2>1. /\ runners' = refresh_runner_session_counts(runners, R, sessions', index', age)
          /\ q \in R
      BY <1>1 DEF SetsState
    <2> HIDE DEF R
    <2>2. QED
      BY <2>1, RecountCounts DEF CountsUpToDate
  <1>2. CASE q # sessions[s].owner
    <2>1. ASSUME NEW states
          PROVE  OwnedIn(q, sessions', index', states) = OwnedIn(q, sessions, index, states)
      <3>1. s \in DOMAIN index => index[s] # q
        BY <1>2 DEF IInv, IndexMirrorsOwner
      <3>2. /\ index' = index /\ DOMAIN sessions' = DOMAIN sessions
            /\ \A x \in DOMAIN sessions \ {s} : sessions'[x] = sessions[x]
        BY DEF SetsState, IInv, TypeOK
      <3>3. QED
        BY <3>1, <3>2 DEF OwnedIn
    <2>2. QED
      BY <2>1 DEF CountsUpToDate
  <1>3. QED
    BY <1>1, <1>2

\* An orphan is counted for the runner that loses it only.
LEMMA ReapCounts ==
    ASSUME IInv, NEW r \in Runners, NEW hb \in Heartbeats, Reaps(r, hb),
           NEW q \in DOMAIN runners
    PROVE  CountsUpToDate(q)
  <1> DEFINE heard == apply_heartbeat(r, hb)
             orphans == Orphans(heard)
  <1>1. /\ runners' = refresh_runner_session_counts(
                          heard, LostOwners(orphans), sessions', index', 0)
        /\ index' = Without(index, orphans)
    BY DEF Reaps
  <1>2. q \in DOMAIN heard
    BY DEF apply_heartbeat, IInv, TypeOK
  <1>3. /\ DOMAIN sessions' = DOMAIN sessions
        /\ \A s \in DOMAIN sessions \ orphans : sessions'[s] = sessions[s]
    BY ReapsOnlyOrphans
  <1> HIDE DEF heard, orphans
  <1>4. CASE q \in LostOwners(orphans)
    BY <1>1, <1>2, <1>4, RecountCounts DEF CountsUpToDate
  <1>5. CASE q \notin LostOwners(orphans)
    <2>1. \A s \in orphans : s \in DOMAIN index => index[s] # q
      BY <1>5 DEF LostOwners, IInv, IndexMirrorsOwner
    <2>2. ASSUME NEW states
          PROVE  OwnedIn(q, sessions', index', states) = OwnedIn(q, sessions, index, states)
      BY <1>1, <1>3, <2>1 DEF OwnedIn, Without
    <2>3. QED
      BY <2>2 DEF CountsUpToDate
  <1>6. QED
    BY <1>4, <1>5

\* No step moves a session into or out of what a runner is counted for
\* without recounting that runner: three operations recount one owner each
\* and the reaper all those that lose a session, and that is enough.
THEOREM CountsCorrect == Spec => CountsFollowSessions
  <1>1. ASSUME IInv, SessionStep, NEW q \in DOMAIN runners
        PROVE  CountsUpToDate(q)
    <2>1. CASE UNCHANGED <<sessions, index>>
      BY <2>1 DEF CountsUpToDate
    <2>2. QED
      BY <1>1, <2>1, AssignCounts, StateCounts, ReapCounts DEF SessionStep
  <1>2. IInv /\ [Next]_vars =>
          [\A r \in DOMAIN runners :
             \/ /\ OwnedIn(r, sessions', index', ActiveStates)
                      = OwnedIn(r, sessions, index, ActiveStates)
                /\ OwnedIn(r, sessions', index', {"Pending"})
                      = OwnedIn(r, sessions, index, {"Pending"})
             \/ /\ runners'[r].active
                      = Cardinality(OwnedIn(r, sessions', index', ActiveStates))
                /\ runners'[r].queued
                      = Cardinality(OwnedIn(r, sessions', index', {"Pending"}))]_vars
    BY <1>1, StepKinds DEF CountsUpToDate
  <1>3. QED
    BY Invariance, <1>2, PTL DEF Spec, CountsFollowSessions
=============================================================================
