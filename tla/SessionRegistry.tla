--------------------------- MODULE SessionRegistry ---------------------------
(***************************************************************************)
(* The session registry of the control plane (rc-control-plane): runners   *)
(* and their leases, sessions and their owners, approvals, and the command *)
(* queues of the runners that poll.                                        *)
(*                                                                         *)
(* The code keeps this state in one `Registry` behind an RwLock.  A request*)
(* handler is a tokio task that takes the lock several times: it PLANS     *)
(* under a read lock, relays to the runner (or queues a command for it),   *)
(* and COMMITS under a write lock.  Every lock scope is one action here;   *)
(* what a handler carries from one scope to the next is its record in      *)
(* `tasks`.  A handler that returns an error before changing anything is a *)
(* stuttering step and has no action.                                      *)
(*                                                                         *)
(* Time is kept as ages: how many ticks ago a runner was last seen, or a   *)
(* handler took its timestamp.  Ages stop growing once no comparison of    *)
(* the code can tell them apart.  A heartbeat carries the runner's own     *)
(* clock, which may be behind or ahead (a negative age).                   *)
(***************************************************************************)
EXTENDS Integers, Sequences, FiniteSets

CONSTANTS
    Runners,               \* runner ids; their order is the order of the ids
    Sessions,              \* session ids
    Approvals,             \* approval ids
    Tasks,                 \* handler tasks in flight at the same time
    PullRunners,           \* runners without a public_base_url: they poll
    Eligible,              \* Eligible[s]: runners serving the workspace of s
    Capacity,              \* Capacity[r]: max_parallel_sessions of r
    LeaseTtl,              \* runner_lease_ttl_secs, in ticks
    MaxTotalSessions,      \* MAX_TOTAL_SESSIONS
    MaxCommandsPerRunner,  \* MAX_COMMANDS_PER_RUNNER
    MaxApprovalsPerSession,\* MAX_APPROVALS_PER_SESSION
    MaxDispatchIterations, \* MAX_DISPATCH_ITERATIONS
    ClientStates,          \* session states that callers post
    Heartbeats             \* what heartbeats report: state, active, queued, age

NoRunner == 0

SessionStates == {"Pending", "Assigned", "Running", "WaitingApproval",
                  "Completed", "Failed", "Cancelled"}
TerminalStates == {"Completed", "Failed", "Cancelled"}
RunnerSessionStates == (SessionStates \ {"Assigned"}) \cup {"Starting"}
ActiveStates == {"Assigned", "Running", "WaitingApproval"}
RunnerStates == {"Starting", "Idle", "Busy", "Draining", "Unhealthy", "Offline"}
Decisions == {"Approved", "Denied", "Cancelled"}

\* No comparison of the code distinguishes ages beyond three leases.
MaxAge == 3 * LeaseTtl + 1
Ages == -MaxAge .. MaxAge

ASSUME ConstantsAssumption ==
    /\ Runners \subseteq Nat \ {NoRunner}
    /\ IsFiniteSet(Sessions)
    /\ PullRunners \subseteq Runners
    /\ Eligible \in [Sessions -> SUBSET Runners]
    /\ Capacity \in [Runners -> Nat]
    /\ LeaseTtl \in Nat
    /\ MaxTotalSessions \in Nat
    /\ MaxCommandsPerRunner \in Nat \ {0}
    /\ MaxApprovalsPerSession \in Nat
    /\ MaxDispatchIterations \in Nat
    /\ ClientStates \subseteq SessionStates
    /\ Heartbeats \subseteq
         [state : RunnerStates, active : Nat, queued : Nat, age : Ages]

VARIABLES
    runners,    \* runners[r]: the RunnerSnapshot of a registered runner r
    sessions,   \* sessions[s]: state and owner_runner_id of session s
    index,      \* session_runner_index
    approvals,  \* approvals[a]: state, session and runner of approval a
    queues,     \* queued_runner_commands, empty where the map has no entry
    tasks       \* tasks[t]: what handler t carries between lock scopes

vars == <<runners, sessions, index, approvals, queues, tasks>>

-----------------------------------------------------------------------------
(* Records *)

RunnerSnapshots == [state : RunnerStates, active : Nat, queued : Nat, age : Ages]

SessionRecords == [state : SessionStates, owner : Runners \cup {NoRunner}]

ApprovalRecords == [state : {"Pending"} \cup Decisions, session : Sessions,
                    runner : Runners \cup {NoRunner}]

\* RunnerQueuedCommandBody
Commands ==
    [kind : {"CreateSession", "SessionCommand"}, session : Sessions]
    \cup [kind : {"UpdateSessionState"}, session : Sessions, state : RunnerSessionStates]
    \cup [kind : {"CreateApproval"}, session : Sessions, approval : Approvals]
    \cup [kind : {"ApplyApprovalDecision"}, approval : Approvals, state : Decisions]

\* A handler is idle, or between two of its lock scopes: about to relay to the
\* runner, to commit, or to queue the runner's command after the commit.
StateTasks ==
    [op : {"create", "update"}, pc : {"relay", "commit"}, session : Sessions,
     runner : Runners \cup {NoRunner}, state : SessionStates, age : Ages]
CommandTasks == [op : {"command"}, session : Sessions, runner : Runners]
ApprovalTasks ==
    [op : {"approval"}, pc : {"relay", "commit", "enqueue"}, session : Sessions,
     approval : Approvals, runner : Runners \cup {NoRunner}, age : Ages]
DecisionTasks ==
    [op : {"decision"}, pc : {"relay", "commit", "enqueue"}, approval : Approvals,
     decision : Decisions, state : SessionStates,
     runner : Runners \cup {NoRunner}, age : Ages]
DispatchTasks ==
    [op : {"dispatch"}, runner : Runners, skipped : SUBSET Sessions,
     round : 0 .. MaxDispatchIterations]
DispatchingTasks ==
    [op : {"dispatching"}, pc : {"relay", "commit"}, session : Sessions,
     runner : Runners, skipped : SUBSET Sessions,
     round : 0 .. MaxDispatchIterations, age : Ages]

TaskRecords ==
    [op : {"idle"}] \cup StateTasks \cup CommandTasks \cup ApprovalTasks
    \cup DecisionTasks \cup DispatchTasks \cup DispatchingTasks

Idle == [op |-> "idle"]

TypeOK ==
    /\ DOMAIN runners \subseteq Runners
    /\ runners \in [DOMAIN runners -> RunnerSnapshots]
    /\ DOMAIN sessions \subseteq Sessions
    /\ sessions \in [DOMAIN sessions -> SessionRecords]
    /\ DOMAIN index \subseteq Sessions
    /\ index \in [DOMAIN index -> Runners]
    /\ DOMAIN approvals \subseteq Approvals
    /\ approvals \in [DOMAIN approvals -> ApprovalRecords]
    /\ queues \in [Runners -> Seq(Commands)]
    /\ tasks \in [Tasks -> TaskRecords]

\* BTreeMap::insert and retain.
Insert(f, k, v) == [x \in DOMAIN f \cup {k} |-> IF x = k THEN v ELSE f[x]]
Without(f, S) == [x \in DOMAIN f \ S |-> f[x]]

Lesser(a, b) == IF a <= b THEN a ELSE b

-----------------------------------------------------------------------------
(* Runner selection *)

runner_has_capacity(r) ==
    runners[r].active + runners[r].queued < Capacity[r]

AvailableIgnoringLease(r) ==
    runners[r].state \notin {"Draining", "Offline", "Unhealthy"}

runner_is_available(r) ==
    /\ runners[r].state \notin {"Draining", "Offline", "Unhealthy"}
    /\ runners[r].age <= LeaseTtl

runner_can_host(r, s) ==
    runner_is_available(r) /\ runner_has_capacity(r) /\ r \in Eligible[s]

runner_rank(state) ==
    CASE state = "Idle"      -> 0
      [] state = "Busy"      -> 1
      [] state = "Starting"  -> 2
      [] state = "Draining"  -> 3
      [] state = "Unhealthy" -> 4
      [] state = "Offline"   -> 5

\* The order of (rank, active_sessions, runner_id).
Precedes(r, q) ==
    LET rankR == runner_rank(runners[r].state)
        rankQ == runner_rank(runners[q].state)
    IN  \/ rankR < rankQ
        \/ rankR = rankQ /\ runners[r].active < runners[q].active
        \/ rankR = rankQ /\ runners[r].active = runners[q].active /\ r <= q

Hosts(s) == {r \in DOMAIN runners : runner_can_host(r, s)}

\* What select_runner may return: a preferred runner if it can host the
\* session (otherwise the request is refused), the first of the hosts, or
\* no runner when there is none.
select_runner(s, preferred) ==
    IF preferred # NoRunner
    THEN Hosts(s) \cap {preferred}
    ELSE IF Hosts(s) = {} THEN {NoRunner}
         ELSE {r \in Hosts(s) : \A q \in Hosts(s) : Precedes(r, q)}

-----------------------------------------------------------------------------
(* Sub-operations of the registry *)

OwnedIn(r, ss, idx, states) ==
    {s \in DOMAIN idx : idx[s] = r /\ s \in DOMAIN ss /\ ss[s].state \in states}

\* refresh_runner_session_counts: recount r's sessions through the index,
\* derive Busy or Idle, and move last_seen_at forward to the timestamp.
Refreshed(snap, r, ss, idx, age) ==
    LET active == Cardinality(OwnedIn(r, ss, idx, ActiveStates))
    IN  [state  |-> IF active > 0 THEN "Busy" ELSE "Idle",
         active |-> active,
         queued |-> Cardinality(OwnedIn(r, ss, idx, {"Pending"})),
         age    |-> Lesser(snap.age, age)]

refresh_runner_session_counts(rs, R, ss, idx, age) ==
    [r \in DOMAIN rs |->
        IF r \in R THEN Refreshed(rs[r], r, ss, idx, age) ELSE rs[r]]

\* enqueue_runner_command, which evicts the oldest command beyond the limit.
Enqueued(r, command) ==
    LET queue == Append(queues[r], command)
    IN  [queues EXCEPT ![r] =
            IF Len(queue) > MaxCommandsPerRunner THEN Tail(queue) ELSE queue]

is_valid_session_transition(from, to) ==
    \/ from = to
    \/ from = "Pending" /\ to \in {"Assigned"} \cup TerminalStates
    \/ from = "Assigned" /\ to \in {"Running", "Pending"} \cup TerminalStates
    \/ from = "Running" /\ to \in {"WaitingApproval"} \cup TerminalStates
    \/ from = "WaitingApproval" /\ to \in {"Running", "Failed", "Cancelled"}

\* The runner's own states: Pending and Starting are both Assigned here.
session_state_to_runner(state) ==
    IF state = "Assigned" THEN "Starting" ELSE state
session_state_from_runner(state) ==
    IF state \in {"Pending", "Starting"} THEN "Assigned" ELSE state

session_state_after_approval(decision, has_pending_approvals) ==
    IF has_pending_approvals THEN "WaitingApproval"
    ELSE CASE decision = "Approved"  -> "Running"
           [] decision = "Denied"    -> "Failed"
           [] decision = "Cancelled" -> "Cancelled"

-----------------------------------------------------------------------------
(* Handlers: register_runner and update_runner_heartbeat, which end in      *)
(* dispatch_pending_sessions_for_runner.                                    *)

Become(t, record) == tasks' = [tasks EXCEPT ![t] = record]

Dispatch(r, skipped, round) ==
    [op |-> "dispatch", runner |-> r, skipped |-> skipped, round |-> round]

\* A fresh snapshot whose counts are taken from the sessions r still owns.
WithRegistered(r) ==
    LET fresh == [state |-> "Idle", active |-> 0, queued |-> 0, age |-> 0]
    IN  refresh_runner_session_counts(
            Insert(runners, r, fresh), {r}, sessions, index, 0)

register_runner(t, r) ==
    /\ tasks[t] = Idle
    /\ runners' = WithRegistered(r)
    /\ Become(t, Dispatch(r, {}, 0))
    /\ UNCHANGED <<sessions, index, approvals, queues>>

\* The report replaces the snapshot's state, counts and last_seen_at.
apply_heartbeat(r, hb) == [runners EXCEPT ![r] = hb]

OrphansAfterOneLease(rs) ==
    {s \in DOMAIN sessions :
        /\ sessions[s].state = "Assigned"
        /\ sessions[s].owner # NoRunner
        /\ sessions[s].owner \in DOMAIN rs => rs[sessions[s].owner].age > LeaseTtl}

OrphansOfUnknownOnly(rs) ==
    {s \in DOMAIN sessions :
        /\ sessions[s].state = "Assigned"
        /\ sessions[s].owner \notin DOMAIN rs \cup {NoRunner}}

\* reap_orphaned_assigned_sessions: sessions still Assigned whose runner is
\* unknown or has not been seen for three leases.
Orphans(rs) ==
    {s \in DOMAIN sessions :
        /\ sessions[s].state = "Assigned"
        /\ sessions[s].owner # NoRunner
        /\ sessions[s].owner \in DOMAIN rs => rs[sessions[s].owner].age > 3 * LeaseTtl}

\* Their index entries go with them, and their owners are recounted.
KeepsIndex(orphans) == index
Unindexed(orphans) == Without(index, orphans)

NobodyRecounted(orphans) == {}
LostOwners(orphans) == {sessions[s].owner : s \in orphans}

update_runner_heartbeat(t, r, hb) ==
    /\ tasks[t] = Idle
    /\ r \in DOMAIN runners
    /\ LET heard   == apply_heartbeat(r, hb)
           orphans == Orphans(heard)
           ss      == [s \in DOMAIN sessions |->
                          IF s \in orphans
                          THEN [state |-> "Pending", owner |-> NoRunner]
                          ELSE sessions[s]]
       IN  /\ sessions' = ss
           /\ index' = Unindexed(orphans)
           /\ runners' = refresh_runner_session_counts(
                             heard, LostOwners(orphans), ss, index', 0)
    /\ Become(t, Dispatch(r, {}, 0))
    /\ UNCHANGED <<approvals, queues>>

OneRoundTooMany(round) == round <= MaxDispatchIterations
RoundsLeft(round) == round < MaxDispatchIterations

\* One turn of the dispatch loop: plan_next_pending_session_for_runner.  The
\* code takes the oldest of the sessions; their age is not modelled, so the
\* choice is open.
PlanDispatch(t) ==
    /\ tasks[t].op = "dispatch"
    /\ RoundsLeft(tasks[t].round)
    /\ \E s \in DOMAIN sessions \ tasks[t].skipped :
        /\ sessions[s] = [state |-> "Pending", owner |-> NoRunner]
        /\ tasks[t].runner \in select_runner(s, NoRunner)
        /\ Become(t, [op |-> "dispatching", pc |-> "relay", session |-> s,
                      runner |-> tasks[t].runner, skipped |-> tasks[t].skipped,
                      round |-> tasks[t].round + 1, age |-> 0])
    /\ UNCHANGED <<runners, sessions, index, approvals, queues>>

\* The loop ends at its cap, or when there is nothing left to dispatch.
EndDispatch(t) ==
    /\ tasks[t].op = "dispatch"
    /\ \/ ~RoundsLeft(tasks[t].round)
       \/ \A s \in DOMAIN sessions \ tasks[t].skipped :
            \/ sessions[s] # [state |-> "Pending", owner |-> NoRunner]
            \/ tasks[t].runner \notin select_runner(s, NoRunner)
    /\ Become(t, Idle)
    /\ UNCHANGED <<runners, sessions, index, approvals, queues>>

\* commit_pending_session_dispatch: the session must still be unassigned; if
\* it is not, the loop skips it.
CommitDispatch(t, age) ==
    LET task == tasks[t]
        s == task.session
        r == task.runner
    IN  IF sessions[s] = [state |-> "Pending", owner |-> NoRunner]
        THEN /\ sessions' = [sessions EXCEPT ![s] =
                    [state |-> session_state_from_runner("Pending"), owner |-> r]]
             /\ index' = Insert(index, s, r)
             /\ runners' = refresh_runner_session_counts(
                               runners, {r}, sessions', index', age)
             /\ Become(t, Dispatch(r, task.skipped, task.round))
        ELSE /\ UNCHANGED <<sessions, index, runners>>
             /\ Become(t, Dispatch(r, task.skipped \cup {s}, task.round))

\* A polling runner: the command is queued and the session committed in one
\* lock scope, the command staying queued when the commit is refused.
DispatchByQueue(t) ==
    /\ tasks[t].op = "dispatching" /\ tasks[t].runner \in PullRunners
    /\ queues' = Enqueued(tasks[t].runner,
                          [kind |-> "CreateSession", session |-> tasks[t].session])
    /\ CommitDispatch(t, 0)
    /\ UNCHANGED approvals

\* A runner with an inbound API: the HTTP call fails and the session is
\* skipped, or it succeeds and the answer is committed later.
DispatchByRelay(t) ==
    /\ tasks[t].op = "dispatching" /\ tasks[t].runner \notin PullRunners
    /\ \/ /\ tasks[t].pc = "relay"
          /\ \/ Become(t, Dispatch(tasks[t].runner,
                                   tasks[t].skipped \cup {tasks[t].session},
                                   tasks[t].round))
             \/ Become(t, [tasks[t] EXCEPT !.pc = "commit", !.age = 0])
          /\ UNCHANGED <<runners, sessions, index>>
       \/ /\ tasks[t].pc = "commit"
          /\ CommitDispatch(t, tasks[t].age)
    /\ UNCHANGED <<approvals, queues>>

-----------------------------------------------------------------------------
(* Handlers: create_session, update_session_state, post_session_command     *)

\* plan_session, under the read lock of create_session.
PlanSession(t, s, preferred) ==
    /\ tasks[t] = Idle
    /\ s \notin DOMAIN sessions
    /\ Cardinality(DOMAIN sessions) < MaxTotalSessions
    /\ \E r \in select_runner(s, preferred) :
          Become(t, [op |-> "create", session |-> s, runner |-> r, age |-> 0,
                     pc |-> IF r = NoRunner THEN "commit" ELSE "relay",
                     state |-> IF r = NoRunner THEN "Pending" ELSE "Assigned"])
    /\ UNCHANGED <<runners, sessions, index, approvals, queues>>

\* The request reaches the planned runner, or fails and ends the handler.
RelaySession(t) ==
    /\ tasks[t].op = "create" /\ tasks[t].pc = "relay"
    /\ \/ /\ tasks[t].runner \in PullRunners
          /\ queues' = Enqueued(tasks[t].runner,
                          [kind |-> "CreateSession", session |-> tasks[t].session])
          /\ Become(t, [tasks[t] EXCEPT !.pc = "commit"])
       \/ /\ tasks[t].runner \notin PullRunners
          /\ \/ Become(t, Idle)
             \/ Become(t, [tasks[t] EXCEPT !.pc = "commit", !.age = 0,
                              !.state = session_state_from_runner("Pending")])
          /\ UNCHANGED queues
    /\ UNCHANGED <<runners, sessions, index, approvals>>

commit_session(t) ==
    /\ tasks[t].op = "create" /\ tasks[t].pc = "commit"
    /\ LET s == tasks[t].session
           r == tasks[t].runner
       IN  IF s \in DOMAIN sessions
           THEN UNCHANGED <<runners, sessions, index>>
           ELSE /\ sessions' = Insert(sessions, s,
                                   [state |-> tasks[t].state, owner |-> r])
                /\ index' = IF r = NoRunner THEN index ELSE Insert(index, s, r)
                /\ runners' = refresh_runner_session_counts(
                                  runners, {r}, sessions', index', tasks[t].age)
    /\ Become(t, Idle)
    /\ UNCHANGED <<approvals, queues>>

\* update_session_state reads the session's runner under a read lock ...
PlanStateUpdate(t, s, state) ==
    /\ tasks[t] = Idle
    /\ s \in DOMAIN sessions
    /\ LET r == sessions[s].owner
       IN  Become(t, [op |-> "update", session |-> s, state |-> state, age |-> 0,
                      runner |-> IF r \in DOMAIN runners THEN r ELSE NoRunner,
                      pc |-> IF r \in DOMAIN runners THEN "relay" ELSE "commit"])
    /\ UNCHANGED <<runners, sessions, index, approvals, queues>>

\* ... tells that runner before anything is validated ...
RelayStateUpdate(t) ==
    /\ tasks[t].op = "update" /\ tasks[t].pc = "relay"
    /\ \/ /\ tasks[t].runner \in PullRunners
          /\ queues' = Enqueued(tasks[t].runner,
                          [kind |-> "UpdateSessionState",
                           session |-> tasks[t].session,
                           state |-> session_state_to_runner(tasks[t].state)])
          /\ Become(t, [tasks[t] EXCEPT !.pc = "commit"])
       \/ /\ tasks[t].runner \notin PullRunners
          /\ \/ Become(t, Idle)
             \/ Become(t, [tasks[t] EXCEPT !.pc = "commit", !.age = 0,
                    !.state = session_state_from_runner(session_state_to_runner(@))])
          /\ UNCHANGED queues
    /\ UNCHANGED <<runners, sessions, index, approvals>>

\* ... and applies the state if the transition is legal by then.
apply_session_state_update(t) ==
    /\ tasks[t].op = "update" /\ tasks[t].pc = "commit"
    /\ LET s == tasks[t].session
           r == sessions[s].owner
           direct == tasks[t].runner \notin PullRunners \cup {NoRunner}
       IN  IF is_valid_session_transition(sessions[s].state, tasks[t].state)
           THEN /\ sessions' = [sessions EXCEPT ![s].state = tasks[t].state]
                /\ index' = IF r = NoRunner THEN Without(index, {s})
                            ELSE Insert(index, s, r)
                /\ runners' = refresh_runner_session_counts(runners, {r}, sessions',
                                  index', IF direct THEN tasks[t].age ELSE 0)
           ELSE UNCHANGED <<runners, sessions, index>>
    /\ Become(t, Idle)
    /\ UNCHANGED <<approvals, queues>>

\* post_session_command looks up the owner; an inbound runner is called at
\* once and the registry is not touched again.
PlanSessionCommand(t, s) ==
    /\ tasks[t] = Idle
    /\ s \in DOMAIN sessions
    /\ sessions[s].owner \in DOMAIN runners \cap PullRunners
    /\ Become(t, [op |-> "command", session |-> s, runner |-> sessions[s].owner])
    /\ UNCHANGED <<runners, sessions, index, approvals, queues>>

EnqueueSessionCommand(t) ==
    /\ tasks[t].op = "command"
    /\ queues' = Enqueued(tasks[t].runner,
                          [kind |-> "SessionCommand", session |-> tasks[t].session])
    /\ Become(t, Idle)
    /\ UNCHANGED <<runners, sessions, index, approvals>>

AfterPull(queue, limit) == SubSeq(queue, Lesser(limit, Len(queue)) + 1, Len(queue))

\* pull_runner_commands and the WebSocket command stream take the front.
pull_runner_commands(r, limit) ==
    /\ r \in DOMAIN runners
    /\ queues[r] # <<>>
    /\ queues' = [queues EXCEPT ![r] = AfterPull(@, limit)]
    /\ UNCHANGED <<runners, sessions, index, approvals, tasks>>

-----------------------------------------------------------------------------
(* Handlers: create_approval and apply_approval_decision                    *)

\* plan_approval.  Only an inbound runner is called before the commit.
PlanApproval(t, s, a) ==
    /\ tasks[t] = Idle
    /\ s \in DOMAIN sessions
    /\ LET r == sessions[s].owner
       IN  Become(t, [op |-> "approval", session |-> s, approval |-> a, runner |-> r,
                      pc |-> IF r \in DOMAIN runners \ PullRunners
                             THEN "relay" ELSE "commit",
                      age |-> 0])
    /\ UNCHANGED <<runners, sessions, index, approvals, queues>>

RelayApproval(t) ==
    /\ tasks[t].op = "approval" /\ tasks[t].pc = "relay"
    /\ \/ Become(t, Idle)
       \/ Become(t, [tasks[t] EXCEPT !.pc = "commit"])
    /\ UNCHANGED <<runners, sessions, index, approvals, queues>>

\* commit_planned_approval, which does not look at the session's state.
commit_planned_approval(t) ==
    /\ tasks[t].op = "approval" /\ tasks[t].pc = "commit"
    /\ LET s == tasks[t].session
           a == tasks[t].approval
           r == tasks[t].runner
           ofSession == {b \in DOMAIN approvals : approvals[b].session = s}
       IN  IF \/ a \in DOMAIN approvals
              \/ Cardinality(ofSession) >= MaxApprovalsPerSession
           THEN /\ Become(t, Idle)
                /\ UNCHANGED <<runners, sessions, approvals>>
           ELSE /\ sessions' = [sessions EXCEPT ![s].state = "WaitingApproval"]
                /\ approvals' = Insert(approvals, a,
                        [state |-> "Pending", session |-> s, runner |-> r])
                /\ runners' = refresh_runner_session_counts(runners,
                        {sessions[s].owner}, sessions', index, tasks[t].age)
                /\ Become(t, IF r \in PullRunners
                             THEN [tasks[t] EXCEPT !.pc = "enqueue"] ELSE Idle)
    /\ UNCHANGED <<index, queues>>

EnqueueApproval(t) ==
    /\ tasks[t].op = "approval" /\ tasks[t].pc = "enqueue"
    /\ queues' = Enqueued(tasks[t].runner,
                          [kind |-> "CreateApproval", session |-> tasks[t].session,
                           approval |-> tasks[t].approval])
    /\ Become(t, Idle)
    /\ UNCHANGED <<runners, sessions, index, approvals>>

\* What has_pending_approvals looks for: other approvals of the same session.
OtherPending(a) ==
    {b \in DOMAIN approvals \ {a} :
        approvals[b].session = approvals[a].session /\ approvals[b].state = "Pending"}

\* plan_approval_decision.  The session's next state is computed here and the
\* runner looked at is the session's, not the approval's.
plan_approval_decision(t, a, decision) ==
    /\ tasks[t] = Idle
    /\ a \in DOMAIN approvals
    /\ approvals[a].state = "Pending"
    /\ LET s == approvals[a].session
           r == sessions[s].owner
       IN  Become(t, [op |-> "decision", approval |-> a, decision |-> decision,
                      state |-> session_state_after_approval(decision, OtherPending(a) # {}),
                      runner |-> IF r \in DOMAIN runners THEN r ELSE NoRunner,
                      pc |-> IF r \in DOMAIN runners \ PullRunners
                             THEN "relay" ELSE "commit",
                      age |-> 0])
    /\ UNCHANGED <<runners, sessions, index, approvals, queues>>

RelayDecision(t) ==
    /\ tasks[t].op = "decision" /\ tasks[t].pc = "relay"
    /\ \/ Become(t, Idle)
       \/ Become(t, [tasks[t] EXCEPT !.pc = "commit"])
    /\ UNCHANGED <<runners, sessions, index, approvals, queues>>

PendingWhenPlanned(a) == TRUE
StillPending(a) == approvals[a].state = "Pending"

\* commit_planned_approval_decision: refused if someone else decided first,
\* otherwise the planned state is written.
commit_planned_approval_decision(t) ==
    /\ tasks[t].op = "decision" /\ tasks[t].pc = "commit"
    /\ LET a == tasks[t].approval
           s == approvals[a].session
       IN  IF ~StillPending(a)
           THEN /\ Become(t, Idle)
                /\ UNCHANGED <<runners, sessions, approvals>>
           ELSE /\ approvals' = [approvals EXCEPT ![a].state = tasks[t].decision]
                /\ sessions' = [sessions EXCEPT ![s].state = tasks[t].state]
                /\ runners' = refresh_runner_session_counts(runners,
                        {sessions[s].owner}, sessions', index, tasks[t].age)
                /\ Become(t, IF tasks[t].runner \in PullRunners
                             THEN [tasks[t] EXCEPT !.pc = "enqueue"] ELSE Idle)
    /\ UNCHANGED <<index, queues>>

\* The decision is queued for the approval's runner; without one the handler
\* answers with an error.
EnqueueDecision(t) ==
    /\ tasks[t].op = "decision" /\ tasks[t].pc = "enqueue"
    /\ LET r == approvals[tasks[t].approval].runner
       IN  queues' = IF r = NoRunner THEN queues
                     ELSE Enqueued(r, [kind |-> "ApplyApprovalDecision",
                                       approval |-> tasks[t].approval,
                                       state |-> tasks[t].decision])
    /\ Become(t, Idle)
    /\ UNCHANGED <<runners, sessions, index, approvals>>

-----------------------------------------------------------------------------
(* Specification *)

\* Handlers that commit with the time of their plan or of the runner's answer.
HoldsTimestamp(task) ==
    \/ task.op \in {"create", "approval", "decision"}
    \/ /\ task.op \in {"update", "dispatching"} /\ task.pc = "commit"
       /\ task.runner \notin PullRunners \cup {NoRunner}

\* Time passes for leases and for the timestamps handlers hold.
Tick ==
    /\ runners' = [r \in DOMAIN runners |->
                      [runners[r] EXCEPT !.age = Lesser(@ + 1, MaxAge)]]
    /\ tasks' = [t \in Tasks |->
                    IF HoldsTimestamp(tasks[t])
                    THEN [tasks[t] EXCEPT !.age = Lesser(@ + 1, MaxAge)]
                    ELSE tasks[t]]
    /\ UNCHANGED <<sessions, index, approvals, queues>>

Init ==
    /\ runners = << >>
    /\ sessions = << >>
    /\ index = << >>
    /\ approvals = << >>
    /\ queues = [r \in Runners |-> << >>]
    /\ tasks = [t \in Tasks |-> Idle]

\* A request arrives at an idle task.
Request(t) ==
    \/ \E r \in Runners : register_runner(t, r)
    \/ \E r \in Runners, hb \in Heartbeats : update_runner_heartbeat(t, r, hb)
    \/ \E s \in Sessions, r \in Runners \cup {NoRunner} : PlanSession(t, s, r)
    \/ \E s \in Sessions, state \in ClientStates : PlanStateUpdate(t, s, state)
    \/ \E s \in Sessions : PlanSessionCommand(t, s)
    \/ \E s \in Sessions, a \in Approvals : PlanApproval(t, s, a)
    \/ \E a \in Approvals, d \in Decisions : plan_approval_decision(t, a, d)

\* A handler takes its next lock scope.
Continue(t) ==
    \/ PlanDispatch(t)
    \/ EndDispatch(t)
    \/ DispatchByQueue(t)
    \/ DispatchByRelay(t)
    \/ RelaySession(t)
    \/ commit_session(t)
    \/ RelayStateUpdate(t)
    \/ apply_session_state_update(t)
    \/ EnqueueSessionCommand(t)
    \/ RelayApproval(t)
    \/ commit_planned_approval(t)
    \/ EnqueueApproval(t)
    \/ RelayDecision(t)
    \/ commit_planned_approval_decision(t)
    \/ EnqueueDecision(t)

Next ==
    \/ \E t \in Tasks : Request(t) \/ Continue(t)
    \/ \E r \in Runners, limit \in 1 .. MaxCommandsPerRunner :
          pull_runner_commands(r, limit)
    \/ Tick

Spec == Init /\ [][Next]_vars

-----------------------------------------------------------------------------
(* Properties *)

\* The reverse index says of every session exactly what its record says: the
\* counts of a runner are taken through it (refresh_runner_session_counts),
\* and four operations of the registry maintain it separately.
IndexMirrorsOwner ==
    /\ DOMAIN index = {s \in DOMAIN sessions : sessions[s].owner # NoRunner}
    /\ \A s \in DOMAIN index : index[s] = sessions[s].owner

\* A session is only ever owned by a runner the registry knows, although the
\* runner was chosen under an earlier lock than the one that records it.
OwnersRegistered ==
    \A s \in DOMAIN sessions : sessions[s].owner \in DOMAIN runners \cup {NoRunner}

\* Every decision waiting in a command queue is the decision the registry
\* recorded, and waits at the runner of the approval: of two callers who decide
\* at the same time only the one whose commit was accepted reaches the runner.
DecisionCommandsAgree ==
    \A r \in Runners : \A i \in 1 .. Len(queues[r]) :
        LET c == queues[r][i]
        IN  c.kind = "ApplyApprovalDecision" =>
              /\ c.approval \in DOMAIN approvals
              /\ approvals[c.approval].state = c.state
              /\ approvals[c.approval].runner = r

\* A resolved approval never changes and no approval disappears, whatever
\* handlers planned while it was pending.
ApprovalDecidedOnce ==
    [][\A a \in DOMAIN approvals :
          /\ a \in DOMAIN approvals'
          /\ approvals[a].state # "Pending" => approvals'[a] = approvals[a]]_vars

\* A session changes its owner only by being taken back, in the scope of some
\* heartbeat, while it has not started, and only from a runner whose
\* last_seen_at is more than three leases old in that scope: a runner that
\* reports itself is judged by the clock it reports, the others by when they
\* were last seen.  Once it runs, waits or has ended it stays with its runner
\* for good.
OwnerTakenOnlyFromSilent ==
    [][\A s \in DOMAIN sessions :
          /\ s \in DOMAIN sessions'
          /\ LET o == sessions[s].owner
             IN  o # NoRunner /\ sessions'[s].owner # o =>
                    /\ sessions[s].state = "Assigned"
                    /\ sessions'[s] = [state |-> "Pending", owner |-> NoRunner]
                    /\ \E r \in Runners, hb \in Heartbeats :
                          /\ \E t \in Tasks : update_runner_heartbeat(t, r, hb)
                          /\ (IF r = o THEN hb.age ELSE runners[o].age) > 3 * LeaseTtl]_vars

\* Whenever a step changes how many sessions a runner has active or queued,
\* the same step brings the counts of its snapshot, which the capacity check
\* reads, up to date.
CountsFollowSessions ==
    [][\A r \in DOMAIN runners :
          \/ /\ OwnedIn(r, sessions', index', ActiveStates)
                   = OwnedIn(r, sessions, index, ActiveStates)
             /\ OwnedIn(r, sessions', index', {"Pending"})
                   = OwnedIn(r, sessions, index, {"Pending"})
          \/ /\ runners'[r].active
                   = Cardinality(OwnedIn(r, sessions', index', ActiveStates))
             /\ runners'[r].queued
                   = Cardinality(OwnedIn(r, sessions', index', {"Pending"}))]_vars

\* A session that waits for approval has an approval that is still pending.
\* Only meaningful where callers do not post WaitingApproval themselves.
WaitingHasPending ==
    \A s \in DOMAIN sessions :
        sessions[s].state = "WaitingApproval" =>
            \E a \in DOMAIN approvals :
                approvals[a].session = s /\ approvals[a].state = "Pending"
=============================================================================
