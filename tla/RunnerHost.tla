----------------------------- MODULE RunnerHost ------------------------------
(***************************************************************************)
(* One runner: the table of sessions and approvals of RunnerApi (rc-runner),*)
(* the bounded channel to the HostedSessionManager (rc-runner-host), the   *)
(* agent process of each session with the tasks that serve it, and the     *)
(* requests for permission an agent sends through all of them.  The        *)
(* control plane is reduced to what the runner can tell: the commands it   *)
(* sends, the approvals it keeps, the handlers that are under way there    *)
(* and the answers they give (SessionRegistry models it in full).          *)
(*                                                                         *)
(* An approval carries the name of the request it was created for.  An     *)
(* action is a stretch between two awaits.  Runtime events are the subject *)
(* of EventBuffer.                                                         *)
(***************************************************************************)
EXTENDS Naturals, FiniteSets, Sequences, SequencesExt

CONSTANTS
    Sessions, Requests,
    SessionOf,      \* the session whose agent makes a request
    MaxParallel,    \* max_parallel_sessions
    ChannelCap,     \* RUNNER_EVENT_CHANNEL_CAPACITY
    ClientStates,   \* states clients post for a session
    AgentStates,    \* states an agent reports, after map_runtime_session_state
    MaxDispatches,  \* bound: sessions sent to this runner, repetitions included
    MaxUpdates      \* bound: states and prompts from clients, states from agents

Terminal == {"Completed", "Failed", "Cancelled"}
RunnerStates == {"Pending", "Starting", "Running", "WaitingApproval"} \cup Terminal

ASSUME HostAssumption ==
    /\ SessionOf \in [Requests -> Sessions]
    /\ ClientStates \subseteq RunnerStates /\ AgentStates \subseteq RunnerStates
    /\ {MaxParallel, ChannelCap, MaxDispatches, MaxUpdates} \subseteq Nat

VARIABLES
    inbound,    \* the runner is called over HTTP; otherwise it polls
    cp,         \* approvals as the control plane has them
    calls,      \* handlers of the control plane between two of their scopes
    link,       \* commands for the runner: queued, or calls under way
    table,      \* RunnerApi.sessions: state, or "absent"
    approvals,  \* RunnerApi.approvals
    mid,        \* handlers between their two lock scopes
    channel,    \* runner events not yet received by the manager
    manager,    \* what the manager loop is doing
    hosted,     \* keys of HostedSessionManager.sessions
    r2a, a2r,   \* request_to_approval and approval_to_request of the handles
    tasks,      \* per session: its process and the tasks that serve it
    agent,      \* per session: what the agent has said and been told
    history     \* read by properties and bounds only

vars == <<inbound, cp, calls, link, table, approvals, mid, channel, manager,
          hosted, r2a, a2r, tasks, agent, history>>
cpVars == <<cp, calls, link>>
apiVars == <<table, approvals, mid, channel>>
hostVars == <<manager, hosted, r2a, a2r, tasks>>

Decided == {"Approved", "Denied", "Cancelled"}
RequestsOf(s) == {r \in Requests : SessionOf[r] = s}

HostInit ==
    /\ inbound \in BOOLEAN
    /\ cp = [r \in Requests |-> "absent"]
    /\ calls = {}
    /\ link = <<>>
    /\ table = [s \in Sessions |-> "absent"]
    /\ approvals = [r \in Requests |-> "absent"]
    /\ mid = {}
    /\ channel = <<>>
    /\ manager = <<"idle">>
    /\ hosted = {}
    /\ r2a = {}
    /\ a2r = {}
    /\ tasks = [s \in Sessions |->
          [process |-> "none", input |-> "none", reader |-> <<"off">>, exit |-> "off"]]
    /\ agent = [asked |-> {}, cancelled |-> {}, answers |-> [r \in Requests |-> <<>>],
                pipe |-> [s \in Sessions |-> <<>>]]
    /\ history = [dispatched |-> <<>>, updates |-> 0,
                  lost |-> {}, overtaken |-> {}, missed |-> {},
                  unstarted |-> {}, revived |-> {}]

-----------------------------------------------------------------------------
(* The control plane and its clients. *)

Dispatch(s) ==
    /\ Len(history.dispatched) < MaxDispatches
    /\ link' = Append(link, <<"create", s>>)
    /\ history' = [history EXCEPT !.dispatched = Append(@, s)]
    /\ UNCHANGED <<inbound, cp, calls, apiVars, hostVars, agent>>

PostState(s, state) ==
    /\ history.updates < MaxUpdates
    /\ s \in ToSet(history.dispatched)
    /\ link' = Append(link, <<"state", s, state>>)
    /\ history' = [history EXCEPT !.updates = @ + 1]
    /\ UNCHANGED <<inbound, cp, calls, apiVars, hostVars, agent>>

Prompt(s) ==
    /\ history.updates < MaxUpdates
    /\ s \in ToSet(history.dispatched)
    /\ link' = Append(link, <<"prompt", s>>)
    /\ history' = [history EXCEPT !.updates = @ + 1]
    /\ UNCHANGED <<inbound, cp, calls, apiVars, hostVars, agent>>

\* The command that makes approval r what the handler decided on: one that is
\* created is Pending.
CommandOf(r, state) ==
    IF state = "Pending" THEN <<"approval", r>> ELSE <<"decide", r, state>>

\* create_approval and apply_approval_decision up to their first effect.  For
\* a runner that polls the state is recorded and the command queued later, in
\* a scope of its own; a runner that is called gets the call first, and the
\* state is recorded when it has answered.
BeginApproval(r, state) ==
    IF inbound
    THEN /\ link' = Append(link, CommandOf(r, state))
         /\ UNCHANGED <<cp, calls>>
    ELSE /\ cp' = [cp EXCEPT ![r] = state]
         /\ calls' = calls \cup {<<"queue", r, state>>}
         /\ UNCHANGED link

\* Bound: a runner is called with one decision once at a time.
DecideOnControlPlane(r, decision) ==
    /\ cp[r] = "Pending"
    /\ inbound => <<"decide", r, decision>> \notin ToSet(link)
    /\ BeginApproval(r, decision)

Decide(r, decision) ==
    /\ DecideOnControlPlane(r, decision)
    /\ UNCHANGED <<inbound, apiVars, hostVars, agent, history>>

\* The answer of a handler, for the reader that waits for it.  The decision
\* Cancelled is the one a reader posts.  An answer that is lost leaves it waiting.
Reply(r, state) ==
    LET s == SessionOf[r]
        heard == CASE state = "Pending" /\ tasks[s].reader = <<"asking", r>> -> <<"created", r>>
                   [] state = "Cancelled" /\ tasks[s].reader = <<"posted", r>> -> <<"withdrawn", r>>
                   [] OTHER -> tasks[s].reader
    IN  \/ tasks' = [tasks EXCEPT ![s].reader = heard]
        \/ UNCHANGED tasks

\* Last scope of both handlers for a runner that polls.  A decision can be
\* queued while the handler that created the approval has not got there.
QueueCommand(r, state) ==
    /\ <<"queue", r, state>> \in calls
    /\ calls' = calls \ {<<"queue", r, state>>}
    /\ link' = Append(link, CommandOf(r, state))
    /\ history' = IF <<"queue", r, "Pending">> \in calls'
                  THEN [history EXCEPT !.overtaken = @ \cup {r}] ELSE history
    /\ Reply(r, state)
    /\ UNCHANGED <<inbound, cp, apiVars, manager, hosted, r2a, a2r, agent>>

\* Last scope for a runner that is called: commit_planned_approval, and
\* commit_planned_approval_decision, which looks again whether it is pending.
RecordApproval(r, state) ==
    /\ <<"record", r, state>> \in calls
    /\ state # "Pending" => cp[r] = "Pending"
    /\ calls' = calls \ {<<"record", r, state>>}
    /\ cp' = [cp EXCEPT ![r] = state]
    /\ Reply(r, state)
    /\ UNCHANGED <<inbound, link, apiVars, manager, hosted, r2a, a2r, agent, history>>

\* A handler ends early: its caller hung up, the answer of the runner did not
\* arrive, or the runner is no longer registered.
DropHandler(call) ==
    /\ call \in calls
    /\ calls' = calls \ {call}
    /\ history' = [history EXCEPT !.lost = @ \cup (IF call[1] = "queue" THEN {call[2]} ELSE {})]
    /\ UNCHANGED <<inbound, cp, link, apiVars, hostVars, agent>>

\* The response of a pull is lost, or the queue of the runner is full: the
\* oldest command is gone.  (A call that fails is one that never arrives.)
LoseCommand ==
    /\ ~inbound
    /\ link # <<>>
    /\ link' = Tail(link)
    /\ history' = [history EXCEPT !.lost = @ \cup {Head(link)[2]}]
    /\ UNCHANGED <<inbound, cp, calls, apiVars, hostVars, agent>>

-----------------------------------------------------------------------------
(* RunnerApi.  A runner that polls applies its commands one after the      *)
(* other; calls run side by side.                                          *)

Counted == {"Pending", "Starting", "Running", "WaitingApproval"}
session_counts == Cardinality({s \in Sessions : table[s] \in Counted})

\* Sessions whose record is written although their agent is gone for good.
Touched(written) == {s \in written : tasks[s].exit = "done"}

\* Mutant: the channel holds one event more.
SaturatedLate == Len(channel) > ChannelCap
Saturated == Len(channel) >= ChannelCap

\* try_send: a saturated channel drops the event.
emit_event(event, written) ==
    /\ channel' = IF Saturated THEN channel ELSE Append(channel, event)
    /\ history' = [history EXCEPT !.lost = @ \cup (IF Saturated THEN {event[2]} ELSE {}),
                                  !.revived = @ \cup Touched(written)]

\* The call replaces an existing record, the command returns it.
create_session(s) ==
    IF (~inbound /\ table[s] # "absent") \/ session_counts >= MaxParallel
    THEN UNCHANGED <<apiVars, history>>
    ELSE /\ table' = [table EXCEPT ![s] = "Pending"]
         /\ emit_event(<<"created", s>>, {s})
         /\ UNCHANGED <<approvals, mid>>

apply_session_state_update(s, state) ==
    IF table[s] = "absent"
    THEN UNCHANGED <<apiVars, history>>
    ELSE /\ table' = [table EXCEPT ![s] = state]
         /\ history' = [history EXCEPT !.revived = @ \cup Touched({s})]
         /\ UNCHANGED <<approvals, mid, channel>>

post_session_command(s) ==
    /\ IF table[s] = "absent" THEN UNCHANGED <<channel, history>>
       ELSE emit_event(<<"command", s>>, {})
    /\ UNCHANGED <<table, approvals, mid>>

\* First scope: the session waits.
create_approval(r) ==
    IF table[SessionOf[r]] = "absent" \/ (~inbound /\ approvals[r] # "absent")
    THEN UNCHANGED <<apiVars, history>>
    ELSE /\ table' = [table EXCEPT ![SessionOf[r]] = "WaitingApproval"]
         /\ mid' = mid \cup {<<"approval", r>>}
         /\ history' = [history EXCEPT !.revived = @ \cup Touched({SessionOf[r]})]
         /\ UNCHANGED <<approvals, channel>>

\* First scope: the approval is decided.  An unknown or decided one is refused.
apply_approval_decision(r, decision) ==
    LET others == RequestsOf(SessionOf[r]) \ {r}
        pending == \E q \in others : approvals[q] = "Pending"
    IN  IF approvals[r] # "Pending"
        THEN UNCHANGED <<apiVars, history>>
        ELSE /\ approvals' = [approvals EXCEPT ![r] = decision]
             /\ mid' = mid \cup {<<"decision", r, decision, pending>>}
             /\ UNCHANGED <<table, channel, history>>

\* The commands that can be applied next.  Mutant: a runner that polls does
\* not wait for one to be applied before the next.
ApplicableAtOnce == IF inbound THEN DOMAIN link ELSE DOMAIN link \cap {1}
Applicable ==
    IF inbound THEN DOMAIN link ELSE {i \in DOMAIN link : i = 1 /\ mid = {}}

ApplyCommand ==
    /\ \E i \in Applicable :
          /\ link' = RemoveAt(link, i)
          /\ LET c == link[i]
             IN  \/ c[1] = "create" /\ create_session(c[2])
                 \/ c[1] = "state" /\ apply_session_state_update(c[2], c[3])
                 \/ c[1] = "prompt" /\ post_session_command(c[2])
                 \/ c[1] = "approval" /\ create_approval(c[2])
                 \/ c[1] = "decide" /\ apply_approval_decision(c[2], c[3])
    /\ UNCHANGED <<inbound, cp, calls, hostVars, agent>>

\* A call is answered, and its handler on the control plane goes on.
Acknowledge(r, state) ==
    calls' = IF inbound THEN calls \cup {<<"record", r, state>>} ELSE calls

\* Second scope of create_approval.
InsertApproval(r) ==
    /\ <<"approval", r>> \in mid
    /\ approvals' = [approvals EXCEPT ![r] = "Pending"]
    /\ mid' = mid \ {<<"approval", r>>}
    /\ Acknowledge(r, "Pending")
    /\ UNCHANGED <<inbound, cp, link, table, channel, hostVars, agent, history>>

session_state_after_approval(decision, pending) ==
    CASE pending -> "WaitingApproval"
      [] decision = "Approved" -> "Running"
      [] decision = "Denied" -> "Failed"
      [] OTHER -> "Cancelled"

\* Second scope of apply_approval_decision, and the event for the manager.
FinishDecision(m) ==
    LET s == SessionOf[m[2]]
    IN  /\ m \in mid
        /\ m[1] = "decision"
        /\ mid' = mid \ {m}
        /\ table' = [table EXCEPT ![s] = session_state_after_approval(m[3], m[4])]
        /\ emit_event(<<"resolved", m[2], m[3]>>, {s})
        /\ Acknowledge(m[2], m[3])
        /\ UNCHANGED <<inbound, cp, link, approvals, hostVars, agent>>

-----------------------------------------------------------------------------
(* HostedSessionManager.  Every task of a session owns a clone of the      *)
(* manager, and Drop for HostedSessionManager runs for each clone.         *)

\* cleanup_all_tasks: the input writer and the exit task of every session in
\* the map are aborted.  The readers are blocking tasks, which abort does not
\* stop.  It is skipped while somebody else holds the lock of the map.
cleanup_all_tasks(ts) ==
    [s \in Sessions |->
        IF s \notin hosted THEN ts[s]
        ELSE [ts[s] EXCEPT !.input = IF @ = "served" THEN "closed" ELSE @,
                           !.exit = IF @ = "waiting" THEN "aborted" ELSE @]]

DropClone(ts) == tasks' \in {ts, cleanup_all_tasks(ts)}

\* A process that cannot be started is only logged.  Bound: the process of a
\* session starts once, a second start fails.
StartSession(s) ==
    \/ /\ s \in hosted
       /\ manager' = <<"idle">>
       /\ UNCHANGED <<hosted, tasks, history>>
    \/ /\ s \notin hosted
       /\ manager' = <<"idle">>
       /\ history' = [history EXCEPT !.unstarted = @ \cup {s}]
       /\ UNCHANGED <<hosted, tasks>>
    \/ /\ s \notin hosted
       /\ tasks[s].process = "none"
       /\ hosted' = hosted \cup {s}
       /\ tasks' = [tasks EXCEPT ![s].process = "live", ![s].input = "queue"]
       /\ manager' = <<"starting", s>>
       /\ UNCHANGED history

\* forward_approval_resolution, first look at the maps.
LookUpRequest(r, decision) ==
    /\ manager' = IF SessionOf[r] \in hosted /\ r \in a2r
                  THEN <<"found", r, decision>> ELSE <<"idle">>
    /\ history' = IF SessionOf[r] \in hosted /\ r \notin a2r
                  THEN [history EXCEPT !.missed = @ \cup {r}] ELSE history
    /\ UNCHANGED <<hosted, tasks>>

\* The manager loop takes one event and handles it before the next.
handle_runner_event ==
    /\ manager = <<"idle">>
    /\ channel # <<>>
    /\ channel' = Tail(channel)
    /\ LET e == Head(channel)
       IN  \/ e[1] = "created" /\ StartSession(e[2])
           \/ e[1] = "resolved" /\ LookUpRequest(e[2], e[3])
           \/ e[1] = "command" /\ UNCHANGED <<manager, hosted, tasks, history>>
    /\ UNCHANGED <<inbound, cpVars, table, approvals, mid, r2a, a2r, agent>>

\* spawn_hosted_session after the Online event was posted.
StartTasks ==
    /\ manager[1] = "starting"
    /\ LET s == manager[2]
       IN  /\ tasks' = [tasks EXCEPT ![s].input = "served", ![s].reader = <<"idle">>,
                                     ![s].exit = "waiting"]
           /\ manager' = <<"started">>
    /\ UNCHANGED <<inbound, cpVars, apiVars, hosted, r2a, a2r, agent, history>>

\* spawn_hosted_session returns.  The clone made for the stderr task is not
\* captured by its closure (let _ = manager) and is dropped here.
EndSpawn ==
    /\ manager = <<"started">>
    /\ manager' = <<"idle">>
    /\ DropClone(tasks)
    /\ UNCHANGED <<inbound, cpVars, apiVars, hosted, r2a, a2r, agent, history>>

\* Second scope of forward_approval_resolution.
ForgetRequest ==
    /\ manager[1] = "found"
    /\ r2a' = r2a \ {manager[2]}
    /\ a2r' = a2r \ {manager[2]}
    /\ manager' = <<"answering", manager[2], manager[3]>>
    /\ UNCHANGED <<inbound, cpVars, apiVars, hosted, tasks, agent, history>>

\* Mutant: only a denial is a no.
DeniedIsNo(decision) == IF decision = "Denied" THEN "deny" ELSE "allow"
Behavior(decision) == IF decision = "Approved" THEN "allow" ELSE "deny"

\* send_json_line fails when the session is gone or its input channel closed.
\* The lines themselves are unbounded here (MAX_SESSION_INPUT_QUEUE is 256).
send_json_line(r, behavior) ==
    LET s == SessionOf[r]
    IN  agent' = IF s \in hosted /\ tasks[s].input # "closed"
                 THEN [agent EXCEPT !.answers[r] = Append(@, behavior)] ELSE agent

ForwardAnswer ==
    /\ manager[1] = "answering"
    /\ send_json_line(manager[2], Behavior(manager[3]))
    /\ manager' = <<"idle">>
    /\ UNCHANGED <<inbound, cpVars, apiVars, hosted, r2a, a2r, tasks, history>>

-----------------------------------------------------------------------------
(* The agent process writes lines to its stdout and may end at any time.   *)

Live(s) == tasks[s].process = "live"

Ask(r) ==
    /\ Live(SessionOf[r])
    /\ r \notin agent.asked
    /\ agent' = [agent EXCEPT !.asked = @ \cup {r},
                              !.pipe[SessionOf[r]] = Append(@, <<"ask", r>>)]
    /\ UNCHANGED <<inbound, cpVars, apiVars, hostVars, history>>

Withdraw(r) ==
    /\ Live(SessionOf[r])
    /\ r \in agent.asked \ agent.cancelled
    /\ agent.answers[r] = <<>>
    /\ agent' = [agent EXCEPT !.cancelled = @ \cup {r},
                              !.pipe[SessionOf[r]] = Append(@, <<"cancel", r>>)]
    /\ UNCHANGED <<inbound, cpVars, apiVars, hostVars, history>>

Report(s, state) ==
    /\ Live(s)
    /\ history.updates < MaxUpdates
    /\ agent' = [agent EXCEPT !.pipe[s] = Append(@, <<"state", state>>)]
    /\ history' = [history EXCEPT !.updates = @ + 1]
    /\ UNCHANGED <<inbound, cpVars, apiVars, hostVars>>

Exit(s) ==
    /\ Live(s)
    /\ tasks' = [tasks EXCEPT ![s].process = "exited"]
    /\ UNCHANGED <<inbound, cpVars, apiVars, manager, hosted, r2a, a2r, agent, history>>

-----------------------------------------------------------------------------
(* read_hosted_session_stdout: one line after the other. *)

Reader(s) == tasks[s].reader
ReaderAt(s, pc) == tasks' = [tasks EXCEPT ![s].reader = pc]

\* handle_control_request asks the control plane for an approval and waits.  A
\* request that does not arrive is refused.
RequestApproval(s, r) ==
    \/ BeginApproval(r, "Pending") /\ ReaderAt(s, <<"asking", r>>)
    \/ ReaderAt(s, <<"refused", r>>) /\ UNCHANGED cpVars

\* cancel_pending_approval, first scope.
BeginCancel(s, r) ==
    /\ r2a' = r2a \ {r}
    /\ ReaderAt(s, IF r \in r2a THEN <<"cancelling", r>> ELSE <<"idle">>)

handle_protocol_line(s) ==
    /\ Reader(s) = <<"idle">>
    /\ agent.pipe[s] # <<>>
    /\ agent' = [agent EXCEPT !.pipe[s] = Tail(@)]
    /\ LET line == Head(agent.pipe[s])
       IN  \/ /\ line[1] = "state"
              /\ apply_session_state_update(s, line[2])
              /\ UNCHANGED <<cpVars, r2a, tasks>>
           \/ /\ line[1] = "ask"
              /\ RequestApproval(s, line[2])
              /\ UNCHANGED <<apiVars, r2a, history>>
           \/ /\ line[1] = "cancel"
              /\ BeginCancel(s, line[2])
              /\ UNCHANGED <<cpVars, apiVars, history>>
    /\ UNCHANGED <<inbound, manager, hosted, a2r>>

\* The reader is told of an error, or waits no longer; the handler may go on.
GiveUp(s) ==
    /\ Reader(s)[1] \in {"asking", "posted"}
    /\ ReaderAt(s, IF Reader(s)[1] = "asking" THEN <<"refused", Reader(s)[2]>>
                                              ELSE <<"failed", Reader(s)[2]>>)
    /\ UNCHANGED <<inbound, cpVars, apiVars, manager, hosted, r2a, a2r, agent, history>>

\* handle_control_request: the two maps are filled under two locks.
StoreRequest(s) ==
    /\ Reader(s)[1] = "created"
    /\ r2a' = r2a \cup {Reader(s)[2]}
    /\ ReaderAt(s, <<"stored", Reader(s)[2]>>)
    /\ UNCHANGED <<inbound, cpVars, apiVars, manager, hosted, a2r, agent, history>>

\* Mutant: the second map is not filled.
ReverseForgotten(r) == a2r
ReverseStored(r) == a2r \cup {r}

StoreApproval(s) ==
    /\ Reader(s)[1] = "stored"
    /\ a2r' = ReverseStored(Reader(s)[2])
    /\ ReaderAt(s, <<"idle">>)
    /\ UNCHANGED <<inbound, cpVars, apiVars, manager, hosted, r2a, agent, history>>

\* Without an approval the agent is told no.
DenyRequest(s) ==
    /\ Reader(s)[1] = "refused"
    /\ send_json_line(Reader(s)[2], "deny")
    /\ ReaderAt(s, <<"idle">>)
    /\ UNCHANGED <<inbound, cpVars, apiVars, manager, hosted, r2a, a2r, history>>

\* The decision Cancelled is posted.  It does not arrive, or the approval is
\* decided: refused.
PostCancel(s) ==
    /\ Reader(s)[1] = "cancelling"
    /\ LET r == Reader(s)[2]
       IN  \/ DecideOnControlPlane(r, "Cancelled") /\ ReaderAt(s, <<"posted", r>>)
           \/ ReaderAt(s, <<"failed", r>>) /\ UNCHANGED cpVars
    /\ UNCHANGED <<inbound, apiVars, manager, hosted, r2a, a2r, agent, history>>

EndCancel(s) ==
    /\ Reader(s)[1] = "withdrawn"
    /\ a2r' = a2r \ {Reader(s)[2]}
    /\ ReaderAt(s, <<"idle">>)
    /\ UNCHANGED <<inbound, cpVars, apiVars, manager, hosted, r2a, agent, history>>

\* The entry is put back so that the cancellation can be retried.
RestoreRequest(s) ==
    /\ Reader(s)[1] = "failed"
    /\ r2a' = r2a \cup {Reader(s)[2]}
    /\ ReaderAt(s, <<"idle">>)
    /\ UNCHANGED <<inbound, cpVars, apiVars, manager, hosted, a2r, agent, history>>

\* End of stdout: the reader returns and drops its clones of the manager.
EndReader(s) ==
    /\ Reader(s) = <<"idle">>
    /\ agent.pipe[s] = <<>>
    /\ tasks[s].process = "exited"
    /\ DropClone([tasks EXCEPT ![s].reader = <<"ended">>])
    /\ UNCHANGED <<inbound, cpVars, apiVars, manager, hosted, r2a, a2r, agent, history>>

-----------------------------------------------------------------------------
(* handle_hosted_session_exit: the handle goes first, the record after the *)
(* Offline event was posted.  The exit task's own clone goes last.         *)

RemoveHandle(s) ==
    /\ tasks[s].exit = "waiting"
    /\ tasks[s].process = "exited"
    /\ hosted' = hosted \ {s}
    /\ tasks' = [tasks EXCEPT ![s].exit = "removed"]
    /\ UNCHANGED <<inbound, cpVars, apiVars, manager, r2a, a2r, agent, history>>

\* Completed or Failed by the exit status.  Mutant: a success is not recorded.
EndedIfFailed(s) == {table, [table EXCEPT ![s] = "Failed"]}
Ended(s) == {[table EXCEPT ![s] = state] : state \in {"Completed", "Failed"}}

RecordExit(s) ==
    /\ tasks[s].exit = "removed"
    /\ table' \in Ended(s)
    /\ DropClone([tasks EXCEPT ![s].exit = "done"])
    /\ UNCHANGED <<inbound, cpVars, approvals, mid, channel, manager, hosted, r2a, a2r,
                   agent, history>>

-----------------------------------------------------------------------------
ControlPlaneStep ==
    \/ \E s \in Sessions :
          Dispatch(s) \/ Prompt(s) \/ \E state \in ClientStates : PostState(s, state)
    \/ \E r \in Requests, decision \in {"Approved", "Denied"} : Decide(r, decision)
    \/ \E r \in Requests, state \in {"Pending"} \cup Decided :
          QueueCommand(r, state) \/ RecordApproval(r, state)
    \/ \E call \in calls : DropHandler(call)
    \/ LoseCommand

ApiStep ==
    \/ ApplyCommand
    \/ \E r \in Requests : InsertApproval(r)
    \/ \E m \in mid : FinishDecision(m)

ManagerStep ==
    handle_runner_event \/ StartTasks \/ EndSpawn \/ ForgetRequest \/ ForwardAnswer

AgentStep ==
    \/ \E r \in Requests : Ask(r) \/ Withdraw(r)
    \/ \E s \in Sessions : Exit(s) \/ \E state \in AgentStates : Report(s, state)

ReaderStep(s) ==
    \/ handle_protocol_line(s) \/ GiveUp(s) \/ StoreRequest(s) \/ StoreApproval(s)
    \/ DenyRequest(s) \/ PostCancel(s) \/ EndCancel(s) \/ RestoreRequest(s) \/ EndReader(s)

ExitStep(s) == RemoveHandle(s) \/ RecordExit(s)

HostNext ==
    \/ ControlPlaneStep
    \/ ApiStep
    \/ ManagerStep
    \/ AgentStep
    \/ \E s \in Sessions : ReaderStep(s) \/ ExitStep(s)

HostSpec == HostInit /\ [][HostNext]_vars

-----------------------------------------------------------------------------
ReaderSteps == {"asking", "created", "stored", "refused",
                "cancelling", "posted", "withdrawn", "failed"}
Commands ==
    ({"create", "prompt"} \X Sessions) \cup ({"state"} \X Sessions \X ClientStates)
    \cup ({"approval"} \X Requests) \cup ({"decide"} \X Requests \X Decided)

\* Every variable keeps its type, and the channel to the manager stays within
\* RUNNER_EVENT_CHANNEL_CAPACITY.
TypeOK ==
    /\ inbound \in BOOLEAN
    /\ cp \in [Requests -> {"absent", "Pending"} \cup Decided]
    /\ calls \subseteq {"queue", "record"} \X Requests \X ({"Pending"} \cup Decided)
    /\ ToSet(link) \subseteq Commands
    /\ table \in [Sessions -> {"absent"} \cup RunnerStates]
    /\ approvals \in [Requests -> {"absent", "Pending"} \cup Decided]
    /\ mid \subseteq ({"approval"} \X Requests)
                  \cup ({"decision"} \X Requests \X Decided \X BOOLEAN)
    /\ Len(channel) <= ChannelCap
    /\ ToSet(channel) \subseteq ({"created", "command"} \X Sessions)
                              \cup ({"resolved"} \X Requests \X Decided)
    /\ manager \in {<<"idle">>, <<"started">>} \cup ({"starting"} \X Sessions)
                   \cup ({"found", "answering"} \X Requests \X Decided)
    /\ hosted \subseteq Sessions
    /\ r2a \subseteq Requests /\ a2r \subseteq Requests
    /\ tasks \in [Sessions -> [process : {"none", "live", "exited"},
                               input : {"none", "queue", "served", "closed"},
                               reader : {<<"off">>, <<"idle">>, <<"ended">>}
                                           \cup (ReaderSteps \X Requests),
                               exit : {"off", "waiting", "aborted", "removed", "done"}]]

\* An agent hears of a request at most once, and "allow" only if the runner
\* has Approved and the control plane nothing else: also when the request to
\* create the approval timed out after it was stored, so that the host has
\* already said no, and when the agent withdraws while somebody decides.  A
\* runner that is called acts before the control plane records, which may
\* never happen, as the answer can get lost.  (RH forward_approval_resolution,
\* handle_control_request; CP apply_approval_decision)
AnsweredOnceAsDecided ==
    \A r \in Requests :
        /\ Len(agent.answers[r]) <= 1
        /\ agent.answers[r] = <<"allow">> =>
              /\ approvals[r] = "Approved"
              /\ cp[r] = "Approved" \/ (inbound /\ cp[r] = "Pending")

\* A decision the control plane recorded that is on its way to the agent.
OnItsWay(r) ==
    \/ <<"queue", r, cp[r]>> \in calls
    \/ ~inbound /\ <<"decide", r, cp[r]>> \in ToSet(link)
    \/ \E m \in mid : m[1] = "decision" /\ m[2] = r
    \/ \E i \in DOMAIN channel : channel[i][1] = "resolved" /\ channel[i][2] = r
    \/ manager[1] \in {"found", "answering"} /\ manager[2] = r
    \/ Reader(SessionOf[r]) = <<"refused", r>>

\* An agent still waits for a request that was decided only if the decision is
\* on its way, a handler, a command or an event got lost, the decision was
\* queued ahead of the approval, the manager looked for the request when it
\* was not in the map, or the input of the agent was closed.
SilenceHasCause ==
    \A r \in Requests :
        (cp[r] \in Decided /\ agent.answers[r] = <<>> /\ r \notin agent.cancelled
           /\ Live(SessionOf[r]))
        => \/ OnItsWay(r)
           \/ r \in history.lost \cup history.overtaken \cup history.missed
           \/ tasks[SessionOf[r]].input = "closed"

\* A decision finds no request in the map only while the reader is still
\* between its request to the control plane and its second insert, or when the
\* agent has been told no, has withdrawn the request or has closed its input.
MissedOnlyInWindow ==
    [][\A r \in history'.missed \ history.missed :
          \/ Reader(SessionOf[r]) \in {"asking", "created", "stored", "refused"} \X {r}
          \/ agent.answers[r] # <<>>
          \/ r \in agent.cancelled
          \/ tasks[SessionOf[r]].input = "closed"]_vars

\* A session that counts against max_parallel_sessions has an agent, or will
\* have one, or is about to be ended by the exit task, unless its process or
\* its event was lost, its exit task was aborted, or its record was written
\* after the agent had gone.
CapacityHeldByAgents ==
    \A s \in Sessions : table[s] \in Counted =>
        \/ tasks[s].process = "live"
        \/ tasks[s].exit \in {"waiting", "removed"}
        \/ \E i \in DOMAIN channel : channel[i] = <<"created", s>>
        \/ manager = <<"starting", s>>
        \/ s \in history.lost \cup history.unstarted \cup history.revived
        \/ tasks[s].exit = "aborted"

\* The manager runs throughout, so no task that serves a session is aborted
\* ("Called on Drop to ensure child processes don't outlive the manager").
TasksKept ==
    \A s \in Sessions : tasks[s].exit # "aborted" /\ tasks[s].input # "closed"
=============================================================================
