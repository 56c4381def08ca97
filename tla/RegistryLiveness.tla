--------------------------- MODULE RegistryLiveness ---------------------------
(***************************************************************************)
(* The session registry under fair scheduling: pending sessions are        *)
(* dispatched and sessions of silent runners are taken back.               *)
(*                                                                         *)
(* Some runners are reliable: they register and then send a heartbeat at   *)
(* least every half lease (effective_heartbeat_interval of rc-runner-host).*)
(* Nothing is assumed of the others; they may register and fall silent at  *)
(* any time.                                                               *)
(***************************************************************************)
EXTENDS SessionRegistry

CONSTANT Reliable

ASSUME ReliableAssumption == Reliable \subseteq Runners

\* Time does not run past the heartbeat a reliable runner owes, nor past a
\* handler that has work left: with polling runners a handler waits for nobody
\* and its steps are short against a lease.
TimelyTick ==
    /\ \A t \in Tasks : tasks[t] = Idle
    /\ \A r \in Reliable \cap DOMAIN runners : 2 * (runners[r].age + 1) <= LeaseTtl
    /\ Tick

\* The sync loop of a runner is sequential and paced (run_control_plane_sync):
\* it sends one report per tick, a registration or a heartbeat.
Due(r) == r \in DOMAIN runners => runners[r].age > 0

Heartbeat(r) ==
    /\ Due(r)
    /\ \E t \in Tasks, hb \in Heartbeats : update_runner_heartbeat(t, r, hb)

\* A reliable runner registers once; the loop registers again only after a
\* heartbeat failed.
Register(r) ==
    /\ Due(r)
    /\ r \in Reliable => r \notin DOMAIN runners
    /\ \E t \in Tasks : register_runner(t, r)

\* Sessions are created and then left alone: a posted state, an approval or a
\* decision refreshes the lease of the session's runner, so callers who keep
\* posting keep a dead runner alive.
TimelyNext ==
    \/ \E r \in Runners : Heartbeat(r) \/ Register(r)
    \/ \E t \in Tasks :
          \/ \E s \in Sessions, r \in Runners \cup {NoRunner} : PlanSession(t, s, r)
          \/ Continue(t)
    \/ \E r \in Runners, limit \in 1 .. MaxCommandsPerRunner :
          pull_runner_commands(r, limit)
    \/ TimelyTick

\* tokio runs every ready task; a reliable runner retries until its request
\* is accepted, however busy the handlers are.
FairSpec ==
    /\ Init /\ [][TimelyNext]_vars
    /\ SF_vars(TimelyTick)
    /\ \A t \in Tasks : WF_vars(Continue(t))
    /\ \A r \in Reliable : SF_vars(Heartbeat(r) \/ Register(r))

-----------------------------------------------------------------------------

Unassigned(s) ==
    s \in DOMAIN sessions /\ sessions[s] = [state |-> "Pending", owner |-> NoRunner]

AssignedTo(s, r) ==
    s \in DOMAIN sessions /\ sessions[s] = [state |-> "Assigned", owner |-> r]

\* A session without a runner is assigned sooner or later, also when the
\* runner that select_runner prefers has died with an unexpired lease.
PendingDispatched ==
    \A s \in Sessions : Unassigned(s) ~> ~Unassigned(s)

\* A session assigned to a runner that has fallen silent does not stay with
\* it: it is taken back unless the runner is heard of again.
SilentRunnerReaped ==
    \A s \in Sessions, r \in Runners :
        AssignedTo(s, r) /\ runners[r].age > 0
            ~> ~AssignedTo(s, r) \/ runners[r].age = 0
=============================================================================
