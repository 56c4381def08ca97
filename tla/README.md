# Verification of remote-code's coordination core

TLA+ models of the parts of remote-code in which several actors share state:
the control plane (`crates/shared/rc-control-plane`), which assigns coding
sessions to runners, relays approvals and commands between clients and runners,
keeps an event timeline and trusts the devices of its owner; the runner
(`rc-runner`, `rc-runner-host`), which hosts agent processes and delivers their
events; and the executor that runs the tool calls of the Claude agent
(`crates/claude/claude-tools`).  The modules are written from the Rust source;
`PROJECT.json` maps every definition to the lines it models, lists the runs,
their mutants, the findings, the hazards and the theorems.

## 1. Inventory of the system

remote-code is a workspace of about 110 crates.  A *client* (CLI, TUI, Tauri
GUI, mobile) talks to a *control plane* (axum server, one process, SQLite
state), which talks to *runners* (one process per machine) that host agent
subprocesses.  Everything else (providers, tools, prompts, UI) is local to one
process.

| Component | Source | State it keeps | Operations |
|---|---|---|---|
| Session registry | `rc-control-plane/src/registry.rs`, `handlers.rs`, `helpers.rs`, `types.rs` | `Registry` behind an RwLock: runner snapshots, sessions, `session_runner_index`, approvals, artifacts, queued commands | register, heartbeat, create session, dispatch, reap, state update, session command, approval, decision, command pull |
| Timeline | `registry.rs` `TimelineStore`, `state.rs`, `streams.rs` | sequence counter, bounded history, broadcast channel, SQLite event log | publish, persist, query, subscribe, stream, restart |
| Device trust | `registry.rs` devices, `state.rs` tickets, `auth.rs` | trusted devices, token hash indices, pairing offers, stream tickets | bootstrap claim, pair, refresh, revoke, mint and consume tickets |
| Persistence | `state.rs` | one snapshot row, one event table | persist_state, load, backfill |
| Runner API | `rc-runner/src/lib.rs` | hosted sessions, approvals, event channel | create session, state update, command, approval, decision, heartbeat |
| Runner host | `rc-runner-host/src/lib.rs` | agent subprocesses, pending approvals, event buffers | spawn, forward, post state, buffer and flush events, sync loop, poll loop, command stream |
| Remote transport | `rc-remote-transport` | connection state, offline queue, reconnect policy, health scores | connect, send, queue, fall back, reconnect |
| Agent protocol | `rc-agent-protocol` | agent restarts, health, router | spawn, restart with back-off, route events |
| Engine events | `rc-engine-events` | none (types) | - |
| Rate limiter, metrics, downloads, QUIC | `rate_limit.rs`, `metrics.rs`, `download.rs`, `quic.rs` | counters, sockets | - |
| Tool executor | `claude-tools/src/streaming_executor.rs` | tool calls with their statuses and results, two flags | add, dispatch, run with a timeout, collect, wait, discard, mark an error |
| Claude agent (the rest), Roo agent, adapters | `agents/claudecode`, `crates/claude/*`, `crates/roo/*`, `crates/adapters/*` | conversation state of one process | conversation loop, tools, permissions, compaction |
| GUI and apps | `apps/*` | UI state | - |

How they interact, and what is hard about it:

- **Clients, handlers and the registry.**  Every HTTP request is a tokio task.
  Handlers of one kind follow one pattern: *plan* under a read lock of the
  registry, *relay* to the runner without any lock (an HTTP call to a runner
  with a `public_base_url`, a queued command for one that polls), *commit*
  under a write lock.  Whatever was true at the plan may be false at the
  commit: the session may have ended, been taken from its runner, or another
  caller may have decided the same approval.
- **Runners and the registry.**  A runner registers, sends heartbeats and pulls
  its commands.  Heartbeats carry time forward: the lease of a runner
  (`runner_lease_ttl_secs`) makes it available, the reaper takes `Assigned`
  sessions from a runner unseen for three leases, and both the reaper and the
  dispatch of pending sessions run only inside heartbeats and registrations.
- **Registry and timeline.**  A handler publishes after it commits.
  `publish_event` numbers an event under one lock, broadcasts it without the
  lock and stores it on a blocking thread, so three orders exist for the same
  events.  A stream subscribes, queries the log and then follows the channel.
- **Persistence.**  `persist_state` copies everything and writes one row; the
  event log is a second table written by other tasks.  A restart combines the
  row of one moment with the log of another.
- **Runner API, runner host, agents.**  The host turns channel events into
  agent subprocesses and posts their events back, with a bounded buffer while
  the control plane cannot be reached.  A request for permission goes from the
  agent's stdout through the reader task to the control plane, comes back as an
  approval for the runner, is decided by a client, and returns through a command
  (or call), the runner's table, a channel that drops when full, the manager
  loop and two maps under two locks to the agent's stdin.
- **The tool executor.**  Calls are added while the model's answer streams in;
  each runs in a task of its own, and whoever adds or finishes a call starts
  the ones that the concurrency rules then allow.

What makes each component correct:

- registry: a session has at most one owner, known to the registry, and the
  index and counts derived from it agree; a session leaves its owner only when
  that runner is dead and the session has not started; an approval is decided
  once and the runner hears that decision; a finished session stays finished;
  a waiting session has something to wait for; pending sessions get a runner;
- timeline: numbers are unique and contiguous, an acknowledged event can be
  read, the log is append-only, a stream is ordered, complete and free of
  duplicates;
- device trust: a secret is accepted at most once where it is single-use, a
  revoked device has no valid token, a rotation never locks out an honest
  client;
- runner: a session is hosted by one machine, never beyond its capacity, and
  ends in the state the registry shows; an agent that asked is answered once
  and as decided; no event disappears unnoticed;
- tool executor: every call gets a result, in an order the model can rely on; a
  call that is not safe to run beside others runs alone; a caller that waits
  for the rest is woken.

## 2. Plan

| Order | Module | Content | Status |
|---|---|---|---|
| 1 | `SessionRegistry`, `SessionRegistryProofs` | registry and all its handlers, one action per lock scope; seven theorems | done |
| 2 | `RegistryLiveness` | extends 1 with leases, reliable runners and fairness | done |
| 3 | `Timeline`, `TimelineProofs` | event timeline, log, streams, restart; six theorems | done |
| 4 | `DeviceTrust`, `DeviceTrustProofs` | devices and the token indices, pairing offers, refresh with rotation, lost and concurrent refreshes, restart from an older row; eight theorems | done |
| 5 | `EventDelivery`, `EventBuffer` | what a host promises about events, and `post_runtime_event` with buffer, flush and overflow shown to implement it | done |
| 6 | `RunnerHost` | the runner's table, its channel, the manager, agents, readers and exit tasks, and permission requests through all of them | done for one runner |
| 7 | `ToolExecutor` | the streaming tool executor of the Claude agent | done |
| 8 | `ToolExecutorProofs` | seven theorems | done |
| 9 | `EventBufferProofs`, `RunnerHostProofs` | every safety property of the two runner modules and the refinement of `EventDelivery`; six theorems each | done |
| 10 | `RegistryRecovery` | the whole snapshot, restart of the registry | planned |

Every safety property a run expects to hold is also a theorem; section 9 lists
what is not.  Worth adding: an abstract specification of assignment (a session
moves none -> runner -> none or ended), implemented by `SessionRegistry`, and of an
append-only log with ordered readers, implemented by `Timeline`.

## 3. Session registry

### State and actions

`SessionRegistry.tla` keeps the fields of `Registry` that operations read back:

| Variable | Code |
|---|---|
| `runners` | `runners: BTreeMap<String, RunnerSnapshot>`: state, active and queued counts, and the age of `last_seen_at` |
| `sessions` | `sessions`: state and `owner_runner_id` |
| `index` | `session_runner_index` |
| `approvals` | `approvals`: state, session and runner |
| `queues` | `queued_runner_commands` |
| `tasks` | the local variables a handler carries from one lock scope to the next |

One action is one lock scope.  `Request` is the first scope of each handler,
`Continue` the later ones:

| Handler | Actions |
|---|---|
| `register_runner` | `register_runner`, then dispatch |
| `update_runner_heartbeat` | `update_runner_heartbeat` (apply_heartbeat, reap_orphaned_assigned_sessions and the recount in one scope), then dispatch |
| `dispatch_pending_sessions_for_runner` | `PlanDispatch`, then `DispatchByQueue`, `DispatchByRelay`; `EndDispatch` |
| `create_session` | `PlanSession`, `RelaySession`, `commit_session` |
| `update_session_state` | `PlanStateUpdate`, `RelayStateUpdate`, `apply_session_state_update` |
| `post_session_command` | `PlanSessionCommand`, `EnqueueSessionCommand` |
| `create_approval` | `PlanApproval`, `RelayApproval`, `commit_planned_approval`, `EnqueueApproval` |
| `apply_approval_decision` | `plan_approval_decision`, `RelayDecision`, `commit_planned_approval_decision`, `EnqueueDecision` |
| `pull_runner_commands`, command stream | `pull_runner_commands` |

Selection (`select_runner`, `runner_can_host`, `runner_rank`), the transition
table, the recount of a runner's sessions and the eviction from a full command
queue are operators with the names of the code.  A relay to an inbound runner
either fails, and the handler returns, or succeeds with the state the runner
answers (`session_state_from_runner`).

Abstractions: runner ids are numbers because their order breaks ties; a
workspace is the set `Eligible[s]` of the runners that serve it; time is an age
per runner and per held timestamp, saturating at `MaxAge`, three leases and one
tick, which is the largest age any comparison distinguishes; which of several
pending sessions is dispatched first is left open (the code takes the oldest).
Artifacts, metadata, titles and tenants are left out.

### Runs

| Run | Instance | Shows |
|---|---|---|
| `registry` | 2 runners (one polls, one is called), 1 session with room for one approval, 1 approval, 2 handlers, 2 heartbeats | `TypeOK`, `IndexMirrorsOwner`, `DecisionCommandsAgree`, `OwnerTakenOnlyFromSilent`, `CountsFollowSessions`, `ApprovalDecidedOnce` |
| `registry_liveness` | 2 runners, one reliable, 2 sessions, 2 handlers | `PendingDispatched`, `SilentRunnerReaped` |
| `registry_waiting` | 1 runner, 1 session, 2 approvals, 2 handlers | violation of `WaitingHasPending` by two decisions at once |

The bounds are the smallest at which the cases happen: two handlers make every
pair of plan and commit interleave (the proofs cover more); two runners, because
an assignment moves from one to the other and the reaper of one takes from the
other; `LeaseTtl = 1` has all of "fresh", "expired" and "dead for three leases"
(2 in the liveness run, so that a half lease is a whole tick); a capacity of one
and a queue of one command reach their limits at once.  The two heartbeats of
`MCSessionRegistry` are one from before the runner took up its assignment, by the
right clock, and one after, by a clock more than three leases behind:
`apply_heartbeat` stores the timestamp the runner sends.  The theorems cover all
heartbeats and clocks, also those that are ahead.  Deadlock is checked in all of
them.

`OwnerTakenOnlyFromSilent` therefore does not say that a session is taken only
from a runner that has stopped reporting: the heartbeat of a runner with a late
clock takes its own unstarted sessions back, because the reaper of the same scope
compares the reported timestamp with the control plane's clock.  It says that
these two, silence and a late clock, are the only ways.

### Fairness

`RegistryLiveness` assumes that `Tick` happens again and again but not while a
handler is between scopes or a reliable runner owes a heartbeat
(`effective_heartbeat_interval` keeps it at half a lease or less); that a
handler which can continue does (tokio polls every ready task; with polling
runners no handler waits for a peer); and that a *reliable* runner eventually
gets a report through (its loop retries for ever), which is strong fairness
because all handlers may be busy again and again.  Nothing is assumed of the
other runner.  Clients create sessions and then leave them alone: a posted
state, an approval or a decision moves `last_seen_at` of the runner forward
(`refresh_runner_session_counts`), so callers who keep posting keep a dead
runner alive, and without this restriction `SilentRunnerReaped` is false.

### Finding

`registry_waiting`: `plan_approval_decision` computes the next session state
from the approvals pending at the plan.  Two decisions planned together both
find the other approval pending; both commits succeed and the session waits
for ever with nothing to decide.

The two approval commits assign `session.state` without the transition check, so
a session that finished between plan and commit returns to `WaitingApproval`,
`Running` or another end, although the comment on the transition table
(`registry.rs:1659`) says that terminal states cannot be left.  The model has these
steps; the statement of the comment is false of it and is therefore neither a
property nor a theorem, and the hazard list has the line.

The comment on the transition table also does not list `Completed` among the
successors of `Pending` and `Assigned`; the table accepts it, and the model
follows the table.

### Theorems

`SessionRegistryProofs` proves, for any sets of runners, sessions, approvals and
handlers, any capacities, leases and limits that satisfy `ConstantsAssumption`
(ids are positive numbers, the set of sessions is finite, a queue holds at least
one command, clients post and runners report states of the code, and the age of
a heartbeat lies between `-MaxAge` and `MaxAge`, where `MaxAge` stands for every age
beyond three leases):

`TypeCorrect`, `IndexCorrect`, `OwnersCorrect` (`OwnersRegistered`, which has no run
of its own), `DecisionsCorrect` and `DecidedOnce`, each from `Invariance`
(`Spec => []IInv`).

The properties are not inductive alone because of the handlers in flight: a
commit acts on what its plan saw.  `IInv` therefore adds `TasksKnown` (the
session, the approval and the runner a handler carries still exist, and a
handler about to queue a decision carries the decision the registry recorded)
and `ApprovalsKnown` (an approval's session and runner exist).  Both survive the
steps of *other* handlers because the registry only grows and resolved
approvals do not change: `Growth`, which every step is shown to satisfy, and
which is `ApprovalDecidedOnce` in part.  The step lemmas are one per action;
`PlanStep`, `EnqueueStep` and `CommitStep` carry what actions of one kind share.

Two action properties follow from the same invariant.  `OwnersTakenFromSilent`:
of all actions only the reaper removes an owner, from runners whose age, after
the heartbeat was applied, is beyond three leases.  `CountsCorrect`: an action
that moves one session recounts its one owner, and the reaper recounts every
runner that loses a session.

## 4. Event timeline

### State and actions

`Timeline.tla` models `TimelineStore` (`next`, `history`), the SQLite tables
(`log`, `disk`), the tasks inside `publish_event` (`pubs`) and `persist_state`
(`savers`), and the WebSocket streams (`streams`).  `acked` and the fields
`lagged`, `since` and `racing` of a stream are history variables that only the
properties read.

| Code | Actions |
|---|---|
| `publish_event` | `publish` (number and history under the lock), `Broadcast`, `persist_timeline_event` |
| `persist_state` | `Capture`, `WriteSnapshot` |
| `subscribe_*_events`, `serve_filtered_event_stream` | `Subscribe`, `Query`, `Replay`, `Receive`, `Disconnect` |
| process restart, `load_persisted_state`, `backfill_persisted_events` | `Restart` |

The broadcast channel is tokio's and is modelled from its use: each receiver
sees every event sent since it subscribed, and one that falls behind by more
than the buffer loses the oldest and goes on (`Lagged` is logged and skipped).
An event is reduced to its number, a topic that stands for the filter, and the
run of the service in which it was recorded.

### Runs

| Run | Instance | Shows |
|---|---|---|
| `timeline` | 2 publishers, 2 topics, 1 saver, 1 filtered stream that asks for no backlog, all of it or a part, channel and history of 1, failing disk, 2 events per run of the service, 1 restart | `TypeOK`, `StreamInOrder`, `HistoryContiguous`, `MissedOnlyIfOvertaken` across a restart that repeats numbers |
| `timeline_reuse` | 2 publishers, 1 saver, 1 restart | violation of `AckedStored` |

Two events overrun a history and a channel of one, so that the history is trimmed
and a slow stream lags; two publishers overtake each other between numbering,
broadcasting and storing; the proofs add any number of savers, which write
their copies in either order; one restart suffices to repeat numbers, because a
restart may happen at any point.  A restart loads the snapshot row, or starts
fresh when the row cannot be read.

`MissedOnlyIfOvertaken` states what the code really gives a stream: an event is
missed only if the stream lagged, if a later number reached it first (the
broadcast is outside the lock and the stream then skips the smaller number), or
if the event was broadcast before and stored after the stream looked.

### Finding

`timeline_reuse`: a restart takes `next_sequence` from the snapshot row.
Operations that publish without saving (`register_runner`,
`create_session_runtime_event`, `create_artifact`, heartbeats that dispatch
nothing) leave the row behind the log, so after a crash the service hands out
numbers that the log already holds, and `INSERT OR IGNORE` drops the new events
although their callers were answered.  `AckedStored` therefore holds only
without a restart, and with a disk that works; that it then holds is a theorem.

### Theorems

`TimelineProofs` proves for every instance that satisfies `TimelineAssumption`:
`TypeCorrect`, `HistoryCorrect`, `StreamsCorrect` and `LogCorrect` (`LogWriteOnce`,
which has no run of its own) with any number of restarts and failing writes, and `AckedCorrect` for
`MaxRestarts = 0` and `~DiskFails` - the finding shows that the first condition
cannot be dropped.

`IInv` strengthens the properties by `LogKeyed` (an entry is stored under its
own number), `SnapshotsContiguous` (also the copies still being written, since
the next restart may use any of them), and `Orderly`: the backlog of a stream
lies beyond the last number sent and has one event per number, which is what
makes the overlap of replay and channel harmless.  The invariant is split into
five parts by the variables they read (`Parts`), so that each action is only
asked about the parts it can disturb.  `AckedCorrect` needs a second invariant,
`Ledger`: numbers in flight, stored and acknowledged are pairwise distinct and
below `next`, so `INSERT OR IGNORE` never meets a number that is taken.

`StreamsComplete` (`MissedOnlyIfOvertaken`, with restarts) rests on a third one,
`FairInv`.  After a restart numbers are used again, so an event is no longer known
by its number: `NumberedOnce` says that *one run* uses a number once, and
`CurrentRun` and `SnapshotsPast` that nothing belongs to a run still to come.  Per
stream, `Sourced` says where the events it holds came from and that `last` is the
number of one it sent (without this, skipping a number would not mean that
something newer arrived), `Announced` that an event broadcast and not yet stored
is already with every stream it concerns, which is what storing it will ask for,
and `Settled` is the property itself.

## 5. Device trust

### State and actions

`DeviceTrust.tla` keeps the part of `Registry` that is about devices:
`registry` (trusted devices, `owner_device_id`, pairing offers), the two token
indices, the snapshot row (`disk`), the handlers under way (`tasks`) and, on the
other side of the network, the tokens each client holds (`clients`) and the
offers handed out (`handed`).  `history` records what became of answers and
devices and is read by the properties (and by no action).

| Code | Actions |
|---|---|
| `claim_bootstrap_device` | `bootstrap_claim` |
| `require_api_auth`, `require_owner_or_shared` | `Admit`, a lock scope of its own before the two below |
| `create_pairing_offer` | `create_pairing_offer`, `refuse_blank_offer` |
| `revoke_device` | `revoke_device` |
| `accept_pairing_offer` | `accept_pairing_offer`, `refuse_pairing_offer` |
| `refresh_token` | `RequestRefresh`, then `refresh_access_token` or `RejectReuse` |
| `persist_state_logged`, also of the other handlers | `SaveForOthers`, `Capture`, `WriteSnapshot` |
| the response | `Answer`, `LoseAnswer` |
| process restart, from the row or fresh when it cannot be read | `Restart`, with `rebuild_token_hash_index` |

A successful operation goes on to `Capture`, `WriteSnapshot` and `Answer`; one
that returns an error answers at once and saves nothing, as the `?` in the
handlers does.  Tokens, devices and offers are numbers from one counter, so
that a fresh secret is one never seen before; a hash stands for its token, and
`last_seen_at`, names and kinds are left out.

### Runs

| Run | Instance | Shows |
|---|---|---|
| `device_trust` | 2 handlers, no shared token, expiring access tokens and offers, lost answers, failing writes, 1 restart, 6 numbers | `TypeOK`, `IndicesMirrorDevices`, `OwnerIsTheFlagged`, `OfferUsedOnce`, `HonestNeverReuses`, `ClientRemembered`, `RevocationSticks` |

A claim, a pairing and a rotation take two numbers each, an offer one: six are a
claim with two rotations (so that the token of two rotations ago exists), a
claim, an offer, a pairing and a second offer, or two claims with a revocation
between them and a rotation.
One open offer is the limit at which the eviction of `MakesRoom` happens at the
second offer.  Two values of the clock are before and after expiry.  Two
handlers are enough for an older copy to be written over a newer one.  A shared
token only admits more requests of the owner; the theorems cover it.

`HonestNeverReuses` holds under all of this because a restored registry is an
older one: what a client was given last was minted after it, and the token
remembered as previous before it.  `ClientRemembered` and `RevocationSticks`
depend on the order of the copies: a handler that copied the state first may
write it last, and a restart then restores a revoked device or forgets a token
the client was given.  The two therefore carry the condition that saves have
neither overlapped (`Capture` while another copy is being written) nor failed,
and are false without it.  The repository promises neither, so this is listed as
a hazard and not as a finding.

The reuse of a rotated refresh token removes the device in memory, but
`refresh_token` then returns an error and leaves before `persist_state_logged`: a
restart before the next save of any handler brings the device back.  This is
listed as a hazard; nothing in the repository says that it survives a restart.

### Theorems

`DeviceTrustProofs` proves `TypeCorrect`, `IndicesCorrect`, `OwnerCorrect` and
`OffersCorrect` for every instance that satisfies `DeviceAssumption`, from
`Invariance`.  The properties speak of the registry, but a restart replaces it by
whatever reached the disk; `IInv` therefore asks `Sound` of the registry, of the
snapshot row and of every copy a handler has still to write.  `Sound` bounds
every device, token and offer by `minted`, which makes a fresh token different
from all others, and says that tokens belong to one device each, without which
removing the index entry of one device could remove that of another.  The lemmas
`InsertDevice`, `RemoveDevice`, `RotateDevice`, `FewerOffers` and `IndexInsert`,
`IndexRemove`, `IndexRotate`, `IndexRebuild` say what the operations do to the
devices, the offers and the indices; each action is then one lemma.

`HonestCorrect`, `ClientsCorrect` and `RevocationCorrect` relate the clients and the
answers under way to every copy that may be restored, and need a second
invariant, `TrustInv` (`TrustInvariance`):

- `TokensOwned`: a refresh token that anybody knows - a copy of the registry, a
  client, a request, an answer - was issued for one device, and in every copy the
  remembered token is older than the current one.  So a rotation gives the new
  tokens to the device whose client asked;
- `AnswersUnique`: tokens not yet answered are with one handler and nobody else;
- `HonestServed`, for clients that are not unlucky: one handler at most, and no
  copy has a newer token than that handler will answer or, without one, the
  client holds.  A restored copy is therefore never ahead of the client;
- `SavesOrdered`, while saves neither fail nor overlap: an answer is true of the
  registry at once (`AnswersSaved`), of its handler's copy while that is written,
  and of everything that can be restored when it is given; every copy knows the
  token of every client (`ClientsKnown`), and a request in flight has no newer
  token than its client (`AskersKnown`), so that a rotation under way cannot
  push the client's token out of the record;
- `RevokedPast`: revoked devices are old ones, so that no new device brings one
  back.

`NothingIssued` and `NothingSaved` cover the steps that give nobody a token;
`GrantTrust` covers enrolment and rotation together.

## 6. Event buffer

### State and actions

`EventBuffer.tla` models the way of one session's runtime events to the control
plane, posted by several tasks at the same time (the task that starts the
session, the stdout reader, the exit task).  `buffer` is
`event_buffer[session_id]`, `posters` the local variables of
each call of `post_runtime_event`, `stored` what the control plane has.  `acked`,
`dropped`, `crossed` and `clean` are history variables.

| Code | Actions |
|---|---|
| `post_runtime_event` | `post_runtime_event`, then a flush, then `PostEvent` |
| `flush_event_buffer` | `TakeBuffer` (the whole buffer, under the lock), `FlushOne` per event, `Rebuffer` after a failure |
| `buffer_runtime_event` | `buffer_runtime_event` |

A request succeeds, is not received, or is received and not answered.  The
back-off before a flush is a sleep: a poster may stay at "flush".  `Heal` is the
moment from which requests succeed; it may never come.

### Abstract specification

`EventDelivery.tla` says what the host promises: an event is open until it is
acknowledged or given up, an acknowledged event is stored, and events are given
up only while `Cap` others are open.  `DeliveryImplemented` is the refinement,
with `accepted <- Produced` and `known <- stored`; `acked`, `dropped`, `Events`
and `Cap` keep their names.  The abstract specification promises neither an
order nor a single storage, because the buffer gives neither.

### Run

`event_buffer`: 2 posters, 3 events each, `Cap = 2`.  Three events per poster
fill the buffer while another flush has a full buffer in its hands, so that the
put-back exceeds the cap.  Deadlock is not checked because posters come to rest.

- `EachEventAccounted`: an event that was produced is acknowledged, dropped or in
  exactly one place;
- `OldestDropped`: drops are of the oldest - as long as no two flushes held events
  at once (`crossed`), and not otherwise;
- `OvertakesOnlyAfterFailedFlush`: an event overtakes an older one of its task
  only after a failed flush or past another flush;
- `RecoveredFlushed`: once requests succeed, a post that reaches its flush is
  enough for everything in the buffer.  What the *last* post of a session leaves
  in the buffer stays there, since only posts flush;
- `DeliveryImplemented`.

Fairness: `WF` of `Continue(p)`, because tokio runs every ready task and reqwest
ends a request after its timeout of 30 seconds.

### Theorems

`EventBufferProofs` proves all of these but `RecoveredFlushed`, for any number of
events and posters, under `BufferAssumption` and `FewPosters`: at most `Cap + 1`
tasks post.  The code has three (the task that starts the session, the reader and
the exit task) and a `Cap` of 500.  The second assumption was found by the proof:
while a flush holds its events, each other poster may buffer one, and with more
posters than room the newest of them is dropped although older events are put
back afterwards, so that `OldestDropped` is false for three posters and `Cap = 1`.

- `BufferInvariance`: `AInv` splits the produced events between the buffer, the
  events each poster carries and those that are acknowledged or dropped
  (`EventsApart`, `EventsKept`); `PosterShape` says what a poster may carry at each
  point.  `BufferTypeCorrect` and `EventsAccounted` follow.
- `OvertakingBounded` adds `CleanIsAhead`: a call whose flush emptied the buffer
  has no older event of its own task anywhere.
- `DropsOldest` adds `InOrder`, which holds until two flushes overlap: one flush at
  most, what it holds is older than what is buffered meanwhile, and that is one
  event of each other poster at most.  Hence `FewPosters`.
- `BufferDelivers` maps every step of the buffer to a step of `EventDelivery` or to
  none; a drop gives up events while the full buffer holds `Cap` others.

## 7. Runner host

### State and actions

`RunnerHost.tla` is one runner, which is called over HTTP or polls (`inbound`,
open in `Init`).

| Variable | Code |
|---|---|
| `cp`, `calls`, `link` | the control plane as the runner can tell: the approvals it keeps, the handlers between two of their scopes, the commands queued for or calls made to the runner |
| `table`, `approvals` | `RunnerApi.sessions`, `.approvals` (`rc-runner`) |
| `mid` | handlers of `RunnerApi` between their two lock scopes |
| `channel`, `manager` | the bounded event channel and where the loop of `HostedSessionManager` is |
| `hosted`, `r2a`, `a2r` | the session map and the two maps between requests and approvals |
| `tasks` | per session: process, input writer, stdout reader, exit task |
| `agent` | what each agent has asked, withdrawn and been told, and its stdout |
| `history` | handlers, commands and events lost, decisions queued ahead of their approval, lookups that missed, starts that failed, records written after the agent had gone |

| Code | Actions |
|---|---|
| clients and control plane | `Dispatch`, `PostState`, `Prompt`, `LoseCommand` |
| `create_approval` and `apply_approval_decision` of the control plane | `RequestApproval`, `Decide` and `PostCancel` with `BeginApproval`; `QueueCommand`, `RecordApproval`, `DropHandler` |
| `create_session`, `apply_session_state_update`, `post_session_command`, `create_approval`, `apply_approval_decision` of `RunnerApi`; the command loop | `ApplyCommand`, then `InsertApproval`, `FinishDecision` |
| `handle_runner_event`, `spawn_hosted_session`, `forward_approval_resolution` | `handle_runner_event`, `StartTasks`, `EndSpawn`, `ForgetRequest`, `ForwardAnswer` |
| `read_hosted_session_stdout`, `handle_control_request`, `cancel_pending_approval` | `handle_protocol_line`, `GiveUp`, `StoreRequest`, `StoreApproval`, `DenyRequest`, `PostCancel`, `EndCancel`, `RestoreRequest`, `EndReader` |
| `handle_hosted_session_exit` | `RemoveHandle`, `RecordExit` |
| `Drop for HostedSessionManager` | `DropClone`, part of `EndSpawn`, `EndReader` and `RecordExit` |

The two ways to the runner differ in their order, and the model keeps both.  For a
runner that polls, the control plane records an approval or a decision first and
queues the command in a later scope, after it has published events: a client may
decide in between, and its decision may be queued ahead of `CreateApproval`.  A
runner that is called gets the call first, and the control plane records when it
has a good answer: when that is lost (`DropHandler`) the runner has acted and the
record stays as it was.  The answer to the reader may be lost too: the reader
waits on until `GiveUp`, whether or not the handler goes on.

Bounds: a request arrives when it is sent or not at all; a runner is called with
one decision at most once at a time; the process of a session starts once, and a
second start of it fails (the code would start a new process after the handle
was removed).  The four spawns at the end of `spawn_hosted_session` are one step:
nothing between them can stop the start, but an abort that hits only the input
writer, because the exit task does not exist yet, is left out.

### Run

`runner_host`: one session on a runner with room for one, a channel of one event,
one request for permission, one update by a client or the agent.  One session is
enough for the four properties, each of which is about one session or one of its
requests, while the update and the session's own events occupy the manager loop
and the channel; that other sessions do not matter is what the theorems show.
Deadlock is not checked: a runner with nothing to do is at rest.  `runner_drop` has
two sessions.

- `AnsweredOnceAsDecided`: an agent is answered at most once, and "allow" only if
  the runner has Approved and the control plane has Approved too - or, for a runner
  that is called, still Pending;
- `SilenceHasCause`, `MissedOnlyInWindow`: a decided request stays unanswered only
  for one of the listed causes, and a decision finds no request only in the
  window between the reader's request and its second map insert, or when nobody
  waits for it any more;
- `CapacityHeldByAgents`: what counts against `max_parallel_sessions` has an agent
  or one of the listed causes.

The causes are what the code really allows: a full channel drops the event, a
lost pull loses its commands, a handler that ends early queues none, a decision
queued ahead of its approval is refused as unknown, a start that fails is only
logged, and records are written after the agent has gone.  They are in the hazard
list.

### Finding

`runner_drop`: `Drop for HostedSessionManager` aborts the tasks of every session
in the shared map and runs for every clone.  The clone made for the stderr task
is dropped when `spawn_hosted_session` returns, those of the stdout reader at the
end of that stdout, that of the exit task at its end; input writers and exit
tasks of all hosted sessions are then aborted while the manager still runs.  `TasksKept` is violated.

### Theorems

`RunnerHostProofs` proves the five properties of the run for any sets of sessions
and requests, any capacity of the runner and the channel and any number of
updates, under `HostAssumption` (which also says that the states clients and
agents may post are states of a session), from `RunnerInvariance`.  `HInv` has one
part per question, each about one session or one request:

- `AskingOf`: lines and readers speak of requests of their own session, and an
  agent asks once.  `LivingOf`, `RecordedOf`: process, tasks, map entry and record
  of a session appear and go in one order;
- `BackedOf`: every record has an agent, is about to get one, or a cause
  (`CapacityHeldByAgents`);
- `AnsweringOf`: a request is unread, being opened, in the map, in the hands of
  the manager, or answered, and never two of these in a way that lets two parties
  answer.  `AgreeingOf`: on its way from the runner's record to the agent a decision
  is the one the runner recorded;
- `CarriedOf`: an approval that was asked for is in one place, with the handler,
  on its way, between the runner's two scopes or with the runner;
- `FollowingOf` ties the two records together.  `PollingOf`: the control plane is
  ahead, a decision is in one place and finds the approval, which precedes it in
  the queue unless it was lost or overtaken.  `CalledOf`: the runner is ahead, and
  what the control plane records or is about to record is what the runner has.
  With the two above this gives `AnsweredOnceAsDecided`;
- `FindableOf`, `SilenceOf`: a request that was handled can be found by the manager
  unless it needs no answer or cannot get one (`SilenceHasCause`).

`MissesInWindow` is an action property: only the step of the manager that looks a
request up can miss it, and by `FindableOf` the request is then in the window,
answered or withdrawn, or its agent's input is closed.

## 8. Tool executor

### State and actions

`ToolExecutor.tla` models `StreamingToolExecutor`.  Calls are numbered in the
order in which they were added; `status` is `ToolStatus`, `task` the next step of
the task spawned for a call, `body` the tools really running (a tool whose call
timed out goes on), `waiter` the place inside `wait_for_remaining`.  `missed` and
`lead` are history variables.

| Code | Actions |
|---|---|
| `add_tool`, `try_dispatch` | `add_tool` with `Pass` |
| the spawned task, `execute_tool` | `CheckDiscarded`, `CheckErrored`, `StartTool`, `ToolReturns`, `Timeout`, `Store` |
| `dispatch_queued` and the notification after it | `dispatch_queued`, `Notify` |
| `completed_results` | `completed_results` |
| `wait_for_remaining` | `BeginWait`, `CheckAllDone`, `Listen`, `EndWait` |
| `discard`, `mark_error` | `discard`, `mark_error` |

### Run

`tool_executor`: 3 calls, of either kind, `max_concurrency = 2`, a timeout.  Two
calls execute and one waits, which is what the limit, the order and the passes
are about.  Deadlock is checked.

- `TypeOK` with the limit; `QueuedHasDriver`; `StartedInOrder`;
- `NonSafeInOrder`: no result is handed out before that of an earlier non-safe
  call.  The module doc (lines 6-7) promises the order of all calls; the code
  gives it only behind non-safe ones, as the comment in `completed_results` says;
- `AloneUnlessSamePass`: a non-safe tool has company only if one pass started
  both, or if one of them has timed out;
- `SleepsOnlyIfMissed`: `wait_for_remaining` sleeps with everything finished only
  if the notification fell between its look at the statuses and its `notified()`;
- `NoneLetThroughAfterDiscard`: after `discard()` no tool starts but those of calls
  whose task had passed the look at the flag, or never looks at it.  `discard()`
  finishes what is queued and leaves what is in progress alone, although its
  comment (line 253) says "Discard all pending and in-progress tools"; a call that
  is marked executing may even start its tool afterwards;
- `EveryCallAnswered`: all calls finish, again and again, under weak fairness of
  each task.  The timer and tokio give that; nothing is assumed of the tools.

### Findings

`tool_exclusive` (3 calls, no timeout): a pass chooses the calls to start from the
statuses before it marks any as executing, so that it starts a non-safe call
together with its neighbours when nothing executes.  `NonSafeAlone`, the "exclusive
access" of the module doc, is violated; `AloneUnlessSamePass` says what is left of
it.

`tool_wait` (1 call): `notify_waiters` wakes only who is listening, and
`wait_for_remaining` starts to listen after it has released the lock under which it
looked.  A notification in between is lost, and `WaitReturns` is violated although
every task and the waiter itself are scheduled fairly (`FairWaitSpec`).
`SleepsOnlyIfMissed` says that nothing else keeps it asleep.

### Theorems

`ToolExecutorProofs` proves, for any number of calls, any limit, with and
without a timeout (`ExecutorAssumption`): `TypeCorrect`, `DriverCorrect`,
`OrderCorrect`, `ResultsCorrect`, `AloneCorrect`, `WakeUpCorrect` and
`DiscardCorrect`, from `Invariance`.  No fairness is used.

The argument is about one pass.  `ChosenAllowed` says that a pass takes a prefix
of the queue and nothing that may not run beside what executes, `ChosenFit` that
it keeps the limit (by the last call it takes), `ChosenWhenIdle` that it takes
something when nothing executes (the first call of the queue).  `PassKeeps`
combines them for any statuses, because `add_tool` queues a call before its pass
begins.  `IInv` adds to the properties what ties the pieces of state together: a
call executes exactly while its task has no result (`Linked`), the calls present
are the first ones (`Present`), executing calls with a non-safe one among them
come from one pass (`LeadsAgree`), `discard()` leaves the queue empty
(`Drained`), and the wake-up argument also holds between the look and the
listening (`WakeUpDue`).

## 9. What is only model-checked

Liveness (`PendingDispatched`, `SilentRunnerReaped`, `RecoveredFlushed`,
`EveryCallAnswered`): fairness and `ENABLED` are beyond the proof system.  The five
properties that the code violates are counterexamples of TLC.  Every other
property of a run is a theorem as well; inductive invariants were checked by TLC
on the instances above before they were proved.

## 10. What is not modelled

- The recovery of the registry from its snapshot (`RegistryRecovery` in the plan)
  and stream tickets.
- Two runners together with the registry: each is modelled alone, and the product
  is beyond what TLC explores; the hazards that need it say so.
- On the runner: the command stream over WebSocket (it carries the same commands
  as the poll), artifact upload, the direct-connect stream, the bound of the
  input channel of an agent.
- Artifacts and push tokens: insert-only maps that no modelled operation reads.
- Tenants (`owner_user_id`): a filter on reads that changes no state.
- Rate limiting, metrics, TLS, QUIC framing, downloads: I/O and counters.
- `rc-remote-transport` and `rc-agent-protocol`: the offline queue and the fields
  of the hybrid transport are used by no other module; reconnect, restart and
  health are counters of one task.
- The Claude agent beyond its tool executor, the Roo agent, adapters and user
  interfaces: local to one process, dominated by calls to model providers and by
  rendering.
