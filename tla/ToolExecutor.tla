---------------------------- MODULE ToolExecutor -----------------------------
(***************************************************************************)
(* StreamingToolExecutor of the Claude agent's tools: tool calls are added *)
(* as the model's answer streams in, run when the concurrency rules allow, *)
(* and their results are collected while others still run.                 *)
(*                                                                         *)
(* The tools are numbered in the order of the Vec; the identifier of a     *)
(* call is its number, so calls have distinct identifiers as the provider  *)
(* gives them.  An action is one lock scope, or the stretch of code        *)
(* between two of them.  A result is stored together with the status       *)
(* Completed and taken together with Yielded, so the status stands for     *)
(* both; which result it is makes no difference here.  The tool itself     *)
(* runs in a task of its own, which the executor stops awaiting at the     *)
(* timeout but does not stop.                                              *)
(***************************************************************************)
EXTENDS Naturals, FiniteSets

CONSTANTS
    MaxTools,        \* bound: calls added
    max_concurrency,
    HasTimeout       \* config.timeout is Some

ASSUME ExecutorAssumption ==
    /\ MaxTools \in Nat
    /\ max_concurrency \in Nat \ {0}
    /\ HasTimeout \in BOOLEAN

VARIABLES
    added,        \* number of calls in state.tools
    safe,         \* is_concurrency_safe of each call
    status,       \* ToolStatus of each call, or "absent"
    task,         \* what the task spawned for it does next
    body,         \* calls whose tool is running
    discarded, has_errored,
    waiter,       \* where a call of wait_for_remaining is
    missed,       \* history: a notification came while the waiter was not listening
    lead          \* history: the first call of the pass that dispatched a call

vars == <<added, safe, status, task, body, discarded, has_errored,
          waiter, missed, lead>>
flags == <<discarded, has_errored>>
waitVars == <<waiter, missed>>

Tools == 1 .. MaxTools
Statuses == {"absent", "Queued", "Executing", "Completed", "Yielded"}
Steps == {"none", "check", "check_error", "start", "running", "store", "dispatch",
          "notify", "done"}
WaiterSteps == {"idle", "check", "unlocked", "listening", "collect"}

ExecutorInit ==
    /\ added = 0
    /\ safe = [i \in Tools |-> FALSE]
    /\ status = [i \in Tools |-> "absent"]
    /\ task = [i \in Tools |-> "none"]
    /\ body = {}
    /\ discarded = FALSE
    /\ has_errored = FALSE
    /\ waiter = "idle"
    /\ missed = FALSE
    /\ lead = [i \in Tools |-> 0]

-----------------------------------------------------------------------------
(* Dispatching.  Both passes (try_dispatch and dispatch_queued) choose the *)
(* calls to start from the statuses before the pass, then mark them.       *)

In(st, s) == {i \in Tools : st[i] = s}

can_execute_IgnoresRunning(is_safe, st, sf) == is_safe \/ In(st, "Executing") = {}

can_execute(is_safe, st, sf) ==
    \/ In(st, "Executing") = {}
    \/ is_safe /\ \A j \in In(st, "Executing") : sf[j]

\* The loop goes through the queue in order, skips a safe call that cannot run
\* and ends at a non-safe one that cannot or when the limit is reached.
Blocked(i, st, sf) ==
    \/ ~can_execute(sf[i], st, sf)
    \/ \E j \in In(st, "Queued") : j < i /\ ~sf[j] /\ ~can_execute(FALSE, st, sf)

Ahead(i, st) == {j \in In(st, "Queued") : j < i}

to_dispatch_OneMore(st, sf) ==
    {i \in In(st, "Queued") :
        /\ ~Blocked(i, st, sf)
        /\ Cardinality(In(st, "Executing")) + Cardinality(Ahead(i, st)) <= max_concurrency}

to_dispatch_NoBreak(st, sf) ==
    {i \in In(st, "Queued") :
        /\ can_execute(sf[i], st, sf)
        /\ Cardinality(In(st, "Executing"))
             + Cardinality({j \in Ahead(i, st) : can_execute(sf[j], st, sf)}) < max_concurrency}

to_dispatch(st, sf) ==
    {i \in In(st, "Queued") :
        /\ ~Blocked(i, st, sf)
        /\ Cardinality(In(st, "Executing")) + Cardinality(Ahead(i, st)) < max_concurrency}

Pass(st, sf, tk, first) ==
    LET go == to_dispatch(st, sf) IN
    /\ status' = [i \in Tools |-> IF i \in go THEN "Executing" ELSE st[i]]
    /\ lead' = [i \in Tools |->
                  IF i \in go THEN CHOOSE k \in go : \A j \in go : k <= j ELSE lead[i]]
    /\ task' = [i \in Tools |-> IF i \in go THEN first ELSE tk[i]]

-----------------------------------------------------------------------------
(* The executor's operations. *)

\* After discard() it returns at once.
add_tool(is_safe) ==
    LET i == added + 1 IN
    /\ added < MaxTools
    /\ ~discarded
    /\ added' = i
    /\ safe' = [safe EXCEPT ![i] = is_safe]
    /\ Pass([status EXCEPT ![i] = "Queued"], safe', task, "check")
    /\ UNCHANGED <<body, flags, waitVars>>

notify_waiters ==
    /\ waiter' = IF waiter = "listening" THEN "check" ELSE waiter
    /\ missed' = (missed \/ waiter = "unlocked")

\* Calls in progress go on, and their tools too.
discard ==
    /\ discarded' = TRUE
    /\ status' = [i \in Tools |-> IF status[i] = "Queued" THEN "Completed" ELSE status[i]]
    /\ notify_waiters
    /\ UNCHANGED <<added, safe, task, body, has_errored, lead>>

mark_error ==
    /\ has_errored' = TRUE
    /\ UNCHANGED <<added, safe, status, task, body, discarded, waitVars, lead>>

Collectable_NoBreak == In(status, "Completed")

\* The calls whose results completed_results hands out: it goes through them
\* in order and ends at a non-safe call that is executing.
Collectable ==
    {i \in In(status, "Completed") :
        \A j \in In(status, "Executing") : j < i => safe[j]}

Collect ==
    /\ status' = [i \in Tools |-> IF i \in Collectable THEN "Yielded" ELSE status[i]]
    /\ UNCHANGED <<added, safe, task, body, flags, lead>>

completed_results ==
    /\ Collect
    /\ UNCHANGED waitVars

-----------------------------------------------------------------------------
(* wait_for_remaining: it looks at the statuses under the lock, and only   *)
(* then starts to listen for the next notification.                        *)

AllDone == \A i \in 1 .. added : status[i] \in {"Completed", "Yielded"}

BeginWait ==
    /\ waiter = "idle"
    /\ waiter' = "check"
    /\ UNCHANGED <<added, safe, status, task, body, flags, missed, lead>>

CheckAllDone ==
    /\ waiter = "check"
    /\ waiter' = IF AllDone THEN "collect" ELSE "unlocked"
    /\ missed' = FALSE
    /\ UNCHANGED <<added, safe, status, task, body, flags, lead>>

Listen ==
    /\ waiter = "unlocked"
    /\ waiter' = "listening"
    /\ UNCHANGED <<added, safe, status, task, body, flags, missed, lead>>

EndWait ==
    /\ waiter = "collect"
    /\ Collect
    /\ waiter' = "idle"
    /\ UNCHANGED missed

-----------------------------------------------------------------------------
(* The task spawned for call i.  The one spawned by try_dispatch looks at  *)
(* the two flags first; the one spawned by dispatch_queued does not.       *)

Goes(i, from, to) ==
    /\ task[i] = from
    /\ task' = [task EXCEPT ![i] = to]

CheckDiscarded_Ignored(i) ==
    /\ Goes(i, "check", "check_error")
    /\ UNCHANGED <<added, safe, status, body, flags, waitVars, lead>>

CheckDiscarded(i) ==
    /\ Goes(i, "check", IF discarded THEN "store" ELSE "check_error")
    /\ UNCHANGED <<added, safe, status, body, flags, waitVars, lead>>

CheckErrored(i) ==
    /\ Goes(i, "check_error", IF has_errored THEN "store" ELSE "start")
    /\ UNCHANGED <<added, safe, status, body, flags, waitVars, lead>>

StartTool(i) ==
    /\ Goes(i, "start", "running")
    /\ body' = body \cup {i}
    /\ UNCHANGED <<added, safe, status, flags, waitVars, lead>>

\* The tool returns; a panic arrives as an error.  Nobody awaits the tool of a
\* call that timed out.
ToolReturns(i) ==
    /\ i \in body
    /\ body' = body \ {i}
    /\ task' = [task EXCEPT ![i] = IF @ = "running" THEN "store" ELSE @]
    /\ UNCHANGED <<added, safe, status, flags, waitVars, lead>>

Timeout_AwaitsTool(i) ==
    /\ HasTimeout
    /\ i \notin body
    /\ Goes(i, "running", "store")
    /\ UNCHANGED <<added, safe, status, body, flags, waitVars, lead>>

Timeout(i) ==
    /\ HasTimeout
    /\ Goes(i, "running", "store")
    /\ UNCHANGED <<added, safe, status, body, flags, waitVars, lead>>

Store_NoDispatch(i) ==
    /\ Goes(i, "store", "notify")
    /\ status' = [status EXCEPT ![i] = "Completed"]
    /\ UNCHANGED <<added, safe, body, flags, waitVars, lead>>

Store(i) ==
    /\ Goes(i, "store", "dispatch")
    /\ status' = [status EXCEPT ![i] = "Completed"]
    /\ UNCHANGED <<added, safe, body, flags, waitVars, lead>>

dispatch_queued(i) ==
    /\ task[i] = "dispatch"
    /\ Pass(status, safe, [task EXCEPT ![i] = "notify"], "start")
    /\ UNCHANGED <<added, safe, body, flags, waitVars>>

Notify_IfQueued(i) ==
    /\ Goes(i, "notify", "done")
    /\ IF In(status, "Queued") = {} THEN UNCHANGED waitVars ELSE notify_waiters
    /\ UNCHANGED <<added, safe, status, body, flags, lead>>

Notify(i) ==
    /\ Goes(i, "notify", "done")
    /\ notify_waiters
    /\ UNCHANGED <<added, safe, status, body, flags, lead>>

-----------------------------------------------------------------------------
TaskStep(i) ==
    \/ CheckDiscarded(i)
    \/ CheckErrored(i)
    \/ StartTool(i)
    \/ Timeout(i)
    \/ Store(i)
    \/ dispatch_queued(i)
    \/ Notify(i)

WaitStep == CheckAllDone \/ Listen \/ EndWait

ExecutorNext ==
    \/ \E is_safe \in BOOLEAN : add_tool(is_safe)
    \/ discard
    \/ mark_error
    \/ completed_results
    \/ BeginWait
    \/ WaitStep
    \/ \E i \in Tools : TaskStep(i)
    \/ \E i \in Tools : ToolReturns(i)

ExecutorSpec == ExecutorInit /\ [][ExecutorNext]_vars

\* The runtime goes on polling every spawned task, and the timer fires.
\* Nothing is assumed of the tools, which may never return.
FairTasksSpec == ExecutorSpec /\ \A i \in Tools : WF_vars(TaskStep(i))

\* A caller of wait_for_remaining is polled again whenever it can go on.
FairWaitSpec == FairTasksSpec /\ WF_vars(WaitStep)

-----------------------------------------------------------------------------
(* Properties. *)

\* Every variable keeps its type, and never more than max_concurrency calls
\* execute, whoever runs the passes that start them.
TypeOK ==
    /\ added \in 0 .. MaxTools
    /\ safe \in [Tools -> BOOLEAN]
    /\ status \in [Tools -> Statuses]
    /\ task \in [Tools -> Steps]
    /\ body \subseteq Tools
    /\ discarded \in BOOLEAN
    /\ has_errored \in BOOLEAN
    /\ waiter \in WaiterSteps
    /\ missed \in BOOLEAN
    /\ lead \in [Tools -> 0 .. MaxTools]
    /\ Cardinality(In(status, "Executing")) <= max_concurrency

\* A call waiting for its turn always has somebody who will give it one: while
\* a call is queued another is executing, or the task of one that has just
\* finished is about to run dispatch_queued.
QueuedHasDriver ==
    In(status, "Queued") # {} =>
        \/ In(status, "Executing") # {}
        \/ \E i \in Tools : task[i] = "dispatch"

\* However passes by add_tool and by finishing tasks follow each other, a call
\* never overtakes one that was received before it: what is queued comes after
\* everything that has started.
StartedInOrder ==
    \A i, j \in Tools :
        i < j /\ status[i] = "Queued" => status[j] \in {"absent", "Queued"}

\* completed_results never hands out the result of a call while that of an
\* earlier non-safe call is outstanding.
NonSafeInOrder ==
    \A i, j \in Tools :
        i < j /\ ~safe[i] /\ status[j] = "Yielded" => status[i] = "Yielded"

\* "non-safe tools require exclusive access": while a non-safe tool runs no
\* other does.  It is violated.
NonSafeAlone ==
    \A i, j \in body : i # j => safe[i] /\ safe[j]

\* There are two ways for a non-safe tool to run next to another one: a single
\* pass dispatched both, or one of the two is the tool of a call given up at
\* its timeout.  Calls started by different passes exclude each other.
AloneUnlessSamePass ==
    \A i, j \in body :
        i # j /\ ~safe[i] =>
            lead[i] = lead[j] \/ task[i] # "running" \/ task[j] # "running"

\* "Wait until all tools have finished and return all remaining results": a
\* call of wait_for_remaining returns.  It is violated.
WaitReturns == waiter # "idle" ~> waiter = "idle"

\* There is one way for wait_for_remaining to sleep on when every call has
\* finished and nobody is left to wake it: a notification came between its
\* look at the statuses and the moment it began to listen.
SleepsOnlyIfMissed ==
    waiter = "listening" /\ AllDone =>
        missed \/ \E i \in Tools : task[i] \in {"dispatch", "notify"}

\* Calls whose tool runs, or that nothing but an earlier error keeps from
\* running it: their task is past its look at the discarded flag, or is one of
\* those that do not look at it.
LetThrough == body \cup {i \in Tools : task[i] \in {"check_error", "start"}}

\* discard() does not stop what is in progress, but no tool joins it: a tool
\* that starts after discard() is that of a call whose task was let through
\* before.  Tasks spawned by dispatch_queued do not look at the flag, so this
\* rests on discard() emptying the queue.
NoneLetThroughAfterDiscard ==
    [][discarded => LetThrough' \subseteq LetThrough]_vars

\* Every call that was added gets its result, whatever the tools do, because
\* each one that runs is given up at the timeout: again and again, and so for
\* good once no call is added, all of them have finished.
EveryCallAnswered == []<>AllDone
=============================================================================
