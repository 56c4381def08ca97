-------------------------- MODULE MCSessionRegistry --------------------------
(* Instances of SessionRegistry for TLC. *)
EXTENDS SessionRegistry, TLC

CONSTANTS t1, t2

\* Every session may run on every runner; one session per runner.
EveryRunner == [s \in Sessions |-> Runners]
OneEach == [r \in Runners |-> 1]

Beat(state, active, age) ==
    [state |-> state, active |-> active, queued |-> 0, age |-> age]

\* What a runner reports before it took up an assignment, with the right clock,
\* and after, with a clock that is more than three leases behind.
Beats == {Beat("Idle", 0, 0), Beat("Busy", 1, MaxAge)}

TaskSymmetry == Permutations(Tasks)
=============================================================================
