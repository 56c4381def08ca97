-------------------------- MODULE MCRegistryLiveness --------------------------
(* Instance of RegistryLiveness for TLC. *)
EXTENDS RegistryLiveness

EveryRunner == [s \in Sessions |-> Runners]
TwoEach == [r \in Runners |-> 2]
Beats == {[state |-> "Idle", active |-> 0, queued |-> 0, age |-> 0]}
=============================================================================
