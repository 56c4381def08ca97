---------------------------- MODULE MCRunnerHost -----------------------------
(* Values for RunnerHost: one session makes all the requests. *)
EXTENDS RunnerHost

CONSTANTS s1

AllOfFirst == [r \in Requests |-> s1]
=============================================================================
