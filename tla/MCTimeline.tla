------------------------------ MODULE MCTimeline ------------------------------
(* Instances of Timeline for TLC. *)
EXTENDS Timeline, TLC

CONSTANTS p1, p2, v1, v2

\* Stream 1 shows one topic, any other stream shows all of them.
FollowsSome == [c \in Clients |-> IF c = 1 THEN {"session"} ELSE Topics]

\* A client that asks for no backlog, for all events, for all but the first.
NoneOrEarly == {NoAfter, 0, 1}

TaskSymmetry == Permutations(Publishers) \cup Permutations(Savers)
=============================================================================
