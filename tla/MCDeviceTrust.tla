----------------------------- MODULE MCDeviceTrust -----------------------------
(* Instances of DeviceTrust for TLC. *)
EXTENDS DeviceTrust, TLC

CONSTANTS t1, t2

TaskSymmetry == Permutations(Tasks)
=============================================================================
