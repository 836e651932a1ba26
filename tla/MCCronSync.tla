----------------------------- MODULE MCCronSync -----------------------------
(* Small instances of CronSync for TLC. *)
EXTENDS CronSync, TLC

CONSTANTS v1, v2, d1, f1, f2, p1, p2

SyncSymmetry == Permutations(Pushes) \cup Permutations(Jobs)
=============================================================================
