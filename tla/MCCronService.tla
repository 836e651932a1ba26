---------------------------- MODULE MCCronService ----------------------------
(* Small instances of CronService for TLC. *)
EXTENDS CronService, TLC

CONSTANTS t1, t2, i1, i2

TaskSymmetry == Permutations(Tasks)

\* BOUND: at most three changes, runs by hand, failed writes and restarts together.
FewEvents == changes' + byHand' + faults' + stops' <= 3
=============================================================================
