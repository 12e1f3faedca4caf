---------------------------- MODULE MCCriticalPath ----------------------------
(* Small instances of CriticalPath, and of ScheduleRecalc in it, for TLC. *)
EXTENDS CriticalPath, TLC

CONSTANTS t1, t2, t3

Symmetry == Permutations(Tasks)
SmallLags == {-1, 2}
=============================================================================
