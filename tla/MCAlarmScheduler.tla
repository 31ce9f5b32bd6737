-------------------------- MODULE MCAlarmScheduler --------------------------
(* Instances of AlarmScheduler for TLC. *)
EXTENDS AlarmScheduler, TLC

Symmetry == Permutations(Retry)
=============================================================================
