----------------------------- MODULE MCSweeper -----------------------------
(* Instances of Sweeper for TLC. *)
EXTENDS Sweeper, TLC

Symmetry == Permutations(Message) \cup Permutations(Sweep)
=============================================================================
