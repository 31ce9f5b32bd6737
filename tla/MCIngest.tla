------------------------------ MODULE MCIngest ------------------------------
(* Instances of Ingest for TLC. *)
EXTENDS Ingest, TLC

Symmetry == Permutations(Call) \cup Permutations(Endpoint)
=============================================================================
