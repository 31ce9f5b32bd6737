------------------------------ MODULE MCReplay -------------------------------
(* Instances of Replay for TLC. *)
EXTENDS Replay

OneEndpoint == [m \in Message |-> CHOOSE e \in Endpoint : TRUE]

OneRetry == <<1>>

OneTick == {1}
=============================================================================
