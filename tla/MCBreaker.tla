------------------------------ MODULE MCBreaker ------------------------------
(* Instances of DynamoBreaker for TLC. *)
EXTENDS DynamoBreaker, TLC

OneEndpoint == [m \in Message |-> CHOOSE e \in Endpoint : TRUE]

OneRetry == <<1>>

OneTick == {1}

Symmetry == Permutations(Message) \cup Permutations(Worker)
=============================================================================
