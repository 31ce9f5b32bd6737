------------------------------ MODULE MCEngine ------------------------------
(* Instances of Engine over the DynamoDB circuit rows, for TLC. *)
EXTENDS DynamoCircuit, TLC

OneEndpoint == [m \in Message |-> CHOOSE e \in Endpoint : TRUE]

OneRetry == <<1>>

ImmediateRetry == <<0>>

OneTick == {1}

Symmetry == Permutations(Message) \cup Permutations(Worker)
=============================================================================
