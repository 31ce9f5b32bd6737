--------------------------- MODULE DynamoBreaker ---------------------------
(* The breaker over the versioned circuit rows of DynamoStateStore. *)
EXTENDS Breaker, DynamoCircuit

DynamoBreakerSpec ==
    /\ DynamoInit /\ StreakInit
    /\ [][DynamoNext /\ CountOutcome]_<<dynamoVars, streak>>
=============================================================================
