--------------------------- MODULE MCDeliveryLog ---------------------------
\* Instance of DeliveryLog: two messages of one endpoint and one of another; two
\* were created in the same millisecond and the third is not stored yet.
\* Logs have nothing in common, so that one stands for all.
EXTENDS DeliveryLog, TLC

CONSTANTS w1, w2

MCWorker == {w1, w2}
MCMessage == 1..3
MCEndpoint == 1..2
MCEndpointOf == <<1, 2, 1>>
MCCreated == <<1, 1, 0>>
MCLog == {"attempts"}
MCAll == [endpoint |-> Unset, status |-> Unset, before |-> Unset, after |-> Unset, limit |-> Unset]
MCQuery == {MCAll,
            [MCAll EXCEPT !.limit = 2],
            [MCAll EXCEPT !.status = "pending", !.limit = 1],
            [MCAll EXCEPT !.endpoint = 1, !.before = 3, !.after = 1]}
Symmetry == Permutations(MCWorker)
=============================================================================
