------------------------------ MODULE Breaker ------------------------------
(***************************************************************************)
(* The engine with a history variable that counts, per endpoint, the       *)
(* failures reported to the circuit store since the last success reported  *)
(* to it.  consecutiveFailures of the circuit record is the engine's own   *)
(* estimate of that count.                                                 *)
(***************************************************************************)
EXTENDS Engine

VARIABLE streak   \* reported failures since the last reported success, up to Threshold

\* The worker that reports the outcome of its delivery to the circuit store.
Reporting(w) == pc[w] = "putCircuit" /\ pc'[w] \notin {"putCircuit", "idle"}

CountOutcome ==
    streak' = [e \in Endpoint |->
        IF \E w \in Worker : Reporting(w) /\ EndpointAt(w) = e
        THEN IF \E w \in Worker : Reporting(w) /\ plan[w] = "delivered"
             THEN 0
             ELSE IF streak[e] < Threshold THEN streak[e] + 1 ELSE streak[e]
        ELSE streak[e]]

StreakInit == streak = [e \in Endpoint |-> 0]

\* A closed breaker opens only when Threshold failures in a row have been reported
\* (engine.ts 172-221: getCircuit, onFailure, putCircuit).
TripsOnlyAfterStreak ==
    [][\A e \in Endpoint : circuit[e].state = "closed" /\ circuit'[e].state = "open"
            => streak'[e] = Threshold]_<<vars, streak>>

\* The call has read the circuit record and not yet written what became of it.
HoldsCircuit(w) == pc[w] \in {"putHalfOpen", "putDelivering", "post", "putCircuit"}

\* Deliveries to one endpoint run one at a time, as far as the breaker can tell.
OneCallPerEndpoint ==
    \A v, w \in Worker :
        v # w /\ HoldsCircuit(v) /\ HoldsCircuit(w) => EndpointAt(v) # EndpointAt(w)

\* While they do, no copy of a circuit record is stale, and a closed record
\* counts no failure that was not reported.
CountsReported ==
    /\ streak \in [Endpoint -> 0..Threshold]
    /\ \A e \in Endpoint : circuit[e].state = "closed" => circuit[e].failures <= streak[e]
    /\ \A w \in Worker :
          /\ pc[w] = "putHalfOpen" => circ[w].state = "half-open"
          /\ pc[w] \in {"putDelivering", "post", "putCircuit"} =>
                /\ circ[w].state = circuit[EndpointAt(w)].state
                /\ circ[w].failures = circuit[EndpointAt(w)].failures
=============================================================================
