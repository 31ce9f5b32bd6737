--------------------------- MODULE DynamoCircuit ---------------------------
(***************************************************************************)
(* Engine over the circuit rows of DynamoStateStore                        *)
(* (packages/aws/src/state-dynamo.ts).  putCircuit is two calls there: it  *)
(* reads the row's _version, then puts the record on the condition that    *)
(* the version is still that one, and throws when it is not.  All other    *)
(* steps are those of Engine, which putCircuit implements.                 *)
(***************************************************************************)
EXTENDS Engine

CONSTANTS NoVersion,    \* expectedVersion before putCircuit has read it
          MaxVersion    \* bound: writes of one circuit row

ASSUME DynamoAssumption == NoVersion \notin Nat /\ MaxVersion \in Nat

VARIABLES version,   \* _version of each circuit row; 0 while the row has none
          expected   \* the version each putCircuit call has read

dynamo == <<version, expected>>

DynamoTypeOK ==
    /\ version \in [Endpoint -> 0..MaxVersion]
    /\ expected \in [Worker -> (0..MaxVersion) \cup {NoVersion}]

InPutCircuit(w) == pc[w] \in {"putHalfOpen", "putCircuit"}

DynamoInit ==
    /\ Init
    /\ version = [e \in Endpoint |-> 0]
    /\ expected = [w \in Worker |-> NoVersion]

\* The consistent read of the row's version.
ReadVersion(w) ==
    /\ InPutCircuit(w)
    /\ expected[w] = NoVersion
    /\ expected' = [expected EXCEPT ![w] = version[EndpointAt(w)]]
    /\ UNCHANGED <<vars, version>>

\* MUTANT of PutItem: the put carries no condition.
PutItemUnconditionally(w) ==
    /\ InPutCircuit(w)
    /\ expected[w] # NoVersion /\ expected[w] < MaxVersion
    /\ PutHalfOpen(w) \/ PutCircuit(w)
    /\ version' = [version EXCEPT ![EndpointAt(w)] = expected[w] + 1]
    /\ expected' = [expected EXCEPT ![w] = NoVersion]

\* The conditional put finds the version it expects.
PutItem(w) ==
    /\ InPutCircuit(w)
    /\ expected[w] = version[EndpointAt(w)] /\ expected[w] < MaxVersion
    /\ PutHalfOpen(w) \/ PutCircuit(w)
    /\ version' = [version EXCEPT ![EndpointAt(w)] = expected[w] + 1]
    /\ expected' = [expected EXCEPT ![w] = NoVersion]

\* MUTANT of WriteConflict: the conflict is swallowed and the message acknowledged.
WriteConflictSwallowed(w) ==
    /\ InPutCircuit(w)
    /\ expected[w] \notin {NoVersion, version[EndpointAt(w)]}
    /\ Return(w)
    /\ expected' = [expected EXCEPT ![w] = NoVersion]
    /\ UNCHANGED <<transit, stores, live, bounds, received, version>>

\* The condition fails: CircuitWriteConflictError ends the processMessage call.
WriteConflict(w) ==
    /\ InPutCircuit(w)
    /\ expected[w] \notin {NoVersion, version[EndpointAt(w)]}
    /\ Conflict(w)
    /\ expected' = [expected EXCEPT ![w] = NoVersion]
    /\ UNCHANGED version

OtherStep(w) == ~InPutCircuit(w) /\ Step(w) /\ UNCHANGED dynamo

FailedCall(w) ==
    /\ Fail(w)
    /\ expected' = [expected EXCEPT ![w] = NoVersion]
    /\ UNCHANGED version

DynamoStep(w) == OtherStep(w) \/ ReadVersion(w) \/ PutItem(w) \/ WriteConflict(w)

Surroundings ==
    /\ \/ \E w \in Worker : Redeliver(w)
       \/ \E m \in Message, n \in AttemptNo : Release(m, n)
       \/ \E e \in Endpoint : SetEndpoint(e)
       \/ Tick
    /\ UNCHANGED dynamo

DynamoNext ==
    \/ \E w \in Worker : DynamoStep(w) \/ FailedCall(w)
    \/ Surroundings

dynamoVars == <<vars, dynamo>>

DynamoSpec == DynamoInit /\ [][DynamoNext]_dynamoVars

-----------------------------------------------------------------------------
\* The store implements the engine's view of it: a putCircuit that succeeds
\* is one write, one that meets a conflict is a call that failed, and every
\* guarantee of Engine holds over DynamoDB (state-dynamo.ts 273-294).
ImplementsEngine == Spec

\* The worker whose putCircuit writes the row in this step.
Writes(w) == InPutCircuit(w) /\ pc'[w] \notin {pc[w], "idle"}

\* Every write of a circuit row raises its version, so none goes unseen by a
\* putCircuit that read the version before it: two calls that read one
\* version never both write (state-dynamo.ts 277-289).
EveryWriteRaisesVersion ==
    [][\A w \in Worker : Writes(w) =>
            version'[EndpointAt(w)] > version[EndpointAt(w)]]_dynamoVars
=============================================================================
