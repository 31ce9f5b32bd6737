------------------------- MODULE EngineInUseProofs -------------------------
(***************************************************************************)
(* Proofs about the engine together with what it runs against: the         *)
(* versioned circuit rows of DynamoStateStore, the failures reported to    *)
(* the breaker and the replay calls of the portal.                         *)
(***************************************************************************)
EXTENDS EngineProofs, DynamoBreaker, Replay

\* Every step over DynamoDB is a step of the engine or leaves it unchanged.
LEMMA DynamoStepImplements ==
    ASSUME [DynamoNext]_dynamoVars
    PROVE  [Next]_vars
  <1>1. ASSUME NEW w \in Worker, DynamoStep(w)  PROVE [Next]_vars
    <2>1. CASE OtherStep(w)
      BY Zenon, <2>1 DEF OtherStep, Next, PlainNext
    <2>2. CASE ReadVersion(w)
      BY Zenon, <2>2 DEF ReadVersion
    <2>3. CASE PutItem(w)
      BY Zenon, <2>3 DEF PutItem, Next, PlainNext, Step
    <2>4. CASE WriteConflict(w)
      BY Zenon, <2>4 DEF WriteConflict, Next, PlainNext
    <2> QED  BY Zenon, <1>1, <2>1, <2>2, <2>3, <2>4 DEF DynamoStep
  <1>2. ASSUME NEW w \in Worker, FailedCall(w)  PROVE [Next]_vars
    BY Zenon, <1>2 DEF FailedCall, Next, PlainNext
  <1>3. CASE Surroundings
    BY Zenon, <1>3 DEF Surroundings, Next, PlainNext
  <1>4. CASE UNCHANGED dynamoVars
    BY Zenon, <1>4 DEF dynamoVars
  <1> QED  BY Zenon, <1>1, <1>2, <1>3, <1>4 DEF DynamoNext

\* The engine over DynamoDB implements Engine: reading a version is invisible,
\* a conditional put that succeeds is one write and one that does not is a
\* failed call.
THEOREM DynamoImplementsEngine == DynamoSpec => ImplementsEngine
  <1>1. DynamoInit => Init
    BY DEF DynamoInit
  <1> QED
    BY <1>1, DynamoStepImplements, PTL DEF DynamoSpec, ImplementsEngine, Spec

\* A message nobody works on is settled truthfully over DynamoDB too.
THEOREM DynamoSettlesTruthfully == DynamoSpec => []SettledTruthfully
  BY DynamoImplementsEngine, MessagesSettledTruthfully, PTL DEF ImplementsEngine

\* The versions read and stored are numbers within the bound.
LEMMA DynamoTyped == DynamoSpec => [](TypeInv /\ DynamoTypeOK)
  <1>1. DynamoInit => DynamoTypeOK
    BY DynamoAssumption DEF DynamoInit, DynamoTypeOK
  <1>2. TypeInv /\ DynamoTypeOK /\ [DynamoNext]_dynamoVars => DynamoTypeOK'
    <2> SUFFICES ASSUME TypeInv, DynamoTypeOK, [DynamoNext]_dynamoVars  PROVE DynamoTypeOK'
      OBVIOUS
    <2>1. ASSUME NEW w \in Worker, PutItem(w)  PROVE DynamoTypeOK'
      <3>1. EndpointAt(w) \in Endpoint
        BY <2>1, EngineAssumption DEF PutItem, InPutCircuit, TypeInv, TypeOK, EndpointAt
      <3>2. expected[w] + 1 \in 0..MaxVersion
        BY <2>1, <3>1, DynamoAssumption DEF PutItem, DynamoTypeOK
      <3> QED  BY Zenon, <2>1, <3>2 DEF PutItem, DynamoTypeOK
    <2>2. ASSUME NEW w \in Worker, ReadVersion(w)  PROVE DynamoTypeOK'
      <3>1. version[EndpointAt(w)] \in 0..MaxVersion
        BY <2>2, EngineAssumption
           DEF ReadVersion, InPutCircuit, TypeInv, TypeOK, EndpointAt, DynamoTypeOK
      <3> QED  BY Zenon, <2>2, <3>1 DEF ReadVersion, DynamoTypeOK
    <2>3. ASSUME NEW w \in Worker, OtherStep(w) \/ WriteConflict(w) \/ FailedCall(w)
          PROVE  DynamoTypeOK'
      BY Zenon, <2>3 DEF OtherStep, WriteConflict, FailedCall, DynamoTypeOK, dynamo
    <2>4. CASE Surroundings \/ UNCHANGED dynamoVars
      BY Zenon, <2>4 DEF Surroundings, DynamoTypeOK, dynamoVars, dynamo
    <2> QED
      BY Zenon, <2>1, <2>2, <2>3, <2>4 DEF DynamoNext, DynamoStep
  <1>3. DynamoSpec => []TypeInv
    BY DynamoImplementsEngine, TypeInvariant, PTL DEF ImplementsEngine
  <1> QED  BY <1>1, <1>2, <1>3, PTL DEF DynamoSpec

\* Two putCircuit calls that read one version of a row never both write it.
THEOREM WritesRaiseVersion == DynamoSpec => EveryWriteRaisesVersion
  <1>1. ASSUME TypeInv, DynamoTypeOK, DynamoNext, NEW w \in Worker, Writes(w)
        PROVE  version'[EndpointAt(w)] > version[EndpointAt(w)]
    <2>1. pc \in [Worker -> PC] /\ EndpointAt(w) \in Endpoint /\ version \in [Endpoint -> 0..MaxVersion]
      BY <1>1, EngineAssumption
         DEF Writes, InPutCircuit, TypeInv, TypeOK, EndpointAt, DynamoTypeOK
    <2>2. ASSUME NEW v \in Worker, PutItem(v)  PROVE v = w
      BY Zenon, <1>1, <2>1, <2>2 DEF Writes, PutItem, PutHalfOpen, PutCircuit, Goto
    <2>3. ~Surroundings
      BY Zenon, <1>1 DEF Surroundings, Writes, Redeliver, Release, SetEndpoint, Tick
    <2>4. ASSUME NEW v \in Worker, ReadVersion(v) \/ WriteConflict(v) \/ FailedCall(v)
          PROVE  FALSE
      BY Zenon, <1>1, <2>1, <2>4
         DEF Writes, ReadVersion, WriteConflict, FailedCall, Conflict, Fail, Abandon, Free, Goto, vars
    <2>5. ASSUME NEW v \in Worker, OtherStep(v)  PROVE FALSE
      BY Zenon, <1>1, <2>1, <2>5
         DEF Writes, OtherStep, InPutCircuit, Step, Receive, GetEndpoint, RateGate, GetCircuit,
             PutHalfOpen, PutDelivering, Post, PutCircuit, PutDelivered, LogDelivered, PutDead,
             LogDead, AddToDlq, LogRetried, PutRetrying, PutParked, ScheduleRetry, Ack,
             Goto, Return, Free
    <2>6. PutItem(w)
      BY Zenon, <1>1, <2>2, <2>3, <2>4, <2>5 DEF DynamoNext, DynamoStep
    <2> QED  BY <2>1, <2>6 DEF PutItem
  <1>2. TypeInv /\ DynamoTypeOK /\ [DynamoNext]_dynamoVars
          => [\A w \in Worker : Writes(w) =>
                version'[EndpointAt(w)] > version[EndpointAt(w)]]_dynamoVars
    BY Zenon, <1>1
  <1> QED  BY DynamoTyped, <1>2, PTL DEF DynamoSpec, EveryWriteRaisesVersion

(***************************************************************************)
(* The breaker trips only after a streak of reported failures, as long as  *)
(* the deliveries to an endpoint run one at a time.                        *)
(***************************************************************************)
\* What a step may do to a breaker that is closed.
TripAfterStreak ==
    \A e \in Endpoint : circuit[e].state = "closed" /\ circuit'[e].state = "open"
        => streak'[e] = Threshold

\* Nobody reports: the streaks stay.
LEMMA NoReport ==
    ASSUME streak \in [Endpoint -> 0..Threshold], CountOutcome, \A v \in Worker : ~Reporting(v)
    PROVE  streak' = streak
  BY DEF CountOutcome

\* The one worker that reports moves the streak of its endpoint, and no other.
LEMMA OneReport ==
    ASSUME streak \in [Endpoint -> 0..Threshold], CountOutcome,
           NEW w \in Worker, Reporting(w), \A v \in Worker : Reporting(v) => v = w,
           NEW e \in Endpoint
    PROVE  streak'[e] = IF e # EndpointAt(w) THEN streak[e]
                        ELSE IF plan[w] = "delivered" THEN 0
                        ELSE IF streak[e] < Threshold THEN streak[e] + 1 ELSE streak[e]
  BY Zenon DEF CountOutcome

\* What one more failure makes of a record that is not stale.
LEMMA FailureCounted ==
    ASSUME NEW rec \in CircuitRecord, NEW cur \in CircuitRecord, Consistent(cur),
           rec.state = cur.state, rec.failures = cur.failures,
           NEW s \in 0..Threshold, cur.state = "closed" => cur.failures <= s,
           NEW t, t = IF s < Threshold THEN s + 1 ELSE s
    PROVE  /\ t \in 0..Threshold
           /\ onFailure(rec).state = "closed" => onFailure(rec).failures <= t
           /\ cur.state = "closed" /\ onFailure(rec).state = "open" => t = Threshold
  BY PolicyAssumption DEF Consistent, CircuitRecord, CircuitState, onFailure

\* A step that reports nothing and changes no record but for its cooldown; a call
\* that still holds a copy of one held the same copy before.
LEMMA CountsFrame ==
    ASSUME CountsReported, streak' = streak,
           \A e \in Endpoint : /\ circuit'[e].state = circuit[e].state
                               /\ circuit'[e].failures = circuit[e].failures,
           \A v \in Worker : msg'[v] \in Message \/ ~HoldsCircuit(v)',
           \A v \in Worker :
              \/ ~HoldsCircuit(v)'
              \/ /\ circ'[v] = circ[v] /\ msg'[v] = msg[v]
                 /\ \/ pc'[v] = pc[v]
                    \/ pc[v] \in {"putDelivering", "post"} /\ pc'[v] \in {"post", "putCircuit"}
    PROVE  CountsReported' /\ TripAfterStreak
  <1>1. /\ streak' \in [Endpoint -> 0..Threshold] /\ TripAfterStreak
        /\ \A e \in Endpoint : circuit'[e].state = "closed" => circuit'[e].failures <= streak'[e]
    BY Zenon DEF CountsReported, TripAfterStreak
  <1>2. ASSUME NEW v \in Worker
        PROVE  /\ pc'[v] = "putHalfOpen" => circ'[v].state = "half-open"
               /\ pc'[v] \in {"putDelivering", "post", "putCircuit"} =>
                     /\ circ'[v].state = circuit'[EndpointAt(v)'].state
                     /\ circ'[v].failures = circuit'[EndpointAt(v)'].failures
    <2>1. CASE ~HoldsCircuit(v)'
      BY Zenon, <2>1 DEF HoldsCircuit
    <2>2. CASE HoldsCircuit(v)'
      <3>1. EndpointAt(v)' = EndpointAt(v) /\ EndpointAt(v) \in Endpoint
        BY <2>2, EngineAssumption DEF EndpointAt
      <3>2. /\ pc'[v] = "putHalfOpen" => pc[v] = "putHalfOpen"
            /\ pc'[v] \in {"putDelivering", "post", "putCircuit"}
                  => pc[v] \in {"putDelivering", "post", "putCircuit"}
        BY Zenon, <2>2
      <3>3. /\ circuit'[EndpointAt(v)].state = circuit[EndpointAt(v)].state
            /\ circuit'[EndpointAt(v)].failures = circuit[EndpointAt(v)].failures
            /\ circ'[v] = circ[v]
        BY Zenon, <2>2, <3>1
      <3> QED  BY <3>1, <3>2, <3>3 DEF CountsReported
    <2> QED  BY <2>1, <2>2
  <1> QED  BY Zenon, <1>1, <1>2 DEF CountsReported

\* A step leaves the circuit copies of the other calls alone.
LEMMA StepCircs ==
    ASSUME TypeInv, NEW w \in Worker, Step(w), NEW v \in Worker, v # w
    PROVE  circ'[v] = circ[v]
  <1>0. circ \in [Worker -> CircuitRecord]
    BY DEF TypeInv, TypeOK
  <1> QED
    BY Zenon, <1>0 DEF Step, Receive, GetEndpoint, RateGate, GetCircuit, PutHalfOpen,
         PutDelivering, Post, PutCircuit, PutDelivered, LogDelivered, PutDead, LogDead, AddToDlq,
         LogRetried, PutRetrying, PutParked, ScheduleRetry, Ack, Return, Free, Forget, locals

\* Only PutCircuit reports an outcome.
LEMMA WhoReports ==
    ASSUME TypeInv, NEW w \in Worker, Step(w), NEW v \in Worker, Reporting(v)
    PROVE  v = w /\ PutCircuit(w)
  <1>1. v = w
    BY Zenon, StepGrows DEF Reporting
  <1>2. pc[w] = "putCircuit"
    BY <1>1 DEF Reporting
  <1>3. PutCircuit(w)
    BY <1>2 DEF Step, Receive, GetEndpoint, RateGate, GetCircuit, PutHalfOpen,
         PutDelivering, Post, PutDelivered, LogDelivered, PutDead, LogDead, AddToDlq,
         LogRetried, PutRetrying, PutParked, ScheduleRetry, Ack
  <1> QED  BY <1>1, <1>3

\* A call keeps the copy it read at the gate while it delivers.
LEMMA CountsDelivering ==
    ASSUME TypeInv, CountsReported, NEW w \in Worker, Step(w), CountOutcome,
           ~(GetCircuit(w) \/ PutHalfOpen(w) \/ PutCircuit(w))
    PROVE  CountsReported' /\ TripAfterStreak
  <1>0. pc \in [Worker -> PC] /\ msg \in [Worker -> Message \cup {NoMessage}]
    BY StepTypes
  <1>1. streak' = streak
    BY WhoReports, NoReport DEF CountsReported
  <1>2. circuit' = circuit
    BY Zenon DEF Step, Receive, GetEndpoint, RateGate, PutDelivering, Post, PutDelivered,
       LogDelivered, PutDead, LogDead, AddToDlq, LogRetried, PutRetrying, PutParked,
       ScheduleRetry, Ack, stores
  <1>3. CASE PutDelivering(w) \/ Post(w)
    <2>1. /\ circ'[w] = circ[w] /\ msg'[w] = msg[w] /\ msg[w] \in Message
          /\ pc[w] \in {"putDelivering", "post"} /\ pc'[w] \in {"post", "putCircuit"}
      BY Zenon, <1>0, <1>3, StepTypes DEF PutDelivering, Post, Goto, locals, job
    <2>2. \A v \in Worker : v # w => UNCHANGED <<circ[v], msg[v], pc[v]>>
      BY StepCircs, StepGrows
    <2>3. \A v \in Worker : HoldsCircuit(v)' => msg'[v] \in Message
      BY Zenon, <2>1, <2>2, StepTypes DEF HoldsCircuit
    <2> QED  BY <1>1, <1>2, <2>1, <2>2, <2>3, CountsFrame
  <1>4. CASE ~(PutDelivering(w) \/ Post(w))
    <2>1. ~HoldsCircuit(w)'
      BY <1>0, <1>4 DEF Step, Receive, GetEndpoint, RateGate, PutDelivered,
       LogDelivered, PutDead, LogDead, AddToDlq, LogRetried, PutRetrying, PutParked,
       ScheduleRetry, Ack, Goto, Return, Free, HoldsCircuit
    <2>2. \A v \in Worker : v # w => UNCHANGED <<circ[v], msg[v], pc[v]>>
      BY StepCircs, StepGrows
    <2>3. \A v \in Worker : HoldsCircuit(v)' => msg'[v] \in Message
      BY Zenon, <2>1, <2>2, StepTypes DEF HoldsCircuit
    <2> QED  BY <1>1, <1>2, <2>1, <2>2, <2>3, CountsFrame
  <1> QED  BY <1>3, <1>4

\* The gate hands out a copy of the record as it is.
LEMMA CountsGate ==
    ASSUME TypeInv, CountsReported, NEW w \in Worker, GetCircuit(w), CountOutcome
    PROVE  CountsReported' /\ TripAfterStreak
  <1>0. /\ pc \in [Worker -> PC] /\ circ \in [Worker -> CircuitRecord]
        /\ circuit \in [Endpoint -> CircuitRecord]
    BY DEF TypeInv, TypeOK
  <1>1. Step(w)
    BY Zenon DEF Step
  <1>2. streak' = streak
    BY <1>1, WhoReports, NoReport DEF CountsReported, GetCircuit, PutCircuit
  <1>3. circuit' = circuit /\ msg' = msg
    BY Zenon DEF GetCircuit, stores, job
  <1>4. \A v \in Worker : v # w => UNCHANGED <<circ[v], pc[v]>>
    BY <1>1, StepCircs, StepGrows
  <1>5. EndpointAt(w) \in Endpoint
    BY Zenon, EngineAssumption DEF GetCircuit, TypeInv, TypeOK, EndpointAt
  <1> DEFINE rec == circuit[EndpointAt(w)]
  <1>6. rec \in CircuitRecord
    BY <1>0, <1>5
  <1>7. \/ pc'[w] = "putHalfOpen" /\ circ'[w] = toHalfOpen(rec)
        \/ pc'[w] = "putDelivering" /\ circ'[w] = rec
        \/ pc'[w] = "putParked"
    BY Zenon, <1>0 DEF GetCircuit, Goto
  <1>8. toHalfOpen(rec).state = "half-open"
    BY <1>6 DEF toHalfOpen, CircuitRecord
  <1>9. ASSUME NEW v \in Worker
        PROVE  /\ pc'[v] = "putHalfOpen" => circ'[v].state = "half-open"
               /\ pc'[v] \in {"putDelivering", "post", "putCircuit"} =>
                     /\ circ'[v].state = circuit'[EndpointAt(v)'].state
                     /\ circ'[v].failures = circuit'[EndpointAt(v)'].failures
    <2>1. EndpointAt(v)' = EndpointAt(v)
      BY <1>3 DEF EndpointAt
    <2>2. CASE v = w
      BY Zenon, <1>3, <1>7, <1>8, <2>1, <2>2
    <2>3. CASE v # w
      BY Zenon, <1>3, <1>4, <2>1, <2>3 DEF CountsReported
    <2> QED  BY <2>2, <2>3
  <1> QED
    BY Zenon, <1>2, <1>3, <1>9 DEF CountsReported, TripAfterStreak

\* A write of the record of one endpoint leaves the copies of the calls to the
\* other endpoints true; the writer is the only call to this one.
LEMMA CountsOthers ==
    ASSUME TypeInv, CountsReported, OneCallPerEndpoint, NEW w \in Worker, HoldsCircuit(w),
           NEW rec, circuit' = [circuit EXCEPT ![EndpointAt(w)] = rec],
           NEW v \in Worker, v # w, UNCHANGED <<circ[v], msg[v], pc[v]>>
    PROVE  /\ pc'[v] = "putHalfOpen" => circ'[v].state = "half-open"
           /\ pc'[v] \in {"putDelivering", "post", "putCircuit"} =>
                 /\ circ'[v].state = circuit'[EndpointAt(v)'].state
                 /\ circ'[v].failures = circuit'[EndpointAt(v)'].failures
  <1>1. EndpointAt(v)' = EndpointAt(v)
    BY DEF EndpointAt
  <1>2. CASE pc[v] \in {"putDelivering", "post", "putCircuit"}
    <2>1. EndpointAt(v) # EndpointAt(w)
      BY Zenon, <1>2 DEF OneCallPerEndpoint, HoldsCircuit
    <2>2. circuit \in [Endpoint -> CircuitRecord] /\ EndpointAt(v) \in Endpoint
      BY <1>2, EngineAssumption DEF TypeInv, TypeOK, EndpointAt
    <2>3. circuit'[EndpointAt(v)] = circuit[EndpointAt(v)]
      BY Zenon, <2>1, <2>2
    <2> QED  BY Zenon, <1>1, <1>2, <2>3 DEF CountsReported
  <1>3. CASE pc[v] \notin {"putDelivering", "post", "putCircuit"}
    BY Zenon, <1>3 DEF CountsReported
  <1> QED  BY <1>2, <1>3

LEMMA CountsHalfOpen ==
    ASSUME TypeInv, CountsReported, OneCallPerEndpoint, NEW w \in Worker, PutHalfOpen(w),
           CountOutcome
    PROVE  CountsReported' /\ TripAfterStreak
  <1>0. /\ pc \in [Worker -> PC] /\ circ \in [Worker -> CircuitRecord]
        /\ circuit \in [Endpoint -> CircuitRecord]
    BY DEF TypeInv, TypeOK
  <1>1. Step(w) /\ HoldsCircuit(w)
    BY Zenon DEF Step, HoldsCircuit, PutHalfOpen
  <1>2. streak' = streak
    BY <1>1, WhoReports, NoReport DEF CountsReported, PutHalfOpen, PutCircuit
  <1>3. EndpointAt(w) \in Endpoint
    BY Zenon, EngineAssumption DEF PutHalfOpen, TypeInv, TypeOK, EndpointAt
  <1>4. /\ circuit' = [circuit EXCEPT ![EndpointAt(w)] = circ[w]]
        /\ circ' = circ /\ msg' = msg /\ circ[w].state = "half-open"
    BY Zenon DEF PutHalfOpen, putCircuit, locals, job, CountsReported
  <1>5. \A v \in Worker : v # w => UNCHANGED <<circ[v], msg[v], pc[v]>>
    BY <1>1, StepCircs, StepGrows
  <1>6. ASSUME NEW e \in Endpoint
        PROVE  /\ circuit'[e].state = "closed" => circuit'[e] = circuit[e]
               /\ circuit'[e].state = "open" => circuit'[e] = circuit[e]
    <2>1. circuit'[e] = IF e = EndpointAt(w) THEN circ[w] ELSE circuit[e]
      BY <1>0, <1>4
    <2> QED  BY Zenon, <1>4, <2>1
  <1>7. circuit'[EndpointAt(w)'] = circ'[w]
    BY <1>0, <1>3, <1>4 DEF EndpointAt
  <1>8. pc'[w] = "putDelivering"
    BY <1>0 DEF PutHalfOpen, Goto
  <1>9. ASSUME NEW v \in Worker
        PROVE  /\ pc'[v] = "putHalfOpen" => circ'[v].state = "half-open"
               /\ pc'[v] \in {"putDelivering", "post", "putCircuit"} =>
                     /\ circ'[v].state = circuit'[EndpointAt(v)'].state
                     /\ circ'[v].failures = circuit'[EndpointAt(v)'].failures
    <2>1. CASE v = w
      BY Zenon, <1>7, <1>8, <2>1
    <2>2. CASE v # w
      BY <1>1, <1>4, <1>5, <2>2, CountsOthers
    <2> QED  BY <2>1, <2>2
  <1> QED
    BY Zenon, <1>2, <1>6, <1>9 DEF CountsReported, TripAfterStreak

LEMMA CountsOutcome ==
    ASSUME TypeInv, BreakerConsistent, CountsReported, OneCallPerEndpoint,
           NEW w \in Worker, PutCircuit(w), CountOutcome
    PROVE  CountsReported' /\ TripAfterStreak
  <1>0. /\ pc \in [Worker -> PC] /\ circ[w] \in CircuitRecord
        /\ circuit \in [Endpoint -> CircuitRecord]
    BY DEF TypeInv, TypeOK
  <1>1. Step(w) /\ HoldsCircuit(w)
    BY Zenon DEF Step, HoldsCircuit, PutCircuit
  <1>2. EndpointAt(w) \in Endpoint
    BY Zenon, EngineAssumption DEF PutCircuit, TypeInv, TypeOK, EndpointAt
  <1> DEFINE here == EndpointAt(w)
             cur == circuit[here]
             s == streak[here]
             rec == IF plan[w] = "delivered" THEN onSuccess(circ[w]) ELSE onFailure(circ[w])
  <1>3. /\ circuit' = [circuit EXCEPT ![EndpointAt(w)] = rec]
        /\ pc'[w] \in {"putDelivered", "putDead", "logRetried"}
    BY Zenon, <1>0 DEF PutCircuit, putCircuit, Goto, DlqReason
  <1>4. Reporting(w)
    BY <1>3 DEF Reporting, PutCircuit
  <1>5. \A e \in Endpoint :
           streak'[e] = IF e # here THEN streak[e]
                        ELSE IF plan[w] = "delivered" THEN 0
                        ELSE IF streak[e] < Threshold THEN streak[e] + 1 ELSE streak[e]
    BY <1>1, <1>4, WhoReports, OneReport DEF CountsReported
  <1>6. \A v \in Worker : v # w => UNCHANGED <<circ[v], msg[v], pc[v]>>
    BY <1>1, StepCircs, StepGrows
  <1>7. /\ cur \in CircuitRecord /\ Consistent(cur) /\ s \in 0..Threshold
        /\ cur.state = "closed" => cur.failures <= s
        /\ circ[w].state = cur.state /\ circ[w].failures = cur.failures
    BY <1>0, <1>2, BreakerByRecord DEF CountsReported, PutCircuit
  <1>8. /\ streak'[here] \in 0..Threshold
        /\ rec.state = "closed" => rec.failures <= streak'[here]
        /\ cur.state = "closed" /\ rec.state = "open" => streak'[here] = Threshold
    <2>1. CASE plan[w] = "delivered"
      <3>1. streak'[here] = 0 /\ rec = onSuccess(circ[w])
        BY Zenon, <1>2, <1>5, <2>1
      <3> HIDE DEF here, rec
      <3> QED  BY <3>1, PolicyAssumption DEF onSuccess
    <2>2. CASE plan[w] # "delivered"
      <3>1. streak'[here] = IF s < Threshold THEN s + 1 ELSE s
        BY Zenon, <1>2, <1>5, <2>2
      <3>2. rec = onFailure(circ[w])
        BY Zenon, <2>2
      <3> HIDE DEF here, rec, cur, s
      <3> QED  BY <1>0, <1>7, <3>1, <3>2, FailureCounted
    <2> QED  BY <2>1, <2>2
  <1>9. \A e \in Endpoint : circuit'[e] = IF e = here THEN rec ELSE circuit[e]
    BY <1>0, <1>3
  <1>10. streak' \in [Endpoint -> 0..Threshold]
    <2>1. \A e \in Endpoint : streak'[e] \in 0..Threshold
      BY <1>5, <1>8 DEF CountsReported
    <2>2. streak' = [e \in Endpoint |-> streak'[e]]
      BY DEF CountOutcome
    <2> QED  BY <2>1, <2>2
  <1>11. ASSUME NEW e \in Endpoint
         PROVE  /\ circuit'[e].state = "closed" => circuit'[e].failures <= streak'[e]
                /\ circuit[e].state = "closed" /\ circuit'[e].state = "open"
                      => streak'[e] = Threshold
    <2>1. CASE e = here
      BY Zenon, <1>8, <1>9, <2>1
    <2>2. CASE e # here
      <3>1. circuit'[e] = circuit[e] /\ streak'[e] = streak[e]
        BY Zenon, <1>5, <1>9, <2>2
      <3> QED  BY Zenon, <3>1 DEF CountsReported
    <2> QED  BY <2>1, <2>2
  <1>12. ASSUME NEW v \in Worker
         PROVE  /\ pc'[v] = "putHalfOpen" => circ'[v].state = "half-open"
                /\ pc'[v] \in {"putDelivering", "post", "putCircuit"} =>
                      /\ circ'[v].state = circuit'[EndpointAt(v)'].state
                      /\ circ'[v].failures = circuit'[EndpointAt(v)'].failures
    <2>1. CASE v = w
      BY Zenon, <1>3, <2>1
    <2>2. CASE v # w
      <3> HIDE DEF rec
      <3> QED  BY Zenon, <1>1, <1>3, <1>6, <2>2, CountsOthers
    <2> QED  BY <2>1, <2>2
  <1> QED
    BY Zenon, <1>10, <1>11, <1>12 DEF CountsReported, TripAfterStreak

LEMMA CountsEnvironment ==
    ASSUME TypeInv, CountsReported, CountOutcome,
           \/ \E w \in Worker : Fail(w) \/ Conflict(w) \/ Redeliver(w)
           \/ \E r \in Message, k \in AttemptNo : Release(r, k)
           \/ \E e \in Endpoint : SetEndpoint(e)
           \/ Tick
    PROVE  CountsReported' /\ TripAfterStreak
  <1>0. /\ pc \in [Worker -> PC] /\ circuit \in [Endpoint -> CircuitRecord]
        /\ msg \in [Worker -> Message \cup {NoMessage}] /\ circ \in [Worker -> CircuitRecord]
    BY DEF TypeInv, TypeOK
  <1>1. ASSUME NEW v \in Worker
        PROVE  pc'[v] = "idle" \/ UNCHANGED <<circ[v], msg[v], pc[v]>>
    BY Zenon, <1>0 DEF Fail, Conflict, Abandon, Redeliver, Release, SetEndpoint, Tick, Free,
           Forget, Goto, job, locals
  <1>2. streak' = streak
    BY Zenon, <1>1, NoReport DEF Reporting, CountsReported
  <1>3. \A e \in Endpoint : circuit'[e] \in {circuit[e], Elapse(circuit[e])}
    BY Zenon DEF Fail, Conflict, Abandon, Redeliver, Release, SetEndpoint, Tick, stores
  <1>4. \A rec \in CircuitRecord : Elapse(rec).state = rec.state /\ Elapse(rec).failures = rec.failures
    BY DEF CircuitRecord, Elapse
  <1>5. \A e \in Endpoint : /\ circuit'[e].state = circuit[e].state
                            /\ circuit'[e].failures = circuit[e].failures
    BY Zenon, <1>0, <1>3, <1>4
  <1>6. \A v \in Worker : HoldsCircuit(v)' => UNCHANGED <<circ[v], msg[v], pc[v]>>
    BY Zenon, <1>1 DEF HoldsCircuit
  <1>7. \A v \in Worker : HoldsCircuit(v)' => msg'[v] \in Message
    BY Zenon, <1>6, StepTypes DEF HoldsCircuit
  <1> QED  BY <1>2, <1>5, <1>6, <1>7, CountsFrame

LEMMA CountsNext ==
    ASSUME TypeInv, BreakerConsistent, CountsReported, OneCallPerEndpoint, Next, CountOutcome
    PROVE  CountsReported' /\ TripAfterStreak
  <1>1. ASSUME NEW w \in Worker, Step(w)  PROVE CountsReported' /\ TripAfterStreak
    BY <1>1, CountsDelivering, CountsGate, CountsHalfOpen, CountsOutcome
  <1> QED
    BY Zenon, <1>1, CountsEnvironment DEF Next, PlainNext

\* Steps that concern neither the breaker nor the calls.
LEMMA CountsStutter ==
    ASSUME CountsReported, UNCHANGED <<circuit, streak, pc, msg, circ>>
    PROVE  CountsReported' /\ TripAfterStreak
  BY Zenon DEF CountsReported, TripAfterStreak, EndpointAt

LEMMA CountsInit == Init /\ StreakInit => CountsReported
  BY PolicyAssumption DEF Init, StreakInit, CountsReported, initialCircuit

\* Over DynamoDB a closed breaker opens only after Threshold failures reported
\* in a row, provided no two calls to one endpoint are ever between reading the
\* circuit record and writing it.  Without that it may open early: putCircuit
\* reads the version it checks when it writes, not when the gate read the record.
THEOREM DynamoTripsAfterStreak ==
    DynamoBreakerSpec /\ []OneCallPerEndpoint => TripsOnlyAfterStreak
  <1> DEFINE Inv == TypeInv /\ BreakerConsistent /\ CountsReported
  <1>1. DynamoInit /\ StreakInit => Inv
    BY InitType, BreakerInit, CountsInit DEF DynamoInit
  <1>2. ASSUME Inv, OneCallPerEndpoint, [DynamoNext /\ CountOutcome]_<<dynamoVars, streak>>
        PROVE  Inv' /\ TripAfterStreak
    <2>1. [Next]_vars
      BY Zenon, <1>2, DynamoStepImplements DEF dynamoVars
    <2>2. TypeInv' /\ BreakerConsistent'
      BY <1>2, <2>1, TypeStep, BreakerNext
    <2>3. CASE Next /\ CountOutcome
      BY <1>2, <2>2, <2>3, CountsNext
    <2>4. CASE UNCHANGED vars /\ CountOutcome
      <3>1. streak' = streak
        BY Zenon, <1>2, <2>4, NoReport DEF Reporting, CountsReported, vars
      <3> QED  BY <1>2, <2>2, <2>4, <3>1, CountsStutter DEF vars, stores, job, locals
    <2>5. CASE UNCHANGED <<vars, streak>>
      BY <1>2, <2>2, <2>5, CountsStutter DEF vars, stores, job, locals
    <2> QED  BY Zenon, <1>2, <2>1, <2>3, <2>4, <2>5 DEF dynamoVars
  <1>3. Inv /\ OneCallPerEndpoint /\ [DynamoNext /\ CountOutcome]_<<dynamoVars, streak>>
          => Inv' /\ [TripAfterStreak]_<<vars, streak>>
    BY <1>2
  <1> QED
    BY <1>1, <1>3, PTL DEF DynamoBreakerSpec, TripsOnlyAfterStreak, TripAfterStreak

(***************************************************************************)
(* Replays.                                                                *)
(***************************************************************************)
PortalTypes ==
    /\ stored \in Message \cup {NoMessage}
    /\ \A t \in todo : t[1] \in Message

\* What every step of the engine and of the portal preserves.
ReplayInv ==
    /\ TypeInv /\ PortalTypes
    /\ SettledOwedOrStored
    /\ RecordsInv
    /\ BreakerConsistent

\* Whoever changes the status of a message is a call with its fate still open.
LEMMA StatusWriter ==
    ASSUME TypeInv, PlainNext, NEW m \in Message, status'[m] # status[m]
    PROVE  SettledOrOwed(m)
  <1>0. status \in [Message -> MessageStatus]
    BY StepTypes
  <1>1. PICK w \in Worker : Step(w)
    BY Zenon DEF PlainNext, Fail, Abandon, Redeliver, Release, SetEndpoint, Tick, stores
  <1>2. \/ PutDelivering(w) \/ PutDelivered(w) \/ PutDead(w) \/ PutRetrying(w) \/ PutParked(w)
    BY Zenon, <1>1 DEF Step, Receive, GetEndpoint, RateGate, GetCircuit, PutHalfOpen, Post,
       PutCircuit, LogDelivered, LogDead, AddToDlq, LogRetried, ScheduleRetry, Ack, stores
  <1>3. msg[w] = m
    BY Zenon, <1>0, <1>2
       DEF PutDelivering, PutDelivered, PutDead, PutRetrying, PutParked, putMessage
  <1>4. pc[w] \in Undecided
    BY <1>2 DEF PutDelivering, PutDelivered, PutDead, PutRetrying, PutParked, Undecided, PC
  <1> QED  BY Zenon, <1>3, <1>4 DEF SettledOrOwed, HeldAt

LEMMA ReplayEngineStep ==
    ASSUME ReplayInv, EngineStep
    PROVE  ReplayInv'
  <1>1. PlainNext /\ [Next]_vars /\ UNCHANGED portal
    BY DEF EngineStep, Next
  <1>2. TypeInv' /\ RecordsInv' /\ BreakerConsistent'
    BY <1>1, TypeStep, RecordsNext, BreakerNext DEF ReplayInv
  <1>3. PortalTypes'
    BY Zenon, <1>1 DEF ReplayInv, PortalTypes, portal
  <1>4. ASSUME NEW m \in Message
        PROVE  SettledOrOwed(m)' \/ (status'[m] = "pending" /\ (m = stored' \/ m \in stranded'))
    <2>1. CASE SettledOrOwed(m)
      BY <1>1, <2>1, SettledNext DEF ReplayInv
    <2>2. CASE ~SettledOrOwed(m)
      <3>1. status'[m] = status[m]
        BY <1>1, <2>2, StatusWriter DEF ReplayInv
      <3> QED  BY Zenon, <1>1, <2>2, <3>1 DEF ReplayInv, SettledOwedOrStored, portal
    <2> QED  BY <2>1, <2>2
  <1> QED  BY Zenon, <1>2, <1>3, <1>4 DEF ReplayInv, SettledOwedOrStored

\* A portal step leaves the calls, the records and the breaker alone; a copy it
\* adds is a first attempt, and a status it writes is not "delivered".
LEMMA PortalRecords ==
    ASSUME ReplayInv,
           UNCHANGED <<sched, attempts, dlq, received, circuit, pc, msg, attemptNo, plan, circ>>,
           \A m \in Message : status'[m] = "delivered" => status[m] = "delivered",
           \A m \in Message, n \in AttemptNo : queue'[m][n] > 0 => queue[m][n] > 0 \/ n = 0
    PROVE  RecordsInv' /\ BreakerConsistent'
  <1>1. \A v \in Worker : StepsDone(v)'
    BY Zenon DEF ReplayInv, RecordsInv, StepsDone, Logged, Retried
  <1>2. ASSUME NEW m \in Message, NEW n \in AttemptNo, CopyAt(m, n)', NEW k \in 0..(n - 1)
        PROVE  Retried(m, k)'
    <2>1. CopyAt(m, n) \/ n = 0
      BY Zenon, <1>2 DEF CopyAt
    <2>2. n # 0
      BY <1>2
    <2>3. Retried(m, k)
      BY Zenon, <2>1, <2>2, <1>2 DEF ReplayInv, RecordsInv, RetryHistoryComplete
    <2> QED  BY <2>3 DEF Retried
  <1>3. ASSUME NEW m \in Message, [msg |-> m, reason |-> "exhausted_retries"] \in dlq'
        PROVE  \A k \in 0..(Len(Schedule) - 1) : Retried(m, k)'
    BY Zenon, <1>3 DEF ReplayInv, RecordsInv, RetryHistoryComplete, Retried
  <1>4. DlqHasTerminalAttempt' /\ DeliveredMeansReceived' /\ BreakerConsistent'
    BY Zenon DEF ReplayInv, RecordsInv, DlqHasTerminalAttempt, DeliveredMeansReceived,
                 BreakerConsistent, DeadLettered, Logged
  <1> QED  BY Zenon, <1>1, <1>2, <1>3, <1>4 DEF RecordsInv, RetryHistoryComplete

\* What accounts for m outlives a step that touches neither its status nor its copies.
LEMMA PortalSettled ==
    ASSUME NEW m \in Message, SettledOrOwed(m), status'[m] = status[m],
           UNCHANGED <<sched, attempts, dlq, pc, msg>>,
           \A n \in AttemptNo : queue[m][n] > 0 => queue'[m][n] > 0
    PROVE  SettledOrOwed(m)'
  BY Zenon DEF SettledOrOwed, Queued, Scheduled, HeldAt, Logged, DeadLettered

LEMMA ReplayPutPending ==
    ASSUME ReplayInv, PutPending
    PROVE  ReplayInv'
  <1>1. PICK t \in todo : /\ todo' = todo \ {t} /\ stored' = t[1]
                          /\ status' = [status EXCEPT ![t[1]] = "pending"]
    BY DEF PutPending
  <1>2. /\ UNCHANGED <<queue, sched, attempts, dlq, circuit, live, pc, msg, attemptNo, plan,
                       circ, wait, faults, throttles, received, stranded>>
        /\ stored = NoMessage
    BY DEF PutPending, transit, job, locals, bounds
  <1>3. t[1] \in Message /\ status \in [Message -> MessageStatus] /\ NoMessage \notin Message
    BY EngineAssumption DEF ReplayInv, PortalTypes, TypeInv, TypeOK
  <1>4. /\ status' \in [Message -> MessageStatus] /\ status'[t[1]] = "pending"
        /\ \A m \in Message : m # t[1] => status'[m] = status[m]
    BY <1>1, <1>3 DEF MessageStatus
  <1>5. TypeInv'
    BY Zenon, <1>2, <1>4 DEF ReplayInv, TypeInv, TypeOK, ControlOK
  <1>6. PortalTypes'
    BY Zenon, <1>1, <1>3 DEF ReplayInv, PortalTypes
  <1>7. RecordsInv' /\ BreakerConsistent'
    BY <1>2, <1>4, PortalRecords
  <1>8. ASSUME NEW m \in Message
        PROVE  SettledOrOwed(m)' \/ (status'[m] = "pending" /\ (m = stored' \/ m \in stranded'))
    <2>1. CASE m = t[1]
      BY Zenon, <1>1, <1>4, <2>1
    <2>2. CASE m # t[1] /\ SettledOrOwed(m)
      BY <1>2, <1>4, <2>2, PortalSettled
    <2>3. CASE m # t[1] /\ ~SettledOrOwed(m)
      BY Zenon, <1>2, <1>3, <1>4, <2>3 DEF ReplayInv, SettledOwedOrStored
    <2> QED  BY <2>1, <2>2, <2>3
  <1> QED  BY Zenon, <1>5, <1>6, <1>7, <1>8 DEF ReplayInv, SettledOwedOrStored

LEMMA ReplayEnqueue ==
    ASSUME ReplayInv, Enqueue
    PROVE  ReplayInv'
  <1>1. /\ stored \in Message /\ 0 \in AttemptNo
        /\ queue \in [Message -> [AttemptNo -> Nat]]
    BY AttemptNos DEF Enqueue, ReplayInv, PortalTypes, TypeInv, TypeOK
  <1>2. /\ UNCHANGED <<sched, status, attempts, dlq, circuit, live, pc, msg, attemptNo, plan,
                       circ, wait, faults, throttles, received, todo>>
        /\ stored' = NoMessage /\ stranded' = stranded \ {stored}
        /\ queue' = [queue EXCEPT ![stored][0] = queue[stored][0] + 1]
    BY Zenon DEF Enqueue, stores, job, locals, bounds
  <1>3. queue[stored][0] \in Nat
    BY Zenon, <1>1
  <1>4. \A m \in Message, n \in AttemptNo :
           queue'[m][n] = IF m = stored /\ n = 0 THEN queue[stored][0] + 1 ELSE queue[m][n]
    BY <1>1, <1>2, SlotValue
  <1>5. queue' \in [Message -> [AttemptNo -> Nat]]
    BY <1>1, <1>2
  <1>6. TypeInv'
    BY Zenon, <1>2, <1>5 DEF ReplayInv, TypeInv, TypeOK, ControlOK
  <1>7. PortalTypes'
    BY Zenon, <1>2 DEF ReplayInv, PortalTypes
  <1>8. RecordsInv' /\ BreakerConsistent'
    BY <1>2, <1>4, PortalRecords
  <1>9. ASSUME NEW m \in Message
        PROVE  SettledOrOwed(m)' \/ (status'[m] = "pending" /\ (m = stored' \/ m \in stranded'))
    <2>1. CASE m = stored
      <3>1. queue'[m][0] > 0
        BY <1>1, <1>3, <1>4, <2>1
      <3> QED  BY Zenon, <1>1, <3>1 DEF SettledOrOwed, Queued
    <2>2. CASE m # stored /\ SettledOrOwed(m)
      <3>1. \A n \in AttemptNo : queue'[m][n] = queue[m][n]
        BY Zenon, <1>4, <2>2
      <3> QED  BY <1>2, <2>2, <3>1, PortalSettled
    <2>3. CASE m # stored /\ ~SettledOrOwed(m)
      BY Zenon, <1>2, <2>3 DEF ReplayInv, SettledOwedOrStored
    <2> QED  BY <2>1, <2>2, <2>3
  <1> QED  BY Zenon, <1>6, <1>7, <1>8, <1>9 DEF ReplayInv, SettledOwedOrStored

LEMMA ReplayFails ==
    ASSUME ReplayInv, PortalFails
    PROVE  ReplayInv'
  <1>1. /\ UNCHANGED <<queue, sched, status, attempts, dlq, circuit, live, pc, msg, attemptNo,
                       plan, circ, wait, throttles, received>>
        /\ stored' = NoMessage /\ todo' = {}
        /\ stranded' = stranded \cup ({stored} \ {NoMessage})
    BY DEF PortalFails, transit, stores, job, locals
  <1>2. faults' \in 0..MaxFaults
    BY BoundsNat DEF PortalFails, ReplayInv, TypeInv, TypeOK
  <1>3. TypeInv'
    BY Zenon, <1>1, <1>2 DEF ReplayInv, TypeInv, TypeOK, ControlOK
  <1>4. PortalTypes'
    BY Zenon, <1>1 DEF PortalTypes
  <1>5. RecordsInv' /\ BreakerConsistent'
    BY <1>1, PortalRecords
  <1>6. ASSUME NEW m \in Message
        PROVE  SettledOrOwed(m)' \/ (status'[m] = "pending" /\ (m = stored' \/ m \in stranded'))
    <2>1. CASE SettledOrOwed(m)
      BY <1>1, <2>1, PortalSettled
    <2>2. CASE ~SettledOrOwed(m)
      <3>1. m # NoMessage
        BY EngineAssumption
      <3> QED  BY Zenon, <1>1, <2>2, <3>1 DEF ReplayInv, SettledOwedOrStored
    <2> QED  BY <2>1, <2>2
  <1> QED  BY Zenon, <1>3, <1>4, <1>5, <1>6 DEF ReplayInv, SettledOwedOrStored

\* A portal call begins, or nothing happens.
LEMMA ReplayCalls ==
    ASSUME ReplayInv,
           \/ \E m \in Message : ReplayOne(m)
           \/ \E e \in Endpoint : ReplayEndpoint(e)
           \/ UNCHANGED replayVars
    PROVE  ReplayInv'
  <1>1. UNCHANGED <<vars, stored, stranded>>
    BY Zenon DEF ReplayOne, ReplayEndpoint, Call, replayVars, portal
  <1>2. TypeInv' /\ RecordsInv' /\ BreakerConsistent'
    BY <1>1, TypeStep, RecordsNext, BreakerNext DEF ReplayInv
  <1>3. ASSUME NEW t \in todo'  PROVE t[1] \in Message
    <2>1. CASE \E m \in Message : ReplayOne(m)
      BY <1>3, <2>1 DEF ReplayOne, Call
    <2>2. CASE \E e \in Endpoint : ReplayEndpoint(e)
      <3>1. PICK e \in Endpoint : t \in RowsOf(e)
        BY Zenon, <1>3, <2>2 DEF ReplayEndpoint, Call
      <3> QED  BY <3>1 DEF RowsOf
    <2>3. CASE UNCHANGED replayVars
      BY <1>3, <2>3 DEF replayVars, portal, ReplayInv, PortalTypes
    <2> QED  BY <2>1, <2>2, <2>3
  <1>4. PortalTypes'
    BY Zenon, <1>1, <1>3 DEF ReplayInv, PortalTypes
  <1>5. SettledOwedOrStored'
    <2>1. UNCHANGED <<queue, sched, status, attempts, dlq, pc, msg>>
      BY <1>1 DEF vars, transit, stores, job
    <2> QED  BY Zenon, <1>1, <2>1, SettledStutter DEF ReplayInv, SettledOwedOrStored
  <1> QED  BY <1>2, <1>4, <1>5 DEF ReplayInv

LEMMA ReplayStart == ReplayInit => ReplayInv
  BY InitType, SettledInit, RecordsInit, BreakerInit
     DEF ReplayInit, ReplayInv, PortalTypes, SettledOwedOrStored, AllSettledOrOwed

LEMMA ReplayAlways == ReplaySpec => []ReplayInv
  <1>1. ReplayInv /\ [ReplayNext]_replayVars => ReplayInv'
    BY ReplayEngineStep, ReplayPutPending, ReplayEnqueue, ReplayFails, ReplayCalls
       DEF ReplayNext, PortalStep
  <1> QED  BY ReplayStart, <1>1, PTL DEF ReplaySpec

\* However replays, retries, crashes and duplicates interleave, a message nobody
\* works on and no portal call is about to enqueue is settled truthfully, or
\* pending because a replay stopped between storing and enqueueing it.
THEOREM ReplaysSettleOrStrand == ReplaySpec => []SettledOrStranded
  <1>1. ReplayInv => SettledOrStranded
    BY DEF ReplayInv, SettledOwedOrStored, SettledOrStranded, SettledOrOwed, InFlight, HeldAt,
           Undecided, PC
  <1> QED  BY ReplayAlways, <1>1, PTL

\* Replaying a message, even one still being delivered, never breaks the
\* history of its attempts, puts an unlogged row in the DLQ, claims a delivery
\* nobody received or leaves a breaker and its count at odds.
THEOREM ReplaysKeepRecords ==
    ReplaySpec => [](RetryHistoryComplete /\ DlqHasTerminalAttempt
                        /\ DeliveredMeansReceived /\ BreakerConsistent)
  <1>1. ReplayInv => /\ RetryHistoryComplete /\ DlqHasTerminalAttempt
                     /\ DeliveredMeansReceived /\ BreakerConsistent
    BY DEF ReplayInv, RecordsInv
  <1> QED  BY ReplayAlways, <1>1, PTL

\* With replays going on, too, a closed breaker opens only after Threshold
\* failures reported in a row, provided deliveries to one endpoint do not
\* overlap between reading the circuit record and writing it.
THEOREM ReplayTripsAfterStreak ==
    ReplaySpec /\ []OneCallPerEndpoint => TripsOnlyAfterStreak
  <1>1. ReplayInit => CountsReported
    BY CountsInit DEF ReplayInit
  <1>2. ASSUME ReplayInv, CountsReported, OneCallPerEndpoint, [ReplayNext]_replayVars
        PROVE  CountsReported' /\ TripAfterStreak
    <2>1. CASE EngineStep
      BY <1>2, <2>1, CountsNext DEF EngineStep, Next, ReplayInv
    <2>2. CASE ~EngineStep
      <3>1. UNCHANGED <<circuit, streak, pc, msg, circ>>
        BY Zenon, <1>2, <2>2
           DEF ReplayNext, PortalStep, PutPending, Enqueue, PortalFails, ReplayOne,
               ReplayEndpoint, Call, replayVars, vars, stores, job, locals
      <3> QED  BY <1>2, <3>1, CountsStutter
    <2> QED  BY <2>1, <2>2
  <1>3. ReplayInv /\ CountsReported /\ OneCallPerEndpoint /\ [ReplayNext]_replayVars
          => CountsReported' /\ [TripAfterStreak]_<<vars, streak>>
    BY <1>2
  <1> QED
    BY ReplayAlways, <1>1, <1>3, PTL DEF ReplaySpec, TripsOnlyAfterStreak, TripAfterStreak
=============================================================================
