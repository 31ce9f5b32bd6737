---------------------------- MODULE EngineProofs ----------------------------
(***************************************************************************)
(* Proofs about module Engine, for every set of messages, endpoints and    *)
(* workers, every schedule, threshold and cooldown and every number of     *)
(* failures.                                                               *)
(***************************************************************************)
EXTENDS Engine, TLAPS

(***************************************************************************)
(* Facts about the policy operators.                                       *)
(***************************************************************************)
\* The breaker operations map circuit records to circuit records.
LEMMA CircuitTypes ==
    /\ initialCircuit \in CircuitRecord
    /\ \A rec \in CircuitRecord :
          /\ onFailure(rec) \in CircuitRecord
          /\ onSuccess(rec) \in CircuitRecord
          /\ toHalfOpen(rec) \in CircuitRecord
          /\ Elapse(rec) \in CircuitRecord
  BY PolicyAssumption
     DEF CircuitRecord, CircuitState, initialCircuit, onFailure, onSuccess,
         toHalfOpen, Elapse, Countdown

\* No retry is scheduled further ahead than MaxWait.
LEMMA DelaysBounded ==
    /\ \A n \in AttemptNo : nextDelays(n) \subseteq 0..MaxWait
    /\ \A rec \in CircuitRecord : probeDelays(rec) \subseteq 0..MaxWait
    /\ \A d \in 0..MaxWait : Countdown(d) \in 0..MaxWait
  <1>1. Len(Schedule) \in Nat /\ \A i \in 1..Len(Schedule) : Schedule[i] \in Nat
    BY PolicyAssumption
  <1>2. \A n \in AttemptNo : nextDelays(n) \subseteq 0..MaxWait
    BY <1>1, PolicyAssumption, EngineAssumption DEF nextDelays, AttemptNo
  <1>3. \A rec \in CircuitRecord : probeDelays(rec) \subseteq 0..MaxWait
    BY PolicyAssumption, EngineAssumption DEF probeDelays, CircuitRecord
  <1>4. \A d \in 0..MaxWait : Countdown(d) \in 0..MaxWait
    BY EngineAssumption DEF Countdown
  <1> QED  BY <1>2, <1>3, <1>4

\* AttemptNo is an interval of natural numbers that contains 0.
LEMMA AttemptNos == Len(Schedule) \in Nat /\ AttemptNo \subseteq Nat /\ 0 \in AttemptNo
  BY PolicyAssumption DEF AttemptNo

\* nextDelayMs returns null exactly past the end of the schedule.
LEMMA ExhaustedSchedule ==
    \A n \in AttemptNo : nextDelays(n) = {} <=> n = Len(Schedule)
  <1> SUFFICES ASSUME NEW n \in AttemptNo
               PROVE  nextDelays(n) = {} <=> n = Len(Schedule)
    OBVIOUS
  <1>1. CASE n < Len(Schedule)
    <2>1. 0 \in nextDelays(n)
      BY <1>1, PolicyAssumption DEF nextDelays
    <2> QED  BY <1>1, <2>1, AttemptNos
  <1>2. CASE n = Len(Schedule)
    BY <1>2, AttemptNos DEF nextDelays
  <1> QED  BY <1>1, <1>2, AttemptNos DEF AttemptNo

(***************************************************************************)
(* Type and control correctness, one induction for both.                   *)
(***************************************************************************)
TypeInv == TypeOK /\ ControlOK

LEMMA InitType == Init => TypeInv
  BY CircuitTypes, AttemptNos, EngineAssumption
     DEF Init, TypeInv, TypeOK, ControlOK, MessageStatus, PC, Plan

\* The attempt handed to the scheduler is within the schedule.
LEMMA NextAttemptTyped ==
    ASSUME TypeInv, NEW w \in Worker, pc[w] = "scheduleRetry"
    PROVE  NextAttemptNo(w) \in AttemptNo
  BY AttemptNos DEF TypeInv, TypeOK, ControlOK, NextAttemptNo, AttemptNo

\* Rewriting one slot of the schedule keeps its type.
LEMMA SlotUpdate ==
    ASSUME NEW s \in [Message -> [AttemptNo -> [0..MaxWait -> Nat]]],
           NEW m \in Message, NEW n \in AttemptNo, NEW d \in 0..MaxWait, NEW k \in Nat
    PROVE  [s EXCEPT ![m][n][d] = k] \in [Message -> [AttemptNo -> [0..MaxWait -> Nat]]]
  <1>1. [s[m][n] EXCEPT ![d] = k] \in [0..MaxWait -> Nat]
    <2>1. s[m][n] \in [0..MaxWait -> Nat]
      OBVIOUS
    <2> QED  BY <2>1
  <1>2. [s[m] EXCEPT ![n] = [s[m][n] EXCEPT ![d] = k]] \in [AttemptNo -> [0..MaxWait -> Nat]]
    BY <1>1
  <1> QED  BY <1>2

LEMMA StepType ==
    ASSUME TypeInv, NEW w \in Worker, Step(w)
    PROVE  TypeOK'
  <1> USE EngineAssumption, AttemptNos
      DEF TypeInv, TypeOK, stores, transit, bounds, locals, job, Goto, PC
  <1>1. CASE Receive(w)
    <2>1. PICK m \in Message, n \in AttemptNo :
            /\ queue[m][n] > 0
            /\ queue' = [queue EXCEPT ![m][n] = @ - 1]
            /\ msg' = [msg EXCEPT ![w] = m]
            /\ attemptNo' = [attemptNo EXCEPT ![w] = n]
      BY Zenon, <1>1 DEF Receive
    <2>2. queue[m][n] - 1 \in Nat
      BY SMTT(30), <2>1
    <2>3. queue' \in [Message -> [AttemptNo -> Nat]]
      BY Zenon, <2>1, <2>2
    <2> QED  BY Zenon, <1>1, <2>1, <2>3 DEF Receive
  <1>2. CASE GetEndpoint(w)
    BY Zenon, <1>2 DEF GetEndpoint, Decide, Plan, DlqReason
  <1>3. CASE RateGate(w)
    <2>1. throttles' \in 0..MaxThrottles
      BY <1>3 DEF RateGate
    <2>2. wait' \in [Worker -> 0..MaxWait]
      BY Zenon, <1>3 DEF RateGate
    <2>3. plan' \in [Worker -> Plan] /\ pc' \in [Worker -> PC]
      BY Zenon, <1>3 DEF RateGate, Decide, Plan
    <2> QED  BY Zenon, <1>3, <2>1, <2>2, <2>3 DEF RateGate
  <1>4. CASE GetCircuit(w)
    <2> DEFINE rec == circuit[EndpointAt(w)]
    <2>1. rec \in CircuitRecord /\ toHalfOpen(rec) \in CircuitRecord
      BY <1>4, CircuitTypes DEF GetCircuit, EndpointAt
    <2>2. circ' \in [Worker -> CircuitRecord]
      BY Zenon, <1>4, <2>1 DEF GetCircuit
    <2>3. wait' \in [Worker -> 0..MaxWait]
      BY ZenonT(40), <1>4, <2>1, DelaysBounded DEF GetCircuit
    <2>4. plan' \in [Worker -> Plan]
      BY Zenon, <1>4 DEF GetCircuit, Decide, Plan
    <2>5. pc' \in [Worker -> PC] /\ \A v \in Worker : v # w => pc'[v] = pc[v]
      BY Zenon, <1>4 DEF GetCircuit
    <2> QED  BY Zenon, <1>4, <2>2, <2>3, <2>4, <2>5 DEF GetCircuit
  <1>5. CASE PutHalfOpen(w)
    BY Zenon, <1>5 DEF PutHalfOpen, putCircuit
  <1>6. CASE PutDelivering(w)
    BY Zenon, <1>6 DEF PutDelivering, putMessage, MessageStatus
  <1>7. CASE Post(w)
    BY Zenon, <1>7 DEF Post, PlanFor, classifyOutcome, AttemptStatus, Decide, Plan, DlqReason
  <1>8. CASE PutCircuit(w)
    <2>1. onSuccess(circ[w]) \in CircuitRecord /\ onFailure(circ[w]) \in CircuitRecord
      BY CircuitTypes
    <2>2. circuit' \in [Endpoint -> CircuitRecord]
      BY Zenon, <1>8, <2>1 DEF PutCircuit, putCircuit
    <2>3. plan' \in [Worker -> Plan] /\ pc' \in [Worker -> PC]
      BY Zenon, <1>8 DEF PutCircuit, Decide, Plan, DlqReason
    <2> QED  BY Zenon, <1>8, <2>2, <2>3 DEF PutCircuit
  <1>9. CASE PutDelivered(w)
    BY Zenon, <1>9 DEF PutDelivered, putMessage, MessageStatus
  <1>10. CASE LogDelivered(w)
    BY SMTT(30), <1>10, CircuitTypes DEF LogDelivered, appendAttempt, Return, Forget, Attempt, Plan
  <1>11. CASE PutDead(w)
    BY Zenon, <1>11 DEF PutDead, putMessage, MessageStatus
  <1>12. CASE LogDead(w)
    <2>1. attempts' \subseteq Attempt
      BY <1>12 DEF LogDead, appendAttempt, Attempt
    <2> QED  BY Zenon, <1>12, <2>1 DEF LogDead
  <1>13. CASE AddToDlq(w)
    <2>1. plan[w] \in DlqReason
      BY <1>13 DEF AddToDlq, ControlOK
    <2>2. dlq' \subseteq [msg: Message, reason: DlqReason]
      BY <1>13, <2>1 DEF AddToDlq
    <2> QED  BY SMTT(30), <1>13, <2>2, CircuitTypes DEF AddToDlq, Return, Forget, Plan
  <1>14. CASE LogRetried(w)
    <2>1. PICK d \in 0..MaxWait : wait' = [wait EXCEPT ![w] = d]
      BY Zenon, <1>14, DelaysBounded DEF LogRetried
    <2>2. wait' \in [Worker -> 0..MaxWait]
      BY <2>1
    <2>3. attempts' \subseteq Attempt
      BY <1>14 DEF LogRetried, appendAttempt, Attempt
    <2> QED  BY Zenon, <1>14, <2>2, <2>3 DEF LogRetried
  <1>15. CASE PutRetrying(w)
    BY Zenon, <1>15 DEF PutRetrying, putMessage, MessageStatus
  <1>16. CASE PutParked(w)
    BY Zenon, <1>16 DEF PutParked, putMessage, MessageStatus
  <1>17. CASE ScheduleRetry(w)
    <2> DEFINE m == msg[w]  n == NextAttemptNo(w)  d == wait[w]
    <2>1. m \in Message /\ n \in AttemptNo /\ d \in 0..MaxWait
      BY Zenon, <1>17, NextAttemptTyped DEF ScheduleRetry
    <2>2. sched' = [sched EXCEPT ![m][n][d] = sched[m][n][d] + 1]
      BY <1>17 DEF ScheduleRetry
    <2>3. sched' \in [Message -> [AttemptNo -> [0..MaxWait -> Nat]]]
      <3>1. sched[m][n][d] + 1 \in Nat
        <4>1. sched[m][n] \in [0..MaxWait -> Nat]
          <5> HIDE DEF m, n, d
          <5> QED  BY SMTT(30), <2>1
        <4> HIDE DEF m, n, d, TypeInv, TypeOK, ControlOK
        <4>2. sched[m][n][d] \in Nat
          BY <2>1, <4>1
        <4> QED  BY <4>2
      <3> HIDE DEF m, n, d
      <3> QED  BY Zenon, <2>1, <2>2, <3>1, SlotUpdate
    <2>4. /\ pc' \in [Worker -> PC] /\ UNCHANGED msg
          /\ \A v \in Worker : pc'[v] # "idle" => pc[v] # "idle"
      BY <1>17 DEF ScheduleRetry, Return
    <2>5. plan' \in [Worker -> Plan] /\ circ' \in [Worker -> CircuitRecord]
          /\ wait' \in [Worker -> 0..MaxWait]
      BY <1>17, CircuitTypes DEF ScheduleRetry, Return, Forget, Plan
    <2> QED  BY Zenon, <1>17, <2>3, <2>4, <2>5 DEF ScheduleRetry, Return
  <1>18. CASE Ack(w)
    BY SMTT(30), <1>18, CircuitTypes DEF Ack, Free, Forget, Plan
  <1> QED
    BY Zenon, <1>1, <1>2, <1>3, <1>4, <1>5, <1>6, <1>7, <1>8, <1>9, <1>10, <1>11, <1>12,
       <1>13, <1>14, <1>15, <1>16, <1>17, <1>18 DEF Step

LEMMA StepControl ==
    ASSUME TypeInv, NEW w \in Worker, Step(w)
    PROVE  ControlOK'
  <1> USE AttemptNos
      DEF TypeInv, TypeOK, ControlOK, locals, job, Goto
  <1>1. CASE Receive(w)
    BY Zenon, <1>1 DEF Receive
  <1>2. CASE GetEndpoint(w)
    BY SMTT(30), <1>2 DEF GetEndpoint, Decide, DlqReason
  <1>3. CASE RateGate(w)
    BY SMTT(30), <1>3 DEF RateGate, Decide
  <1>4. CASE GetCircuit(w)
    BY SMTT(30), <1>4 DEF GetCircuit, Decide
  <1>5. CASE PutHalfOpen(w)
    BY <1>5 DEF PutHalfOpen
  <1>6. CASE PutDelivering(w)
    BY <1>6 DEF PutDelivering
  <1>7. CASE Post(w)
    <2>1. PICK p \in {"delivered", "retryable", "permanent_4xx", "blocked_ssrf"} :
            plan' = [plan EXCEPT ![w] = p]
      BY <1>7 DEF Post, Decide, PlanFor, classifyOutcome, AttemptStatus
    <2> QED  BY <1>7, <2>1 DEF Post, DlqReason
  <1>8. CASE PutCircuit(w)
    <2>1. attemptNo[w] \in AttemptNo /\ attemptNo' = attemptNo
      BY <1>8 DEF PutCircuit
    <2>2. CASE plan[w] = "delivered"
      BY SMTT(30), <1>8, <2>1, <2>2 DEF PutCircuit, DlqReason
    <2>3. CASE plan[w] \in DlqReason
      BY <1>8, <2>1, <2>3 DEF PutCircuit, DlqReason
    <2>4. CASE plan[w] = "retryable" /\ nextDelays(attemptNo[w]) = {}
      <3>1. attemptNo[w] = Len(Schedule)
        BY Zenon, <2>1, <2>4, ExhaustedSchedule
      <3>2. pc' = [pc EXCEPT ![w] = "putDead"]
            /\ plan' = [plan EXCEPT ![w] = "exhausted_retries"]
        BY <1>8, <2>4 DEF PutCircuit, Decide, DlqReason
      <3> QED  BY <2>1, <3>1, <3>2 DEF DlqReason
    <2>5. CASE plan[w] = "retryable" /\ nextDelays(attemptNo[w]) # {}
      <3>1. attemptNo[w] < Len(Schedule)
        <4>1. attemptNo[w] # Len(Schedule)
          BY <2>1, <2>5, ExhaustedSchedule
        <4> QED  BY <2>1, <4>1 DEF AttemptNo
      <3>2. pc' = [pc EXCEPT ![w] = "logRetried"] /\ plan' = [plan EXCEPT ![w] = "retry"]
        BY <1>8, <2>5 DEF PutCircuit, Decide, DlqReason
      <3> QED  BY <2>1, <3>1, <3>2 DEF DlqReason
    <2> QED  BY Zenon, <1>8, <2>2, <2>3, <2>4, <2>5 DEF PutCircuit
  <1>9. CASE PutDelivered(w)
    BY <1>9 DEF PutDelivered
  <1>10. CASE LogDelivered(w)
    BY <1>10 DEF LogDelivered, Return, Forget
  <1>11. CASE PutDead(w)
    BY <1>11 DEF PutDead
  <1>12. CASE LogDead(w)
    BY <1>12 DEF LogDead
  <1>13. CASE AddToDlq(w)
    BY <1>13 DEF AddToDlq, Return, Forget
  <1>14. CASE LogRetried(w)
    BY <1>14 DEF LogRetried
  <1>15. CASE PutRetrying(w)
    BY <1>15 DEF PutRetrying
  <1>16. CASE PutParked(w)
    BY <1>16 DEF PutParked
  <1>17. CASE ScheduleRetry(w)
    BY Zenon, <1>17 DEF ScheduleRetry, Return, Forget
  <1>18. CASE Ack(w)
    BY <1>18 DEF Ack, Free, Forget
  <1> QED
    BY Zenon, <1>1, <1>2, <1>3, <1>4, <1>5, <1>6, <1>7, <1>8, <1>9, <1>10, <1>11, <1>12,
       <1>13, <1>14, <1>15, <1>16, <1>17, <1>18 DEF Step

LEMMA BoundsNat == MaxWait \in Nat /\ MaxFaults \in Nat /\ MaxThrottles \in Nat
  BY EngineAssumption

LEMMA RequeueType ==
    ASSUME TypeInv, NEW w \in Worker, pc[w] # "idle", Requeue(w)
    PROVE  queue' \in [Message -> [AttemptNo -> Nat]]
  <1>1. msg[w] \in Message /\ attemptNo[w] \in AttemptNo
    BY DEF TypeInv, TypeOK
  <1> QED  BY <1>1 DEF TypeInv, TypeOK, Requeue

LEMMA AbandonType ==
    ASSUME TypeInv, NEW w \in Worker, Abandon(w), faults' \in 0..MaxFaults
    PROVE  TypeInv'
  <1>1. queue' \in [Message -> [AttemptNo -> Nat]]
    BY RequeueType DEF Abandon
  <1>2. /\ plan' \in [Worker -> Plan]
        /\ circ' \in [Worker -> CircuitRecord]
    BY CircuitTypes DEF TypeInv, TypeOK, Abandon, Free, Forget, Plan
  <1>3. wait' \in [Worker -> 0..MaxWait]
    BY BoundsNat DEF TypeInv, TypeOK, Abandon, Free, Forget
  <1>4. /\ pc' \in [Worker -> PC]
        /\ msg' \in [Worker -> Message \cup {NoMessage}]
        /\ attemptNo' \in [Worker -> AttemptNo]
        /\ \A v \in Worker : pc'[v] # "idle" => msg'[v] \in Message
    BY AttemptNos DEF TypeInv, TypeOK, Abandon, Free, Goto, PC
  <1>5. TypeOK'
    BY Zenon, <1>1, <1>2, <1>3, <1>4 DEF TypeInv, TypeOK, Abandon, stores
  <1>6. ControlOK'
    BY AttemptNos DEF TypeInv, TypeOK, ControlOK, Abandon, Free, Forget, Goto
  <1> QED  BY <1>5, <1>6 DEF TypeInv

LEMMA FailType ==
    ASSUME TypeInv, NEW w \in Worker, Fail(w) \/ Conflict(w)
    PROVE  TypeInv'
  <1>1. faults' \in 0..MaxFaults
    BY BoundsNat DEF TypeInv, TypeOK, Fail, Conflict
  <1> QED  BY Zenon, <1>1, AbandonType DEF Fail, Conflict

LEMMA RedeliverType ==
    ASSUME TypeInv, NEW w \in Worker, Redeliver(w)
    PROVE  TypeInv'
  <1>1. queue' \in [Message -> [AttemptNo -> Nat]]
    BY RequeueType DEF Redeliver
  <1>2. faults' \in 0..MaxFaults
    BY BoundsNat DEF TypeInv, TypeOK, Redeliver
  <1> QED
    BY Zenon, <1>1, <1>2 DEF TypeInv, TypeOK, ControlOK, Redeliver, stores, job, locals

LEMMA ReleaseType ==
    ASSUME TypeInv, NEW m \in Message, NEW n \in AttemptNo, Release(m, n)
    PROVE  TypeInv'
  <1>1. queue[m][n] + 1 \in Nat
    BY DEF TypeInv, TypeOK
  <1>2. queue' \in [Message -> [AttemptNo -> Nat]]
    BY <1>1 DEF TypeInv, TypeOK, Release
  <1>3. sched[m][n] \in [0..MaxWait -> Nat] /\ 0 \in 0..MaxWait
    BY BoundsNat DEF TypeInv, TypeOK
  <1>4. sched[m][n][0] - 1 \in Nat
    <2>1. sched[m][n][0] \in Nat
      BY Zenon, <1>3
    <2>2. sched[m][n][0] > 0
      BY DEF Release
    <2> QED  BY <2>1, <2>2
  <1>5. sched' \in [Message -> [AttemptNo -> [0..MaxWait -> Nat]]]
    BY Zenon, <1>3, <1>4, SlotUpdate DEF TypeInv, TypeOK, Release
  <1> QED
    BY Zenon, <1>2, <1>5
       DEF TypeInv, TypeOK, ControlOK, Release, stores, job, locals, bounds

LEMMA TickType ==
    ASSUME TypeInv, Tick
    PROVE  TypeInv'
  <1>1. ASSUME NEW due \in [0..MaxWait -> Nat]
        PROVE  Shift(due) \in [0..MaxWait -> Nat]
    <2>1. ASSUME NEW d \in 0..MaxWait
          PROVE  (IF d < MaxWait THEN due[d + 1] ELSE 0) + (IF d = 0 THEN due[0] ELSE 0) \in Nat
      <3>1. d < MaxWait => d + 1 \in 0..MaxWait
        BY BoundsNat
      <3>2. 0 \in 0..MaxWait
        BY BoundsNat
      <3> QED  BY <3>1, <3>2
    <2> QED  BY <2>1 DEF Shift
  <1>2. sched' \in [Message -> [AttemptNo -> [0..MaxWait -> Nat]]]
    BY <1>1 DEF TypeInv, TypeOK, Tick
  <1>3. circuit' \in [Endpoint -> CircuitRecord]
    BY CircuitTypes DEF TypeInv, TypeOK, Tick
  <1>4. wait' \in [Worker -> 0..MaxWait]
    BY Zenon, DelaysBounded DEF TypeInv, TypeOK, Tick
  <1> QED
    BY Zenon, <1>2, <1>3, <1>4 DEF TypeInv, TypeOK, ControlOK, Tick, job, bounds

LEMMA StutterType == TypeInv /\ UNCHANGED vars => TypeInv'
  BY Zenon DEF TypeInv, TypeOK, ControlOK, vars, stores, transit, bounds, locals, job

LEMMA TypeStep ==
    ASSUME TypeInv, [Next]_vars
    PROVE  TypeInv'
  <1>1. ASSUME NEW w \in Worker, Step(w)  PROVE TypeInv'
    <2>1. TypeOK'
      BY <1>1, StepType
    <2>2. ControlOK'
      BY <1>1, StepControl
    <2> QED  BY <2>1, <2>2 DEF TypeInv
  <1>2. CASE UNCHANGED vars
    BY <1>2, StutterType
  <1>3. ASSUME NEW e \in Endpoint, SetEndpoint(e)  PROVE TypeInv'
    BY Zenon, <1>3 DEF TypeInv, TypeOK, ControlOK, SetEndpoint, stores, transit, job,
                       locals, bounds
  <1> QED
    BY <1>1, <1>2, <1>3, FailType, RedeliverType, ReleaseType, TickType DEF Next, PlainNext

\* Every reachable state is well typed, and what a processMessage call has
\* decided always agrees with the port call it is about to make.
THEOREM TypeInvariant == Spec => []TypeInv
  BY InitType, TypeStep, PTL DEF Spec

\* Every reachable state is well typed: no attempt runs past the schedule and
\* no retry is due later than the policies allow.
THEOREM TypeCorrect == Spec => []TypeOK
  BY TypeInvariant, PTL DEF TypeInv

(***************************************************************************)
(* No message is lost: SettledOrOwed is preserved.                         *)
(***************************************************************************)
\* A step of w leaves everything that concerns message m alone, except that
\* the log and the DLQ may grow.
Frame(m, w) ==
    /\ queue'[m] = queue[m] /\ sched'[m] = sched[m] /\ status'[m] = status[m]
    /\ attempts \subseteq attempts' /\ dlq \subseteq dlq'
    /\ \A v \in Worker \ {w} : pc'[v] = pc[v] /\ msg'[v] = msg[v]

LEMMA SettledFrame ==
    ASSUME NEW m \in Message, NEW w \in Worker, SettledOrOwed(m), Frame(m, w),
           msg[w] # m \/ pc[w] \in {"idle", "ack"}
    PROVE  SettledOrOwed(m)'
  <1>1. Queued(m) => Queued(m)'
    BY DEF Queued, Frame
  <1>2. Scheduled(m) => Scheduled(m)'
    BY DEF Scheduled, Frame
  <1>3. /\ HeldAt(m, Undecided) => HeldAt(m, Undecided)'
        /\ HeldAt(m, {"logDelivered"}) => HeldAt(m, {"logDelivered"})'
        /\ HeldAt(m, {"logDead"}) => HeldAt(m, {"logDead"})'
        /\ HeldAt(m, {"addToDlq"}) => HeldAt(m, {"addToDlq"})'
    BY DEF HeldAt, Undecided, Frame
  <1>4. \A o : Logged(m, o) => Logged(m, o)'
    BY DEF Logged, Frame
  <1>5. DeadLettered(m) => DeadLettered(m)'
    BY DEF DeadLettered, Frame
  <1>6. status'[m] = status[m]
    BY DEF Frame
  <1> QED  BY <1>1, <1>2, <1>3, <1>4, <1>5, <1>6 DEF SettledOrOwed

\* The variables of the steps are functions; the types a step argument needs.
LEMMA StepTypes ==
    ASSUME TypeInv
    PROVE  /\ queue \in [Message -> [AttemptNo -> Nat]]
           /\ sched \in [Message -> [AttemptNo -> [0..MaxWait -> Nat]]]
           /\ status \in [Message -> MessageStatus]
           /\ pc \in [Worker -> PC]
           /\ msg \in [Worker -> Message \cup {NoMessage}]
           /\ attemptNo \in [Worker -> AttemptNo]
           /\ plan \in [Worker -> Plan]
           /\ wait \in [Worker -> 0..MaxWait]
           /\ \A w \in Worker : pc[w] # "idle" => msg[w] \in Message
  BY DEF TypeInv, TypeOK

\* A step of processMessage concerns no message but the one the worker has.
LEMMA StepFrame ==
    ASSUME TypeInv, NEW w \in Worker, Step(w), NEW m \in Message,
           m # msg[w] \/ pc[w] = "idle", m # msg'[w]
    PROVE  Frame(m, w)
  <1>0. /\ queue \in [Message -> [AttemptNo -> Nat]]
        /\ sched \in [Message -> [AttemptNo -> [0..MaxWait -> Nat]]]
        /\ status \in [Message -> MessageStatus]
        /\ pc \in [Worker -> PC]
        /\ msg \in [Worker -> Message \cup {NoMessage}]
    BY StepTypes
  <1> USE <1>0 DEF Frame, stores, transit, bounds, locals, job, Goto
  <1>1. CASE Receive(w)
    BY <1>1 DEF Receive
  <1>2. CASE GetEndpoint(w)
    BY <1>2 DEF GetEndpoint
  <1>3. CASE RateGate(w)
    BY <1>3 DEF RateGate
  <1>4. CASE GetCircuit(w)
    BY <1>4 DEF GetCircuit
  <1>5. CASE PutHalfOpen(w)
    BY <1>5 DEF PutHalfOpen
  <1>6. CASE PutDelivering(w)
    BY <1>6 DEF PutDelivering, putMessage
  <1>7. CASE Post(w)
    BY <1>7 DEF Post
  <1>8. CASE PutCircuit(w)
    BY <1>8 DEF PutCircuit
  <1>9. CASE PutDelivered(w)
    BY <1>9 DEF PutDelivered, putMessage
  <1>10. CASE LogDelivered(w)
    BY <1>10 DEF LogDelivered, appendAttempt, Return
  <1>11. CASE PutDead(w)
    BY <1>11 DEF PutDead, putMessage
  <1>12. CASE LogDead(w)
    BY <1>12 DEF LogDead, appendAttempt
  <1>13. CASE AddToDlq(w)
    BY <1>13 DEF AddToDlq, Return
  <1>14. CASE LogRetried(w)
    BY <1>14 DEF LogRetried, appendAttempt
  <1>15. CASE PutRetrying(w)
    BY <1>15 DEF PutRetrying, putMessage
  <1>16. CASE PutParked(w)
    BY <1>16 DEF PutParked, putMessage
  <1>17. CASE ScheduleRetry(w)
    BY <1>17 DEF ScheduleRetry, Return
  <1>18. CASE Ack(w)
    BY <1>18 DEF Ack, Free
  <1> QED
    BY <1>1, <1>2, <1>3, <1>4, <1>5, <1>6, <1>7, <1>8, <1>9, <1>10, <1>11, <1>12,
       <1>13, <1>14, <1>15, <1>16, <1>17, <1>18, Zenon DEF Step

\* Until the final status is written a call stays undecided.
LEMMA StaysUndecided ==
    ASSUME TypeInv, NEW w \in Worker,
           \/ Receive(w)       \/ GetEndpoint(w)   \/ RateGate(w)     \/ GetCircuit(w)
           \/ PutHalfOpen(w)   \/ PutDelivering(w) \/ Post(w)         \/ PutCircuit(w)
           \/ LogRetried(w)    \/ PutRetrying(w)   \/ PutParked(w)
    PROVE  pc'[w] \in Undecided /\ (Receive(w) \/ msg'[w] = msg[w])
  BY Zenon DEF TypeInv, TypeOK, Receive, GetEndpoint, RateGate, GetCircuit, PutHalfOpen,
         PutDelivering, Post, PutCircuit, LogRetried, PutRetrying, PutParked, Undecided,
         PC, Goto, job

\* An increment leaves something in its slot of the schedule.
LEMMA SlotFilled ==
    ASSUME NEW s \in [Message -> [AttemptNo -> [0..MaxWait -> Nat]]],
           NEW m \in Message, NEW n \in AttemptNo, NEW d \in 0..MaxWait
    PROVE  [s EXCEPT ![m][n][d] = @ + 1][m][n][d] > 0
  <1>1. s[m][n] \in [0..MaxWait -> Nat]
    OBVIOUS
  <1>2. s[m][n][d] \in Nat
    BY Zenon, <1>1
  <1>3. [s EXCEPT ![m][n][d] = @ + 1][m][n] = [s[m][n] EXCEPT ![d] = s[m][n][d] + 1]
    OBVIOUS
  <1>4. [s[m][n] EXCEPT ![d] = s[m][n][d] + 1][d] = s[m][n][d] + 1
    BY Zenon, <1>1
  <1> QED  BY <1>2, <1>3, <1>4

LEMMA SettledStep ==
    ASSUME TypeInv, NEW w \in Worker, Step(w), NEW m \in Message, SettledOrOwed(m)
    PROVE  SettledOrOwed(m)'
  <1>1. CASE (m # msg[w] \/ pc[w] = "idle") /\ m # msg'[w]
    BY Zenon, <1>1, SettledFrame, StepFrame
  <1>2. CASE \/ Receive(w)     \/ GetEndpoint(w)   \/ RateGate(w)  \/ GetCircuit(w)
             \/ PutHalfOpen(w) \/ PutDelivering(w) \/ Post(w)      \/ PutCircuit(w)
             \/ LogRetried(w)  \/ PutRetrying(w)   \/ PutParked(w)
    <2>1. pc'[w] \in Undecided /\ (Receive(w) \/ msg'[w] = msg[w])
      BY <1>2, StaysUndecided
    <2>2. Receive(w) => pc[w] = "idle"
      BY DEF Receive
    <2>3. CASE m = msg'[w]
      BY <2>1, <2>3 DEF SettledOrOwed, HeldAt, Undecided
    <2> QED  BY <1>1, <2>1, <2>2, <2>3
  <1> USE DEF TypeInv, TypeOK, stores, transit, bounds, locals, job, Goto
  <1>3. CASE PutDelivered(w)
    <2>1. CASE m = msg[w]
      <3>1. status'[m] = "delivered" /\ HeldAt(m, {"logDelivered"})'
        BY <1>3, <2>1 DEF PutDelivered, putMessage, HeldAt
      <3> QED  BY <3>1 DEF SettledOrOwed
    <2> QED  BY <1>1, <1>3, <2>1 DEF PutDelivered
  <1>4. CASE PutDead(w)
    <2>1. CASE m = msg[w]
      <3>1. status'[m] = "dead" /\ HeldAt(m, {"logDead"})'
        BY <1>4, <2>1 DEF PutDead, putMessage, HeldAt
      <3> QED  BY <3>1 DEF SettledOrOwed
    <2> QED  BY <1>1, <1>4, <2>1 DEF PutDead
  \* Every other holder of m, and the log and the DLQ, stay as they are.
  <1>5. ASSUME m = msg[w], LogDelivered(w) \/ LogDead(w) \/ AddToDlq(w)
        PROVE  /\ Queued(m) => Queued(m)'
               /\ Scheduled(m) => Scheduled(m)'
               /\ HeldAt(m, Undecided) => HeldAt(m, Undecided)'
               /\ status' = status
               /\ \A o : Logged(m, o) => Logged(m, o)'
               /\ DeadLettered(m) => DeadLettered(m)'
    <2>1. /\ queue' = queue /\ sched' = sched /\ status' = status
          /\ attempts \subseteq attempts' /\ dlq \subseteq dlq'
          /\ pc[w] \notin Undecided
          /\ \A v \in Worker \ {w} : pc'[v] = pc[v] /\ msg'[v] = msg[v]
      BY <1>5 DEF LogDelivered, LogDead, AddToDlq, Return, appendAttempt, Undecided
    <2> QED  BY Zenon, <2>1 DEF Queued, Scheduled, HeldAt, Undecided, Logged, DeadLettered
  <1>6. CASE LogDelivered(w)
    <2>1. CASE m = msg[w]
      <3>1. Logged(m, "delivered")'
        BY <1>6, <2>1 DEF LogDelivered, appendAttempt, Logged
      <3>2. /\ HeldAt(m, {"logDead"}) => HeldAt(m, {"logDead"})'
            /\ HeldAt(m, {"addToDlq"}) => HeldAt(m, {"addToDlq"})'
        BY Zenon, <1>6 DEF LogDelivered, Return, HeldAt
      <3> QED  BY <1>5, <1>6, <2>1, <3>1, <3>2 DEF SettledOrOwed
    <2> QED  BY <1>1, <1>6, <2>1 DEF LogDelivered, Return
  <1>7. CASE LogDead(w)
    <2>1. CASE m = msg[w]
      <3>1. Logged(m, "dead")' /\ HeldAt(m, {"addToDlq"})'
        BY <1>7, <2>1 DEF LogDead, appendAttempt, Logged, HeldAt
      <3>2. HeldAt(m, {"logDelivered"}) => HeldAt(m, {"logDelivered"})'
        BY <1>7 DEF LogDead, HeldAt
      <3> QED  BY <1>5, <1>7, <2>1, <3>1, <3>2 DEF SettledOrOwed
    <2> QED  BY <1>1, <1>7, <2>1 DEF LogDead
  <1>8. CASE AddToDlq(w)
    <2>1. CASE m = msg[w]
      <3>1. plan[w] \in DlqReason
        BY <1>8 DEF AddToDlq, ControlOK
      <3>2. DeadLettered(m)'
        BY <1>8, <2>1, <3>1 DEF AddToDlq, DeadLettered
      <3>3. /\ HeldAt(m, {"logDead"}) => HeldAt(m, {"logDead"})'
            /\ HeldAt(m, {"logDelivered"}) => HeldAt(m, {"logDelivered"})'
        BY Zenon, <1>8 DEF AddToDlq, Return, HeldAt
      <3> QED  BY <1>5, <1>8, <2>1, <3>2, <3>3 DEF SettledOrOwed
    <2> QED  BY <1>1, <1>8, <2>1 DEF AddToDlq, Return
  <1>9. CASE ScheduleRetry(w)
    <2>1. CASE m = msg[w]
      <3>1. NextAttemptNo(w) \in AttemptNo
        BY Zenon, <1>9, NextAttemptTyped DEF ScheduleRetry
      <3>2. wait[w] \in 0..MaxWait
        OBVIOUS
      <3>3. sched' = [sched EXCEPT ![m][NextAttemptNo(w)][wait[w]] = @ + 1]
        BY <1>9, <2>1 DEF ScheduleRetry
      <3>4. sched \in [Message -> [AttemptNo -> [0..MaxWait -> Nat]]]
        OBVIOUS
      <3> HIDE DEF TypeInv, TypeOK
      <3>5. sched'[m][NextAttemptNo(w)][wait[w]] > 0
        BY <3>1, <3>2, <3>3, <3>4, SlotFilled
      <3> QED  BY Zenon, <3>1, <3>2, <3>5 DEF SettledOrOwed, Scheduled
    <2> QED  BY <1>1, <1>9, <2>1 DEF ScheduleRetry, Return
  <1>10. CASE Ack(w)
    <2>1. Frame(m, w) /\ pc[w] = "ack"
      BY <1>10 DEF Ack, Free, Frame
    <2> QED  BY <2>1, SettledFrame
  <1> QED
    BY <1>2, <1>3, <1>4, <1>6, <1>7, <1>8, <1>9, <1>10 DEF Step

\* A failed or duplicated delivery, a released retry and a clock tick keep
\* every message accounted for.
LEMMA SettledRequeue ==
    ASSUME TypeInv, NEW w \in Worker, Fail(w) \/ Conflict(w) \/ Redeliver(w), NEW m \in Message,
           SettledOrOwed(m)
    PROVE  SettledOrOwed(m)'
  <1> USE DEF TypeInv, TypeOK, stores, transit, bounds, locals, job, Goto
  <1>1. CASE m = msg[w]
    <2>1. attemptNo[w] \in AttemptNo /\ queue[m][attemptNo[w]] \in Nat
      OBVIOUS
    <2>2. queue'[m][attemptNo[w]] = queue[m][attemptNo[w]] + 1
      BY <1>1, <2>1 DEF Fail, Conflict, Abandon, Redeliver, Requeue
    <2>3. queue'[m][attemptNo[w]] > 0
      BY <2>1, <2>2
    <2> QED  BY Zenon, <2>1, <2>3 DEF SettledOrOwed, Queued
  <1>2. CASE m # msg[w]
    <2>1. Frame(m, w)
      BY Zenon, <1>2 DEF Frame, Fail, Conflict, Abandon, Redeliver, Requeue, Free
    <2> QED  BY <1>2, <2>1, SettledFrame
  <1> QED  BY <1>1, <1>2

LEMMA SettledRelease ==
    ASSUME TypeInv, NEW r \in Message, NEW n \in AttemptNo, Release(r, n),
           NEW m \in Message, SettledOrOwed(m)
    PROVE  SettledOrOwed(m)'
  <1> USE DEF TypeInv, TypeOK, stores, transit, bounds, locals, job
  <1>1. CASE m = r
    <2>1. queue'[m][n] = queue[m][n] + 1 /\ queue[m][n] \in Nat
      BY <1>1 DEF Release
    <2>2. queue'[m][n] > 0
      BY <2>1
    <2> QED  BY Zenon, <2>2 DEF SettledOrOwed, Queued
  <1>2. CASE m # r
    <2>1. queue'[m] = queue[m] /\ sched'[m] = sched[m]
      BY <1>2 DEF Release
    <2>2. UNCHANGED <<status, attempts, dlq, pc, msg>>
      BY DEF Release
    <2> QED
      BY Zenon, <2>1, <2>2 DEF SettledOrOwed, Queued, Scheduled, HeldAt, Logged, DeadLettered
  <1> QED  BY <1>1, <1>2

\* A tick moves scheduled copies nearer and loses none.
LEMMA SettledTick ==
    ASSUME TypeInv, Tick, NEW m \in Message, SettledOrOwed(m)
    PROVE  SettledOrOwed(m)'
  <1>1. ASSUME NEW n \in AttemptNo, NEW d \in 0..MaxWait, sched[m][n][d] > 0
        PROVE  Scheduled(m)'
    <2> DEFINE c == Countdown(d)
    <2>1. c \in 0..MaxWait /\ (d = 0 => c = 0) /\ (d # 0 => c + 1 = d /\ c < MaxWait)
      BY BoundsNat DEF Countdown
    <2>2. sched[m][n] \in [0..MaxWait -> Nat]
      BY DEF TypeInv, TypeOK
    <2>3. sched'[m][n] = Shift(sched[m][n])
      BY DEF Tick
    <2> HIDE DEF c
    <2>4. Shift(sched[m][n])[c] = (IF c < MaxWait THEN sched[m][n][c + 1] ELSE 0)
                                     + (IF c = 0 THEN sched[m][n][0] ELSE 0)
      BY <2>1 DEF Shift
    <2>5. c < MaxWait => c + 1 \in 0..MaxWait
      BY <2>1, BoundsNat
    <2>6. /\ c < MaxWait => sched[m][n][c + 1] \in Nat
          /\ sched[m][n][0] \in Nat /\ sched[m][n][d] \in Nat
      BY <2>2, <2>5, BoundsNat
    <2>7. Shift(sched[m][n])[c] > 0
      BY <1>1, <2>1, <2>4, <2>6
    <2> QED  BY <2>1, <2>3, <2>7 DEF Scheduled
  <1>2. Scheduled(m) => Scheduled(m)'
    BY <1>1 DEF Scheduled
  <1> QED
    BY Zenon, <1>2 DEF Tick, job, SettledOrOwed, Queued, HeldAt, Logged, DeadLettered

LEMMA SettledStutter ==
    ASSUME UNCHANGED <<queue, sched, status, attempts, dlq, pc, msg>>,
           NEW m \in Message, SettledOrOwed(m)
    PROVE  SettledOrOwed(m)'
  BY Zenon DEF SettledOrOwed, Queued, Scheduled, HeldAt, Logged, DeadLettered

AllSettledOrOwed == \A m \in Message : SettledOrOwed(m)

LEMMA SettledInit == Init => AllSettledOrOwed
  BY AttemptNos DEF Init, AllSettledOrOwed, SettledOrOwed, Queued

\* Every step of the engine keeps a message accounted for.
LEMMA SettledNext ==
    ASSUME TypeInv, [Next]_vars, NEW m \in Message, SettledOrOwed(m)
    PROVE  SettledOrOwed(m)'
  <1>1. CASE \E e \in Endpoint : SetEndpoint(e)
    BY <1>1, SettledStutter DEF SetEndpoint, transit, stores, job
  <1>2. CASE UNCHANGED vars
    BY <1>2, SettledStutter DEF vars, transit, stores, job
  <1> QED
    BY <1>1, <1>2, SettledStep, SettledRequeue, SettledRelease, SettledTick DEF Next, PlainNext

LEMMA AlwaysSettledOrOwed == Spec => []AllSettledOrOwed
  <1>1. TypeInv /\ AllSettledOrOwed /\ [Next]_vars => AllSettledOrOwed'
    BY Zenon, SettledNext DEF AllSettledOrOwed
  <1> QED  BY TypeInvariant, SettledInit, <1>1, PTL DEF Spec

\* Whatever crashes, duplicates and interleavings happen, a message nobody is
\* working on any more is delivered and logged so, or dead, logged so and in
\* the DLQ.
THEOREM MessagesSettledTruthfully == Spec => []SettledTruthfully
  <1>1. AllSettledOrOwed => SettledTruthfully
    BY DEF AllSettledOrOwed, SettledTruthfully, SettledOrOwed, InFlight, HeldAt,
           Undecided, PC
  <1> QED
    BY AlwaysSettledOrOwed, <1>1, PTL

(***************************************************************************)
(* The delivery log, the DLQ and the receivers.                            *)
(***************************************************************************)
\* The part of the inductive invariant about what has been written and sent.
RecordsInv ==
    /\ \A w \in Worker : StepsDone(w)
    /\ RetryHistoryComplete
    /\ DlqHasTerminalAttempt
    /\ DeliveredMeansReceived

LEMMA RecordsInit == Init => RecordsInv
  <1> SUFFICES ASSUME Init  PROVE RecordsInv
    OBVIOUS
  <1>1. \A w \in Worker : StepsDone(w)
    BY DEF Init, StepsDone
  <1>2. ASSUME NEW m \in Message, NEW n \in AttemptNo, CopyAt(m, n)  PROVE n = 0
    BY <1>2, EngineAssumption DEF Init, CopyAt
  <1>3. RetryHistoryComplete
    BY <1>2 DEF Init, RetryHistoryComplete
  <1>4. DlqHasTerminalAttempt /\ DeliveredMeansReceived
    BY DEF Init, DlqHasTerminalAttempt, DeliveredMeansReceived, DeadLettered, Logged
  <1> QED  BY <1>1, <1>3, <1>4 DEF RecordsInv

\* The log, the DLQ and the set of receptions only grow, and a step changes
\* the locals of no other call.
LEMMA StepGrows ==
    ASSUME TypeInv, NEW w \in Worker, Step(w)
    PROVE  /\ attempts \subseteq attempts' /\ received \subseteq received'
           /\ \A v \in Worker \ {w} : /\ pc'[v] = pc[v] /\ msg'[v] = msg[v]
                                      /\ plan'[v] = plan[v] /\ attemptNo'[v] = attemptNo[v]
  <1>0. /\ pc \in [Worker -> PC] /\ plan \in [Worker -> Plan]
        /\ msg \in [Worker -> Message \cup {NoMessage}]
        /\ attemptNo \in [Worker -> AttemptNo]
    BY StepTypes
  <1> USE <1>0 DEF stores, locals, job, Goto, Decide, appendAttempt, Forget
  <1>1. CASE Receive(w)
    BY <1>1 DEF Receive
  <1>2. CASE GetEndpoint(w)
    BY <1>2 DEF GetEndpoint
  <1>3. CASE RateGate(w)
    BY <1>3 DEF RateGate
  <1>4. CASE GetCircuit(w)
    BY <1>4 DEF GetCircuit
  <1>5. CASE PutHalfOpen(w)
    BY <1>5 DEF PutHalfOpen
  <1>6. CASE PutDelivering(w)
    BY <1>6 DEF PutDelivering
  <1>7. CASE Post(w)
    BY <1>7 DEF Post
  <1>8. CASE PutCircuit(w)
    BY <1>8 DEF PutCircuit
  <1>9. CASE PutDelivered(w)
    BY <1>9 DEF PutDelivered
  <1>10. CASE LogDelivered(w)
    BY <1>10 DEF LogDelivered, Return
  <1>11. CASE PutDead(w)
    BY <1>11 DEF PutDead
  <1>12. CASE LogDead(w)
    BY <1>12 DEF LogDead
  <1>13. CASE AddToDlq(w)
    BY <1>13 DEF AddToDlq, Return
  <1>14. CASE LogRetried(w)
    BY <1>14 DEF LogRetried
  <1>15. CASE PutRetrying(w)
    BY <1>15 DEF PutRetrying
  <1>16. CASE PutParked(w)
    BY <1>16 DEF PutParked
  <1>17. CASE ScheduleRetry(w)
    BY <1>17 DEF ScheduleRetry, Return
  <1>18. CASE Ack(w)
    BY <1>18 DEF Ack, Free
  <1> QED
    BY <1>1, <1>2, <1>3, <1>4, <1>5, <1>6, <1>7, <1>8, <1>9, <1>10, <1>11, <1>12,
       <1>13, <1>14, <1>15, <1>16, <1>17, <1>18, Zenon DEF Step

\* What the stepping call itself has done.
LEMMA OwnStepsDone ==
    ASSUME TypeInv, NEW w \in Worker, Step(w), StepsDone(w)
    PROVE  StepsDone(w)'
  <1>0. attempts \subseteq attempts' /\ received \subseteq received'
    BY StepGrows
  <1>a. /\ pc \in [Worker -> PC] /\ plan \in [Worker -> Plan]
        /\ attemptNo[w] \in AttemptNo
    BY StepTypes
  <1>b. /\ pc[w] \in {"idle", "getEndpoint", "rateGate", "getCircuit", "putHalfOpen",
                      "putDelivering", "post", "ack"} => plan[w] = "none"
        /\ pc[w] = "putCircuit" => plan[w] \in {"delivered", "retryable"} \cup DlqReason
        /\ pc[w] \in {"logRetried", "putRetrying"} => plan[w] = "retry"
        /\ pc[w] = "putParked" => plan[w] \in {"throttled", "blocked"}
    BY DEF TypeInv, ControlOK
  <1> USE <1>0, <1>a, <1>b DEF StepsDone, Logged, Retried, stores, locals, job, Goto, Decide
  <1>1. CASE Receive(w)
    BY <1>1 DEF Receive
  <1>2. CASE GetEndpoint(w)
    BY Zenon, <1>2 DEF GetEndpoint
  <1>3. CASE RateGate(w)
    BY Zenon, <1>3 DEF RateGate
  <1>4. CASE GetCircuit(w)
    BY Zenon, <1>4 DEF GetCircuit
  <1>5. CASE PutHalfOpen(w)
    BY Zenon, <1>5 DEF PutHalfOpen
  <1>6. CASE PutDelivering(w)
    BY Zenon, <1>6 DEF PutDelivering
  <1>7. CASE Post(w)
    BY <1>7 DEF Post, PlanFor, classifyOutcome, AttemptStatus
  <1>8. CASE PutCircuit(w)
    BY Zenon, <1>8 DEF PutCircuit, DlqReason
  <1>9. CASE PutDelivered(w)
    BY Zenon, <1>9 DEF PutDelivered
  <1>10. CASE LogDelivered(w)
    BY Zenon, <1>10 DEF LogDelivered, Return, Forget
  <1>11. CASE PutDead(w)
    BY Zenon, <1>11 DEF PutDead
  <1>12. CASE LogDead(w)
    BY Zenon, <1>12 DEF LogDead, appendAttempt
  <1>13. CASE AddToDlq(w)
    BY Zenon, <1>13 DEF AddToDlq, Return, Forget
  <1>14. CASE LogRetried(w)
    BY Zenon, <1>14 DEF LogRetried, appendAttempt
  <1>15. CASE PutRetrying(w)
    BY Zenon, <1>15 DEF PutRetrying
  <1>16. CASE PutParked(w)
    BY Zenon, <1>16 DEF PutParked
  <1>17. CASE ScheduleRetry(w)
    BY Zenon, <1>17 DEF ScheduleRetry, Return, Forget
  <1>18. CASE Ack(w)
    BY Zenon, <1>18 DEF Ack, Free, Forget
  <1> QED
    BY <1>1, <1>2, <1>3, <1>4, <1>5, <1>6, <1>7, <1>8, <1>9, <1>10, <1>11, <1>12,
       <1>13, <1>14, <1>15, <1>16, <1>17, <1>18, Zenon DEF Step

\* Only AddToDlq adds to the DLQ, only LogDelivered logs a delivery, and only
\* PutDelivered stores one.
LEMMA StepWrites ==
    ASSUME TypeInv, NEW w \in Worker, Step(w)
    PROVE  /\ AddToDlq(w) \/ dlq' = dlq
           /\ \A m \in Message : Logged(m, "delivered")'
                => Logged(m, "delivered") \/ (m = msg[w] /\ plan[w] = "delivered")
           /\ \A m \in Message : status'[m] = "delivered"
                => status[m] = "delivered" \/ (m = msg[w] /\ plan[w] = "delivered")
  <1>0. /\ status \in [Message -> MessageStatus]
        /\ pc[w] \in {"putDelivered", "logDelivered"} => plan[w] = "delivered"
    BY DEF TypeInv, TypeOK, ControlOK
  \* A message the step does not log as delivered was logged before it.
  <1>1. ASSUME attempts' = attempts  PROVE \A m : Logged(m, "delivered")' => Logged(m, "delivered")
    BY <1>1, Zenon DEF Logged
  <1>2. ASSUME NEW o, o # "delivered", appendAttempt(w, o)
        PROVE  \A m : Logged(m, "delivered")' => Logged(m, "delivered")
    BY <1>2 DEF Logged, appendAttempt
  <1>3. CASE \/ Receive(w)     \/ GetEndpoint(w) \/ RateGate(w)      \/ GetCircuit(w)
             \/ PutHalfOpen(w) \/ Post(w)        \/ PutCircuit(w)
             \/ ScheduleRetry(w) \/ Ack(w)
    <2>1. attempts' = attempts /\ dlq' = dlq /\ status' = status
      BY <1>3, Zenon DEF Receive, GetEndpoint, RateGate, GetCircuit, PutHalfOpen, Post, PutCircuit,
                         ScheduleRetry, Ack, stores
    <2> QED  BY <1>1, <2>1, Zenon
  <1>4. CASE PutDelivering(w) \/ PutDelivered(w) \/ PutDead(w) \/ PutRetrying(w) \/ PutParked(w)
    <2>1. attempts' = attempts /\ dlq' = dlq
      BY <1>4, Zenon DEF PutDelivering, PutDelivered, PutDead, PutRetrying, PutParked, putMessage
    <2>2. \A m \in Message : status'[m] = "delivered"
             => status[m] = "delivered" \/ (m = msg[w] /\ plan[w] = "delivered")
      BY Zenon, <1>0, <1>4 DEF PutDelivering, PutDelivered, PutDead, PutRetrying, PutParked,
                             putMessage
    <2> QED  BY <1>1, <2>1, <2>2, Zenon
  <1>5. CASE LogDelivered(w)
    <2>1. plan[w] = "delivered" /\ dlq' = dlq /\ status' = status
      BY Zenon, <1>0, <1>5 DEF LogDelivered
    <2>2. \A m \in Message : Logged(m, "delivered")' => Logged(m, "delivered") \/ m = msg[w]
      BY Zenon, <1>5 DEF LogDelivered, appendAttempt, Logged
    <2> QED  BY <2>1, <2>2, Zenon
  <1>6. CASE LogDead(w) \/ LogRetried(w)
    <2>1. dlq' = dlq /\ status' = status
      BY <1>6, Zenon DEF LogDead, LogRetried
    <2>2. \A m : Logged(m, "delivered")' => Logged(m, "delivered")
      BY <1>2, <1>6 DEF LogDead, LogRetried
    <2> QED  BY <2>1, <2>2, Zenon
  <1>7. CASE AddToDlq(w)
    <2>1. attempts' = attempts /\ status' = status
      BY <1>7, Zenon DEF AddToDlq
    <2> QED  BY <1>1, <1>7, <2>1, Zenon
  <1> QED  BY <1>3, <1>4, <1>5, <1>6, <1>7, Zenon DEF Step

\* What a nested EXCEPT stores, slot by slot.
LEMMA SlotValue ==
    ASSUME NEW S, NEW T, NEW V, NEW f \in [S -> [T -> V]], NEW g, NEW v,
           NEW a \in S, NEW b \in T, g = [f EXCEPT ![a][b] = v],
           NEW m \in S, NEW n \in T
    PROVE  g[m][n] = IF m = a /\ n = b THEN v ELSE f[m][n]
  OBVIOUS

\* A count that is positive after it may have been decremented was positive.
LEMMA CountBefore ==
    ASSUME NEW a \in Nat, NEW b, b = a \/ b = a - 1, b > 0
    PROVE  a > 0
  OBVIOUS

\* The types of the variables that copies live in.
LEMMA CopyTypes ==
    ASSUME TypeInv
    PROVE  /\ queue \in [Message -> [AttemptNo -> Nat]]
           /\ sched \in [Message -> [AttemptNo -> [0..MaxWait -> Nat]]]
           /\ msg \in [Worker -> Message \cup {NoMessage}]
           /\ attemptNo \in [Worker -> AttemptNo]
           /\ \A w \in Worker : pc[w] # "idle" => msg[w] \in Message
           /\ NoMessage \notin Message
  BY EngineAssumption DEF TypeInv, TypeOK

\* A step that leaves the transport, the scheduler and the jobs alone leaves the
\* copies alone.
LEMMA CopyFrame ==
    ASSUME UNCHANGED <<queue, sched, msg, attemptNo>>, NEW m, NEW n, CopyAt(m, n)'
    PROVE  CopyAt(m, n)
  BY DEF CopyAt

\* Where the copies a step leaves behind come from: they were there before, or
\* they are the retry of an attempt that is in the log.
LEMMA StepCopies ==
    ASSUME TypeInv, NEW w \in Worker, Step(w), StepsDone(w),
           NEW m \in Message, NEW n \in AttemptNo, CopyAt(m, n)'
    PROVE  CopyAt(m, n) \/ (n - 1 \in AttemptNo /\ CopyAt(m, n - 1) /\ Retried(m, n - 1))
  <1>0. /\ queue \in [Message -> [AttemptNo -> Nat]]
        /\ sched \in [Message -> [AttemptNo -> [0..MaxWait -> Nat]]]
        /\ msg \in [Worker -> Message \cup {NoMessage}]
        /\ attemptNo \in [Worker -> AttemptNo]
        /\ pc[w] # "idle" => msg[w] \in Message
    BY CopyTypes
  <1>1. CASE Receive(w)
    <2>1. PICK r \in Message, k \in AttemptNo :
            /\ queue[r][k] > 0
            /\ queue' = [queue EXCEPT ![r][k] = queue[r][k] - 1]
            /\ msg' = [msg EXCEPT ![w] = r]
            /\ attemptNo' = [attemptNo EXCEPT ![w] = k]
      BY Zenon, <1>1 DEF Receive
    <2>2. ASSUME queue'[m][n] > 0  PROVE queue[m][n] > 0
      <3>1. queue[m][n] \in Nat
        BY <1>0
      <3>2. queue'[m][n] = IF m = r /\ n = k THEN queue[r][k] - 1 ELSE queue[m][n]
        BY <1>0, <2>1, SlotValue
      <3>3. queue'[m][n] = queue[m][n] \/ queue'[m][n] = queue[m][n] - 1
        BY Zenon, <3>2
      <3> QED  BY Zenon, <2>2, <3>1, <3>3, CountBefore
    <2>3. ASSUME NEW v \in Worker, msg'[v] = m, attemptNo'[v] = n
          PROVE  queue[m][n] > 0 \/ (msg[v] = m /\ attemptNo[v] = n)
      <3>1. CASE v = w
        <4>1. m = r /\ n = k
          BY <1>0, <2>1, <2>3, <3>1
        <4> QED  BY <2>1, <4>1
      <3>2. CASE v # w
        BY <1>0, <2>1, <2>3, <3>2
      <3> QED  BY <3>1, <3>2
    <2>4. sched' = sched
      BY <1>1 DEF Receive
    <2> QED  BY Zenon, <2>2, <2>3, <2>4 DEF CopyAt
  <1>2. CASE GetEndpoint(w)
    BY <1>2, CopyFrame DEF GetEndpoint, transit, job
  <1>3. CASE RateGate(w)
    BY <1>3, CopyFrame DEF RateGate, transit, job
  <1>4. CASE GetCircuit(w)
    BY <1>4, CopyFrame DEF GetCircuit, transit, job
  <1>5. CASE PutHalfOpen(w)
    BY Zenon, <1>5, CopyFrame DEF PutHalfOpen, transit, job
  <1>6. CASE PutDelivering(w)
    BY <1>6, CopyFrame DEF PutDelivering, transit, job
  <1>7. CASE Post(w)
    BY Zenon, <1>7, CopyFrame DEF Post, transit, job
  <1>8. CASE PutCircuit(w)
    BY Zenon, <1>8, CopyFrame DEF PutCircuit, transit, job
  <1>9. CASE PutDelivered(w)
    BY <1>9, CopyFrame DEF PutDelivered, transit, job
  <1>10. CASE LogDelivered(w)
    BY <1>10, CopyFrame DEF LogDelivered, Return, transit, job
  <1>11. CASE PutDead(w)
    BY <1>11, CopyFrame DEF PutDead, transit, job
  <1>12. CASE LogDead(w)
    BY <1>12, CopyFrame DEF LogDead, transit, job
  <1>13. CASE AddToDlq(w)
    BY Zenon, <1>13, CopyFrame DEF AddToDlq, Return, transit, job
  <1>14. CASE LogRetried(w)
    BY Zenon, <1>14, CopyFrame DEF LogRetried, transit, job
  <1>15. CASE PutRetrying(w)
    BY <1>15, CopyFrame DEF PutRetrying, transit, job
  <1>16. CASE PutParked(w)
    BY Zenon, <1>16, CopyFrame DEF PutParked, transit, job
  <1>17. CASE ScheduleRetry(w)
    <2>1. UNCHANGED <<queue, msg, attemptNo>> /\ pc[w] = "scheduleRetry"
      BY <1>17 DEF ScheduleRetry, Return, job
    <2>2. CASE m = msg[w] /\ n = NextAttemptNo(w)
      <3>1. CASE plan[w] = "retry"
        <4>1. n - 1 = attemptNo[w] /\ attemptNo[w] \in AttemptNo
          BY <1>0, <2>2, <3>1, AttemptNos DEF NextAttemptNo
        <4>2. Retried(m, attemptNo[w])
          BY Zenon, <2>1, <2>2, <3>1 DEF StepsDone
        <4>3. CopyAt(m, attemptNo[w])
          BY Zenon, <2>2 DEF CopyAt
        <4> QED  BY <4>1, <4>2, <4>3
      <3>2. CASE plan[w] # "retry"
        BY Zenon, <2>2, <3>2 DEF NextAttemptNo, CopyAt
      <3> QED  BY <3>1, <3>2
    <2>3. CASE ~(m = msg[w] /\ n = NextAttemptNo(w))
      <3>1. sched'[m][n] = sched[m][n]
        BY Zenon, <1>0, <1>17, <2>3 DEF ScheduleRetry
      <3> QED  BY Zenon, <2>1, <3>1 DEF CopyAt
    <2> QED  BY <2>2, <2>3
  <1>18. CASE Ack(w)
    <2>1. UNCHANGED <<queue, sched>>
      BY <1>18 DEF Ack, transit
    <2>2. ASSUME NEW v \in Worker, msg'[v] = m, attemptNo'[v] = n
          PROVE  msg[v] = m /\ attemptNo[v] = n
      BY <1>0, <1>18, <2>2, CopyTypes DEF Ack, Free
    <2> QED  BY Zenon, <2>1, <2>2 DEF CopyAt
  <1> QED
    BY <1>1, <1>2, <1>3, <1>4, <1>5, <1>6, <1>7, <1>8, <1>9, <1>10, <1>11, <1>12,
       <1>13, <1>14, <1>15, <1>16, <1>17, <1>18, Zenon DEF Step

LEMMA EnvironmentCopies ==
    ASSUME TypeInv,
           \/ \E w \in Worker : Fail(w) \/ Conflict(w) \/ Redeliver(w)
           \/ \E r \in Message, k \in AttemptNo : Release(r, k)
           \/ \E e \in Endpoint : SetEndpoint(e)
           \/ Tick \/ UNCHANGED vars,
           NEW m \in Message, NEW n \in AttemptNo, CopyAt(m, n)'
    PROVE  CopyAt(m, n)
  <1>0. /\ queue \in [Message -> [AttemptNo -> Nat]]
        /\ sched \in [Message -> [AttemptNo -> [0..MaxWait -> Nat]]]
        /\ msg \in [Worker -> Message \cup {NoMessage}]
        /\ attemptNo \in [Worker -> AttemptNo]
        /\ \A w \in Worker : pc[w] # "idle" => msg[w] \in Message
        /\ NoMessage \notin Message
    BY CopyTypes
  <1>1. ASSUME NEW w \in Worker, Fail(w) \/ Conflict(w) \/ Redeliver(w)  PROVE CopyAt(m, n)
    <2>1. /\ sched' = sched
          /\ msg[w] \in Message /\ attemptNo[w] \in AttemptNo
          /\ queue' = [queue EXCEPT ![msg[w]][attemptNo[w]] = queue[msg[w]][attemptNo[w]] + 1]
      BY Zenon, <1>0, <1>1 DEF Fail, Conflict, Abandon, Redeliver, Requeue
    <2>2. ASSUME NEW v \in Worker, msg'[v] = m
          PROVE  msg[v] = m /\ attemptNo'[v] = attemptNo[v]
      BY Zenon, <1>0, <1>1, <2>2 DEF Fail, Conflict, Abandon, Redeliver, Free, job
    <2>3. queue'[m][n] = IF m = msg[w] /\ n = attemptNo[w]
                         THEN queue[msg[w]][attemptNo[w]] + 1 ELSE queue[m][n]
      BY Zenon, <1>0, <2>1, SlotValue
    <2> QED  BY Zenon, <2>1, <2>2, <2>3 DEF CopyAt
  <1>2. ASSUME NEW r \in Message, NEW k \in AttemptNo, Release(r, k)  PROVE CopyAt(m, n)
    <2>1. /\ UNCHANGED <<msg, attemptNo>> /\ sched[r][k][0] > 0
          /\ queue' = [queue EXCEPT ![r][k] = queue[r][k] + 1]
      BY Zenon, <1>2 DEF Release, job
    <2>2. CASE m = r /\ n = k
      <3>1. 0 \in 0..MaxWait
        BY BoundsNat
      <3> QED  BY <2>1, <2>2, <3>1 DEF CopyAt
    <2>3. CASE ~(m = r /\ n = k)
      <3>1. sched'[m][n] = sched[m][n]
        BY Zenon, <1>0, <1>2, <2>3 DEF Release
      <3>2. queue'[m][n] = IF m = r /\ n = k THEN queue[r][k] + 1 ELSE queue[m][n]
        BY Zenon, <1>0, <2>1, SlotValue
      <3> QED  BY <2>1, <2>3, <3>1, <3>2 DEF CopyAt
    <2> QED  BY <2>2, <2>3
  <1>3. CASE Tick
    <2>1. UNCHANGED <<queue, msg, attemptNo>> /\ sched'[m][n] = Shift(sched[m][n])
      BY <1>3 DEF Tick, job
    <2>2. ASSUME NEW d \in 0..MaxWait, Shift(sched[m][n])[d] > 0
          PROVE  \E c \in 0..MaxWait : sched[m][n][c] > 0
      <3>1. sched[m][n] \in [0..MaxWait -> Nat]
        BY <1>0
      <3>2. Shift(sched[m][n])[d] = (IF d < MaxWait THEN sched[m][n][d + 1] ELSE 0)
                                       + (IF d = 0 THEN sched[m][n][0] ELSE 0)
        BY Zenon DEF Shift
      <3>3. 0 \in 0..MaxWait /\ (d < MaxWait => d + 1 \in 0..MaxWait)
        BY BoundsNat
      <3>4. sched[m][n][0] \in Nat /\ (d < MaxWait => sched[m][n][d + 1] \in Nat)
        BY Zenon, <3>1, <3>3
      <3>5. sched[m][n][0] > 0 \/ (d < MaxWait /\ sched[m][n][d + 1] > 0)
        BY <2>2, <3>2, <3>4
      <3> QED  BY Zenon, <3>3, <3>5
    <2> QED  BY Zenon, <2>1, <2>2 DEF CopyAt
  <1>4. CASE \E e \in Endpoint : SetEndpoint(e)
    BY <1>4, CopyFrame DEF SetEndpoint, transit, job
  <1>5. CASE UNCHANGED vars
    BY <1>5, CopyFrame DEF vars, transit, job
  <1> QED  BY <1>1, <1>2, <1>3, <1>4, <1>5

\* Every copy has its earlier attempts in the log, given where copies come from.
LEMMA HistoryFromCopies ==
    ASSUME RetryHistoryComplete, attempts \subseteq attempts',
           \A m \in Message, n \in AttemptNo : CopyAt(m, n)' =>
              CopyAt(m, n) \/ (n - 1 \in AttemptNo /\ CopyAt(m, n - 1) /\ Retried(m, n - 1))
    PROVE  \A m \in Message, n \in AttemptNo :
              CopyAt(m, n)' => \A k \in 0..(n - 1) : Retried(m, k)'
  <1> SUFFICES ASSUME NEW m \in Message, NEW n \in AttemptNo, CopyAt(m, n)',
                      NEW k \in 0..(n - 1)
               PROVE  Retried(m, k)
    BY DEF Retried
  <1>1. CASE CopyAt(m, n)
    BY Zenon, <1>1 DEF RetryHistoryComplete
  <1>2. CASE n - 1 \in AttemptNo /\ CopyAt(m, n - 1) /\ Retried(m, n - 1)
    <2>1. \A j \in 0..((n - 1) - 1) : Retried(m, j)
      BY Zenon, <1>2 DEF RetryHistoryComplete
    <2>2. k = n - 1 \/ k \in 0..((n - 1) - 1)
      BY AttemptNos
    <2> QED  BY <1>2, <2>1, <2>2
  <1> QED  BY <1>1, <1>2

LEMMA RecordsStep ==
    ASSUME TypeInv, RecordsInv, NEW w \in Worker, Step(w)
    PROVE  RecordsInv'
  <1>1. StepsDone(w)
    BY DEF RecordsInv
  <1>2. attempts \subseteq attempts' /\ received \subseteq received'
    BY StepGrows
  <1>3. ASSUME NEW v \in Worker  PROVE StepsDone(v)'
    <2>1. CASE v = w
      BY <1>1, <2>1, OwnStepsDone
    <2>2. CASE v # w
      <3>1. /\ pc'[v] = pc[v] /\ msg'[v] = msg[v]
            /\ plan'[v] = plan[v] /\ attemptNo'[v] = attemptNo[v]
        BY Zenon, <2>2, StepGrows
      <3> QED  BY Zenon, <1>2, <3>1 DEF RecordsInv, StepsDone, Logged, Retried
    <2> QED  BY <2>1, <2>2
  <1>4. \A m \in Message, n \in AttemptNo :
           CopyAt(m, n)' => \A k \in 0..(n - 1) : Retried(m, k)'
    BY <1>1, <1>2, StepCopies, HistoryFromCopies DEF RecordsInv
  <1>5. ASSUME NEW m \in Message, [msg |-> m, reason |-> "exhausted_retries"] \in dlq'
        PROVE  \A k \in 0..(Len(Schedule) - 1) : Retried(m, k)'
    <2>1. CASE [msg |-> m, reason |-> "exhausted_retries"] \in dlq
      BY <1>2, <2>1 DEF RecordsInv, RetryHistoryComplete, Retried
    <2>2. CASE [msg |-> m, reason |-> "exhausted_retries"] \notin dlq
      <3>1. AddToDlq(w)
        BY Zenon, <1>5, <2>2, StepWrites
      <3>2. m = msg[w] /\ plan[w] = "exhausted_retries"
        BY Zenon, <1>5, <2>2, <3>1 DEF AddToDlq
      <3>3. attemptNo[w] = Len(Schedule) /\ attemptNo[w] \in AttemptNo
        BY <3>2 DEF TypeInv, TypeOK, ControlOK
      <3>4. CopyAt(m, attemptNo[w])
        BY <3>2 DEF CopyAt
      <3> QED  BY Zenon, <1>2, <3>3, <3>4 DEF RecordsInv, RetryHistoryComplete, Retried
    <2> QED  BY <2>1, <2>2
  <1>6. DlqHasTerminalAttempt'
    <2> SUFFICES ASSUME NEW m \in Message, DeadLettered(m)'  PROVE Logged(m, "dead")'
      BY DEF DlqHasTerminalAttempt
    <2>1. CASE DeadLettered(m)
      BY <1>2, <2>1 DEF RecordsInv, DlqHasTerminalAttempt, Logged
    <2>2. CASE ~DeadLettered(m)
      <3>1. AddToDlq(w)
        BY Zenon, <2>2, StepWrites DEF DeadLettered
      <3>2. m = msg[w] /\ pc[w] = "addToDlq"
        BY Zenon, <2>2, <3>1 DEF AddToDlq, DeadLettered
      <3> QED  BY Zenon, <1>1, <1>2, <3>2 DEF StepsDone, Logged
    <2> QED  BY <2>1, <2>2
  <1>7. DeliveredMeansReceived'
    BY Zenon, <1>1, <1>2, StepWrites DEF DeliveredMeansReceived, RecordsInv, StepsDone
  <1> QED  BY <1>3, <1>4, <1>5, <1>6, <1>7 DEF RecordsInv, RetryHistoryComplete

LEMMA RecordsEnvironment ==
    ASSUME TypeInv, RecordsInv,
           \/ \E w \in Worker : Fail(w) \/ Conflict(w) \/ Redeliver(w)
           \/ \E r \in Message, k \in AttemptNo : Release(r, k)
           \/ \E e \in Endpoint : SetEndpoint(e)
           \/ Tick \/ UNCHANGED vars
    PROVE  RecordsInv'
  <1>1. UNCHANGED <<attempts, dlq, status, received>>
    BY Zenon DEF Fail, Conflict, Abandon, Redeliver, Release, SetEndpoint, Tick, vars, stores
  <1>2. ASSUME NEW v \in Worker
        PROVE  \/ pc'[v] = "idle" /\ plan'[v] = "none"
               \/ UNCHANGED <<pc[v], plan[v], msg[v], attemptNo[v]>>
    BY Zenon DEF Fail, Conflict, Abandon, Redeliver, Release, SetEndpoint, Tick, Free, Forget, Goto, vars, job,
           locals, TypeInv, TypeOK
  <1>3. \A v \in Worker : StepsDone(v)'
    BY Zenon, <1>1, <1>2 DEF RecordsInv, StepsDone, Logged, Retried
  <1>4. \A m \in Message, n \in AttemptNo :
           CopyAt(m, n)' => \A k \in 0..(n - 1) : Retried(m, k)'
    BY <1>1, EnvironmentCopies, HistoryFromCopies DEF RecordsInv
  <1> QED
    BY Zenon, <1>1, <1>3, <1>4
       DEF RecordsInv, RetryHistoryComplete, DlqHasTerminalAttempt, DeliveredMeansReceived,
           DeadLettered, Logged, Retried

LEMMA RecordsNext ==
    ASSUME TypeInv, RecordsInv, [Next]_vars
    PROVE  RecordsInv'
  BY RecordsStep, RecordsEnvironment DEF Next, PlainNext

LEMMA RecordsAlways == Spec => []RecordsInv
  BY TypeInvariant, RecordsInit, RecordsNext, PTL DEF Spec

\* No attempt is skipped or counted twice: a copy of attempt n, and an
\* exhausted message in the DLQ, has every earlier attempt in the log.
THEOREM RetryHistoryIsComplete == Spec => []RetryHistoryComplete
  BY RecordsAlways, PTL DEF RecordsInv

\* A DLQ row never appears without its terminal attempt in the delivery log.
THEOREM DlqRowsAreLogged == Spec => []DlqHasTerminalAttempt
  BY RecordsAlways, PTL DEF RecordsInv

\* What is stored or logged as delivered was received.
THEOREM DeliveriesAreReal == Spec => []DeliveredMeansReceived
  BY RecordsAlways, PTL DEF RecordsInv

(***************************************************************************)
(* The breaker.                                                            *)
(***************************************************************************)
\* A closed record is one whose count is below the threshold.
Consistent(rec) == rec.state = "closed" <=> rec.failures < Threshold

LEMMA ConsistentPolicies ==
    /\ Consistent(initialCircuit)
    /\ \A rec \in CircuitRecord : Consistent(rec) =>
          /\ Consistent(onFailure(rec))
          /\ Consistent(onSuccess(rec))
          /\ Consistent(Elapse(rec))
          /\ canAttempt(rec).probe => Consistent(toHalfOpen(rec))
  BY PolicyAssumption
     DEF Consistent, CircuitRecord, CircuitState, initialCircuit, onFailure, onSuccess,
         toHalfOpen, Elapse, Countdown, canAttempt

LEMMA BreakerByRecord ==
    BreakerConsistent <=> /\ \A e \in Endpoint : Consistent(circuit[e])
                          /\ \A w \in Worker : Consistent(circ[w])
  BY DEF BreakerConsistent, Consistent

LEMMA BreakerStep ==
    ASSUME TypeInv, BreakerConsistent, NEW w \in Worker, Step(w)
    PROVE  BreakerConsistent'
  <1>1. /\ \A e \in Endpoint : circuit[e] \in CircuitRecord /\ Consistent(circuit[e])
        /\ \A v \in Worker : circ[v] \in CircuitRecord /\ Consistent(circ[v])
    BY BreakerByRecord DEF TypeInv, TypeOK
  <1>2. SUFFICES /\ \A e \in Endpoint : Consistent(circuit'[e])
                 /\ \A v \in Worker : Consistent(circ'[v])
    BY DEF BreakerConsistent, Consistent
  <1>3. CASE GetCircuit(w)
    <2> DEFINE rec == circuit[EndpointAt(w)]
    <2>1. msg[w] \in Message /\ EndpointAt(w) \in Endpoint
      BY Zenon, <1>3, EngineAssumption DEF GetCircuit, TypeInv, TypeOK, EndpointAt
    <2>2. rec \in CircuitRecord /\ Consistent(rec)
      BY <1>1, <2>1
    <2>3. \A v \in Worker : \/ circ'[v] \in {circ[v], rec}
                            \/ circ'[v] = toHalfOpen(rec) /\ canAttempt(rec).probe
      BY Zenon, <1>3 DEF GetCircuit, TypeInv, TypeOK
    <2>4. circuit' = circuit
      BY Zenon, <1>3 DEF GetCircuit, stores
    <2> HIDE DEF rec
    <2> QED  BY Zenon, <1>1, <2>2, <2>3, <2>4, ConsistentPolicies
  <1>4. CASE PutHalfOpen(w)
    BY Zenon, <1>1, <1>4 DEF PutHalfOpen, putCircuit, locals, TypeInv, TypeOK
  <1>5. CASE PutCircuit(w)
    <2>1. \A e \in Endpoint :
             circuit'[e] \in {circuit[e], onSuccess(circ[w]), onFailure(circ[w])}
      BY Zenon, <1>5 DEF PutCircuit, putCircuit, TypeInv, TypeOK
    <2>2. circ' = circ
      BY Zenon, <1>5 DEF PutCircuit
    <2> QED  BY Zenon, <1>1, <2>1, <2>2, ConsistentPolicies
  <1>6. CASE ~(GetCircuit(w) \/ PutHalfOpen(w) \/ PutCircuit(w))
    <2>1. circuit' = circuit
      BY Zenon, <1>6 DEF Step, Receive, GetEndpoint, RateGate, PutDelivering, Post, PutDelivered,
         LogDelivered, PutDead, LogDead, AddToDlq, LogRetried, PutRetrying, PutParked,
         ScheduleRetry, Ack, stores
    <2>2. \A v \in Worker : circ'[v] \in {circ[v], initialCircuit}
      BY Zenon, <1>6 DEF Step, Receive, GetEndpoint, RateGate, PutDelivering, Post, PutDelivered,
         LogDelivered, PutDead, LogDead, AddToDlq, LogRetried, PutRetrying, PutParked,
         ScheduleRetry, Ack, locals, Return, Free, Forget, TypeInv, TypeOK
    <2> QED  BY Zenon, <1>1, <2>1, <2>2, ConsistentPolicies
  <1> QED  BY Zenon, <1>3, <1>4, <1>5, <1>6

LEMMA BreakerEnvironment ==
    ASSUME TypeInv, BreakerConsistent,
           \/ \E w \in Worker : Fail(w) \/ Conflict(w) \/ Redeliver(w)
           \/ \E r \in Message, k \in AttemptNo : Release(r, k)
           \/ \E e \in Endpoint : SetEndpoint(e)
           \/ Tick \/ UNCHANGED vars
    PROVE  BreakerConsistent'
  <1>1. /\ \A e \in Endpoint : circuit[e] \in CircuitRecord /\ Consistent(circuit[e])
        /\ \A v \in Worker : circ[v] \in CircuitRecord /\ Consistent(circ[v])
    BY Zenon, BreakerByRecord DEF TypeInv, TypeOK
  <1>2. \A e \in Endpoint : circuit'[e] \in {circuit[e], Elapse(circuit[e])}
    BY Zenon DEF Fail, Conflict, Abandon, Redeliver, Release, SetEndpoint, Tick, vars, stores
  <1>3. \A v \in Worker : circ'[v] \in {circ[v], initialCircuit}
    BY Zenon DEF Fail, Conflict, Abandon, Redeliver, Release, SetEndpoint, Tick, vars, locals, Free, Forget,
           TypeInv, TypeOK
  <1>4. /\ \A e \in Endpoint : Consistent(circuit'[e])
        /\ \A v \in Worker : Consistent(circ'[v])
    BY Zenon, <1>1, <1>2, <1>3, ConsistentPolicies
  <1> QED  BY Zenon, <1>4 DEF BreakerConsistent, Consistent

LEMMA BreakerInit == Init => BreakerConsistent
  BY ConsistentPolicies DEF Init, BreakerConsistent, Consistent

LEMMA BreakerNext ==
    ASSUME TypeInv, BreakerConsistent, [Next]_vars
    PROVE  BreakerConsistent'
  BY BreakerStep, BreakerEnvironment DEF Next, PlainNext

\* Neither the stored circuit record nor any stale copy that may still be
\* written back is closed with the threshold reached, or open or half-open below it.
THEOREM BreakerStaysConsistent == Spec => []BreakerConsistent
  BY TypeInvariant, BreakerInit, BreakerNext, PTL DEF Spec

\* The invariant the runs check is the one these proofs establish.
THEOREM InductiveInvariantHolds == Spec => []InductiveInvariant
  <1>1. TypeInv /\ AllSettledOrOwed /\ RecordsInv /\ BreakerConsistent => InductiveInvariant
    BY DEF TypeInv, AllSettledOrOwed, RecordsInv, InductiveInvariant
  <1> QED
    BY TypeInvariant, AlwaysSettledOrOwed, RecordsAlways, BreakerStaysConsistent, <1>1, PTL
=============================================================================
