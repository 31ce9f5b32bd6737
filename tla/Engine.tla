------------------------------- MODULE Engine -------------------------------
(***************************************************************************)
(* WebhookEngine.processMessage (packages/core/src/engine.ts), run by a    *)
(* pool of workers over an at-least-once transport, a retry scheduler and  *)
(* a state store that offers no transactions.                              *)
(*                                                                         *)
(* Every port call of processMessage is one step, so every await is a      *)
(* point where other workers, the clock, the portal and failures           *)
(* interleave.  pc names the next port call.  What a worker read earlier   *)
(* (the message it received, its copy of the circuit record, the retry     *)
(* time it computed) stays in its own record until it is used.             *)
(***************************************************************************)
EXTENDS Policy

CONSTANTS Message,        \* message ids accepted by send()
          Endpoint,       \* endpoint ids
          EndpointOf,     \* the endpoint each message is for
          Worker,         \* concurrent invocations of processMessage
          NoMessage,      \* the msg field of an idle worker
          ThrottleDelays, \* retryAfterMs values of the rate limiter, in ticks
          MaxWait,        \* bound: the longest wait any retry is scheduled for
          MaxFaults,      \* bound: crashes, port errors and duplicate deliveries
          MaxThrottles    \* bound: refusals by the rate limiter

ASSUME EngineAssumption ==
    /\ EndpointOf \in [Message -> Endpoint]
    /\ NoMessage \notin Message
    /\ MaxWait \in Nat
    /\ ThrottleDelays \subseteq 0..MaxWait
    /\ 2 * Cooldown <= MaxWait
    /\ RetryAfterCap <= MaxWait
    /\ \A i \in 1..Len(Schedule) : Schedule[i] <= MaxWait
    /\ MaxFaults \in Nat /\ MaxThrottles \in Nat

VARIABLES
    \* the stores, the transport and the scheduler
    queue,      \* copies of a message and attemptNo awaiting a worker
    sched,      \* copies due after the given number of ticks
    status,     \* Message.status as stored
    attempts,   \* the delivery log
    dlq,        \* the dead-letter queue
    circuit,    \* one circuit record per endpoint
    live,       \* the endpoint exists and is not disabled
    \* the local state of each processMessage call
    pc,         \* its next port call
    msg,        \* the message it received
    attemptNo,  \* and its attempt number
    plan,       \* what it has decided to do with the message
    circ,       \* the circuit record it read
    wait,       \* ticks until the retry time it computed
    \* used against MaxFaults and MaxThrottles
    faults, throttles,
    \* history: messages some receiver really got
    received

stores == <<status, attempts, dlq, circuit>>
transit == <<queue, sched>>
locals == <<plan, circ, wait>>
job == <<msg, attemptNo>>
bounds == <<faults, throttles>>

vars == <<transit, stores, live, pc, job, locals, bounds, received>>

AttemptNo == 0..Len(Schedule)

MessageStatus == {"pending", "delivering", "delivered", "retrying", "blocked", "dead"}

DlqReason == {"endpoint_gone", "permanent_4xx", "blocked_ssrf", "exhausted_retries"}

Attempt == [msg: Message, attemptNo: AttemptNo, outcome: {"delivered", "retried", "dead"}]

Plan == {"none", "delivered", "retryable", "retry", "throttled", "blocked"} \cup DlqReason

PC == {"idle", "getEndpoint", "rateGate", "getCircuit", "putHalfOpen",
       "putDelivering", "post", "putCircuit", "putDelivered", "logDelivered",
       "putDead", "logDead", "addToDlq", "logRetried", "putRetrying",
       "putParked", "scheduleRetry", "ack"}

TypeOK ==
    /\ queue \in [Message -> [AttemptNo -> Nat]]
    /\ sched \in [Message -> [AttemptNo -> [0..MaxWait -> Nat]]]
    /\ status \in [Message -> MessageStatus]
    /\ attempts \subseteq Attempt
    /\ dlq \subseteq [msg: Message, reason: DlqReason]
    /\ circuit \in [Endpoint -> CircuitRecord]
    /\ live \in [Endpoint -> BOOLEAN]
    /\ pc \in [Worker -> PC]
    /\ msg \in [Worker -> Message \cup {NoMessage}]
    /\ attemptNo \in [Worker -> AttemptNo]
    /\ plan \in [Worker -> Plan]
    /\ circ \in [Worker -> CircuitRecord]
    /\ wait \in [Worker -> 0..MaxWait]
    /\ \A w \in Worker : pc[w] # "idle" => msg[w] \in Message
    /\ faults \in 0..MaxFaults
    /\ throttles \in 0..MaxThrottles
    /\ received \subseteq Message

\* How the decision of a processMessage call goes with its next port call,
\* and with its place in the retry schedule.
ControlOK ==
    \A w \in Worker :
        /\ pc[w] \in {"idle", "getEndpoint", "rateGate", "getCircuit", "putHalfOpen",
                     "putDelivering", "post", "ack"} => plan[w] = "none"
        /\ pc[w] = "putCircuit" => plan[w] \in {"delivered", "retryable"} \cup DlqReason
        /\ pc[w] \in {"putDelivered", "logDelivered"} => plan[w] = "delivered"
        /\ pc[w] \in {"putDead", "logDead", "addToDlq"} => plan[w] \in DlqReason
        /\ pc[w] \in {"logRetried", "putRetrying"} => plan[w] = "retry"
        /\ pc[w] = "putParked" => plan[w] \in {"throttled", "blocked"}
        /\ pc[w] = "scheduleRetry" => plan[w] \in {"retry", "throttled", "blocked"}
        /\ plan[w] = "retry" => attemptNo[w] < Len(Schedule)
        /\ plan[w] = "exhausted_retries" => attemptNo[w] = Len(Schedule)

\* What send() leaves behind: every message stored as pending and enqueued once.
Init ==
    /\ queue = [m \in Message |-> [n \in AttemptNo |-> IF n = 0 THEN 1 ELSE 0]]
    /\ sched = [m \in Message |-> [n \in AttemptNo |-> [d \in 0..MaxWait |-> 0]]]
    /\ status = [m \in Message |-> "pending"]
    /\ attempts = {}
    /\ dlq = {}
    /\ circuit = [e \in Endpoint |-> initialCircuit]
    /\ live = [e \in Endpoint |-> TRUE]
    /\ pc = [w \in Worker |-> "idle"]
    /\ msg = [w \in Worker |-> NoMessage]
    /\ attemptNo = [w \in Worker |-> 0]
    /\ plan = [w \in Worker |-> "none"]
    /\ circ = [w \in Worker |-> initialCircuit]
    /\ wait = [w \in Worker |-> 0]
    /\ faults = 0
    /\ throttles = 0
    /\ received = {}

-----------------------------------------------------------------------------
(***************************************************************************)
(* Helpers.                                                                *)
(***************************************************************************)
Goto(w, label) == pc' = [pc EXCEPT ![w] = label]

Decide(w, p) == plan' = [plan EXCEPT ![w] = p]

EndpointAt(w) == EndpointOf[msg[w]]

putMessage(w, s) == status' = [status EXCEPT ![msg[w]] = s]

appendAttempt(w, outcome) ==
    attempts' = attempts \cup
        {[msg |-> msg[w], attemptNo |-> attemptNo[w], outcome |-> outcome]}

putCircuit(w, rec) == circuit' = [circuit EXCEPT ![EndpointAt(w)] = rec]

\* Locals end with the call.
Forget(w) ==
    /\ plan' = [plan EXCEPT ![w] = "none"]
    /\ circ' = [circ EXCEPT ![w] = initialCircuit]
    /\ wait' = [wait EXCEPT ![w] = 0]

\* processMessage returns.
Return(w) == Goto(w, "ack") /\ Forget(w) /\ UNCHANGED job

Free(w) ==
    /\ Goto(w, "idle")
    /\ Forget(w)
    /\ msg' = [msg EXCEPT ![w] = NoMessage]
    /\ attemptNo' = [attemptNo EXCEPT ![w] = 0]

-----------------------------------------------------------------------------
(***************************************************************************)
(* processMessage, port call by port call.                                 *)
(***************************************************************************)
\* The transport hands a queued copy to a free worker.
Receive(w) ==
    /\ pc[w] = "idle"
    /\ \E m \in Message, n \in AttemptNo :
        /\ queue[m][n] > 0
        /\ queue' = [queue EXCEPT ![m][n] = @ - 1]
        /\ msg' = [msg EXCEPT ![w] = m]
        /\ attemptNo' = [attemptNo EXCEPT ![w] = n]
    /\ Goto(w, "getEndpoint")
    /\ UNCHANGED <<sched, stores, live, locals, bounds, received>>

\* A missing or disabled endpoint dead-letters the message.
GetEndpoint(w) ==
    /\ pc[w] = "getEndpoint"
    /\ \/ live[EndpointAt(w)] /\ Goto(w, "rateGate") /\ UNCHANGED plan
       \/ ~live[EndpointAt(w)] /\ Goto(w, "putDead") /\ Decide(w, "endpoint_gone")
    /\ UNCHANGED <<transit, stores, live, job, circ, wait, bounds, received>>

\* The rate limiter (module RateLimit) admits the message, or refuses it
\* and names the time after which a token will be available.
RateGate(w) ==
    /\ pc[w] = "rateGate"
    /\ \/ Goto(w, "getCircuit") /\ UNCHANGED <<plan, wait, throttles>>
       \/ /\ throttles < MaxThrottles
          /\ throttles' = throttles + 1
          /\ Goto(w, "putParked")
          /\ Decide(w, "throttled")
          /\ \E d \in ThrottleDelays : wait' = [wait EXCEPT ![w] = d]
    /\ UNCHANGED <<transit, stores, live, job, circ, faults, received>>

\* Read the circuit record and pass or fail the gate.  The record read here
\* is what the worker's later putCircuit is computed from.
GetCircuit(w) ==
    /\ pc[w] = "getCircuit"
    /\ LET rec == circuit[EndpointAt(w)]
           gate == canAttempt(rec)
       IN  \/ /\ gate.allow
              /\ \/ gate.probe /\ Goto(w, "putHalfOpen")
                              /\ circ' = [circ EXCEPT ![w] = toHalfOpen(rec)]
                 \/ ~gate.probe /\ Goto(w, "putDelivering")
                               /\ circ' = [circ EXCEPT ![w] = rec]
              /\ UNCHANGED <<plan, wait>>
           \/ /\ ~gate.allow
              /\ Goto(w, "putParked")
              /\ Decide(w, "blocked")
              /\ \E d \in probeDelays(rec) : wait' = [wait EXCEPT ![w] = d]
              /\ UNCHANGED circ
    /\ UNCHANGED <<transit, stores, live, job, bounds, received>>

PutHalfOpen(w) ==
    /\ pc[w] = "putHalfOpen"
    /\ putCircuit(w, circ[w])
    /\ Goto(w, "putDelivering")
    /\ UNCHANGED <<transit, status, attempts, dlq, live, job, locals, bounds, received>>

PutDelivering(w) ==
    /\ pc[w] = "putDelivering"
    /\ putMessage(w, "delivering")
    /\ Goto(w, "post")
    /\ UNCHANGED <<transit, attempts, dlq, circuit, live, job, locals, bounds, received>>

PlanFor(outcome) == IF outcome = "permanent" THEN "permanent_4xx" ELSE outcome

\* deliverOnce: the URL policy refuses the target before any POST, or the
\* POST ends in some status.  Without an HTTP status the receiver may or may
\* not have got the request.
Post(w) ==
    /\ pc[w] = "post"
    /\ Goto(w, "putCircuit")
    /\ \/ Decide(w, "blocked_ssrf") /\ UNCHANGED received
       \/ \E s \in AttemptStatus :
             /\ Decide(w, PlanFor(classifyOutcome(s)))
             /\ \/ received' = received \cup {msg[w]}
                \/ s \in {"timeout", "network"} /\ UNCHANGED received
    /\ UNCHANGED <<transit, stores, live, job, circ, wait, bounds>>

\* The breaker record is rewritten from the copy read at the gate, and the
\* outcome decides what happens to the message.
PutCircuit(w) ==
    /\ pc[w] = "putCircuit"
    /\ \/ /\ plan[w] = "delivered"
          /\ putCircuit(w, onSuccess(circ[w]))
          /\ Goto(w, "putDelivered")
          /\ UNCHANGED plan
       \/ /\ plan[w] \in DlqReason
          /\ putCircuit(w, onFailure(circ[w]))
          /\ Goto(w, "putDead")
          /\ UNCHANGED plan
       \/ /\ plan[w] = "retryable"
          /\ putCircuit(w, onFailure(circ[w]))
          /\ \/ nextDelays(attemptNo[w]) = {} /\ Goto(w, "putDead")
                                              /\ Decide(w, "exhausted_retries")
             \/ nextDelays(attemptNo[w]) # {} /\ Goto(w, "logRetried")
                                              /\ Decide(w, "retry")
    /\ UNCHANGED <<transit, status, attempts, dlq, live, job, circ, wait, bounds, received>>

PutDelivered(w) ==
    /\ pc[w] = "putDelivered"
    /\ putMessage(w, "delivered")
    /\ Goto(w, "logDelivered")
    /\ UNCHANGED <<transit, attempts, dlq, circuit, live, job, locals, bounds, received>>

LogDelivered(w) ==
    /\ pc[w] = "logDelivered"
    /\ appendAttempt(w, "delivered")
    /\ Return(w)
    /\ UNCHANGED <<transit, status, dlq, circuit, live, bounds, received>>

\* MUTANT of PutDead: dlq() forgets the terminal attempt.
PutDeadUnlogged(w) ==
    /\ pc[w] = "putDead"
    /\ putMessage(w, "dead")
    /\ Goto(w, "addToDlq")
    /\ UNCHANGED <<transit, attempts, dlq, circuit, live, job, locals, bounds, received>>

\* dlq(): store the status, log a terminal attempt, add the DLQ row.
PutDead(w) ==
    /\ pc[w] = "putDead"
    /\ putMessage(w, "dead")
    /\ Goto(w, "logDead")
    /\ UNCHANGED <<transit, attempts, dlq, circuit, live, job, locals, bounds, received>>

LogDead(w) ==
    /\ pc[w] = "logDead"
    /\ appendAttempt(w, "dead")
    /\ Goto(w, "addToDlq")
    /\ UNCHANGED <<transit, status, dlq, circuit, live, job, locals, bounds, received>>

AddToDlq(w) ==
    /\ pc[w] = "addToDlq"
    /\ dlq' = dlq \cup {[msg |-> msg[w], reason |-> plan[w]]}
    /\ Return(w)
    /\ UNCHANGED <<transit, status, attempts, circuit, live, bounds, received>>

\* MUTANT of LogRetried: the attempt is left out of the delivery log.
LogRetriedNothing(w) ==
    /\ pc[w] = "logRetried"
    /\ \E d \in nextDelays(attemptNo[w]) : wait' = [wait EXCEPT ![w] = d]
    /\ Goto(w, "putRetrying")
    /\ UNCHANGED <<transit, stores, live, job, plan, circ, bounds, received>>

\* The attempt is logged and the retry time computed, now + delay.
LogRetried(w) ==
    /\ pc[w] = "logRetried"
    /\ appendAttempt(w, "retried")
    /\ \E d \in nextDelays(attemptNo[w]) : wait' = [wait EXCEPT ![w] = d]
    /\ Goto(w, "putRetrying")
    /\ UNCHANGED <<transit, status, dlq, circuit, live, job, plan, circ, bounds, received>>

\* MUTANT of PutRetrying: the retry is stored but never handed to the scheduler.
PutRetryingOnly(w) ==
    /\ pc[w] = "putRetrying"
    /\ putMessage(w, "retrying")
    /\ Return(w)
    /\ UNCHANGED <<transit, attempts, dlq, circuit, live, bounds, received>>

PutRetrying(w) ==
    /\ pc[w] = "putRetrying"
    /\ putMessage(w, "retrying")
    /\ Goto(w, "scheduleRetry")
    /\ UNCHANGED <<transit, attempts, dlq, circuit, live, job, locals, bounds, received>>

\* A throttled or breaker-blocked message is parked without using up an attempt.
PutParked(w) ==
    /\ pc[w] = "putParked"
    /\ putMessage(w, IF plan[w] = "blocked" THEN "blocked" ELSE "retrying")
    /\ Goto(w, "scheduleRetry")
    /\ UNCHANGED <<transit, attempts, dlq, circuit, live, job, locals, bounds, received>>

\* The attempt handed to the scheduler: the next one, or the same if it was parked.
NextAttemptNo(w) == IF plan[w] = "retry" THEN attemptNo[w] + 1 ELSE attemptNo[w]

ScheduleRetry(w) ==
    /\ pc[w] = "scheduleRetry"
    /\ sched' = [sched EXCEPT ![msg[w]][NextAttemptNo(w)][wait[w]] = @ + 1]
    /\ Return(w)
    /\ UNCHANGED <<queue, stores, live, bounds, received>>

\* The transport drops its copy of a message that was processed.
Ack(w) ==
    /\ pc[w] = "ack"
    /\ Free(w)
    /\ UNCHANGED <<transit, stores, live, bounds, received>>

Step(w) ==
    \/ Receive(w)       \/ GetEndpoint(w)   \/ RateGate(w)     \/ GetCircuit(w)
    \/ PutHalfOpen(w)   \/ PutDelivering(w) \/ Post(w)         \/ PutCircuit(w)
    \/ PutDelivered(w)  \/ LogDelivered(w)  \/ PutDead(w)      \/ LogDead(w)
    \/ AddToDlq(w)      \/ LogRetried(w)    \/ PutRetrying(w)  \/ PutParked(w)
    \/ ScheduleRetry(w) \/ Ack(w)

-----------------------------------------------------------------------------
(***************************************************************************)
(* The environment of processMessage.                                      *)
(***************************************************************************)
Requeue(w) == queue' = [queue EXCEPT ![msg[w]][attemptNo[w]] = @ + 1]

\* The call ends without an acknowledgement and the transport delivers the
\* same message again.
Abandon(w) ==
    /\ pc[w] # "idle"
    /\ Requeue(w)
    /\ Free(w)
    /\ UNCHANGED <<sched, stores, live, throttles, received>>

\* A port call throws or the worker crashes.
Fail(w) ==
    /\ faults < MaxFaults
    /\ faults' = faults + 1
    /\ Abandon(w)

\* putCircuit throws because another worker wrote the record first (module
\* DynamoCircuit says when).
Conflict(w) ==
    /\ pc[w] \in {"putHalfOpen", "putCircuit"}
    /\ Abandon(w)
    /\ UNCHANGED faults

\* The transport delivers a second copy although the first is being worked
\* on: a visibility timeout, or an acknowledgement that was lost.
Redeliver(w) ==
    /\ pc[w] # "idle"
    /\ faults < MaxFaults
    /\ faults' = faults + 1
    /\ Requeue(w)
    /\ UNCHANGED <<sched, stores, live, pc, job, locals, throttles, received>>

\* The scheduler puts a due retry back on the transport.
Release(m, n) ==
    /\ sched[m][n][0] > 0
    /\ sched' = [sched EXCEPT ![m][n][0] = @ - 1]
    /\ queue' = [queue EXCEPT ![m][n] = @ + 1]
    /\ UNCHANGED <<stores, live, pc, job, locals, bounds, received>>

\* The portal disables or deletes an endpoint, or enables it again.
SetEndpoint(e) ==
    /\ live' = [live EXCEPT ![e] = ~@]
    /\ UNCHANGED <<transit, stores, pc, job, locals, bounds, received>>

\* Shift the schedule of one attempt down by a tick; what is due stays due.
Shift(due) ==
    [d \in 0..MaxWait |-> (IF d < MaxWait THEN due[d + 1] ELSE 0)
                            + (IF d = 0 THEN due[0] ELSE 0)]

Tick ==
    /\ sched' = [m \in Message |-> [n \in AttemptNo |-> Shift(sched[m][n])]]
    /\ circuit' = [e \in Endpoint |-> Elapse(circuit[e])]
    /\ wait' = [w \in Worker |-> Countdown(wait[w])]
    /\ UNCHANGED <<queue, status, attempts, dlq, live, pc, job, plan, circ, bounds, received>>

\* The engine over a store whose puts never conflict, the Durable Objects.
PlainNext ==
    \/ \E w \in Worker : Step(w) \/ Fail(w) \/ Redeliver(w)
    \/ \E m \in Message, n \in AttemptNo : Release(m, n)
    \/ \E e \in Endpoint : SetEndpoint(e)
    \/ Tick

Next == PlainNext \/ \E w \in Worker : Conflict(w)

Spec == Init /\ [][Next]_vars

-----------------------------------------------------------------------------
(***************************************************************************)
(* Properties.                                                             *)
(***************************************************************************)
Logged(m, outcome) ==
    \E n \in AttemptNo : [msg |-> m, attemptNo |-> n, outcome |-> outcome] \in attempts

DeadLettered(m) == \E r \in DlqReason : [msg |-> m, reason |-> r] \in dlq

Queued(m) == \E n \in AttemptNo : queue[m][n] > 0

Scheduled(m) == \E n \in AttemptNo, d \in 0..MaxWait : sched[m][n][d] > 0

HeldAt(m, labels) == \E w \in Worker : msg[w] = m /\ pc[w] \in labels

\* Some copy of the message still has work ahead of it.
InFlight(m) == Queued(m) \/ Scheduled(m) \/ HeldAt(m, PC \ {"idle", "ack"})

\* A message nobody is working on any more has been settled, and its final
\* status is borne out by the delivery log and, when it is dead, by a DLQ row:
\* no crash, duplicate delivery or interleaving of processMessage calls loses
\* a message or leaves it looking unfinished.  The converse is not claimed: a
\* copy that failed may have left a DLQ row beside a delivered message.
SettledTruthfully ==
    \A m \in Message : ~InFlight(m) =>
        \/ status[m] = "delivered" /\ Logged(m, "delivered")
        \/ status[m] = "dead" /\ Logged(m, "dead") /\ DeadLettered(m)

CopyAt(m, n) ==
    \/ queue[m][n] > 0
    \/ \E d \in 0..MaxWait : sched[m][n][d] > 0
    \/ \E w \in Worker : msg[w] = m /\ attemptNo[w] = n

Retried(m, n) == [msg |-> m, attemptNo |-> n, outcome |-> "retried"] \in attempts

\* A copy waiting for, or being, attempt n has its n earlier attempts in the
\* delivery log, and a message dead-lettered as exhausted has a logged retry
\* for every step of the schedule: no attempt is skipped or counted twice
\* (engine.ts 223-233).
RetryHistoryComplete ==
    \A m \in Message :
        /\ \A n \in AttemptNo : CopyAt(m, n) => \A k \in 0..(n - 1) : Retried(m, k)
        /\ [msg |-> m, reason |-> "exhausted_retries"] \in dlq
              => \A k \in 0..(Len(Schedule) - 1) : Retried(m, k)

\* A DLQ row always comes with a terminal attempt in the delivery log, on
\* every path through dlq() and whatever fails between its three writes.
DlqHasTerminalAttempt ==
    \A m \in Message : DeadLettered(m) => Logged(m, "dead")

\* The engine never claims a delivery that no receiver got.
DeliveredMeansReceived ==
    \A m \in Message : status[m] = "delivered" \/ Logged(m, "delivered") => m \in received

\* The breaker is closed exactly while its count is below the threshold, in
\* the store and in every stale copy a worker may still write back.
BreakerConsistent ==
    /\ \A e \in Endpoint :
          circuit[e].state = "closed" <=> circuit[e].failures < Threshold
    /\ \A w \in Worker :
          circ[w].state = "closed" <=> circ[w].failures < Threshold

\* The calls that have not yet written the final status of their message.
Undecided == PC \ {"idle", "ack", "logDelivered", "logDead", "addToDlq"}

\* A message has a copy with its fate open, or its status is final and
\* whatever the log and the DLQ still miss is owed by a call in progress.
SettledOrOwed(m) ==
    \/ Queued(m) \/ Scheduled(m) \/ HeldAt(m, Undecided)
    \/ /\ status[m] = "delivered"
       /\ Logged(m, "delivered") \/ HeldAt(m, {"logDelivered"})
    \/ /\ status[m] = "dead"
       /\ \/ HeldAt(m, {"logDead"})
          \/ Logged(m, "dead") /\ (DeadLettered(m) \/ HeldAt(m, {"addToDlq"}))

\* What a call has done by the time it reaches a port call.
StepsDone(w) ==
    /\ pc[w] = "addToDlq" => Logged(msg[w], "dead")
    /\ pc[w] \in {"putRetrying", "scheduleRetry"} /\ plan[w] = "retry"
          => Retried(msg[w], attemptNo[w])
    /\ plan[w] = "delivered" => msg[w] \in received

\* The safety properties above, strengthened until every step preserves them.
InductiveInvariant ==
    /\ ControlOK
    /\ \A m \in Message : SettledOrOwed(m)
    /\ \A w \in Worker : StepsDone(w)
    /\ RetryHistoryComplete /\ DlqHasTerminalAttempt
    /\ DeliveredMeansReceived /\ BreakerConsistent

\* At most one probe is on its way to an endpoint whose breaker is half-open.
SingleProbe ==
    \A v, w \in Worker :
        /\ v # w
        /\ pc[v] \in {"putDelivering", "post"} /\ circ[v].state = "half-open"
        /\ pc[w] \in {"putDelivering", "post"} /\ circ[w].state = "half-open"
        => EndpointAt(v) # EndpointAt(w)

\* Every accepted message is eventually settled and stays settled: neither
\* the breaker, nor throttling, nor a bounded number of failures keeps a
\* message circulating for ever.
EventuallySettled == <>[](\A m \in Message : ~InFlight(m))
=============================================================================
