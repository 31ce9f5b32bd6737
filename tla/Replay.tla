------------------------------- MODULE Replay -------------------------------
(***************************************************************************)
(* The replay calls of the portal (packages/core/src/portal/deliveries.ts) *)
(* against the running engine: replay() of one message, replayEndpoint()   *)
(* of the dead letters of an endpoint, and reenqueue(), which stores a     *)
(* message as pending and then hands it to the transport as attempt 0.     *)
(* The engine is the one over plain puts.  Portal calls interleave with    *)
(* its steps, but not with each other: one begins when the one before has  *)
(* returned or failed.                                                     *)
(***************************************************************************)
EXTENDS Breaker

CONSTANT MaxReplays   \* bound: portal calls

ASSUME ReplayAssumption == MaxReplays \in Nat

VARIABLES rows,       \* how many DLQ rows each message has
          todo,       \* what a portal call has still to reenqueue, as <<message, row>>
          stored,     \* the message it has stored as pending and not enqueued yet
          replays,    \* portal calls so far
          stranded    \* history: messages a failed call stored and did not enqueue

portal == <<todo, stored, replays, stranded>>

replayVars == <<vars, streak, rows, portal>>

ReplayInit ==
    /\ Init /\ StreakInit
    /\ rows = [m \in Message |-> 0]
    /\ todo = {}
    /\ stored = NoMessage
    /\ replays = 0
    /\ stranded = {}

\* addToDlq appends a row under a new sequence number, every time it runs.
AppendRow ==
    rows' = [m \in Message |->
        IF \E w \in Worker : pc[w] = "addToDlq" /\ pc'[w] = "ack" /\ msg[w] = m
        THEN rows[m] + 1 ELSE rows[m]]

EngineStep == PlainNext /\ CountOutcome /\ AppendRow /\ UNCHANGED portal

-----------------------------------------------------------------------------
\* A portal call begins: it has read what it will reenqueue.
Call(selected) ==
    /\ todo = {} /\ stored = NoMessage
    /\ replays < MaxReplays
    /\ replays' = replays + 1
    /\ todo' = selected
    /\ UNCHANGED <<vars, streak, rows, stored, stranded>>

\* replay(): getMessage finds the message, whatever its status.
ReplayOne(m) == Call({<<m, 0>>})

RowsOf(e) == UNION {{<<m, i>> : i \in 1..rows[m]} : m \in {n \in Message : EndpointOf[n] = e}}

\* replayEndpoint(): one reenqueue for each DLQ row of the endpoint.  since
\* leaves out rows whose message was created before; a later row of a message
\* holds the creation time of its last replay.
ReplayEndpoint(e) ==
    \E selected \in SUBSET RowsOf(e) :
        /\ \A s \in selected, r \in RowsOf(e) : r[1] = s[1] /\ r[2] > s[2] => r \in selected
        /\ Call(selected)

\* MUTANT of PutPending: the message is stored as pending and never enqueued.
PutPendingOnly ==
    /\ stored = NoMessage
    /\ \E t \in todo :
        /\ todo' = todo \ {t}
        /\ status' = [status EXCEPT ![t[1]] = "pending"]
    /\ UNCHANGED <<transit, attempts, dlq, circuit, live, pc, job, locals, bounds, received,
                   streak, rows, stored, replays, stranded>>

\* reenqueue(): the message is stored as pending ...
PutPending ==
    /\ stored = NoMessage
    /\ \E t \in todo :
        /\ todo' = todo \ {t}
        /\ stored' = t[1]
        /\ status' = [status EXCEPT ![t[1]] = "pending"]
    /\ UNCHANGED <<transit, attempts, dlq, circuit, live, pc, job, locals, bounds, received,
                   streak, rows, replays, stranded>>

\* ... and then enqueued as attempt 0.
Enqueue ==
    /\ stored # NoMessage
    /\ queue' = [queue EXCEPT ![stored][0] = @ + 1]
    /\ stored' = NoMessage
    /\ stranded' = stranded \ {stored}
    /\ UNCHANGED <<sched, stores, live, pc, job, locals, bounds, received,
                   streak, rows, todo, replays>>

\* A store or transport call of the portal throws: the rest is not replayed.
PortalFails ==
    /\ todo # {} \/ stored # NoMessage
    /\ faults < MaxFaults
    /\ faults' = faults + 1
    /\ todo' = {}
    /\ stored' = NoMessage
    /\ stranded' = stranded \cup ({stored} \ {NoMessage})
    /\ UNCHANGED <<transit, stores, live, pc, job, locals, throttles, received,
                   streak, rows, replays>>

PortalStep == PutPending \/ Enqueue

ReplayNext ==
    \/ EngineStep
    \/ \E m \in Message : ReplayOne(m)
    \/ \E e \in Endpoint : ReplayEndpoint(e)
    \/ PortalStep
    \/ PortalFails

ReplaySpec == ReplayInit /\ [][ReplayNext]_replayVars

\* Workers keep taking steps, due retries are released, time passes and a portal
\* call that has begun goes on.  Nothing makes a failure, a throttle or a portal
\* call happen.
ReplayFairSpec ==
    /\ ReplaySpec
    /\ \A w \in Worker : WF_replayVars(Step(w) /\ EngineStep)
    /\ WF_replayVars((\E m \in Message, n \in AttemptNo : Release(m, n)) /\ EngineStep)
    /\ WF_replayVars(Tick /\ EngineStep)
    /\ WF_replayVars(PortalStep)

-----------------------------------------------------------------------------
\* A message nobody works on and no portal call is about to enqueue is settled,
\* with the log and, when dead, a DLQ row to show for its status, or it is
\* pending because a replay stopped between storing and enqueueing it.  That is the only way to strand one: not
\* a replay of a message still being delivered, nor of one delivered long ago
\* through a DLQ row nothing removes (deliveries.ts 21-29, 47-52).
SettledOrStranded ==
    \A m \in Message : ~InFlight(m) /\ stored # m =>
        \/ status[m] = "delivered" /\ Logged(m, "delivered")
        \/ status[m] = "dead" /\ Logged(m, "dead") /\ DeadLettered(m)
        \/ status[m] = "pending" /\ m \in stranded

\* SettledOrStranded strengthened until every step preserves it: a message the
\* engine does not account for is pending, and a portal call has stored it and
\* not enqueued it.
SettledOwedOrStored ==
    \A m \in Message :
        SettledOrOwed(m) \/ (status[m] = "pending" /\ (m = stored \/ m \in stranded))
=============================================================================
