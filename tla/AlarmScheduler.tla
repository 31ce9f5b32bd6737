--------------------------- MODULE AlarmScheduler ---------------------------
(***************************************************************************)
(* The retry schedule of the Cloudflare adapter: scheduleRetry, alarm and  *)
(* processDueSchedules of EndpointDurableObject (endpoint-do.ts), for one  *)
(* endpoint object and its single alarm.                                   *)
(*                                                                         *)
(* A Durable Object runs no other event while it awaits its storage, so    *)
(* code between two awaits of anything else is one step.  The only such    *)
(* await is QUEUE.send: other calls run while the alarm handler waits for  *)
(* it.  Times are ticks from now, counted down by Tick; a row is named by  *)
(* its retry, since its key holds both the time and the message id.        *)
(***************************************************************************)
EXTENDS Naturals

CONSTANTS Retry,      \* retries: a message and an attempt
          MaxDelay,   \* bound: the longest delay of a retry, in ticks
          NoTime,     \* no alarm is set, or no row remains
          MaxThrows   \* bound: handler runs that throw or are evicted

ASSUME AlarmAssumption ==
    /\ MaxDelay \in Nat \ {0}
    /\ NoTime \notin Nat
    /\ MaxThrows \in Nat

VARIABLES
    rows,      \* the sched: rows, with the ticks until they are due
    alarm,     \* ticks until the alarm fires, or NoTime
    due,       \* the rows the running handler has still to send
    earliest,  \* its earliestRemaining, as ticks from now, or NoTime
    running,   \* the alarm handler is running
    queued,    \* retries handed to the queue
    throws,    \* used against MaxThrows
    during     \* history: the rows stored since the handler last listed them

vars == <<rows, alarm, due, earliest, running, queued, throws, during>>

Ticks == 0..MaxDelay

TypeOK ==
    /\ DOMAIN rows \subseteq Retry
    /\ \A r \in DOMAIN rows : rows[r] \in Ticks
    /\ alarm \in Ticks \cup {NoTime}
    /\ due \subseteq DOMAIN rows
    /\ earliest \in Ticks \cup {NoTime}
    /\ running \in BOOLEAN
    /\ queued \subseteq Retry
    /\ throws \in 0..MaxThrows
    /\ during \subseteq Retry

Init ==
    /\ rows = << >>
    /\ alarm = NoTime
    /\ due = {} /\ earliest = NoTime /\ running = FALSE
    /\ queued = {}
    /\ throws = 0
    /\ during = {}

-----------------------------------------------------------------------------
\* Store the row and bring the alarm forward if it is later, or absent.
scheduleRetry(r, delay) ==
    /\ r \notin DOMAIN rows \cup queued
    /\ rows' = [x \in DOMAIN rows \cup {r} |-> IF x = r THEN delay ELSE rows[x]]
    /\ alarm' = IF alarm = NoTime \/ delay < alarm THEN delay ELSE alarm
    /\ during' = IF running THEN during \cup {r} ELSE during
    /\ UNCHANGED <<due, earliest, running, queued, throws>>

\* MUTANT of Rearm: the handler does not set the alarm again.
RearmNever(remaining) == alarm' = alarm

\* MUTANT of Rearm: the alarm is set one tick after the row is due.
RearmAfter(remaining) == alarm' = IF remaining = NoTime THEN alarm ELSE remaining + 1

\* The end of the handler: the alarm is set to the earliest row that remained
\* when the handler looked, whatever it is set to by now.
Rearm(remaining) == alarm' = IF remaining = NoTime THEN alarm ELSE remaining

\* MUTANT of Earliest: any of the rows that remain.
EarliestAny(later, t) ==
    \/ later = {} /\ t = NoTime
    \/ \E r \in later : t = rows[r]

\* The earliest time of the rows later, or NoTime.
Earliest(later, t) ==
    \/ later = {} /\ t = NoTime
    \/ /\ \E r \in later : t = rows[r]
       /\ \A r \in later : t <= rows[r]

\* The alarm fires.  The platform clears it, and the handler lists the rows
\* and splits them into the due ones and the earliest of the others.
Fire ==
    /\ alarm = 0 /\ ~running
    /\ LET ready == {r \in DOMAIN rows : rows[r] = 0}
       IN  \E remaining \in Ticks \cup {NoTime} :
              /\ Earliest(DOMAIN rows \ ready, remaining)
              /\ \/ /\ ready = {}
                    /\ alarm' = remaining
                    /\ UNCHANGED <<due, earliest, running>>
                 \/ /\ ready # {}
                    /\ due' = ready
                    /\ earliest' = remaining
                    /\ running' = TRUE
                    /\ alarm' = NoTime
    /\ during' = {}
    /\ UNCHANGED <<rows, queued, throws>>

Without(r) == [x \in DOMAIN rows \ {r} |-> rows[x]]

\* QUEUE.send of a due row returns: the row is deleted and the next send
\* starts, or the alarm is set again and the handler ends.
SendDue(r) ==
    /\ running /\ r \in due
    /\ queued' = queued \cup {r}
    /\ rows' = Without(r)
    /\ due' = due \ {r}
    /\ \/ /\ due' # {}
          /\ UNCHANGED <<alarm, earliest, running>>
       \/ /\ due' = {}
          /\ Rearm(earliest)
          /\ earliest' = NoTime
          /\ running' = FALSE
    /\ during' = during \ {r}
    /\ UNCHANGED throws

\* MUTANT of Throw: the row was deleted before the send that failed.
ThrowDeletedFirst(r) ==
    /\ running /\ r \in due
    /\ throws < MaxThrows
    /\ throws' = throws + 1
    /\ rows' = Without(r)
    /\ alarm' = 0
    /\ due' = {} /\ earliest' = NoTime /\ running' = FALSE
    /\ UNCHANGED <<queued, during>>

\* The handler throws, or the object is evicted, before or after the queue took
\* the message: the row stays, and the platform runs the alarm handler again.
Throw(r) ==
    /\ running /\ r \in due
    /\ throws < MaxThrows
    /\ throws' = throws + 1
    /\ queued' \in {queued, queued \cup {r}}
    /\ alarm' = 0
    /\ due' = {} /\ earliest' = NoTime /\ running' = FALSE
    /\ UNCHANGED <<rows, during>>

Countdown(t) == IF t \in {0, NoTime} THEN t ELSE t - 1

Tick ==
    /\ rows' = [r \in DOMAIN rows |-> Countdown(rows[r])]
    /\ alarm' = Countdown(alarm)
    /\ earliest' = Countdown(earliest)
    /\ UNCHANGED <<due, running, queued, throws, during>>

Next ==
    \/ \E r \in Retry, delay \in Ticks : scheduleRetry(r, delay)
    \/ Fire
    \/ \E r \in Retry : SendDue(r) \/ Throw(r)
    \/ Tick

Spec == Init /\ [][Next]_vars

\* A due alarm fires, its handler runs on and time passes.
Fairness ==
    /\ WF_vars(Fire)
    /\ WF_vars(\E r \in Retry : SendDue(r))
    /\ WF_vars(Tick)

FairSpec == Spec /\ Fairness

-----------------------------------------------------------------------------
(***************************************************************************)
(* Properties.                                                             *)
(***************************************************************************)
Port == INSTANCE RetryPort WITH
    owed <- [r \in DOMAIN rows \ queued |-> rows[r]],
    handed <- queued

\* The adapter implements the Scheduler port: no row is dropped before the
\* queue took its message, and none is sent early (endpoint-do.ts 115-163).
ImplementsPort == Port!Spec

\* Every scheduled retry reaches the queue, although calls of scheduleRetry
\* and failed handler runs interleave with the handler.
NoRetryForgotten == Port!NoneForgotten

\* While rows wait and no handler runs, an alarm is set: the schedule can not
\* come to rest (endpoint-do.ts 117-120, 159-161).
AlarmArmed == DOMAIN rows # {} /\ ~running => alarm # NoTime

\* When no handler runs, the alarm is no later than any row, but for the rows
\* that were stored while the last handler waited for the queue: the handler
\* sets the alarm to the earliest row it had listed, which may come after
\* those (endpoint-do.ts 117-120, 137-148, 159-161).
AlarmCoversEarliest ==
    ~running => \A r \in DOMAIN rows \ during : alarm # NoTime /\ alarm <= rows[r]

(***************************************************************************)
(* What makes the two inductive: while the handler runs, a row it will not *)
(* send is one it found to be later, or one whose own alarm is set.        *)
(***************************************************************************)
AlarmInvariant ==
    /\ AlarmArmed
    /\ AlarmCoversEarliest
    /\ running => due # {}
    /\ ~running => due = {} /\ earliest = NoTime
    /\ due \cap during = {}
    /\ \A r \in due : rows[r] = 0
    /\ running => \A r \in DOMAIN rows \ due :
          IF r \in during THEN alarm # NoTime ELSE earliest # NoTime /\ earliest <= rows[r]
=============================================================================
