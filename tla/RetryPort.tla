----------------------------- MODULE RetryPort -----------------------------
(***************************************************************************)
(* What the Scheduler port promises the engine (ports/index.ts 62-65,      *)
(* "attempt this message again at time T"): a scheduled retry is owed      *)
(* until it is handed to the transport, that happens no earlier than asked *)
(* for, and it does happen.  Handing it over again is allowed.             *)
(***************************************************************************)
EXTENDS Naturals

CONSTANTS Retry,     \* retries: a message and an attempt
          MaxDelay   \* the longest delay of a retry, in ticks

VARIABLES owed,   \* scheduled, not yet handed over: the ticks that are left
          handed  \* handed over at least once

Init == owed = << >> /\ handed = {}

ScheduleRetry(r) ==
    /\ r \notin DOMAIN owed \cup handed
    /\ \E delay \in 0..MaxDelay :
          owed' = [x \in DOMAIN owed \cup {r} |-> IF x = r THEN delay ELSE owed[x]]
    /\ UNCHANGED handed

HandOver(r) ==
    /\ r \in DOMAIN owed
    /\ owed[r] = 0
    /\ owed' = [x \in DOMAIN owed \ {r} |-> owed[x]]
    /\ handed' = handed \cup {r}

Tick ==
    /\ owed' = [r \in DOMAIN owed |-> IF owed[r] = 0 THEN 0 ELSE owed[r] - 1]
    /\ UNCHANGED handed

Next ==
    \/ \E r \in Retry : ScheduleRetry(r) \/ HandOver(r)
    \/ Tick

Spec == Init /\ [][Next]_<<owed, handed>>

\* Every retry that is owed is handed over.
NoneForgotten == \A r \in Retry : r \in DOMAIN owed ~> r \in handed
=============================================================================
