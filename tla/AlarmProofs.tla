---------------------------- MODULE AlarmProofs ----------------------------
(***************************************************************************)
(* Proof that the alarm of an endpoint object covers its rows and that the *)
(* schedule implements the Scheduler port, for any retries and delays.     *)
(***************************************************************************)
EXTENDS AlarmScheduler, TLAPS

\* Counting down keeps a time a time, and keeps the order of two times.
LEMMA CountdownTyped ==
    /\ \A t \in Ticks : Countdown(t) \in Ticks /\ Countdown(t) # NoTime
    /\ Countdown(NoTime) = NoTime
    /\ \A t, u \in Ticks : t <= u => Countdown(t) <= Countdown(u)
    /\ Countdown(0) = 0
    /\ NoTime \notin Ticks /\ 0 \in Ticks
  BY AlarmAssumption DEF Countdown, Ticks

LEMMA AlarmTypeStep ==
    ASSUME TypeOK, [Next]_vars
    PROVE  TypeOK'
  <1>0. 0 \in Ticks
    BY CountdownTyped
  <1>1. ASSUME NEW r \in Retry, NEW delay \in Ticks, scheduleRetry(r, delay)  PROVE TypeOK'
    BY <1>1 DEF TypeOK, scheduleRetry
  <1>2. CASE Fire
    <2>1. PICK remaining \in Ticks \cup {NoTime} :
              \/ alarm' = remaining /\ UNCHANGED <<due, earliest, running>>
              \/ /\ due' = {r \in DOMAIN rows : rows[r] = 0}
                 /\ earliest' = remaining /\ running' = TRUE /\ alarm' = NoTime
      BY Zenon, <1>2 DEF Fire
    <2> QED  BY <1>2, <2>1 DEF TypeOK, Fire
  <1>3. ASSUME NEW r \in Retry, SendDue(r)  PROVE TypeOK'
    BY <1>3 DEF TypeOK, SendDue, Rearm, Without
  <1>4. ASSUME NEW r \in Retry, Throw(r)  PROVE TypeOK'
    <2>1. throws' \in 0..MaxThrows
      BY <1>4, AlarmAssumption DEF TypeOK, Throw
    <2> QED  BY <1>0, <1>4, <2>1 DEF TypeOK, Throw
  <1>5. CASE Tick
    BY <1>5, CountdownTyped DEF TypeOK, Tick
  <1>6. CASE UNCHANGED vars
    BY <1>6 DEF TypeOK, vars
  <1> QED  BY Zenon, <1>1, <1>2, <1>3, <1>4, <1>5, <1>6 DEF Next

LEMMA AlarmInit == Init => TypeOK /\ AlarmInvariant
  <1> SUFFICES ASSUME Init  PROVE TypeOK /\ AlarmInvariant
    OBVIOUS
  <1>1. DOMAIN rows = {} /\ 0 \in 0..MaxThrows
    BY AlarmAssumption DEF Init
  <1>2. TypeOK
    BY <1>1 DEF Init, TypeOK
  <1>3. AlarmInvariant
    BY <1>1 DEF Init, AlarmInvariant, AlarmArmed, AlarmCoversEarliest
  <1> QED  BY <1>2, <1>3

LEMMA AlarmStep ==
    ASSUME TypeOK, AlarmInvariant, [Next]_vars
    PROVE  AlarmInvariant'
  <1> USE DEF AlarmInvariant, AlarmArmed, AlarmCoversEarliest
  <1>0. NoTime \notin Ticks /\ 0 \in Ticks /\ Ticks \subseteq Nat
    BY CountdownTyped DEF Ticks
  <1>1. ASSUME NEW r \in Retry, NEW delay \in Ticks, scheduleRetry(r, delay)  PROVE AlarmInvariant'
    <2>1. /\ DOMAIN rows' = DOMAIN rows \cup {r} /\ r \notin DOMAIN rows
          /\ rows'[r] = delay /\ \A x \in DOMAIN rows : rows'[x] = rows[x]
          /\ UNCHANGED <<due, earliest, running>>
          /\ during' = IF running THEN during \cup {r} ELSE during
      BY <1>1 DEF scheduleRetry
    <2>2. /\ alarm' # NoTime /\ alarm' <= delay
          /\ \A t \in Ticks : alarm # NoTime /\ alarm <= t => alarm' <= t
      BY <1>0, <1>1 DEF TypeOK, scheduleRetry
    <2>3. due \subseteq DOMAIN rows /\ \A x \in DOMAIN rows : rows[x] \in Ticks
      BY DEF TypeOK
    <2>4. CASE running
      BY <2>1, <2>2, <2>3, <2>4
    <2>5. CASE ~running
      BY <2>1, <2>2, <2>3, <2>5
    <2> QED  BY <2>4, <2>5
  <1>2. CASE Fire
    <2> DEFINE ready == {r \in DOMAIN rows : rows[r] = 0}
    <2>1. PICK remaining \in Ticks \cup {NoTime} :
              /\ Earliest(DOMAIN rows \ ready, remaining)
              /\ \/ /\ ready = {}
                    /\ alarm' = remaining
                    /\ UNCHANGED <<due, earliest, running>>
                 \/ /\ ready # {}
                    /\ due' = ready
                    /\ earliest' = remaining
                    /\ running' = TRUE
                    /\ alarm' = NoTime
      BY Zenon, <1>2 DEF Fire
    <2>2. \A r \in DOMAIN rows \ ready : remaining # NoTime /\ remaining <= rows[r]
      BY <1>0, <2>1 DEF Earliest, TypeOK
    <2> QED  BY <1>0, <1>2, <2>1, <2>2 DEF TypeOK, Fire
  <1>3. ASSUME NEW r \in Retry, SendDue(r)  PROVE AlarmInvariant'
    <2>1. /\ running /\ r \in due /\ due' = due \ {r} /\ during' = during \ {r}
          /\ DOMAIN rows' = DOMAIN rows \ {r} /\ \A x \in DOMAIN rows' : rows'[x] = rows[x]
      BY <1>3 DEF SendDue, Without
    <2>2. CASE due' # {} /\ UNCHANGED <<alarm, earliest, running>>
      BY <2>1, <2>2 DEF TypeOK
    <2>3. CASE due' = {} /\ Rearm(earliest) /\ earliest' = NoTime /\ running' = FALSE
      <3>1. \A x \in DOMAIN rows' : x \in DOMAIN rows \ due
        BY <2>1, <2>3
      <3>2. CASE earliest = NoTime
        BY <2>1, <2>3, <3>1, <3>2 DEF Rearm
      <3>3. CASE earliest # NoTime
        BY <2>1, <2>3, <3>1, <3>3 DEF Rearm
      <3> QED  BY <3>2, <3>3
    <2> QED  BY Zenon, <1>3, <2>2, <2>3 DEF SendDue
  <1>4. ASSUME NEW r \in Retry, Throw(r)  PROVE AlarmInvariant'
    <2>1. /\ ~running' /\ due' = {} /\ earliest' = NoTime /\ alarm' = 0
          /\ UNCHANGED <<rows, during>>
      BY Zenon, <1>4 DEF Throw
    <2>2. alarm' # NoTime /\ \A x \in DOMAIN rows' : alarm' <= rows'[x]
      <3>1. \A x \in DOMAIN rows : rows[x] \in Ticks
        BY Zenon DEF TypeOK
      <3>2. 0 # NoTime /\ \A t \in Ticks : 0 <= t
        BY <1>0
      <3> QED  BY Zenon, <2>1, <3>1, <3>2
    <2> QED  BY <2>1, <2>2
  <1>5. CASE Tick
    BY <1>0, <1>5, CountdownTyped DEF TypeOK, Tick
  <1>6. CASE UNCHANGED vars
    BY Zenon, <1>6 DEF vars
  <1> QED  BY Zenon, <1>1, <1>2, <1>3, <1>4, <1>5, <1>6 DEF Next

(***************************************************************************)
(* The alarm's invariant holds, for any number of retries, any delays, and *)
(* however calls of scheduleRetry interleave with a handler that sends or  *)
(* throws (endpoint-do.ts 115-163).                                        *)
(***************************************************************************)
THEOREM AlarmInvariantHolds == Spec => [](TypeOK /\ AlarmInvariant)
  <1>1. Init => TypeOK /\ AlarmInvariant
    BY AlarmInit
  <1>2. TypeOK /\ AlarmInvariant /\ [Next]_vars => (TypeOK /\ AlarmInvariant)'
    BY AlarmTypeStep, AlarmStep
  <1> QED  BY <1>1, <1>2, PTL DEF Spec

(***************************************************************************)
(* While rows wait and no handler runs, an alarm is set (endpoint-do.ts    *)
(* 117-120, 159-161).                                                      *)
(***************************************************************************)
THEOREM AlarmNeverMissing == Spec => []AlarmArmed
  <1>1. AlarmInvariant => AlarmArmed
    BY Zenon DEF AlarmInvariant
  <1> QED  BY <1>1, AlarmInvariantHolds, PTL

(***************************************************************************)
(* The alarm is no later than any row but those stored behind the back of  *)
(* the last handler (endpoint-do.ts 117-120, 159-161).                     *)
(***************************************************************************)
THEOREM AlarmNeverLate == Spec => []AlarmCoversEarliest
  <1>1. AlarmInvariant => AlarmCoversEarliest
    BY Zenon DEF AlarmInvariant
  <1> QED  BY <1>1, AlarmInvariantHolds, PTL

-----------------------------------------------------------------------------
\* The steps of the adapter are steps of the port, or stutter.
LEMMA PortStep ==
    ASSUME TypeOK, AlarmInvariant, [Next]_vars
    PROVE  [Port!Next]_<<[r \in DOMAIN rows \ queued |-> rows[r]], queued>>
  <1> DEFINE owed == [r \in DOMAIN rows \ queued |-> rows[r]]
  <1>1. ASSUME NEW r \in Retry, NEW delay \in Ticks, scheduleRetry(r, delay)
        PROVE  Port!ScheduleRetry(r)
    <2>1. owed' = [x \in DOMAIN owed \cup {r} |-> IF x = r THEN delay ELSE owed[x]]
      BY <1>1 DEF scheduleRetry
    <2>2. r \notin DOMAIN owed \cup queued /\ UNCHANGED queued /\ delay \in 0..MaxDelay
      BY <1>1 DEF scheduleRetry, Ticks
    <2> QED  BY <2>1, <2>2 DEF Port!ScheduleRetry
  <1>2. ASSUME UNCHANGED <<rows, queued>>  PROVE UNCHANGED <<owed, queued>>
    BY <1>2
  <1>3. CASE Fire
    BY Zenon, <1>2, <1>3 DEF Fire
  <1>4. ASSUME NEW r \in Retry, r \in due, queued' = queued \cup {r},
               rows' = rows \/ rows' = Without(r)
        PROVE  Port!HandOver(r) \/ UNCHANGED <<owed, queued>>
    <2>1. r \in DOMAIN rows /\ rows[r] = 0
      BY <1>4 DEF TypeOK, AlarmInvariant
    <2>2. owed' = [x \in DOMAIN owed \ {r} |-> owed[x]]
      BY <1>4 DEF Without
    <2>3. CASE r \in queued
      BY <1>4, <2>2, <2>3
    <2>4. CASE r \notin queued
      <3>1. r \in DOMAIN owed /\ owed[r] = 0
        BY <2>1, <2>4
      <3> QED  BY <1>4, <2>2, <3>1 DEF Port!HandOver
    <2> QED  BY <2>3, <2>4
  <1>5. ASSUME NEW r \in Retry, SendDue(r)
        PROVE  Port!HandOver(r) \/ UNCHANGED <<owed, queued>>
    BY Zenon, <1>4, <1>5 DEF SendDue
  <1>6. ASSUME NEW r \in Retry, Throw(r)
        PROVE  Port!HandOver(r) \/ UNCHANGED <<owed, queued>>
    <2>1. CASE queued' = queued
      BY Zenon, <1>2, <1>6, <2>1 DEF Throw
    <2>2. CASE queued' # queued
      BY Zenon, <1>4, <1>6, <2>2 DEF Throw
    <2> QED  BY <2>1, <2>2
  <1>7. CASE Tick
    <2>1. \A t \in Ticks : Countdown(t) = IF t = 0 THEN 0 ELSE t - 1
      BY AlarmAssumption DEF Countdown, Ticks
    <2>2. owed' = [r \in DOMAIN owed |-> IF owed[r] = 0 THEN 0 ELSE owed[r] - 1]
      BY <1>7, <2>1 DEF Tick, TypeOK
    <2> QED  BY <1>7, <2>2 DEF Tick, Port!Tick, Port!Next
  <1>8. CASE UNCHANGED vars
    BY Zenon, <1>2, <1>8 DEF vars
  <1> QED
    BY Zenon, <1>1, <1>2, <1>3, <1>5, <1>6, <1>7, <1>8 DEF Next, Port!Next

(***************************************************************************)
(* The Cloudflare schedule implements the Scheduler port: no retry is      *)
(* dropped before the queue took its message and none is sent early        *)
(* (endpoint-do.ts 115-163, ports/index.ts 62-65).                         *)
(***************************************************************************)
THEOREM AlarmsImplementPort == Spec => ImplementsPort
  <1>1. Init => Port!Init
    <2>1. DOMAIN << >> = {}
      OBVIOUS
    <2> QED  BY <2>1 DEF Init, Port!Init
  <1>2. TypeOK /\ AlarmInvariant /\ [Next]_vars
            => [Port!Next]_<<[r \in DOMAIN rows \ queued |-> rows[r]], queued>>
    BY PortStep
  <1> QED  BY <1>1, <1>2, AlarmInvariantHolds, PTL DEF Spec, ImplementsPort, Port!Spec
=============================================================================
