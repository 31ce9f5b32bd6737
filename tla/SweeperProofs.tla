--------------------------- MODULE SweeperProofs ---------------------------
(***************************************************************************)
(* Proofs about module Sweeper, for any messages and sweeps, any lease and *)
(* delay, and any number of long retries.  A row is due in its second and  *)
(* sent once per claim, only a late delete loses a retry, the claims on a  *)
(* row are exclusive, and the sweeper implements the Scheduler port for    *)
(* the first long retry of each message.                                   *)
(***************************************************************************)
EXTENDS Sweeper, FiniteSetTheorems, TLAPS

\* What rounding down to a whole second gives.
LEMMA WholeSeconds ==
    ASSUME NEW t \in Nat
    PROVE  /\ t \div Second \in Nat
           /\ (t \div Second) * Second <= t
           /\ t < (t \div Second) * Second + Second
  BY SweeperAssumption

LEMMA WholeSecondsMonotone ==
    ASSUME NEW t \in Nat, NEW u \in Nat, t <= u
    PROVE  t \div Second <= u \div Second
  <1> DEFINE p == t \div Second
             q == u \div Second
  <1>1. p \in Nat /\ q \in Nat /\ p * Second <= t /\ u < q * Second + Second /\ Second \in Nat /\ Second > 0
    BY WholeSeconds, SweeperAssumption
  <1> HIDE DEF p, q
  <1>2. ASSUME q < p  PROVE FALSE
    <2>1. q + 1 <= p
      BY <1>1, <1>2
    <2>2. (q + 1) * Second <= p * Second
      BY <1>1, <2>1
    <2>3. (q + 1) * Second = q * Second + Second
      BY <1>1
    <2>4. p * Second \in Nat /\ q * Second \in Nat
      BY <1>1
    <2> QED  BY <1>1, <2>2, <2>3, <2>4
  <1> QED  BY <1>1, <1>2 DEF p, q

LEMMA Numbers ==
    /\ Second \in Nat /\ Second > 0 /\ Delay \in Nat /\ Lease \in Nat /\ MaxAge \in Nat
    /\ LongRetries \in Nat /\ MaxCrashes \in Nat /\ MaxDue \in Nat
    /\ Expired \in Nat /\ Unclaimed = Expired + 1 /\ MaxAge < Expired
    /\ NoRow \in Row /\ ~NoRow.exists
  <1>1. MaxDue \in Nat
    BY WholeSeconds, SweeperAssumption DEF MaxDue
  <1> QED  BY <1>1, SweeperAssumption DEF Expired, Unclaimed, NoRow, Row, AttemptNo

\* The row a worker puts is a row.
LEMMA PutTyped ==
    ASSUME NEW n \in AttemptNo, phase \in 0..(Second - 1)
    PROVE  [exists |-> TRUE, attemptNo |-> n, due |-> SecondsTo(Delay), left |-> Delay,
            claimed |-> Unclaimed] \in Row
  <1>1. phase + Delay \in Nat /\ Second + Delay \in Nat /\ phase + Delay <= Second + Delay
    BY Numbers
  <1>2. SecondsTo(Delay) \in 0..MaxDue
    BY <1>1, WholeSeconds, WholeSecondsMonotone, Numbers DEF SecondsTo, MaxDue
  <1> QED  BY <1>2, Numbers DEF Row

\* A row one tick later.
LEMMA LaterShape ==
    ASSUME NEW r \in Row, NEW newSecond \in BOOLEAN
    PROVE  /\ Later(r, newSecond) \in Row
           /\ Later(r, newSecond).exists = r.exists
           /\ Later(r, newSecond).attemptNo = r.attemptNo
           /\ Later(r, newSecond).left = Countdown(r.left)
           /\ Later(r, newSecond).due = IF newSecond THEN Countdown(r.due) ELSE r.due
           /\ Later(r, newSecond).claimed =
                 IF newSecond /\ r.claimed < Expired THEN r.claimed + 1 ELSE r.claimed
  <1> DEFINE left == Countdown(r.left)
             due == IF newSecond THEN Countdown(r.due) ELSE r.due
             claimed == IF newSecond /\ r.claimed < Expired THEN r.claimed + 1 ELSE r.claimed
  <1>1. Later(r, newSecond) = [exists |-> r.exists, attemptNo |-> r.attemptNo, due |-> due,
                               left |-> left, claimed |-> claimed]
    BY DEF Later
  <1>2. left \in 0..Delay /\ due \in 0..MaxDue /\ claimed \in 0..Unclaimed
    BY Numbers DEF Row, Countdown
  <1> HIDE DEF left, due, claimed
  <1>3. Later(r, newSecond) \in Row
    BY <1>1, <1>2 DEF Row
  <1> QED  BY <1>1, <1>3 DEF left, due, claimed

\* Skipping or finishing an item leaves the others of the page as they were.
LEMMA WithoutShape ==
    ASSUME TypeOK, NEW s \in Sweep, NEW m, Without(s, m)
    PROVE  /\ pc' \in [Sweep -> PC] /\ age' \in [Sweep -> 0..MaxAge]
           /\ cur' \in [Sweep -> Message \cup {NoMessage}]
           /\ DOMAIN page' = Sweep
           /\ DOMAIN page'[s] = DOMAIN page[s] \ {m}
           /\ \A x \in DOMAIN page'[s] : page'[s][x] = page[s][x]
           /\ \A t \in Sweep \ {s} :
                 page'[t] = page[t] /\ pc'[t] = pc[t] /\ cur'[t] = cur[t] /\ age'[t] = age[t]
           /\ pc'[s] \in {"claim", "idle"}
  BY Numbers DEF TypeOK, Without, PC

LEMMA WithoutTyped ==
    ASSUME TypeOK, NEW s \in Sweep, NEW m, Without(s, m)
    PROVE  /\ \A t \in Sweep : DOMAIN page'[t] \subseteq Message
           /\ \A t \in Sweep, x \in Message : x \in DOMAIN page'[t] => page'[t][x] \in AttemptNo
           /\ \A t \in Sweep : pc'[t] \in {"send", "delete"} => cur'[t] \in DOMAIN page'[t]
  <1> SUFFICES ASSUME NEW t \in Sweep
               PROVE  /\ DOMAIN page'[t] \subseteq Message
                      /\ \A x \in Message : x \in DOMAIN page'[t] => page'[t][x] \in AttemptNo
                      /\ pc'[t] \in {"send", "delete"} => cur'[t] \in DOMAIN page'[t]
    BY Zenon
  <1>1. /\ DOMAIN page[t] \subseteq Message
        /\ \A x \in Message : x \in DOMAIN page[t] => page[t][x] \in AttemptNo
        /\ pc[t] \in {"send", "delete"} => cur[t] \in DOMAIN page[t]
    BY DEF TypeOK
  <1>2. CASE t = s
    BY <1>1, <1>2, WithoutShape
  <1>3. CASE t # s
    BY <1>1, <1>3, WithoutShape
  <1> QED  BY <1>2, <1>3

LEMMA LeftInIndexTyped ==
    ASSUME TypeOK, NEW m \in Message, LeftInIndex(m)
    PROVE  stale' \in [Message -> AttemptNo]
  BY DEF TypeOK, LeftInIndex, Row

LEMMA SweepTypeStep ==
    ASSUME TypeOK, [Next]_vars
    PROVE  TypeOK'
  <1>0. /\ 0 \in 0..MaxAge /\ row \in [Message -> Row] /\ queue \in [Message -> [AttemptNo -> Nat]]
        /\ DOMAIN page = Sweep /\ phase \in 0..(Second - 1)
        /\ \A s \in Sweep : DOMAIN page[s] \subseteq Message
        /\ \A s \in Sweep, m \in Message : m \in DOMAIN page[s] => page[s][m] \in AttemptNo
        /\ \A s \in Sweep : pc[s] \in {"send", "delete"} => cur[s] \in DOMAIN page[s]
        /\ pc \in [Sweep -> PC] /\ cur \in [Sweep -> Message \cup {NoMessage}]
    BY Numbers DEF TypeOK
  <1>1. ASSUME NEW m \in Message, NEW n \in AttemptNo, Deliver(m, n)  PROVE TypeOK'
    <2>1. queue' \in [Message -> [AttemptNo -> Nat]]
      <3>1. queue[m][n] \in Nat /\ queue[m][n] > 0
        BY <1>1 DEF Deliver, TypeOK
      <3>2. CASE queue' = [queue EXCEPT ![m][n] = @ - 1]
        BY <1>0, <3>1, <3>2
      <3>3. CASE n < LongRetries /\ queue' = [queue EXCEPT ![m][n] = @ - 1, ![m][n + 1] = @ + 1]
        <4>1. n + 1 \in AttemptNo
          BY <3>3, Numbers DEF AttemptNo
        <4> QED  BY <1>0, <3>1, <3>3, <4>1
      <3> QED  BY Zenon, <1>1, <3>2, <3>3 DEF Deliver
    <2>2. row' \in [Message -> Row] /\ credit' \in [Message -> Int] /\ stale' \in [Message -> AttemptNo]
      <3>1. CASE UNCHANGED <<row, stale, credit>>
        BY <3>1 DEF TypeOK
      <3>2. CASE /\ n < LongRetries /\ putRow(m, n + 1) /\ LeftInIndex(m)
                 /\ credit' = [credit EXCEPT ![m] = @ + 1]
        <4>1. n + 1 \in AttemptNo
          BY <3>2, Numbers DEF AttemptNo
        <4>2. row' \in [Message -> Row] /\ credit' \in [Message -> Int]
          BY <1>0, <3>2, <4>1, PutTyped DEF putRow, TypeOK
        <4> QED  BY <3>2, <4>2, LeftInIndexTyped
      <3> QED  BY Zenon, <1>1, <3>1, <3>2 DEF Deliver
    <2>3. settled' \subseteq Message /\ fresh' \subseteq Sweep
      BY <1>1 DEF Deliver, TypeOK
    <2> QED  BY Zenon, <1>1, <2>1, <2>2, <2>3 DEF TypeOK, Deliver, sweep
  <1>2. ASSUME NEW s \in Sweep, Query(s)  PROVE TypeOK'
    <2>1. PICK found \in SUBSET Message :
              \E items \in [found -> AttemptNo] : page' = [page EXCEPT ![s] = items]
      BY Zenon, <1>2 DEF Query
    <2>2. PICK items \in [found -> AttemptNo] : page' = [page EXCEPT ![s] = items]
      BY <2>1
    <2>3. /\ DOMAIN page' = Sweep
          /\ \A t \in Sweep : DOMAIN page'[t] \subseteq Message
          /\ \A t \in Sweep, m \in Message : m \in DOMAIN page'[t] => page'[t][m] \in AttemptNo
          /\ \A t \in Sweep : pc'[t] \in {"send", "delete"} => cur'[t] \in DOMAIN page'[t]
      <3>1. UNCHANGED cur /\ pc' = [pc EXCEPT ![s] = "claim"]
        BY Zenon, <1>2 DEF Query
      <3>2. DOMAIN items \subseteq Message /\ \A m \in DOMAIN items : items[m] \in AttemptNo
        BY <2>1, <2>2
      <3> QED  BY <1>0, <2>2, <3>1, <3>2
    <2>4. age' \in [Sweep -> 0..MaxAge] /\ pc' \in [Sweep -> PC]
      BY <1>0, <1>2 DEF TypeOK, Query, PC
    <2> QED  BY Zenon, <1>2, <2>3, <2>4 DEF TypeOK, Query, history
  <1>3. ASSUME NEW s \in Sweep, Claim(s)  PROVE TypeOK'
    <2>1. PICK m \in DOMAIN page[s] :
              /\ row' = [row EXCEPT ![m].claimed = age[s]]
              /\ cur' = [cur EXCEPT ![s] = m]
              /\ credit' = IF TakesOver(s, m) THEN [credit EXCEPT ![m] = @ + 1] ELSE credit
      BY Zenon, <1>3 DEF Claim
    <2>2. row' \in [Message -> Row] /\ fresh' \subseteq Sweep
      <3>1. age[s] \in 0..Unclaimed
        BY Numbers DEF TypeOK
      <3>2. row' \in [Message -> Row]
        BY <1>0, <2>1, <3>1 DEF Row
      <3>3. fresh' = fresh \cup {s} /\ fresh \subseteq Sweep
        BY Zenon, <1>3 DEF Claim, TypeOK
      <3> QED  BY <3>2, <3>3
    <2>3. /\ cur' \in [Sweep -> Message \cup {NoMessage}] /\ pc' \in [Sweep -> PC]
          /\ credit' \in [Message -> Int]
          /\ \A t \in Sweep : pc'[t] \in {"send", "delete"} => cur'[t] \in DOMAIN page'[t]
      BY <1>0, <1>3, <2>1 DEF TypeOK, Claim, PC
    <2> QED  BY Zenon, <1>3, <2>2, <2>3 DEF TypeOK, Claim
  <1>4. ASSUME NEW s \in Sweep, LoseClaim(s)  PROVE TypeOK'
    <2>1. PICK m \in DOMAIN page[s] : Without(s, m)
      BY Zenon, <1>4 DEF LoseClaim
    <2> QED  BY Zenon, <1>4, <2>1, WithoutShape, WithoutTyped DEF TypeOK, LoseClaim, history
  <1>5. ASSUME NEW s \in Sweep, Send(s)  PROVE TypeOK'
    <2>1. queue' \in [Message -> [AttemptNo -> Nat]]
      BY <1>0, <1>5 DEF Send
    <2>2. pc' \in [Sweep -> PC] /\ credit' \in [Message -> Int] /\ sent' \subseteq Message
          /\ \A t \in Sweep : pc'[t] \in {"send", "delete"} => cur'[t] \in DOMAIN page'[t]
      BY <1>0, <1>5 DEF TypeOK, Send, PC
    <2> QED  BY Zenon, <1>5, <2>1, <2>2 DEF TypeOK, Send
  <1>6. ASSUME NEW s \in Sweep, Delete(s)  PROVE TypeOK'
    <2>1. Without(s, cur[s]) /\ cur[s] \in Message
      BY <1>0, <1>6 DEF Delete
    <2>3. row' \in [Message -> Row] /\ stale' \in [Message -> AttemptNo]
      BY <1>0, <1>6, <2>1, Numbers, LeftInIndexTyped DEF Delete
    <2>4. fresh' \subseteq Sweep /\ dropped' \subseteq Message
      BY <1>6, <2>1 DEF Delete, TypeOK
    <2> QED  BY Zenon, <1>6, <2>1, <2>3, <2>4, WithoutShape, WithoutTyped DEF TypeOK, Delete, history
  <1>7. ASSUME NEW s \in Sweep, Crash(s)  PROVE TypeOK'
    <2>1. crashes' \in 0..MaxCrashes /\ fresh' \subseteq Sweep
      BY <1>7, Numbers DEF TypeOK, Crash
    <2>2. /\ pc' \in [Sweep -> PC] /\ age' \in [Sweep -> 0..MaxAge]
          /\ cur' \in [Sweep -> Message \cup {NoMessage}]
      BY <1>0, <1>7 DEF TypeOK, Crash, PC
    <2>3. /\ DOMAIN page' = Sweep
          /\ \A t \in Sweep : DOMAIN page'[t] \subseteq Message
          /\ \A t \in Sweep, m \in Message : m \in DOMAIN page'[t] => page'[t][m] \in AttemptNo
          /\ \A t \in Sweep : pc'[t] \in {"send", "delete"} => cur'[t] \in DOMAIN page'[t]
      BY <1>0, <1>7 DEF Crash
    <2> QED  BY Zenon, <1>7, <2>1, <2>2, <2>3 DEF TypeOK, Crash, history
  <1>8. CASE Tick
    <2>1. row' \in [Message -> Row]
      BY <1>0, <1>8, LaterShape, Numbers DEF Tick
    <2>2. phase' \in 0..(Second - 1) /\ age' \in [Sweep -> 0..MaxAge]
      BY <1>0, <1>8, Numbers DEF Tick, TypeOK
    <2> QED  BY Zenon, <1>8, <2>1, <2>2 DEF TypeOK, Tick, history
  <1>9. CASE UNCHANGED vars
    BY Zenon, <1>9 DEF TypeOK, vars, sweep, history
  <1>10. ASSUME NEW m \in Message, CatchUp(m)  PROVE TypeOK'
    <2>1. stale' \in [Message -> AttemptNo]
      BY <1>10, Numbers DEF CatchUp, TypeOK, AttemptNo
    <2> QED  BY Zenon, <1>10, <2>1 DEF TypeOK, CatchUp, sweep, history
  <1> QED
    BY Zenon, <1>1, <1>2, <1>3, <1>4, <1>5, <1>6, <1>7, <1>8, <1>9, <1>10 DEF Next, runSweeper

\* Every message starts in the queue, without a row.
LEMMA SweepTypeInit == Init => TypeOK
  <1> SUFFICES ASSUME Init  PROVE TypeOK
    OBVIOUS
  <1>1. 0 \in AttemptNo /\ 0 \in 0..(Second - 1) /\ 0 \in 0..MaxAge /\ 0 \in 0..MaxCrashes
    BY Numbers DEF AttemptNo
  <1>2. \A s \in Sweep : DOMAIN page[s] = {} /\ pc[s] = "idle"
    BY DEF Init
  <1> QED  BY <1>1, <1>2, Numbers DEF Init, TypeOK, PC
-----------------------------------------------------------------------------
\* The invariant of a message depends on its own row, copies and index entry.
LEMMA MessageFrame ==
    ASSUME NEW m \in Message, InOnePlace(m), row'[m].exists = row[m].exists,
           stale'[m] = stale[m], queue'[m] = queue[m], m \in sent' <=> m \in sent
    PROVE  InOnePlace(m)'
  BY Zenon DEF InOnePlace

\* A message that is settled, stored or queued stays so unless its own row or
\* copies change.
LEMMA KeptFrame ==
    ASSUME LostByLateDelete, settled \subseteq settled', dropped \subseteq dropped',
           \A m \in Message : \/ row'[m].exists = row[m].exists /\ queue'[m] = queue[m]
                              \/ m \in dropped' \/ m \in settled' \/ row'[m].exists \/ Queued(m)'
    PROVE  LostByLateDelete'
  <1> SUFFICES ASSUME NEW m \in Message
               PROVE  m \in dropped' \/ m \in settled' \/ row'[m].exists \/ Queued(m)'
    BY Zenon DEF LostByLateDelete
  <1>1. m \in dropped \/ m \in settled \/ row[m].exists \/ Queued(m)
    BY Zenon DEF LostByLateDelete
  <1>2. CASE row'[m].exists = row[m].exists /\ queue'[m] = queue[m]
    BY <1>1, <1>2 DEF Queued
  <1> QED  BY Zenon, <1>2

LEMMA ExclusiveFrame ==
    ASSUME ClaimIsExclusive, fresh' \subseteq fresh,
           \A s \in fresh' : pc'[s] = "send" =>
               pc[s] = "send" /\ cur'[s] = cur[s] /\ age'[s] = age[s]
    PROVE  ClaimIsExclusive'
  <1> SUFFICES ASSUME NEW s \in fresh', NEW t \in fresh', s # t,
                      pc'[s] = "send", pc'[t] = "send", cur'[s] = cur'[t]
               PROVE  age'[s] > age'[t] + Lease \/ age'[t] > age'[s] + Lease
    BY Zenon DEF ClaimIsExclusive
  <1>1. /\ s \in fresh /\ pc[s] = "send" /\ cur'[s] = cur[s] /\ age'[s] = age[s]
        /\ t \in fresh /\ pc[t] = "send" /\ cur'[t] = cur[t] /\ age'[t] = age[t]
    BY Zenon
  <1>2. age[s] > age[t] + Lease \/ age[t] > age[s] + Lease
    BY Zenon, <1>1 DEF ClaimIsExclusive
  <1> QED  BY Zenon, <1>1, <1>2

\* What a worker does to the copies of its message.
LEMMA DeliverQueue ==
    ASSUME TypeOK, NEW m \in Message, NEW n \in AttemptNo, Deliver(m, n)
    PROVE  /\ \A x \in Message \ {m} : queue'[x] = queue[x]
           /\ \/ /\ queue'[m][n] = queue[m][n] - 1
                 /\ \A k \in AttemptNo \ {n} : queue'[m][k] = queue[m][k]
              \/ /\ n + 1 \in AttemptNo /\ queue'[m][n] = queue[m][n] - 1
                 /\ queue'[m][n + 1] = queue[m][n + 1] + 1
                 /\ \A k \in AttemptNo \ {n, n + 1} : queue'[m][k] = queue[m][k]
                 /\ UNCHANGED row
  <1>0. queue \in [Message -> [AttemptNo -> Nat]]
    BY DEF TypeOK
  <1>1. CASE queue' = [queue EXCEPT ![m][n] = @ - 1]
    BY <1>0, <1>1
  <1>2. CASE /\ n < LongRetries /\ UNCHANGED row
             /\ queue' = [queue EXCEPT ![m][n] = @ - 1, ![m][n + 1] = @ + 1]
    <2>1. n + 1 \in AttemptNo /\ n + 1 # n
      BY <1>2, Numbers DEF AttemptNo
    <2> QED  BY <1>0, <1>2, <2>1
  <1> QED  BY Zenon, <1>1, <1>2 DEF Deliver

\* A message of which no row was sent moves from the queue to its row, along
\* the queue, or is settled.
LEMMA DeliverPlace ==
    ASSUME TypeOK, NEW m \in Message, NEW n \in AttemptNo, Deliver(m, n), InOnePlace(m)
    PROVE  InOnePlace(m)'
  <1> SUFFICES ASSUME m \notin sent
               PROVE  /\ stale'[m] = 0
                      /\ \A k \in AttemptNo : queue'[m][k] > 0 =>
                            /\ ~row'[m].exists /\ queue'[m][k] = 1
                            /\ \A j \in AttemptNo \ {k} : queue'[m][j] = 0
    BY Zenon DEF InOnePlace, Deliver
  <1>0. /\ queue[m] \in [AttemptNo -> Nat] /\ queue[m][n] > 0
    BY Zenon DEF Deliver, TypeOK
  <1>1. /\ stale[m] = 0 /\ ~row[m].exists /\ queue[m][n] = 1
        /\ \A k \in AttemptNo \ {n} : queue[m][k] = 0
    BY Zenon, <1>0 DEF InOnePlace
  <1>2. stale'[m] = 0
    BY <1>1 DEF Deliver, LeftInIndex, Due, TypeOK
  <1>3. CASE /\ queue'[m][n] = queue[m][n] - 1
             /\ \A k \in AttemptNo \ {n} : queue'[m][k] = queue[m][k]
    BY <1>1, <1>2, <1>3
  <1>4. CASE /\ n + 1 \in AttemptNo /\ queue'[m][n] = queue[m][n] - 1
             /\ queue'[m][n + 1] = queue[m][n + 1] + 1
             /\ \A k \in AttemptNo \ {n, n + 1} : queue'[m][k] = queue[m][k]
             /\ UNCHANGED row
    <2>1. n + 1 \in AttemptNo \ {n}
      BY <1>4, Numbers DEF AttemptNo
    <2>2. queue'[m][n] = 0 /\ queue'[m][n + 1] = 1
      BY <1>1, <1>4, <2>1
    <2>3. \A k \in AttemptNo \ {n + 1} : queue'[m][k] = 0
      BY Zenon, <1>1, <1>4, <2>2
    <2> QED  BY <1>1, <1>2, <1>4, <2>2, <2>3
  <1> QED  BY Zenon, <1>3, <1>4, DeliverQueue

\* When the row is left alone, the message is settled or its next copy queued.
LEMMA DeliverKeeps ==
    ASSUME TypeOK, NEW m \in Message, NEW n \in AttemptNo, Deliver(m, n)
    PROVE  \/ UNCHANGED <<row, fresh>> /\ (m \in settled' \/ Queued(m)')
           \/ putRow(m, n + 1) /\ fresh' = {s \in fresh : cur[s] # m}
  <1>1. CASE UNCHANGED <<row, fresh>> /\ settled' = settled \cup {m}
    BY <1>1
  <1>2. CASE /\ n < LongRetries /\ UNCHANGED <<row, fresh>>
             /\ queue' = [queue EXCEPT ![m][n] = @ - 1, ![m][n + 1] = @ + 1]
    <2>0. queue \in [Message -> [AttemptNo -> Nat]]
      BY DEF TypeOK
    <2>1. n + 1 \in AttemptNo /\ n + 1 # n
      BY <1>2, Numbers DEF AttemptNo
    <2>2. queue'[m][n + 1] > 0
      BY <1>2, <2>0, <2>1
    <2> QED  BY <1>2, <2>1, <2>2 DEF Queued
  <1> QED  BY Zenon, <1>1, <1>2 DEF Deliver

LEMMA DeliverStep ==
    ASSUME TypeOK, SweepInvariant, NEW m \in Message, NEW n \in AttemptNo, Deliver(m, n)
    PROVE  SweepInvariant'
  <1>0. /\ row \in [Message -> Row] /\ stale \in [Message -> AttemptNo] /\ fresh \subseteq Sweep
        /\ UNCHANGED <<phase, pc, age, page, cur, sent, dropped>>
        /\ settled \subseteq settled' /\ fresh' \subseteq fresh
        /\ \A s \in Sweep : DOMAIN page[s] \subseteq Message
        /\ \A s \in Sweep : pc[s] \in {"send", "delete"} => cur[s] \in DOMAIN page[s]
    BY DEF TypeOK, Deliver, sweep
  <1>1. \A x \in Message \ {m} : row'[x] = row[x] /\ stale'[x] = stale[x]
    BY <1>0 DEF Deliver, putRow, LeftInIndex
  <1>2. \A x \in Message \ {m} : queue'[x] = queue[x]
    BY Zenon, DeliverQueue
  <1>3. ClaimIsExclusive'
    BY Zenon, <1>0, ExclusiveFrame DEF SweepInvariant
  <1>4. \A x \in Message : InOnePlace(x)'
    <2> SUFFICES ASSUME NEW x \in Message  PROVE InOnePlace(x)'
      OBVIOUS
    <2>1. CASE x = m
      BY Zenon, <2>1, DeliverPlace DEF SweepInvariant
    <2>2. CASE x # m
      BY Zenon, <1>0, <1>1, <1>2, <2>2, MessageFrame DEF SweepInvariant
    <2> QED  BY <2>1, <2>2
  <1>5. m \in settled' \/ row'[m].exists \/ Queued(m)'
    <2>1. CASE putRow(m, n + 1)
      BY <1>0, <2>1 DEF putRow
    <2> QED  BY Zenon, <2>1, DeliverKeeps
  <1>6. LostByLateDelete'
    BY Zenon, <1>0, <1>1, <1>2, <1>5, KeptFrame DEF SweepInvariant
  <1>7. ASSUME NEW s \in Sweep  PROVE ItemsInOrder(s)'
    <2>1. ItemsInOrder(s)
      BY Zenon DEF SweepInvariant
    <2>2. \A x \in DOMAIN page[s] : x \in sent \/ Due(x)'
      <3> SUFFICES ASSUME NEW x \in DOMAIN page[s], x \notin sent  PROVE Due(x)'
        OBVIOUS
      <3>1. x \in Message /\ Due(x)
        BY Zenon, <1>0, <2>1 DEF ItemsInOrder
      <3>2. x # m
        <4>1. InOnePlace(x)
          BY Zenon, <3>1 DEF SweepInvariant
        <4> QED  BY Zenon, <3>1, <4>1 DEF InOnePlace, Due, Deliver
      <3> QED  BY Zenon, <1>1, <3>1, <3>2 DEF Due
    <2>3. CASE UNCHANGED <<row, fresh>> /\ (m \in settled' \/ Queued(m)')
      <3>1. ASSUME s \in fresh, pc[s] = "delete"  PROVE cur[s] \in settled' \/ Queued(cur[s])'
        <4>1. cur[s] \in Message /\ (cur[s] \in settled \/ Queued(cur[s]))
          BY Zenon, <1>0, <2>1, <3>1 DEF ItemsInOrder
        <4>2. CASE cur[s] = m
          BY <1>0, <2>3, <4>2 DEF Queued
        <4>3. CASE cur[s] # m
          <5>1. queue'[cur[s]] = queue[cur[s]]
            BY Zenon, <1>2, <4>1, <4>3
          <5> QED  BY <1>0, <4>1, <5>1 DEF Queued
        <4> QED  BY <4>2, <4>3
      <3> QED  BY Zenon, <1>0, <2>1, <2>2, <2>3, <3>1 DEF ItemsInOrder
    <2>4. CASE putRow(m, n + 1) /\ fresh' = {t \in fresh : cur[t] # m}
      <3>1. ASSUME s \in fresh'
            PROVE  /\ s \in fresh /\ pc[s] \in {"send", "delete"}
                   /\ row'[cur[s]] = row[cur[s]] /\ queue'[cur[s]] = queue[cur[s]]
        <4>1. s \in fresh /\ cur[s] # m /\ pc[s] \in {"send", "delete"}
          BY <2>1, <2>4, <3>1 DEF ItemsInOrder
        <4>2. cur[s] \in Message \ {m}
          BY <1>0, <4>1
        <4> QED  BY Zenon, <1>1, <1>2, <4>1, <4>2
      <3>2. ASSUME s \in fresh', pc[s] = "delete"  PROVE cur[s] \in settled' \/ Queued(cur[s])'
        <4>1. cur[s] \in settled \/ Queued(cur[s])
          BY Zenon, <2>1, <3>1, <3>2 DEF ItemsInOrder
        <4> QED  BY <1>0, <3>1, <3>2, <4>1 DEF Queued
      <3> QED  BY Zenon, <1>0, <2>1, <2>2, <3>1, <3>2 DEF ItemsInOrder
    <2> QED  BY Zenon, <2>3, <2>4, DeliverKeeps
  <1> QED  BY Zenon, <1>3, <1>4, <1>6, <1>7 DEF SweepInvariant
\* A step of one sweep that takes no claim and leaves the stores alone.
LEMMA SweepFrame ==
    ASSUME SweepInvariant, UNCHANGED <<row, stale, queue, settled, sent, dropped>>, NEW s \in Sweep,
           fresh \subseteq Sweep, fresh' = fresh \ {s},
           \A t \in Sweep \ {s} :
               page'[t] = page[t] /\ pc'[t] = pc[t] /\ cur'[t] = cur[t] /\ age'[t] = age[t],
           pc'[s] # "delete", \A m \in DOMAIN page'[s] : m \in sent \/ Due(m)
    PROVE  SweepInvariant'
  <1>1. LostByLateDelete' /\ \A m \in Message : InOnePlace(m)'
    BY Zenon DEF SweepInvariant, LostByLateDelete, InOnePlace, Queued
  <1>2. ClaimIsExclusive'
    <2>1. \A t \in fresh' : pc'[t] = pc[t] /\ cur'[t] = cur[t] /\ age'[t] = age[t]
      BY Zenon
    <2> QED  BY Zenon, <2>1, ExclusiveFrame DEF SweepInvariant
  <1>3. ASSUME NEW t \in Sweep, t # s  PROVE ItemsInOrder(t)'
    <2>1. page'[t] = page[t] /\ pc'[t] = pc[t] /\ cur'[t] = cur[t] /\ age'[t] = age[t]
      BY Zenon, <1>3
    <2>2. ItemsInOrder(t)
      BY Zenon DEF SweepInvariant
    <2> QED  BY <2>1, <2>2 DEF ItemsInOrder, Due, Queued
  <1>4. ItemsInOrder(s)'
    BY Zenon DEF ItemsInOrder, Due
  <1> QED  BY <1>1, <1>2, <1>3, <1>4 DEF SweepInvariant

LEMMA QueryStep ==
    ASSUME TypeOK, SweepInvariant, NEW s \in Sweep, Query(s)
    PROVE  SweepInvariant'
  <1>1. PICK found \in SUBSET {m \in Message : Indexed(m) # {}} :
            \E items \in [found -> AttemptNo] : page' = [page EXCEPT ![s] = items]
    BY Zenon, Query(s) DEF Query
  <1>2. /\ DOMAIN page = Sweep /\ pc \in [Sweep -> PC] /\ age \in [Sweep -> 0..MaxAge]
        /\ fresh \subseteq Sweep
    BY DEF TypeOK
  <1>3. /\ UNCHANGED <<row, stale, queue, settled, sent, cur, fresh, dropped>> /\ pc[s] = "idle"
        /\ pc' = [pc EXCEPT ![s] = "claim"] /\ age' = [age EXCEPT ![s] = 0]
    BY Zenon DEF Query, history
  <1>4. DOMAIN page'[s] = found /\ \A t \in Sweep \ {s} : page'[t] = page[t]
    BY <1>1, <1>2
  <1>5. \A m \in found : m \in sent \/ Due(m)
    BY <1>1 DEF SweepInvariant, InOnePlace, Indexed
  <1>6. s \notin fresh
    BY <1>3 DEF SweepInvariant, ItemsInOrder
  <1>7. /\ \A t \in Sweep \ {s} : pc'[t] = pc[t] /\ age'[t] = age[t]
        /\ pc'[s] = "claim"
    BY <1>2, <1>3
  <1>8. fresh' = fresh \ {s}
    BY <1>3, <1>6
  <1> QED  BY Zenon, <1>2, <1>3, <1>4, <1>5, <1>7, <1>8, SweepFrame

LEMMA LoseClaimStep ==
    ASSUME TypeOK, SweepInvariant, NEW s \in Sweep, LoseClaim(s)
    PROVE  SweepInvariant'
  <1>1. PICK m \in DOMAIN page[s] : Without(s, m)
    BY Zenon, LoseClaim(s) DEF LoseClaim
  <1>2. /\ UNCHANGED <<row, stale, queue, settled, sent, fresh, dropped>> /\ pc[s] = "claim"
        /\ fresh \subseteq Sweep
    BY Zenon DEF LoseClaim, history, TypeOK
  <1>3. s \notin fresh
    BY <1>2 DEF SweepInvariant, ItemsInOrder
  <1>4. \A x \in DOMAIN page'[s] : x \in sent \/ Due(x)
    BY Zenon, <1>1, WithoutShape DEF ItemsInOrder, SweepInvariant
  <1>5. fresh' = fresh \ {s} /\ pc'[s] # "delete"
    BY <1>1, <1>2, <1>3, WithoutShape
  <1> QED  BY Zenon, <1>1, <1>2, <1>4, <1>5, WithoutShape, SweepFrame

LEMMA CrashStep ==
    ASSUME TypeOK, SweepInvariant, NEW s \in Sweep, Crash(s)
    PROVE  SweepInvariant'
  <1>1. /\ DOMAIN page = Sweep /\ pc \in [Sweep -> PC] /\ age \in [Sweep -> 0..MaxAge]
        /\ cur \in [Sweep -> Message \cup {NoMessage}] /\ fresh \subseteq Sweep
    BY DEF TypeOK
  <1>2. UNCHANGED <<row, stale, queue, settled, sent, dropped>> /\ fresh' = fresh \ {s}
    BY Zenon DEF Crash
  <1>3. DOMAIN page'[s] = {} /\ pc'[s] = "idle"
    BY <1>1 DEF Crash
  <1>4. \A t \in Sweep \ {s} :
            page'[t] = page[t] /\ pc'[t] = pc[t] /\ cur'[t] = cur[t] /\ age'[t] = age[t]
    BY <1>1 DEF Crash
  <1> QED  BY <1>1, <1>2, <1>3, <1>4, SweepFrame

\* Only the claim of a row changes, and its messages stay where they are.
LEMMA ClaimStep ==
    ASSUME TypeOK, SweepInvariant, NEW s \in Sweep, Claim(s)
    PROVE  SweepInvariant'
  <1>0. /\ DOMAIN page = Sweep /\ pc \in [Sweep -> PC] /\ age \in [Sweep -> 0..MaxAge]
        /\ cur \in [Sweep -> Message \cup {NoMessage}] /\ row \in [Message -> Row]
        /\ \A t \in Sweep : DOMAIN page[t] \subseteq Message
        /\ \A t \in Sweep : pc[t] \in {"send", "delete"} => cur[t] \in DOMAIN page[t]
        /\ fresh \subseteq Sweep
    BY DEF TypeOK
  <1>1. PICK m \in DOMAIN page[s] :
            /\ Claimable(s, m)
            /\ row' = [row EXCEPT ![m].claimed = age[s]]
            /\ cur' = [cur EXCEPT ![s] = m]
    BY Zenon, Claim(s) DEF Claim
  <1>2. /\ UNCHANGED <<stale, queue, settled, phase, age, page, sent, dropped>>
        /\ pc' = [pc EXCEPT ![s] = "send"] /\ fresh' = fresh \cup {s}
    BY Zenon DEF Claim
  <1>3. /\ m \in Message /\ row'[m].claimed = age[s]
        /\ \A x \in Message : row'[x].exists = row[x].exists /\ row'[x].due = row[x].due
        /\ \A x \in Message \ {m} : row'[x] = row[x]
    BY <1>0, <1>1 DEF Row
  <1>4. /\ pc'[s] = "send" /\ cur'[s] = m
        /\ \A t \in Sweep \ {s} : pc'[t] = pc[t] /\ cur'[t] = cur[t]
    BY <1>0, <1>1, <1>2
  <1>5. \A t \in fresh \ {s} : pc[t] = "send" /\ cur[t] = m => age[t] > age[s] + Lease
    <2> SUFFICES ASSUME NEW t \in fresh \ {s}, pc[t] = "send", cur[t] = m
                 PROVE  age[t] > age[s] + Lease
      BY Zenon
    <2>0. t \in Sweep
      BY <1>0
    <2>1. row[m].exists /\ row[m].claimed > age[s] + Lease /\ row[m].claimed <= age[t]
      BY <1>1, <2>0 DEF Claimable, SweepInvariant, ItemsInOrder
    <2>2. row[m].claimed \in Nat /\ age[s] \in Nat /\ age[t] \in Nat /\ Lease \in Nat
      BY <1>0, <1>3, <2>0, Numbers DEF Row
    <2> QED  BY <2>1, <2>2
  <1>6. LostByLateDelete' /\ \A x \in Message : InOnePlace(x)'
    BY Zenon, <1>2, <1>3 DEF SweepInvariant, LostByLateDelete, InOnePlace, Queued
  <1>7. ClaimIsExclusive'
    <2> SUFFICES ASSUME NEW t \in fresh', NEW u \in fresh', t # u,
                        pc'[t] = "send", pc'[u] = "send", cur'[t] = cur'[u]
                 PROVE  age'[t] > age'[u] + Lease \/ age'[u] > age'[t] + Lease
      BY Zenon DEF ClaimIsExclusive
    <2>1. CASE t = s
      <3>1. u \in fresh \ {s} /\ u \in Sweep
        BY <1>0, <1>2, <2>1
      <3> QED  BY Zenon, <1>2, <1>4, <1>5, <2>1, <3>1
    <2>2. CASE u = s
      <3>1. t \in fresh \ {s} /\ t \in Sweep
        BY <1>0, <1>2, <2>2
      <3> QED  BY Zenon, <1>2, <1>4, <1>5, <2>2, <3>1
    <2>3. CASE t # s /\ u # s
      <3>1. t \in fresh /\ u \in fresh /\ t \in Sweep \ {s} /\ u \in Sweep \ {s}
        BY <1>0, <1>2, <2>3
      <3> QED  BY Zenon, <1>2, <1>4, <3>1 DEF SweepInvariant, ClaimIsExclusive
    <2> QED  BY <2>1, <2>2, <2>3
  <1>8. ASSUME NEW t \in Sweep  PROVE ItemsInOrder(t)'
    <2>1. ItemsInOrder(t)
      BY Zenon DEF SweepInvariant
    <2>2. \A x \in DOMAIN page'[t] : x \in sent' \/ Due(x)'
      BY Zenon, <1>0, <1>2, <1>3, <2>1 DEF ItemsInOrder, Due
    <2>3. CASE t = s
      <3>1. age[s] <= age[s]
        BY <1>0
      <3>2. pc'[s] # "delete" /\ pc'[s] \in {"send", "delete"}
        BY <1>4
      <3> QED  BY Zenon, <1>2, <1>3, <1>4, <2>2, <2>3, <3>1, <3>2 DEF ItemsInOrder
    <2>4. CASE t # s
      <3>1. /\ pc'[t] = pc[t] /\ cur'[t] = cur[t] /\ age'[t] = age[t]
            /\ t \in fresh' <=> t \in fresh
        BY <1>2, <1>4, <2>4
      <3>2. ASSUME t \in fresh, pc[t] = "send", row'[cur[t]].exists
            PROVE  row'[cur[t]].claimed <= age[t]
        <4>1. CASE cur[t] = m
          <5>1. age[t] > age[s] + Lease
            BY Zenon, <1>5, <2>4, <3>2, <4>1
          <5>2. age[t] \in Nat /\ age[s] \in Nat /\ Lease \in Nat
            BY <1>0, Numbers
          <5>3. age[s] <= age[t]
            BY <5>1, <5>2
          <5> QED  BY Zenon, <1>3, <4>1, <5>3
        <4>2. CASE cur[t] # m
          <5>1. row'[cur[t]] = row[cur[t]]
            BY <1>0, <1>3, <3>2, <4>2
          <5> QED  BY <2>1, <3>2, <5>1 DEF ItemsInOrder
        <4> QED  BY <4>1, <4>2
      <3>3. Queued(cur[t]) => Queued(cur[t])'
        BY Zenon, <1>2, <3>1 DEF Queued
      <3> QED  BY Zenon, <1>2, <2>1, <2>2, <3>1, <3>2, <3>3 DEF ItemsInOrder
    <2> QED  BY <2>3, <2>4
  <1> QED  BY <1>6, <1>7, <1>8 DEF SweepInvariant
LEMMA SendStep ==
    ASSUME TypeOK, SweepInvariant, NEW s \in Sweep, Send(s)
    PROVE  SweepInvariant'
  <1> DEFINE m == cur[s]
             n == page[s][m]
  <1>0. /\ queue \in [Message -> [AttemptNo -> Nat]] /\ pc \in [Sweep -> PC]
        /\ m \in DOMAIN page[s] /\ m \in Message /\ n \in AttemptNo
        /\ \A t \in Sweep : DOMAIN page[t] \subseteq Message
        /\ \A t \in Sweep : pc[t] \in {"send", "delete"} => cur[t] \in DOMAIN page[t]
        /\ fresh \subseteq Sweep
    BY DEF TypeOK, Send
  <1>1. /\ UNCHANGED <<row, stale, settled, age, page, cur, fresh, dropped>>
        /\ sent' = sent \cup {m} /\ pc' = [pc EXCEPT ![s] = "delete"]
        /\ queue' = [queue EXCEPT ![m][n] = @ + 1]
    BY Zenon DEF Send
  <1> HIDE DEF n
  <1>2. /\ \A x \in Message \ {m} : queue'[x] = queue[x]
        /\ queue'[m][n] > 0
    BY <1>0, <1>1
  <1>3. \A x \in Message : Queued(x) => Queued(x)'
    <2>1. \A x \in Message, k \in AttemptNo : queue[x][k] > 0 => queue'[x][k] > 0
      BY <1>0, <1>1
    <2> QED  BY Zenon, <2>1 DEF Queued
  <1>4. Queued(m)'
    BY Zenon, <1>0, <1>1, <1>2 DEF Queued
  <1>5. LostByLateDelete'
    BY Zenon, <1>1, <1>3 DEF SweepInvariant, LostByLateDelete
  <1>6. /\ pc'[s] = "delete"
        /\ \A t \in Sweep \ {s} : pc'[t] = pc[t]
    BY <1>0, <1>1
  <1>7. ClaimIsExclusive'
    <2>1. \A t \in fresh' : pc'[t] = "send" => pc[t] = "send"
      BY <1>0, <1>1, <1>6
    <2> QED  BY Zenon, <1>1, <2>1, ExclusiveFrame DEF SweepInvariant
  <1>8. ASSUME NEW x \in Message  PROVE InOnePlace(x)'
    <2>1. CASE x = m
      BY <1>1, <2>1 DEF InOnePlace
    <2>2. CASE x # m
      BY <1>1, <1>2, <2>2, MessageFrame DEF SweepInvariant
    <2> QED  BY <2>1, <2>2
  <1>9. ASSUME NEW t \in Sweep  PROVE ItemsInOrder(t)'
    <2>1. ItemsInOrder(t)
      BY Zenon DEF SweepInvariant
    <2>2. \A x \in DOMAIN page'[t] : x \in sent' \/ Due(x)'
      BY <1>1, <2>1 DEF ItemsInOrder, Due
    <2>3. CASE t = s
      BY <1>1, <1>4, <1>6, <2>2, <2>3 DEF ItemsInOrder, Queued
    <2>4. CASE t # s
      <3>1. pc'[t] = pc[t]
        BY <1>6, <2>4
      <3>2. pc[t] = "delete" => cur[t] \in Message /\ cur[t] \in sent'
        BY <1>0, <1>1, <2>1 DEF ItemsInOrder
      <3>3. pc[t] = "delete" /\ Queued(cur[t]) => Queued(cur[t])'
        BY Zenon, <1>1, <1>3, <3>2 DEF Queued
      <3> QED  BY Zenon, <1>1, <2>1, <2>2, <3>1, <3>2, <3>3 DEF ItemsInOrder
    <2> QED  BY <2>3, <2>4
  <1> QED  BY <1>5, <1>7, <1>8, <1>9 DEF SweepInvariant

\* The row that goes is the one the sweep claimed, of which it has sent a copy,
\* or the message is counted as dropped.
LEMMA DeleteStep ==
    ASSUME TypeOK, SweepInvariant, NEW s \in Sweep, Delete(s)
    PROVE  SweepInvariant'
  <1> DEFINE m == cur[s]
  <1>0. /\ row \in [Message -> Row] /\ stale \in [Message -> AttemptNo]
        /\ m \in Message /\ m \in sent
        /\ \A t \in Sweep : DOMAIN page[t] \subseteq Message
        /\ \A t \in Sweep : pc[t] \in {"send", "delete"} => cur[t] \in DOMAIN page[t]
        /\ fresh \subseteq Sweep
    BY DEF TypeOK, Delete, SweepInvariant, ItemsInOrder
  <1>1. UNCHANGED <<queue, settled, sent>> /\ Without(s, m) /\ fresh' = fresh \ {s}
    BY Zenon DEF Delete
  <1>2. /\ \A x \in Message \ {m} : row'[x] = row[x] /\ stale'[x] = stale[x]
        /\ ~row'[m].exists
    BY <1>0, Numbers DEF Delete, LeftInIndex
  <1>3. \A t \in Sweep \ {s} :
            page'[t] = page[t] /\ pc'[t] = pc[t] /\ cur'[t] = cur[t] /\ age'[t] = age[t]
    BY Zenon, <1>1, WithoutShape
  <1>4. LostByLateDelete'
    <2>1. dropped \subseteq dropped'
      BY DEF Delete
    <2>2. CASE s \in fresh
      <3>1. m \in settled \/ Queued(m)
        BY <2>2 DEF SweepInvariant, ItemsInOrder, Delete
      <3>2. m \in settled' \/ \E k \in AttemptNo : queue'[m][k] > 0
        BY Zenon, <1>1, <3>1 DEF Queued
      <3>3. ASSUME NEW x \in Message
            PROVE  x \in dropped' \/ x \in settled' \/ row'[x].exists \/ Queued(x)'
        <4>1. CASE x = m
          BY Zenon, <3>2, <4>1 DEF Queued
        <4>2. CASE x # m
          BY <1>1, <1>2, <2>1, <4>2 DEF SweepInvariant, LostByLateDelete, Queued
        <4> QED  BY <4>1, <4>2
      <3> QED  BY Zenon, <3>3 DEF LostByLateDelete
    <2>3. CASE s \notin fresh /\ row[m].exists
      <3>1. m \in dropped'
        BY <2>3 DEF Delete
      <3>2. ASSUME NEW x \in Message
            PROVE  x \in dropped' \/ x \in settled' \/ row'[x].exists \/ Queued(x)'
        <4>1. CASE x = m
          BY Zenon, <3>1, <4>1
        <4>2. CASE x # m
          BY <1>1, <1>2, <2>1, <4>2 DEF SweepInvariant, LostByLateDelete, Queued
        <4> QED  BY <4>1, <4>2
      <3> QED  BY Zenon, <3>2 DEF LostByLateDelete
    <2>4. CASE s \notin fresh /\ ~row[m].exists
      <3>1. \A x \in Message : row[x].exists => row'[x].exists
        BY <1>2, <2>4
      <3> QED  BY Zenon, <1>1, <2>1, <3>1 DEF SweepInvariant, LostByLateDelete, Queued
    <2> QED  BY <2>2, <2>3, <2>4
  <1>5. ClaimIsExclusive'
    <2>1. \A t \in fresh' : pc'[t] = pc[t] /\ cur'[t] = cur[t] /\ age'[t] = age[t]
      BY <1>0, <1>1, <1>3
    <2>2. fresh' \subseteq fresh
      BY <1>1
    <2> QED  BY Zenon, <2>1, <2>2, ExclusiveFrame DEF SweepInvariant
  <1>6. ASSUME NEW x \in Message  PROVE InOnePlace(x)'
    <2>1. CASE x = m
      BY <1>0, <1>1, <2>1 DEF InOnePlace
    <2>2. CASE x # m
      BY <1>1, <1>2, <2>2, MessageFrame DEF SweepInvariant
    <2> QED  BY <2>1, <2>2
  <1>7. ASSUME NEW t \in Sweep  PROVE ItemsInOrder(t)'
    <2>1. ItemsInOrder(t)
      BY Zenon DEF SweepInvariant
    <2>2. DOMAIN page'[t] \subseteq DOMAIN page[t]
      BY <1>1, <1>3, WithoutShape
    <2>3. \A x \in DOMAIN page'[t] : x \in sent' \/ Due(x)'
      <3> SUFFICES ASSUME NEW x \in DOMAIN page'[t], x \notin sent  PROVE Due(x)'
        BY Zenon, <1>1
      <3>1. x \in Message /\ Due(x) /\ x # m
        BY <1>0, <2>1, <2>2 DEF ItemsInOrder
      <3> QED  BY <1>2, <3>1 DEF Due
    <2>4. CASE t = s
      <3>1. pc'[t] # "delete" /\ t \notin fresh'
        BY <1>1, <2>4, WithoutShape
      <3> QED  BY Zenon, <2>3, <3>1 DEF ItemsInOrder
    <2>5. CASE t # s
      <3>1. /\ pc'[t] = pc[t] /\ cur'[t] = cur[t] /\ age'[t] = age[t]
            /\ t \in fresh' => t \in fresh
        BY <1>1, <1>3, <2>5
      <3>2. pc[t] = "send" /\ row'[cur[t]].exists => row'[cur[t]] = row[cur[t]]
        BY <1>0, <1>2
      <3>3. Queued(cur[t]) => Queued(cur[t])'
        BY Zenon, <1>1, <3>1 DEF Queued
      <3>4. pc[t] = "send" /\ row'[cur[t]].exists /\ t \in fresh => row'[cur[t]].claimed <= age[t]
        BY Zenon, <2>1, <3>2 DEF ItemsInOrder
      <3> QED  BY Zenon, <1>1, <2>1, <2>3, <3>1, <3>3, <3>4 DEF ItemsInOrder
    <2> QED  BY <2>4, <2>5
  <1> QED  BY <1>4, <1>5, <1>6, <1>7 DEF SweepInvariant

LEMMA CatchUpStep ==
    ASSUME TypeOK, SweepInvariant, NEW m \in Message, CatchUp(m)
    PROVE  SweepInvariant'
  <1>1. /\ UNCHANGED <<row, queue, settled, pc, age, page, cur, sent, fresh, dropped>>
        /\ stale' = [stale EXCEPT ![m] = 0] /\ stale \in [Message -> AttemptNo]
    BY Zenon DEF CatchUp, sweep, history, TypeOK
  <1>2. \A x \in Message : stale[x] = 0 => stale'[x] = 0
    BY <1>1
  <1>3. LostByLateDelete' /\ ClaimIsExclusive' /\ \A s \in Sweep : ItemsInOrder(s)'
    BY Zenon, <1>1 DEF SweepInvariant, LostByLateDelete, ClaimIsExclusive, ItemsInOrder, Queued, Due
  <1>4. \A x \in Message : InOnePlace(x)'
    BY Zenon, <1>1, <1>2 DEF SweepInvariant, InOnePlace
  <1> QED  BY <1>3, <1>4 DEF SweepInvariant

LEMMA TickStep ==
    ASSUME TypeOK, SweepInvariant, Tick
    PROVE  SweepInvariant'
  <1> DEFINE newSecond == phase = Second - 1
  <1>0. /\ row \in [Message -> Row] /\ phase \in 0..(Second - 1)
        /\ age \in [Sweep -> 0..MaxAge] /\ newSecond \in BOOLEAN
        /\ \A t \in Sweep : DOMAIN page[t] \subseteq Message
        /\ \A t \in Sweep : pc[t] \in {"send", "delete"} => cur[t] \in DOMAIN page[t]
        /\ fresh \subseteq Sweep
    BY DEF TypeOK
  <1>1. /\ UNCHANGED <<stale, queue, settled, pc, page, cur, sent, fresh, dropped>>
        /\ row' = [m \in Message |-> Later(row[m], newSecond)]
        /\ age' = [s \in Sweep |-> IF newSecond /\ pc[s] # "idle" THEN age[s] + 1 ELSE age[s]]
    BY Zenon DEF Tick, history
  <1>2. \A m \in Message :
            /\ row'[m].exists = row[m].exists
            /\ row'[m].due = IF newSecond THEN Countdown(row[m].due) ELSE row[m].due
            /\ row'[m].claimed =
                  IF newSecond /\ row[m].claimed < Expired THEN row[m].claimed + 1 ELSE row[m].claimed
    BY <1>0, <1>1, LaterShape
  <1>3. LostByLateDelete'
    BY Zenon, <1>1, <1>2 DEF SweepInvariant, LostByLateDelete, Queued
  <1>4. ClaimIsExclusive'
    <2> SUFFICES ASSUME NEW t \in fresh, NEW u \in fresh, t # u,
                        pc[t] = "send", pc[u] = "send", cur[t] = cur[u]
                 PROVE  age'[t] > age'[u] + Lease \/ age'[u] > age'[t] + Lease
      BY Zenon, <1>1 DEF ClaimIsExclusive
    <2>1. age[t] > age[u] + Lease \/ age[u] > age[t] + Lease
      BY Zenon DEF SweepInvariant, ClaimIsExclusive
    <2>2. /\ age[t] \in Nat /\ age[u] \in Nat /\ Lease \in Nat
          /\ age'[t] = (IF newSecond THEN age[t] + 1 ELSE age[t])
          /\ age'[u] = (IF newSecond THEN age[u] + 1 ELSE age[u])
      BY <1>0, <1>1, Numbers
    <2> QED  BY <2>1, <2>2
  <1>5. ASSUME NEW m \in Message  PROVE InOnePlace(m)'
    BY Zenon, <1>1, <1>2, MessageFrame DEF SweepInvariant
  <1>6. ASSUME NEW t \in Sweep  PROVE ItemsInOrder(t)'
    <2>1. ItemsInOrder(t)
      BY Zenon DEF SweepInvariant
    <2>2. \A x \in Message : Due(x) => Due(x)'
      BY <1>2 DEF Due, Countdown
    <2>3. \A x \in DOMAIN page'[t] : x \in sent' \/ Due(x)'
      BY Zenon, <1>0, <1>1, <2>1, <2>2 DEF ItemsInOrder
    <2>4. ASSUME t \in fresh, pc[t] = "send", row[cur[t]].exists
          PROVE  row'[cur[t]].claimed <= age'[t]
      <3>1. /\ cur[t] \in Message /\ row[cur[t]].claimed <= age[t] /\ row[cur[t]].claimed \in Nat
            /\ age[t] \in Nat /\ age[t] < Expired /\ Expired \in Nat
        BY <1>0, <2>1, <2>4, Numbers DEF ItemsInOrder, Row
      <3> QED  BY <1>1, <1>2, <2>4, <3>1
    <2>5. pc[t] = "send" => row'[cur[t]].exists = row[cur[t]].exists
      BY <1>0, <1>2
    <2>6. Queued(cur[t]) => Queued(cur[t])'
      BY Zenon, <1>1 DEF Queued
    <2> QED  BY Zenon, <1>1, <2>1, <2>3, <2>4, <2>5, <2>6 DEF ItemsInOrder
  <1> QED  BY <1>3, <1>4, <1>5, <1>6 DEF SweepInvariant
LEMMA SweepInit == Init => TypeOK /\ SweepInvariant
  <1> SUFFICES ASSUME Init  PROVE TypeOK /\ SweepInvariant
    OBVIOUS
  <1>1. 0 \in AttemptNo
    BY Numbers DEF AttemptNo
  <1>2. \A s \in Sweep : DOMAIN page[s] = {} /\ pc[s] = "idle" /\ s \notin fresh
    BY DEF Init
  <1>3. TypeOK
    BY SweepTypeInit
  <1>4. \A m \in Message : ~row[m].exists /\ queue[m][0] = 1 /\ stale[m] = 0
    BY <1>1, Numbers DEF Init
  <1>5. \A m \in Message : \A n \in AttemptNo : queue[m][n] > 0 => n = 0
    BY DEF Init
  <1>6. \A m \in Message : \A n \in AttemptNo \ {0} : queue[m][n] = 0
    BY DEF Init
  <1>7. LostByLateDelete
    BY <1>1, <1>4 DEF LostByLateDelete, Queued
  <1>8. \A m \in Message : InOnePlace(m)
    BY Zenon, <1>4, <1>5, <1>6 DEF InOnePlace
  <1>9. ClaimIsExclusive /\ \A s \in Sweep : ItemsInOrder(s)
    BY <1>2 DEF ClaimIsExclusive, ItemsInOrder, Init
  <1> QED  BY <1>3, <1>7, <1>8, <1>9 DEF SweepInvariant

LEMMA SweepStep ==
    ASSUME TypeOK, SweepInvariant, [Next]_vars
    PROVE  SweepInvariant'
  <1>1. CASE UNCHANGED vars
    <2>1. UNCHANGED <<row, stale, queue, settled, pc, age, page, cur, sent, fresh, dropped>>
      BY Zenon, <1>1 DEF vars, sweep, history
    <2> QED
      BY Zenon, <2>1 DEF SweepInvariant, LostByLateDelete, ClaimIsExclusive, InOnePlace, ItemsInOrder,
         Due, Queued
  <1> QED
    BY Zenon, <1>1, DeliverStep, QueryStep, ClaimStep, LoseClaimStep, SendStep, DeleteStep, CrashStep,
       CatchUpStep, TickStep DEF Next, runSweeper

(***************************************************************************)
(* The invariant of the sweeper, for any messages, any number of long      *)
(* retries, concurrent sweeps that crash anywhere, leases and delays       *)
(* (scheduler.ts 32-45, sweeper.ts 36-86).                                 *)
(***************************************************************************)
THEOREM SweepInvariantHolds == Spec => [](TypeOK /\ SweepInvariant)
  <1>1. Init => TypeOK /\ SweepInvariant
    BY SweepInit
  <1>2. TypeOK /\ SweepInvariant /\ [Next]_vars => (TypeOK /\ SweepInvariant)'
    BY SweepTypeStep, SweepStep
  <1> QED  BY <1>1, <1>2, PTL DEF Spec

(***************************************************************************)
(* A retry is lost only to a sweep that deletes a row put after its own    *)
(* claim, whatever crashes, however sweeps overlap and however many long   *)
(* retries a message has (sweeper.ts 24-31, 60-81).                        *)
(***************************************************************************)
THEOREM SweeperSafe == Spec => []LostByLateDelete
  <1>1. SweepInvariant => LostByLateDelete
    BY Zenon DEF SweepInvariant
  <1> QED  BY <1>1, SweepInvariantHolds, PTL

(***************************************************************************)
(* Two sweeps that claimed one row, and are both about to send it, started *)
(* more than a lease apart, however many long retries a message has        *)
(* (sweeper.ts 25-31, 49-57).                                              *)
(***************************************************************************)
THEOREM LeaseExclusive == Spec => []ClaimIsExclusive
  <1>1. SweepInvariant => ClaimIsExclusive
    BY Zenon DEF SweepInvariant
  <1> QED  BY <1>1, SweepInvariantHolds, PTL
-----------------------------------------------------------------------------
\* Time keeps a row in the second that holds the time asked for.
LEMMA TickKeepsSecond ==
    ASSUME NEW due \in Nat, NEW left \in Nat, NEW p \in 0..(Second - 1),
           due * Second <= p + left, p + left < due * Second + Second
    PROVE  LET newSecond == p = Second - 1
               q == IF newSecond THEN 0 ELSE p + 1
               d == IF newSecond THEN Countdown(due) ELSE due
           IN  d * Second <= q + Countdown(left) /\ q + Countdown(left) < d * Second + Second
  <1>0. Second \in Nat /\ Second > 0 /\ due * Second \in Nat /\ 0 * Second = 0 /\ p \in Nat
    BY Numbers
  <1>1. due # 0 => (due - 1) * Second = due * Second - Second /\ due * Second >= Second
    BY <1>0
  <1>2. CASE p = Second - 1 /\ due = 0
    BY <1>0, <1>2 DEF Countdown
  <1>3. CASE p = Second - 1 /\ due # 0
    <2>1. Countdown(due) = due - 1
      BY <1>3 DEF Countdown
    <2>2. left > 0 /\ Countdown(left) = left - 1
      BY <1>0, <1>1, <1>3 DEF Countdown
    <2>3. (due - 1) * Second <= left - 1 /\ left - 1 < (due - 1) * Second + Second
      BY <1>0, <1>1, <1>3, <2>2
    <2> QED  BY <1>3, <2>1, <2>2, <2>3
  <1>4. CASE p # Second - 1 /\ left = 0
    <2>1. due = 0
      BY <1>0, <1>1, <1>4
    <2> QED  BY <1>0, <1>4, <2>1 DEF Countdown
  <1>5. CASE p # Second - 1 /\ left # 0
    BY <1>0, <1>5 DEF Countdown
  <1> QED  BY <1>2, <1>3, <1>4, <1>5

\* A row that is not put anew stays in its second.
LEMMA SecondFrame ==
    ASSUME NEW m \in Message, InItsSecond(m), UNCHANGED phase,
           \/ ~row'[m].exists
           \/ /\ row'[m].exists = row[m].exists
              /\ row'[m].due = row[m].due /\ row'[m].left = row[m].left
    PROVE  InItsSecond(m)'
  BY Zenon DEF InItsSecond

\* Giving up a claim, or the row, needs no credit.
LEMMA CoveredFrame ==
    ASSUME TypeOK, NEW m \in Message, ClaimsCovered(m), credit'[m] = credit[m],
           \A s \in Sweep : pc'[s] = "send" /\ cur'[s] = m => pc[s] = "send" /\ cur[s] = m,
           row'[m].exists /\ row'[m].claimed = Unclaimed =>
               row[m].exists /\ row[m].claimed = Unclaimed
    PROVE  ClaimsCovered(m)'
  <1>1. Holders(m)' \in SUBSET Holders(m) /\ IsFiniteSet(Holders(m))
    BY Zenon DEF Holders, ClaimsCovered
  <1>2. /\ IsFiniteSet(Holders(m)') /\ Cardinality(Holders(m)') <= Cardinality(Holders(m))
        /\ Cardinality(Holders(m)') \in Nat /\ Cardinality(Holders(m)) \in Nat
    BY <1>1, FS_Subset, FS_CardinalityType
  <1>3. Unsent(m) \in Nat /\ Unsent(m)' \in Nat /\ Unsent(m)' <= Unsent(m)
    BY DEF Unsent
  <1>4. credit[m] \in Int
    BY DEF TypeOK
  <1> QED  BY <1>2, <1>3, <1>4 DEF ClaimsCovered

LEMMA RowDeliver ==
    ASSUME TypeOK, RowInvariant, NEW x \in Message, NEW n \in AttemptNo, Deliver(x, n)
    PROVE  RowInvariant'
  <1>0. /\ row \in [Message -> Row] /\ credit \in [Message -> Int] /\ phase \in 0..(Second - 1)
        /\ UNCHANGED <<phase, pc, cur>>
    BY DEF TypeOK, Deliver, sweep
  <1> SUFFICES ASSUME NEW m \in Message  PROVE InItsSecond(m)' /\ ClaimsCovered(m)'
    BY Zenon DEF RowInvariant
  <1>1. InItsSecond(m) /\ ClaimsCovered(m)
    BY Zenon DEF RowInvariant
  <1>2. CASE row'[m] = row[m] /\ credit'[m] = credit[m]
    BY Zenon, <1>0, <1>1, <1>2, SecondFrame, CoveredFrame
  <1>3. CASE m = x /\ putRow(m, n + 1) /\ credit' = [credit EXCEPT ![m] = @ + 1]
    <2>1. /\ row'[m].due = SecondsTo(Delay) /\ row'[m].left = Delay
          /\ row'[m].exists /\ row'[m].claimed = Unclaimed
      BY <1>0, <1>3 DEF putRow
    <2>2. phase + Delay \in Nat
      BY <1>0, Numbers
    <2>3. InItsSecond(m)'
      BY <1>0, <2>1, <2>2, WholeSeconds DEF InItsSecond, SecondsTo
    <2>4. Holders(m)' = Holders(m) /\ IsFiniteSet(Holders(m))
      BY Zenon, <1>0, <1>1 DEF Holders, ClaimsCovered
    <2>5. Cardinality(Holders(m)) \in Nat
      BY <2>4, FS_CardinalityType
    <2>6. Unsent(m)' = 1 /\ Unsent(m) >= 0 /\ Unsent(m) \in Int
      BY <2>1 DEF Unsent
    <2>7. credit[m] \in Int /\ credit'[m] = credit[m] + 1
      BY <1>0, <1>3
    <2> QED  BY <1>1, <2>3, <2>4, <2>5, <2>6, <2>7 DEF ClaimsCovered
  <1>4. \/ UNCHANGED <<row, credit>>
        \/ putRow(x, n + 1) /\ credit' = [credit EXCEPT ![x] = @ + 1]
    BY Zenon DEF Deliver
  <1>5. CASE m # x
    BY <1>0, <1>2, <1>4, <1>5 DEF putRow
  <1> QED  BY Zenon, <1>2, <1>3, <1>4, <1>5

\* A claim on a row nobody has claimed uses the credit of its put; one on a row
\* whose claim expired brings its own.
LEMMA RowClaim ==
    ASSUME TypeOK, RowInvariant, NEW s \in Sweep, Claim(s)
    PROVE  RowInvariant'
  <1>0. /\ row \in [Message -> Row] /\ credit \in [Message -> Int] /\ UNCHANGED phase
        /\ DOMAIN page[s] \subseteq Message /\ age[s] \in 0..MaxAge
        /\ pc \in [Sweep -> PC] /\ cur \in [Sweep -> Message \cup {NoMessage}]
        /\ pc[s] = "claim" /\ pc' = [pc EXCEPT ![s] = "send"]
    BY DEF TypeOK, Claim
  <1>1. PICK x \in DOMAIN page[s] :
            /\ Claimable(s, x)
            /\ row' = [row EXCEPT ![x].claimed = age[s]]
            /\ cur' = [cur EXCEPT ![s] = x]
            /\ credit' = IF TakesOver(s, x) THEN [credit EXCEPT ![x] = @ + 1] ELSE credit
    BY Zenon DEF Claim
  <1>2. x \in Message /\ row[x] \in Row /\ row[x].exists
    BY <1>0, <1>1 DEF Claimable
  <1>3. /\ \A m \in Message \ {x} : row'[m] = row[m] /\ credit'[m] = credit[m]
        /\ row'[x].exists = row[x].exists /\ row'[x].due = row[x].due /\ row'[x].left = row[x].left
        /\ row'[x].claimed = age[s]
    BY <1>0, <1>1, <1>2 DEF Row
  <1> SUFFICES ASSUME NEW m \in Message  PROVE InItsSecond(m)' /\ ClaimsCovered(m)'
    BY Zenon DEF RowInvariant
  <1>4. InItsSecond(m) /\ ClaimsCovered(m)
    BY Zenon DEF RowInvariant
  <1>5. InItsSecond(m)'
    BY Zenon, <1>0, <1>3, <1>4, SecondFrame
  <1>6. CASE m # x
    <2>1. \A t \in Sweep : pc'[t] = "send" /\ cur'[t] = m => pc[t] = "send" /\ cur[t] = m
      BY <1>0, <1>1, <1>6
    <2> QED  BY Zenon, <1>3, <1>4, <1>5, <1>6, <2>1, CoveredFrame
  <1>7. CASE m = x
    <2>1. Holders(m)' = Holders(m) \cup {s} /\ s \notin Holders(m)
      BY <1>0, <1>1, <1>7 DEF Holders
    <2>2. /\ IsFiniteSet(Holders(m)') /\ Cardinality(Holders(m)') = Cardinality(Holders(m)) + 1
          /\ Cardinality(Holders(m)) \in Nat
      BY <1>4, <2>1, FS_AddElement, FS_CardinalityType DEF ClaimsCovered
    <2>3. Unsent(m)' = 0
      <3>1. age[s] # Unclaimed
        BY <1>0, Numbers
      <3> QED  BY <1>3, <1>7, <3>1 DEF Unsent
    <2>4. CASE row[m].claimed = Unclaimed
      <3>1. Unsent(m) = 1 /\ credit'[m] = credit[m] /\ credit[m] \in Int
        BY <1>0, <1>1, <1>2, <1>7, <2>4 DEF Unsent, TakesOver
      <3> QED  BY <1>4, <1>5, <2>2, <2>3, <3>1 DEF ClaimsCovered
    <2>5. CASE row[m].claimed # Unclaimed
      <3>1. Unsent(m) = 0 /\ credit'[m] = credit[m] + 1 /\ credit[m] \in Int
        BY <1>0, <1>1, <1>2, <1>7, <2>5 DEF Unsent, TakesOver, Claimable
      <3> QED  BY <1>4, <1>5, <2>2, <2>3, <3>1 DEF ClaimsCovered
    <2> QED  BY <2>4, <2>5
  <1> QED  BY <1>6, <1>7

LEMMA RowSend ==
    ASSUME TypeOK, RowInvariant, NEW s \in Sweep, Send(s)
    PROVE  RowInvariant'
  <1>0. /\ credit \in [Message -> Int] /\ UNCHANGED <<row, phase, cur>>
        /\ pc \in [Sweep -> PC] /\ cur[s] \in Message
        /\ pc[s] = "send" /\ pc' = [pc EXCEPT ![s] = "delete"]
        /\ credit' = [credit EXCEPT ![cur[s]] = @ - 1]
    BY DEF TypeOK, Send
  <1> SUFFICES ASSUME NEW m \in Message  PROVE InItsSecond(m)' /\ ClaimsCovered(m)'
    BY Zenon DEF RowInvariant
  <1>1. InItsSecond(m) /\ ClaimsCovered(m)
    BY Zenon DEF RowInvariant
  <1>2. InItsSecond(m)'
    BY Zenon, <1>0, <1>1, SecondFrame
  <1>3. CASE m # cur[s]
    <2>1. /\ \A t \in Sweep : pc'[t] = "send" /\ cur'[t] = m => pc[t] = "send" /\ cur[t] = m
          /\ credit'[m] = credit[m]
      BY <1>0, <1>3
    <2> QED  BY Zenon, <1>0, <1>1, <1>2, <2>1, CoveredFrame
  <1>4. CASE m = cur[s]
    <2>1. Holders(m)' = Holders(m) \ {s} /\ s \in Holders(m)
      BY <1>0, <1>4 DEF Holders
    <2>2. /\ IsFiniteSet(Holders(m)') /\ Cardinality(Holders(m)') = Cardinality(Holders(m)) - 1
          /\ Cardinality(Holders(m)) \in Nat
      BY <1>1, <2>1, FS_RemoveElement, FS_CardinalityType DEF ClaimsCovered
    <2>3. /\ Unsent(m)' = Unsent(m) /\ Unsent(m) \in Nat
          /\ credit'[m] = credit[m] - 1 /\ credit[m] \in Int
      BY <1>0, <1>4 DEF Unsent
    <2> QED  BY <1>1, <1>2, <2>2, <2>3 DEF ClaimsCovered
  <1> QED  BY <1>3, <1>4

\* The other steps of a sweep take no claim and put no row.
LEMMA RowOther ==
    ASSUME TypeOK, RowInvariant, NEW s \in Sweep,
           Query(s) \/ LoseClaim(s) \/ Delete(s) \/ Crash(s)
    PROVE  RowInvariant'
  <1>0. /\ UNCHANGED <<phase, credit>> /\ row \in [Message -> Row]
        /\ pc \in [Sweep -> PC] /\ cur \in [Sweep -> Message \cup {NoMessage}]
    BY DEF TypeOK, Query, LoseClaim, Delete, Crash, history
  <1>1. \A t \in Sweep : pc'[t] = "send" => pc[t] = "send" /\ cur'[t] = cur[t]
    <2>1. CASE \E x : Without(s, x)
      BY <1>0, <2>1, WithoutShape
    <2>2. CASE Query(s) \/ Crash(s)
      BY <1>0, <2>2 DEF Query, Crash
    <2> QED  BY Zenon, <2>1, <2>2 DEF LoseClaim, Delete
  <1>2. \A m \in Message : row'[m] = row[m] \/ ~row'[m].exists
    BY <1>0, Numbers DEF Query, LoseClaim, Delete, Crash
  <1> SUFFICES ASSUME NEW m \in Message  PROVE InItsSecond(m)' /\ ClaimsCovered(m)'
    BY Zenon DEF RowInvariant
  <1>3. InItsSecond(m) /\ ClaimsCovered(m)
    BY Zenon DEF RowInvariant
  <1> QED  BY Zenon, <1>0, <1>1, <1>2, <1>3, SecondFrame, CoveredFrame

LEMMA RowCatchUp ==
    ASSUME TypeOK, RowInvariant, NEW x \in Message, CatchUp(x)
    PROVE  RowInvariant'
  <1>1. UNCHANGED <<row, phase, pc, cur, credit>>
    BY Zenon DEF CatchUp, sweep, history
  <1> QED  BY Zenon, <1>1, SecondFrame, CoveredFrame DEF RowInvariant

LEMMA RowTick ==
    ASSUME TypeOK, RowInvariant, Tick
    PROVE  RowInvariant'
  <1> DEFINE newSecond == phase = Second - 1
  <1>0. /\ row \in [Message -> Row] /\ phase \in 0..(Second - 1) /\ newSecond \in BOOLEAN
        /\ UNCHANGED <<pc, cur, credit>>
        /\ phase' = IF newSecond THEN 0 ELSE phase + 1
        /\ row' = [m \in Message |-> Later(row[m], newSecond)]
    BY Zenon DEF TypeOK, Tick, history
  <1> SUFFICES ASSUME NEW m \in Message  PROVE InItsSecond(m)' /\ ClaimsCovered(m)'
    BY Zenon DEF RowInvariant
  <1>1. InItsSecond(m) /\ ClaimsCovered(m) /\ row[m] \in Row
    BY <1>0 DEF RowInvariant
  <1>2. /\ row'[m].exists = row[m].exists
        /\ row'[m].left = Countdown(row[m].left)
        /\ row'[m].due = IF newSecond THEN Countdown(row[m].due) ELSE row[m].due
        /\ row'[m].claimed =
              IF newSecond /\ row[m].claimed < Expired THEN row[m].claimed + 1 ELSE row[m].claimed
    BY <1>0, <1>1, LaterShape
  <1>3. row[m].due \in Nat /\ row[m].left \in Nat /\ row[m].claimed \in Nat
    BY <1>1, Numbers DEF Row
  <1>4. InItsSecond(m)'
    BY <1>0, <1>1, <1>2, <1>3, TickKeepsSecond DEF InItsSecond
  <1>5. row'[m].claimed = Unclaimed => row[m].claimed = Unclaimed
    BY <1>2, <1>3, Numbers
  <1> QED  BY Zenon, <1>0, <1>1, <1>2, <1>4, <1>5, CoveredFrame

LEMMA RowInit == Init => RowInvariant
  <1> SUFFICES ASSUME Init, NEW m \in Message  PROVE InItsSecond(m) /\ ClaimsCovered(m)
    BY Zenon DEF RowInvariant
  <1>1. ~row[m].exists /\ credit[m] = 0 /\ \A s \in Sweep : pc[s] # "send"
    BY Numbers DEF Init
  <1>2. Holders(m) = {} /\ Unsent(m) = 0
    BY <1>1 DEF Holders, Unsent
  <1>3. IsFiniteSet(Holders(m)) /\ Cardinality(Holders(m)) = 0
    BY <1>2, FS_EmptySet
  <1> QED  BY <1>1, <1>2, <1>3 DEF InItsSecond, ClaimsCovered

(***************************************************************************)
(* The state is well typed, every row lies in its second and every claim   *)
(* is covered by a credit, for any number of long retries, sweeps and      *)
(* crashes (scheduler.ts 31-45, sweeper.ts 36-86).                         *)
(***************************************************************************)
THEOREM RowInvariantHolds == Spec => [](TypeOK /\ RowInvariant)
  <1>1. Init => TypeOK /\ RowInvariant
    BY SweepTypeInit, RowInit
  <1>2. ASSUME TypeOK, RowInvariant, UNCHANGED vars  PROVE RowInvariant'
    <2>1. UNCHANGED <<row, phase, pc, cur, credit>>
      BY Zenon, <1>2 DEF vars, sweep, history
    <2> QED
      BY Zenon, <1>2, <2>1, SecondFrame, CoveredFrame DEF RowInvariant
  <1>3. TypeOK /\ RowInvariant /\ [Next]_vars => (TypeOK /\ RowInvariant)'
    BY Zenon, <1>2, SweepTypeStep, RowDeliver, RowClaim, RowSend, RowOther, RowCatchUp, RowTick
       DEF Next, runSweeper
  <1> QED  BY <1>1, <1>3, PTL DEF Spec

(***************************************************************************)
(* A row is sent once, and once more for each expired claim that was taken *)
(* over, for any number of long retries and sweeps (sweeper.ts 25-34,      *)
(* 60-73).                                                                 *)
(***************************************************************************)
THEOREM SendsPaidFor == Spec => []SentOncePerClaim
  <1>1. TypeOK /\ RowInvariant => SentOncePerClaim
    <2> SUFFICES ASSUME TypeOK, RowInvariant, NEW m \in Message  PROVE credit[m] >= 0
      BY Zenon DEF SentOncePerClaim
    <2>1. /\ Cardinality(Holders(m)) \in Nat /\ Unsent(m) \in Nat /\ credit[m] \in Int
          /\ Cardinality(Holders(m)) + Unsent(m) <= credit[m]
      BY FS_CardinalityType DEF RowInvariant, ClaimsCovered, Unsent, TypeOK
    <2> QED  BY <2>1
  <1> QED  BY <1>1, RowInvariantHolds, PTL

(***************************************************************************)
(* A row is due in the second that was asked for, less than a second early *)
(* and never late, for any delay and any number of long retries            *)
(* (scheduler.ts 31-33, sweeper.ts 38).                                    *)
(***************************************************************************)
THEOREM RetriesOnTime == Spec => []DueInItsSecond
  <1>1. TypeOK /\ RowInvariant => DueInItsSecond
    <2> SUFFICES ASSUME TypeOK, RowInvariant, NEW m \in Message, row[m].exists
                 PROVE  /\ row[m].due = 0 => row[m].left < Second
                        /\ row[m].left = 0 => row[m].due = 0
      BY Zenon DEF DueInItsSecond
    <2>1. /\ row[m].due \in Nat /\ row[m].left \in Nat /\ phase \in Nat /\ phase < Second
          /\ row[m].due * Second <= phase + row[m].left
          /\ phase + row[m].left < row[m].due * Second + Second
      BY Numbers DEF TypeOK, Row, RowInvariant, InItsSecond
    <2>2. /\ row[m].due = 0 => row[m].due * Second = 0
          /\ row[m].due # 0 => row[m].due * Second >= Second
          /\ row[m].due * Second \in Nat
      BY <2>1, Numbers
    <2> DEFINE whole == row[m].due * Second
               left == row[m].left
    <2>3. /\ whole \in Nat /\ left \in Nat /\ phase \in Nat /\ Second \in Nat /\ phase < Second
          /\ whole <= phase + left /\ phase + left < whole + Second
          /\ row[m].due = 0 => whole = 0
          /\ row[m].due # 0 => whole >= Second
      BY <2>1, <2>2, Numbers
    <2> HIDE DEF whole
    <2> QED  BY <2>3
  <1> QED  BY <1>1, RowInvariantHolds, PTL

-----------------------------------------------------------------------------
\* The retries that are owed to the engine.
Owed == [m \in {x \in Message : row[x].exists /\ x \notin sent} |-> row[m].due]

LEMMA PortStep ==
    ASSUME TypeOK, SweepInvariant, [Next]_vars
    PROVE  [Port!Next]_<<Owed, sent>>
  <1>0. /\ row \in [Message -> Row]
        /\ \A m \in Message : InOnePlace(m)
    BY DEF TypeOK, SweepInvariant
  <1>1. ASSUME UNCHANGED sent,
               \A m \in Message : row'[m].exists = row[m].exists /\ row'[m].due = row[m].due
        PROVE  UNCHANGED <<Owed, sent>>
    BY <1>1 DEF Owed
  <1>2. ASSUME NEW m \in Message, NEW n \in AttemptNo, Deliver(m, n)
        PROVE  [Port!Next]_<<Owed, sent>>
    <2>1. CASE UNCHANGED row
      BY <1>1, <1>2, <2>1 DEF Deliver
    <2>2. CASE m \in sent /\ putRow(m, n + 1)
      <3>1. UNCHANGED sent /\ \A x \in Message \ {m} : row'[x] = row[x]
        BY <1>0, <1>2, <2>2 DEF Deliver, putRow
      <3> QED  BY <2>2, <3>1 DEF Owed
    <2>3. CASE m \notin sent /\ putRow(m, n + 1)
      <3>1. /\ ~row[m].exists /\ m \notin sent /\ UNCHANGED sent
        BY Zenon, <1>0, <1>2, <2>3 DEF Deliver, InOnePlace
      <3>2. SecondsTo(Delay) \in 0..MaxDue
        <4>1. /\ phase \in 0..(Second - 1) /\ 0 \in AttemptNo
          BY Numbers DEF TypeOK, AttemptNo
        <4>2. [exists |-> TRUE, attemptNo |-> 0, due |-> SecondsTo(Delay), left |-> Delay,
               claimed |-> Unclaimed] \in Row
          BY <4>1, PutTyped
        <4> QED  BY <4>2 DEF Row
      <3>3. /\ row'[m].exists /\ row'[m].due = SecondsTo(Delay)
            /\ \A x \in Message \ {m} : row'[x] = row[x]
        BY <1>0, <2>3 DEF putRow
      <3>4. Owed' = [x \in DOMAIN Owed \cup {m} |-> IF x = m THEN SecondsTo(Delay) ELSE Owed[x]]
        BY <3>1, <3>3 DEF Owed
      <3>5. m \notin DOMAIN Owed \cup sent
        BY <3>1 DEF Owed
      <3>6. Port!ScheduleRetry(m)
        BY <3>1, <3>2, <3>4, <3>5 DEF Port!ScheduleRetry, Owed
      <3> QED  BY <3>6 DEF Port!Next, Owed
    <2> QED  BY Zenon, <1>2, <2>1, <2>2, <2>3 DEF Deliver
  <1>3. ASSUME NEW s \in Sweep, Query(s) \/ LoseClaim(s) \/ Crash(s)  PROVE UNCHANGED <<Owed, sent>>
    BY <1>1, <1>3 DEF Query, LoseClaim, Crash, history
  <1>4. ASSUME NEW s \in Sweep, Claim(s)  PROVE UNCHANGED <<Owed, sent>>
    <2>1. PICK m \in DOMAIN page[s] : row' = [row EXCEPT ![m].claimed = age[s]]
      BY Zenon, <1>4 DEF Claim
    <2>2. \A x \in Message : row'[x].exists = row[x].exists /\ row'[x].due = row[x].due
      BY <1>0, <2>1 DEF Row
    <2> QED  BY <1>1, <1>4, <2>2 DEF Claim
  <1>5. ASSUME NEW s \in Sweep, Send(s)  PROVE [Port!Next]_<<Owed, sent>>
    <2>0. cur[s] \in Message
      BY <1>5 DEF Send, TypeOK
    <2>1. PICK m \in Message :
              (m \in sent \/ Due(m)) /\ sent' = sent \cup {m} /\ UNCHANGED row
      BY <1>5, <2>0 DEF Send, TypeOK, SweepInvariant, ItemsInOrder
    <2>2. CASE m \in sent
      BY <1>1, <2>1, <2>2
    <2>3. CASE m \notin sent
      <3>1. m \in DOMAIN Owed /\ Owed[m] = 0
        BY <2>1, <2>3 DEF Owed, Due
      <3>2. Owed' = [x \in DOMAIN Owed \ {m} |-> Owed[x]]
        BY <2>1 DEF Owed
      <3>3. Port!HandOver(m)
        BY <2>1, <3>1, <3>2 DEF Port!HandOver, Owed
      <3>4. Port!Next
        BY Zenon, <2>1, <3>3 DEF Port!Next
      <3> QED  BY <3>4
    <2> QED  BY <2>2, <2>3
  <1>6. ASSUME NEW s \in Sweep, Delete(s)  PROVE UNCHANGED <<Owed, sent>>
    <2>1. cur[s] \in Message /\ cur[s] \in sent /\ UNCHANGED sent
      BY <1>6 DEF Delete, TypeOK, SweepInvariant, ItemsInOrder, history
    <2>2. \A x \in Message \ {cur[s]} : row'[x] = row[x]
      BY <1>0, <1>6 DEF Delete
    <2> QED  BY <2>1, <2>2 DEF Owed
  <1>7. CASE Tick
    <2>1. \A m \in Message :
              /\ row'[m].exists = row[m].exists
              /\ row'[m].due = IF phase = Second - 1 THEN Countdown(row[m].due) ELSE row[m].due
      BY <1>0, <1>7, LaterShape DEF Tick
    <2>2. UNCHANGED sent
      BY <1>7 DEF Tick, history
    <2>3. CASE phase = Second - 1
      <3>1. Owed' = [m \in DOMAIN Owed |-> IF Owed[m] = 0 THEN 0 ELSE Owed[m] - 1]
        BY <2>1, <2>2, <2>3 DEF Owed, Countdown
      <3> QED  BY <2>2, <3>1 DEF Port!Next, Port!Tick, Owed
    <2>4. CASE phase # Second - 1
      BY <1>1, <2>1, <2>2, <2>4
    <2> QED  BY <2>3, <2>4
  <1>8. CASE UNCHANGED vars
    BY Zenon, <1>1, <1>8 DEF vars, history
  <1>9. ASSUME NEW m \in Message, CatchUp(m)  PROVE UNCHANGED <<Owed, sent>>
    BY Zenon, <1>1, <1>9 DEF CatchUp, history
  <1> QED
    BY Zenon, <1>2, <1>3, <1>4, <1>5, <1>6, <1>7, <1>8, <1>9 DEF Next, runSweeper

(***************************************************************************)
(* The AWS schedule implements the Scheduler port for the first long retry *)
(* of each message, with the second as its unit, however many retries      *)
(* follow and whatever sweeps overlap or crash: the row is not dropped     *)
(* before it was sent, and not sent before its second (scheduler.ts 32-45, *)
(* sweeper.ts 36-86).                                                      *)
(***************************************************************************)
THEOREM SweeperImplementsPort == Spec => ImplementsPort
  <1>1. Init => Port!Init
    <2> SUFFICES ASSUME Init  PROVE Port!Init
      OBVIOUS
    <2>1. {x \in Message : row[x].exists /\ x \notin sent} = {}
      BY Numbers DEF Init
    <2> QED  BY <2>1 DEF Init, Port!Init
  <1>2. TypeOK /\ SweepInvariant /\ [Next]_vars => [Port!Next]_<<Owed, sent>>
    BY PortStep
  <1> QED
    BY <1>1, <1>2, SweepInvariantHolds, PTL DEF Spec, ImplementsPort, Port!Spec, Owed
=============================================================================
