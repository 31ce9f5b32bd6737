------------------------------ MODULE Sweeper ------------------------------
(***************************************************************************)
(* The retry schedule of the AWS adapters: DynamoScheduler.scheduleRetry   *)
(* (scheduler.ts) and concurrent runs of runSweeper (sweeper.ts) over the  *)
(* SCHED# rows, one row per message.                                       *)
(*                                                                         *)
(* Time is relative: a row counts down to its due_at and counts up from    *)
(* its claimed_at, a sweep counts up from the now it sampled at its start. *)
(* These times are in whole seconds, as in the code; a tick is a part of a *)
(* second, and phase counts the ticks of the current one.                  *)
(*                                                                         *)
(* Every DynamoDB and SQS call of a sweep is one step.  The rows a sweep   *)
(* works through are the ones its query returned, however old by then; the *)
(* index it queries may also show rows that are deleted or replaced, and   *)
(* old claims, until it catches up.                                        *)
(*                                                                         *)
(* A row's ttl is left out: DynamoDB may remove a row that was not sent a  *)
(* week after it was due, and here a sweep comes before that.              *)
(***************************************************************************)
EXTENDS Integers, FiniteSets

CONSTANTS Message,      \* message ids
          Sweep,        \* concurrent runs of runSweeper
          NoMessage,    \* the current item of a sweep between items
          Lease,        \* SWEEPER_LEASE_SECONDS
          Second,       \* ticks of a second
          Delay,        \* wait of a retry beyond the SQS delay cap, in ticks
          LongRetries,  \* how many retries of a message may exceed the cap
          MaxAge,       \* bound: a sweep ends within this many seconds
          MaxCrashes    \* bound: sweeps that crash or throw

ASSUME SweeperAssumption ==
    /\ NoMessage \notin Message
    /\ Second \in Nat \ {0}
    /\ Lease \in Nat /\ Delay \in Nat /\ MaxAge \in Nat
    /\ LongRetries \in Nat /\ MaxCrashes \in Nat

VARIABLES
    row,      \* the SCHED# row of each message, or NoRow
    stale,    \* attemptNo of a deleted or replaced row the index may still show, or 0
    queue,    \* copies of a message and attemptNo in SQS
    settled,  \* messages delivered or dead-lettered
    pc,       \* the next call of each sweep
    phase,    \* ticks of the current second
    age,      \* seconds since the sweep sampled now
    page,     \* the items of its query still to do: message to attemptNo
    cur,      \* the message of the item in hand
    crashes,  \* used against MaxCrashes
    credit,   \* history: rows put and expired claims taken over, less the sends
    sent,     \* history: messages of which a row was sent to SQS
    fresh,    \* history: sweeps with a claim, and no new row of its message since
    dropped   \* history: messages of which a sweep deleted a row put after its claim

sweep == <<pc, age, page, cur>>
history == <<credit, sent, fresh, dropped>>
vars == <<row, stale, queue, settled, phase, sweep, crashes, history>>

\* Attempts are counted from the one that asks for the first long wait.
AttemptNo == 0..LongRetries

\* Whole seconds between now and a time some ticks ahead.
SecondsTo(ticks) == (phase + ticks) \div Second

MaxDue == (Second + Delay) \div Second

Expired == Lease + MaxAge + 1   \* a claim older than the lease of every running sweep

Unclaimed == Expired + 1        \* no claimed_at

\* left is the number of ticks to the time scheduleRetry was given, for the
\* properties only.
NoRow == [exists |-> FALSE, attemptNo |-> 0, due |-> 0, left |-> 0, claimed |-> Unclaimed]

Row == [exists: BOOLEAN, attemptNo: AttemptNo, due: 0..MaxDue, left: 0..Delay,
        claimed: 0..Unclaimed]

PC == {"idle", "claim", "send", "delete"}

TypeOK ==
    /\ row \in [Message -> Row]
    /\ stale \in [Message -> AttemptNo]
    /\ queue \in [Message -> [AttemptNo -> Nat]]
    /\ settled \subseteq Message
    /\ pc \in [Sweep -> PC]
    /\ phase \in 0..(Second - 1)
    /\ age \in [Sweep -> 0..MaxAge]
    /\ DOMAIN page = Sweep
    /\ \A s \in Sweep : DOMAIN page[s] \subseteq Message
    /\ \A s \in Sweep, m \in Message : m \in DOMAIN page[s] => page[s][m] \in AttemptNo
    /\ \A s \in Sweep : pc[s] \in {"send", "delete"} => cur[s] \in DOMAIN page[s]
    /\ cur \in [Sweep -> Message \cup {NoMessage}]
    /\ crashes \in 0..MaxCrashes
    /\ credit \in [Message -> Int]
    /\ sent \subseteq Message
    /\ fresh \subseteq Sweep
    /\ dropped \subseteq Message

\* Every message is queued for its first attempt.
Init ==
    /\ row = [m \in Message |-> NoRow]
    /\ stale = [m \in Message |-> 0]
    /\ queue = [m \in Message |-> [n \in AttemptNo |-> IF n = 0 THEN 1 ELSE 0]]
    /\ settled = {}
    /\ phase = 0
    /\ pc = [s \in Sweep |-> "idle"]
    /\ age = [s \in Sweep |-> 0]
    /\ page = [s \in Sweep |-> << >>]
    /\ cur = [s \in Sweep |-> NoMessage]
    /\ crashes = 0
    /\ credit = [m \in Message |-> 0]
    /\ sent = {}
    /\ fresh = {}
    /\ dropped = {}

-----------------------------------------------------------------------------
Due(m) == row[m].exists /\ row[m].due = 0

\* A due row that is deleted or replaced stays in the index for a while.
LeftInIndex(m) ==
    stale' = [stale EXCEPT ![m] = IF Due(m) THEN row[m].attemptNo ELSE @]

(***************************************************************************)
(* The delivery worker, as far as the schedule is concerned.               *)
(***************************************************************************)
\* MUTANT of putRow: due_at is now in seconds plus the delay in seconds.
putRowEarly(m, n) ==
    row' = [row EXCEPT ![m] =
        [exists |-> TRUE, attemptNo |-> n, due |-> Delay \div Second, left |-> Delay,
         claimed |-> Unclaimed]]

\* A retry beyond the cap is a put of the row, whatever row was there before.
\* Its due_at is the whole second that holds the time asked for.
putRow(m, n) ==
    row' = [row EXCEPT ![m] =
        [exists |-> TRUE, attemptNo |-> n, due |-> SecondsTo(Delay), left |-> Delay,
         claimed |-> Unclaimed]]

\* A worker consumes a copy: the message is settled, or its retry goes through
\* scheduleRetry, to SQS when it is due within the cap and to the row otherwise.
Deliver(m, n) ==
    /\ queue[m][n] > 0
    /\ \/ /\ queue' = [queue EXCEPT ![m][n] = @ - 1]
          /\ settled' = settled \cup {m}
          /\ UNCHANGED <<row, stale, credit, fresh>>
       \/ /\ n < LongRetries
          /\ queue' = [queue EXCEPT ![m][n] = @ - 1, ![m][n + 1] = @ + 1]
          /\ UNCHANGED <<row, stale, settled, credit, fresh>>
       \/ /\ n < LongRetries
          /\ queue' = [queue EXCEPT ![m][n] = @ - 1]
          /\ putRow(m, n + 1)
          /\ LeftInIndex(m)
          /\ credit' = [credit EXCEPT ![m] = @ + 1]
          /\ fresh' = {s \in fresh : cur[s] # m}
          /\ UNCHANGED settled
    /\ UNCHANGED <<phase, sweep, crashes, sent, dropped>>

-----------------------------------------------------------------------------
(***************************************************************************)
(* runSweeper.                                                             *)
(***************************************************************************)
\* The message of m's row as the index may show it among the due ones.
Indexed(m) == {n \in AttemptNo : (Due(m) /\ n = row[m].attemptNo) \/ (n # 0 /\ n = stale[m])}

\* Sample now and query the due rows, dropping those under a valid lease.  The
\* index is eventually consistent: it may not show a claim or a delete yet.  A
\* sweep that finds none changes nothing.
Query(s) ==
    /\ pc[s] = "idle"
    /\ \E found \in SUBSET {m \in Message : Indexed(m) # {}} :
          /\ {m \in Message : Due(m) /\ row[m].claimed > Lease} \subseteq found
          /\ found # {}
          /\ \E items \in [found -> AttemptNo] :
                /\ \A m \in found : items[m] \in Indexed(m)
                /\ page' = [page EXCEPT ![s] = items]
    /\ age' = [age EXCEPT ![s] = 0]
    /\ pc' = [pc EXCEPT ![s] = "claim"]
    /\ UNCHANGED <<row, stale, queue, settled, phase, cur, crashes, history>>

\* The rest of the page after the item of message m; the sweep ends with it.
Without(s, m) ==
    LET rest == [x \in DOMAIN page[s] \ {m} |-> page[s][x]]
    IN  /\ page' = [page EXCEPT ![s] = rest]
        /\ cur' = [cur EXCEPT ![s] = NoMessage]
        /\ \/ /\ DOMAIN rest # {}
              /\ pc' = [pc EXCEPT ![s] = "claim"]
              /\ UNCHANGED age
           \/ /\ DOMAIN rest = {}
              /\ pc' = [pc EXCEPT ![s] = "idle"]
              /\ age' = [age EXCEPT ![s] = 0]

\* MUTANT of Claimable: the claim is a permanent flag, not a lease.
ClaimableOnce(s, m) == row[m].exists /\ row[m].claimed = Unclaimed

\* MUTANT of Claimable: the claim does not look at the lease at all.
ClaimableAlways(s, m) == row[m].exists

\* MUTANT of Claimable: the claim does not look whether the row is still there.
ClaimableGone(s, m) == row[m].claimed > age[s] + Lease

\* The condition of the claim, with both times relative to the sweep's now.
Claimable(s, m) == row[m].exists /\ row[m].claimed > age[s] + Lease

\* Another claim on the row has expired, and this one takes it over.
TakesOver(s, m) == row[m].claimed # Unclaimed /\ row[m].claimed > age[s] + Lease

\* MUTANT of Claim: the row is claimed by deleting it.
ClaimByDelete(s) ==
    /\ pc[s] = "claim"
    /\ \E m \in DOMAIN page[s] :
          /\ Claimable(s, m)
          /\ row' = [row EXCEPT ![m] = NoRow]
          /\ cur' = [cur EXCEPT ![s] = m]
    /\ pc' = [pc EXCEPT ![s] = "send"]
    /\ UNCHANGED <<stale, queue, settled, phase, age, page, crashes, history>>

\* The conditional update that stamps claimed_at with the sweep's now.
Claim(s) ==
    /\ pc[s] = "claim"
    /\ \E m \in DOMAIN page[s] :
          /\ Claimable(s, m)
          /\ row' = [row EXCEPT ![m].claimed = age[s]]
          /\ cur' = [cur EXCEPT ![s] = m]
          /\ credit' = IF TakesOver(s, m) THEN [credit EXCEPT ![m] = @ + 1] ELSE credit
    /\ pc' = [pc EXCEPT ![s] = "send"]
    /\ fresh' = fresh \cup {s}
    /\ UNCHANGED <<stale, queue, settled, phase, age, page, crashes, sent, dropped>>

\* The condition failed: the item is skipped.
LoseClaim(s) ==
    /\ pc[s] = "claim"
    /\ \E m \in DOMAIN page[s] : ~Claimable(s, m) /\ Without(s, m)
    /\ UNCHANGED <<row, stale, queue, settled, phase, crashes, history>>

\* The copy the query returned goes to SQS.
Send(s) ==
    /\ pc[s] = "send"
    /\ queue' = [queue EXCEPT ![cur[s]][page[s][cur[s]]] = @ + 1]
    /\ pc' = [pc EXCEPT ![s] = "delete"]
    /\ credit' = [credit EXCEPT ![cur[s]] = @ - 1]
    /\ sent' = sent \cup {cur[s]}
    /\ UNCHANGED <<row, stale, settled, phase, age, page, cur, crashes, fresh, dropped>>

\* The row of the message is deleted, whichever row it is by now.
Delete(s) ==
    /\ pc[s] = "delete"
    /\ row' = [row EXCEPT ![cur[s]] = NoRow]
    /\ LeftInIndex(cur[s])
    /\ Without(s, cur[s])
    /\ fresh' = fresh \ {s}
    /\ dropped' = IF s \notin fresh /\ row[cur[s]].exists THEN dropped \cup {cur[s]} ELSE dropped
    /\ UNCHANGED <<queue, settled, phase, crashes, credit, sent>>

\* A call throws or the Lambda ends: the rest of the page is abandoned.
Crash(s) ==
    /\ pc[s] # "idle"
    /\ crashes < MaxCrashes
    /\ crashes' = crashes + 1
    /\ pc' = [pc EXCEPT ![s] = "idle"]
    /\ age' = [age EXCEPT ![s] = 0]
    /\ page' = [page EXCEPT ![s] = << >>]
    /\ cur' = [cur EXCEPT ![s] = NoMessage]
    /\ fresh' = fresh \ {s}
    /\ UNCHANGED <<row, stale, queue, settled, phase, credit, sent, dropped>>

\* The index catches up with the deletes and puts of m's row.
CatchUp(m) ==
    /\ stale[m] # 0
    /\ stale' = [stale EXCEPT ![m] = 0]
    /\ UNCHANGED <<row, queue, settled, phase, sweep, crashes, history>>

Countdown(n) == IF n = 0 THEN 0 ELSE n - 1

\* A row one tick later; whole seconds count when a new one begins.
Later(r, newSecond) ==
    [exists |-> r.exists,
     attemptNo |-> r.attemptNo,
     due |-> IF newSecond THEN Countdown(r.due) ELSE r.due,
     left |-> Countdown(r.left),
     claimed |-> IF newSecond /\ r.claimed < Expired THEN r.claimed + 1 ELSE r.claimed]

Tick ==
    LET newSecond == phase = Second - 1
    IN  /\ newSecond => \A s \in Sweep : pc[s] # "idle" => age[s] < MaxAge
        /\ phase' = IF newSecond THEN 0 ELSE phase + 1
        /\ row' = [m \in Message |-> Later(row[m], newSecond)]
        /\ age' = [s \in Sweep |-> IF newSecond /\ pc[s] # "idle" THEN age[s] + 1 ELSE age[s]]
        /\ UNCHANGED <<stale, queue, settled, pc, page, cur, crashes, history>>

runSweeper(s) == Query(s) \/ Claim(s) \/ LoseClaim(s) \/ Send(s) \/ Delete(s)

Next ==
    \/ \E m \in Message, n \in AttemptNo : Deliver(m, n)
    \/ \E s \in Sweep : runSweeper(s) \/ Crash(s)
    \/ \E m \in Message : CatchUp(m)
    \/ Tick

Spec == Init /\ [][Next]_vars

\* Queued copies are consumed, the sweeper is started over and over and runs
\* on, the index catches up and time passes.  Nothing makes a crash happen.
Fairness ==
    /\ \A m \in Message, n \in AttemptNo : WF_vars(Deliver(m, n))
    /\ \A s \in Sweep : WF_vars(runSweeper(s))
    /\ \A m \in Message : WF_vars(CatchUp(m))
    /\ WF_vars(Tick)

FairSpec == Spec /\ Fairness

-----------------------------------------------------------------------------
(***************************************************************************)
(* Properties.                                                             *)
(***************************************************************************)
Queued(m) == \E n \in AttemptNo : queue[m][n] > 0

\* A message that is not settled is in SQS or has a row: whatever crashes and
\* however sweeps overlap, its retry is not lost (sweeper.ts 24-31).
RetryNeverLost ==
    \A m \in Message : m \in settled \/ row[m].exists \/ Queued(m)

\* There is one way to lose a retry, however many long retries a message has:
\* a sweep deletes a row that was put after its claim, since the delete does
\* not look which row it is.  Crashes, expired leases, rows the index shows too
\* long and copies sent twice lose nothing (sweeper.ts 24-31, 60-81).
LostByLateDelete ==
    \A m \in Message : m \in dropped \/ m \in settled \/ row[m].exists \/ Queued(m)

\* Two sweeps that claimed the same row, with no put of the row in between or
\* since, are both about to send it only when one started more than a lease
\* after the other (sweeper.ts 25-31).
ClaimIsExclusive ==
    \A s, t \in fresh :
        s # t /\ pc[s] = "send" /\ pc[t] = "send" /\ cur[s] = cur[t]
            => age[s] > age[t] + Lease \/ age[t] > age[s] + Lease

\* A row is sent once, and once more only for each claim that expired and was
\* taken over, although the index may show rows that were sent and deleted
\* long ago (sweeper.ts 25-26, 33-34, 60-73).
SentOncePerClaim == \A m \in Message : credit[m] >= 0

\* A row is due in the second that holds the time asked for: less than a second
\* early, and never late (scheduler.ts 31, sweeper.ts 38).
DueInItsSecond ==
    \A m \in Message : row[m].exists =>
        /\ row[m].due = 0 => row[m].left < Second
        /\ row[m].left = 0 => row[m].due = 0

\* Every retry is sent in the end, but for those lost to a late delete: a claim
\* left behind by a crashed sweep only delays it (sweeper.ts 27-30).
EveryRetrySent ==
    <>(settled \cup dropped = Message /\ \A m \in Message : ~row[m].exists)

Port == INSTANCE RetryPort WITH
    Retry <- Message,
    MaxDelay <- MaxDue,
    owed <- [m \in {x \in Message : row[x].exists /\ x \notin sent} |-> row[m].due],
    handed <- sent

\* The adapter implements the Scheduler port for the first long retry of each
\* message, with the second as its unit, however many follow: the row is sent
\* before it is deleted, and not before it is due (scheduler.ts 31-45,
\* sweeper.ts 37-87).  For a later one neither is certain: a delete that was due
\* to the row before may take it, and so may a claim on an item the index still
\* shows of that row.
ImplementsPort == Port!Spec

(***************************************************************************)
(* What makes these inductive, for any number of long retries.  A message  *)
(* of which no row was sent is in one place only, and sweeps have it on    *)
(* their pages only while its row is due.  A sweep whose row was not       *)
(* replaced has a claim on it no older than itself; once it has sent the   *)
(* copy, that copy is queued or has settled the message.                   *)
(***************************************************************************)
InOnePlace(m) ==
    m \notin sent =>
        /\ stale[m] = 0
        /\ \A n \in AttemptNo : queue[m][n] > 0 =>
              ~row[m].exists /\ queue[m][n] = 1 /\ \A k \in AttemptNo \ {n} : queue[m][k] = 0

ItemsInOrder(s) ==
    /\ \A m \in DOMAIN page[s] : m \in sent \/ Due(m)
    /\ pc[s] = "delete" => cur[s] \in sent
    /\ s \in fresh =>
          /\ pc[s] \in {"send", "delete"}
          /\ pc[s] = "send" /\ row[cur[s]].exists => row[cur[s]].claimed <= age[s]
          /\ pc[s] = "delete" => cur[s] \in settled \/ Queued(cur[s])

SweepInvariant ==
    /\ LostByLateDelete
    /\ ClaimIsExclusive
    /\ \A m \in Message : InOnePlace(m)
    /\ \A s \in Sweep : ItemsInOrder(s)

(***************************************************************************)
(* What makes the other two inductive, for any number of long retries: the *)
(* time asked for lies in the second the row is due, and the claims whose  *)
(* copy is still to be sent, with the row while nobody has claimed it, are *)
(* covered by the credit.                                                  *)
(***************************************************************************)
InItsSecond(m) ==
    row[m].exists =>
        /\ row[m].due * Second <= phase + row[m].left
        /\ phase + row[m].left < row[m].due * Second + Second

Holders(m) == {s \in Sweep : pc[s] = "send" /\ cur[s] = m}

Unsent(m) == IF row[m].exists /\ row[m].claimed = Unclaimed THEN 1 ELSE 0

ClaimsCovered(m) ==
    IsFiniteSet(Holders(m)) /\ Cardinality(Holders(m)) + Unsent(m) <= credit[m]

RowInvariant == \A m \in Message : InItsSecond(m) /\ ClaimsCovered(m)
=============================================================================
