----------------------------- MODULE RateLimit -----------------------------
(***************************************************************************)
(* The per-endpoint token bucket (policy/ratelimit.ts) and the gate in     *)
(* processMessage that reads, updates and writes it (engine.ts 158-169).   *)
(*                                                                         *)
(* Fractions of a token are integers: a token is One units, a millisecond  *)
(* (a tick) refills PerTick of them, so rateLimitPerSec is                 *)
(* PerTick * Second / One.  They are exact, where the code computes with   *)
(* doubles: the rounding of a quotient of doubles is not modelled.  The    *)
(* clock, the read and the write of the bucket are three steps, as the     *)
(* awaits of the gate are.                                                 *)
(*                                                                         *)
(* Two workers may overwrite each other's put, and over DynamoDB the read  *)
(* may return an older bucket.  A history variable, the meter, measures    *)
(* what this lets through.                                                 *)
(***************************************************************************)
EXTENDS Integers

CONSTANTS Worker,    \* concurrent calls of processMessage for one endpoint
          One,       \* units of a token
          PerTick,   \* units refilled per tick
          Second,    \* ticks per second
          NoBucket,  \* getRateBucket returns null
          MaxNow,    \* bound: the last tick
          MaxCalls   \* bound: calls of the gate

ASSUME RateAssumption ==
    /\ One \in Nat \ {0} /\ PerTick \in Nat \ {0} /\ Second \in Nat \ {0}
    /\ MaxNow \in Nat /\ MaxCalls \in Nat
    /\ NoBucket \notin [tokens: Nat, lastRefill: Nat]

VARIABLES
    now,       \* the clock
    bucket,    \* the stored bucket, or NoBucket
    replica,   \* what a read that is not consistent may still return
    pc,        \* the next step of each worker
    sampled,   \* the now it read from the clock
    read,      \* the bucket it read
    started,   \* calls so far, up to MaxCalls
    \* history: tokens granted by puts that what was read does not know of
    lag, behind,
    \* history: the meter of the grants and the last moment no call was under way
    meter, mark

stored == <<bucket, replica, lag>>
calls == <<pc, sampled, read, started, behind>>
metering == <<meter, mark>>

vars == <<now, stored, calls, metering>>

-----------------------------------------------------------------------------
capacity == IF PerTick * Second > One THEN PerTick * Second ELSE One

initialBucket(t) == [tokens |-> capacity, lastRefill |-> t]

Least(a, b) == IF a < b THEN a ELSE b

Most(a, b) == IF a < b THEN b ELSE a

\* MUTANT of refilled: the bucket has no capacity.
refilledUncapped(b, t) ==
    b.tokens + PerTick * (IF t > b.lastRefill THEN t - b.lastRefill ELSE 0)

\* The tokens after the refill for the time since the last one.
refilled(b, t) ==
    Least(capacity, b.tokens + PerTick * (IF t > b.lastRefill THEN t - b.lastRefill ELSE 0))

\* MUTANT of retryAfter: the wait is rounded down.
retryAfterFloor(tokens) == (One - tokens) \div PerTick

\* Math.ceil of the time until the missing part of a token is refilled.
retryAfter(tokens) == (One - tokens + PerTick - 1) \div PerTick

consumeToken(b, t) ==
    LET tokens == refilled(b, t)
    IN  IF tokens >= One
        THEN [allowed |-> TRUE, retryAfter |-> 0,
              bucket |-> [tokens |-> tokens - One, lastRefill |-> t]]
        ELSE [allowed |-> FALSE, retryAfter |-> retryAfter(tokens),
              bucket |-> [tokens |-> tokens, lastRefill |-> t]]

-----------------------------------------------------------------------------
Bucket == [tokens: 0..capacity, lastRefill: 0..MaxNow]

TypeOK ==
    /\ now \in 0..MaxNow
    /\ bucket \in Bucket \cup {NoBucket}
    /\ replica \in Bucket \cup {NoBucket}
    /\ pc \in [Worker -> {"clock", "get", "put"}]
    /\ sampled \in [Worker -> 0..MaxNow]
    /\ read \in [Worker -> Bucket \cup {NoBucket}]
    /\ started \in 0..MaxCalls
    /\ lag \in Nat
    /\ behind \in [Worker -> Nat]
    /\ meter \in Int
    /\ mark \in 0..MaxNow

Init ==
    /\ now = 0
    /\ bucket = NoBucket
    /\ replica = NoBucket
    /\ pc = [w \in Worker |-> "clock"]
    /\ sampled = [w \in Worker |-> 0]
    /\ read = [w \in Worker |-> NoBucket]
    /\ started = 0
    /\ lag = 0
    /\ behind = [w \in Worker |-> 0]
    /\ meter = 0
    /\ mark = 0

\* The meter counts the units granted, less what is forgiven, on top of what
\* the rate had allowed by the last moment at which no call was under way.
Meter(units) ==
    IF \A w \in Worker : pc'[w] = "clock"
    THEN /\ mark' = now'
         /\ meter' = Most(meter + units, PerTick * now')
    ELSE meter' = meter + units /\ UNCHANGED mark

Clock(w) ==
    /\ pc[w] = "clock"
    /\ started < MaxCalls
    /\ started' = started + 1
    /\ sampled' = [sampled EXCEPT ![w] = now]
    /\ pc' = [pc EXCEPT ![w] = "get"]
    /\ UNCHANGED <<now, stored, read, behind, metering>>

\* The read finds the last bucket, or on DynamoDB an older one.
getRateBucket(w) ==
    /\ pc[w] = "get"
    /\ \/ /\ read' = [read EXCEPT ![w] = bucket]
          /\ behind' = [behind EXCEPT ![w] = 0]
       \/ /\ read' = [read EXCEPT ![w] = replica]
          /\ behind' = [behind EXCEPT ![w] = lag]
    /\ pc' = [pc EXCEPT ![w] = "put"]
    /\ UNCHANGED <<now, stored, sampled, started, metering>>

\* How far the put moves the refill time back: a call that read the clock
\* before, and the bucket after, another one's put.
Rewound(w) ==
    IF read[w] # NoBucket /\ read[w].lastRefill > sampled[w]
    THEN read[w].lastRefill - sampled[w] ELSE 0

\* The decision on the bucket that was read, and the unconditional put of it.
\* A throttled message comes back as another call.
putRateBucket(w) ==
    /\ pc[w] = "put"
    /\ UNCHANGED <<now, replica, started>>
    /\ LET b == IF read[w] = NoBucket THEN initialBucket(sampled[w]) ELSE read[w]
           decision == consumeToken(b, sampled[w])
           granted == IF decision.allowed THEN One ELSE 0
       IN  /\ bucket' = decision.bucket
           /\ lag' = lag + granted
           /\ behind' = [v \in Worker |->
                  IF v = w \/ pc[v] # "put" THEN 0 ELSE behind[v] + granted]
           /\ pc' = [pc EXCEPT ![w] = "clock"]
           /\ Meter(granted - behind[w] - PerTick * Rewound(w))
    /\ sampled' = [sampled EXCEPT ![w] = 0]
    /\ read' = [read EXCEPT ![w] = NoBucket]

\* The replica catches up.
Replicate ==
    /\ replica' = bucket
    /\ lag' = 0
    /\ UNCHANGED <<now, bucket, calls, metering>>

Tick ==
    /\ now < MaxNow
    /\ now' = now + 1
    /\ UNCHANGED <<stored, calls>>
    /\ Meter(0)

Next ==
    \/ \E w \in Worker : Clock(w) \/ getRateBucket(w) \/ putRateBucket(w)
    \/ Replicate
    \/ Tick

Spec == Init /\ [][Next]_vars

-----------------------------------------------------------------------------
(***************************************************************************)
(* Properties.                                                             *)
(***************************************************************************)
\* From any moment at which no call is under way, the gate grants no more than
\* a full burst and the rate times the time that has passed, and on top of that
\* only what was granted behind the back of a call that then overwrote it, and
\* the time a call moved the refill time back by (engine.ts 158-162,
\* ratelimit.ts 28-34, state-dynamo.ts 298-314).
GrantsWithinRate == meter <= capacity + PerTick * now

\* A throttled message that comes back when it was told to finds a token, and
\* would not have found one a tick earlier (ratelimit.ts 36, engine.ts 164).
RetryAfterSuffices ==
    bucket # NoBucket =>
        LET decision == consumeToken(bucket, now)
            back == now + decision.retryAfter
        IN  ~decision.allowed =>
                /\ consumeToken(decision.bucket, back).allowed
                /\ ~consumeToken(decision.bucket, back - 1).allowed

(***************************************************************************)
(* What makes GrantsWithinRate inductive: the bucket b, which knows of all *)
(* but d of the units granted, holds no more tokens than the meter leaves, *)
(* or the meter has not moved since the mark.                              *)
(***************************************************************************)
Covers(b, d) ==
    \/ b # NoBucket /\ meter - d + b.tokens <= capacity + PerTick * b.lastRefill
    \/ meter - d <= PerTick * mark

RateInvariant ==
    /\ Covers(bucket, 0) /\ Covers(replica, lag)
    /\ \A b \in {bucket, replica} : b # NoBucket => b.lastRefill <= now
    /\ mark <= now
    /\ \A w \in Worker : pc[w] # "clock" => mark <= sampled[w] /\ sampled[w] <= now
    /\ \A w \in Worker : pc[w] = "put" => Covers(read[w], behind[w])
=============================================================================
