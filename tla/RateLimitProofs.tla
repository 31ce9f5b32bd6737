-------------------------- MODULE RateLimitProofs --------------------------
(***************************************************************************)
(* Proof that the rate gate grants no more than the rate allows, but for   *)
(* what its unconditional puts and stale reads let through, for every rate *)
(* and any number of workers.                                              *)
(***************************************************************************)
EXTENDS RateLimit, TLAPS

LEMMA Constants ==
    /\ One \in Nat /\ One > 0 /\ PerTick \in Nat /\ PerTick > 0 /\ MaxNow \in Nat
    /\ capacity \in Nat /\ One <= capacity /\ NoBucket \notin Bucket
  <1>1. PerTick * Second \in Nat
    BY RateAssumption
  <1>2. capacity \in Nat /\ One <= capacity
    BY <1>1, RateAssumption DEF capacity
  <1>3. Bucket \subseteq [tokens: Nat, lastRefill: Nat]
    BY <1>2, RateAssumption DEF Bucket
  <1> QED  BY <1>2, <1>3, RateAssumption

\* What the rate allows grows with time.
LEMMA Products ==
    ASSUME NEW s \in Int, NEW t \in Int
    PROVE  /\ PerTick * s \in Int
           /\ PerTick * (t - s) = PerTick * t - PerTick * s
           /\ s <= t => PerTick * s <= PerTick * t
  BY Constants

\* The tokens a put grants and keeps are the refilled ones, and those are no
\* more than a burst and no more than the time since the last refill gives.
LEMMA Consumed ==
    ASSUME NEW b \in Bucket, NEW t \in 0..MaxNow
    PROVE  LET decision == consumeToken(b, t)
               granted == IF decision.allowed THEN One ELSE 0
               back == IF b.lastRefill > t THEN b.lastRefill - t ELSE 0
           IN  /\ decision.bucket \in Bucket
               /\ decision.bucket.lastRefill = t
               /\ decision.bucket.tokens + granted <= capacity
               /\ decision.bucket.tokens + granted + PerTick * b.lastRefill
                     <= b.tokens + PerTick * t + PerTick * back
  <1> DEFINE elapsed == IF t > b.lastRefill THEN t - b.lastRefill ELSE 0
             back == IF b.lastRefill > t THEN b.lastRefill - t ELSE 0
             tokens == refilled(b, t)
  <1>1. b.tokens \in 0..capacity /\ b.lastRefill \in 0..MaxNow
    BY DEF Bucket
  <1>2. /\ t \in Int /\ b.lastRefill \in Int /\ elapsed \in Nat /\ back \in Nat
        /\ t - b.lastRefill = elapsed - back
    BY <1>1, Constants
  <1>3. PerTick * elapsed \in Nat
    BY <1>2, Constants
  <1>4. PerTick * elapsed + PerTick * b.lastRefill = PerTick * t + PerTick * back
    <2>1. elapsed + b.lastRefill = t + back
      BY <1>2
    <2>2. PerTick * (elapsed + b.lastRefill) = PerTick * (t + back)
      BY <2>1
    <2> HIDE DEF elapsed, back
    <2> QED  BY <1>2, <2>2, Constants
  <1>5. /\ tokens \in 0..capacity
        /\ tokens <= b.tokens + PerTick * elapsed
    BY <1>1, <1>3, Constants DEF refilled, Least
  <1>6. tokens + PerTick * b.lastRefill <= b.tokens + PerTick * t + PerTick * back
    <2> HIDE DEF tokens, elapsed, back
    <2>1. PerTick * b.lastRefill \in Int /\ PerTick * t \in Int /\ PerTick * back \in Int
      BY <1>2, Constants
    <2> QED  BY <1>1, <1>3, <1>4, <1>5, <2>1, Constants
  <1>7. CASE tokens >= One
    <2>1. consumeToken(b, t) = [allowed |-> TRUE, retryAfter |-> 0,
                                bucket |-> [tokens |-> tokens - One, lastRefill |-> t]]
      BY <1>7 DEF consumeToken
    <2> HIDE DEF tokens
    <2>2. tokens - One \in 0..capacity
      BY <1>5, <1>7, Constants
    <2> QED  BY <1>5, <1>6, <2>1, <2>2, Constants DEF Bucket
  <1>8. CASE ~(tokens >= One)
    <2>1. consumeToken(b, t) = [allowed |-> FALSE, retryAfter |-> retryAfter(tokens),
                                bucket |-> [tokens |-> tokens, lastRefill |-> t]]
      BY <1>8 DEF consumeToken
    <2> HIDE DEF tokens
    <2> QED  BY <1>5, <1>6, <2>1, Constants DEF Bucket
  <1> QED  BY <1>7, <1>8

(***************************************************************************)
(* Types.                                                                  *)
(***************************************************************************)
\* The bucket a call decides on: what it read, or a fresh one.
Basis(w) == IF read[w] = NoBucket THEN initialBucket(sampled[w]) ELSE read[w]

Granted(w) == IF consumeToken(Basis(w), sampled[w]).allowed THEN One ELSE 0

Units(w) == Granted(w) - behind[w] - PerTick * Rewound(w)

LEMMA BasisTyped ==
    ASSUME TypeOK, NEW w \in Worker
    PROVE  /\ Basis(w) \in Bucket
           /\ read[w] # NoBucket => Basis(w) = read[w]
           /\ Rewound(w) \in Nat
           /\ Rewound(w) = IF Basis(w).lastRefill > sampled[w]
                           THEN Basis(w).lastRefill - sampled[w] ELSE 0
           /\ Granted(w) \in Nat
           /\ PerTick * Rewound(w) \in Nat
           /\ Units(w) \in Int
  <1>1. sampled[w] \in 0..MaxNow /\ read[w] \in Bucket \cup {NoBucket} /\ behind[w] \in Nat
    BY DEF TypeOK
  <1>2. initialBucket(sampled[w]) \in Bucket /\ initialBucket(sampled[w]).lastRefill = sampled[w]
    BY <1>1, Constants DEF initialBucket, Bucket
  <1>3. Basis(w) \in Bucket
    BY <1>1, <1>2 DEF Basis
  <1>4. Basis(w).lastRefill \in 0..MaxNow
    BY <1>3 DEF Bucket
  <1>5. Rewound(w) = IF Basis(w).lastRefill > sampled[w]
                     THEN Basis(w).lastRefill - sampled[w] ELSE 0
    BY <1>1, <1>2, Constants DEF Rewound, Basis
  <1>6. Rewound(w) \in Nat
    BY <1>1, <1>4, <1>5, Constants
  <1>7. PerTick * Rewound(w) \in Nat
    BY <1>6, Constants
  <1>8. Granted(w) \in Nat
    BY Constants DEF Granted
  <1>9. Units(w) \in Int
    BY <1>1, <1>7, <1>8 DEF Units
  <1> QED  BY <1>3, <1>5, <1>6, <1>7, <1>8, <1>9 DEF Basis

\* A put, in terms of the above.
LEMMA PutShape ==
    ASSUME NEW w \in Worker, putRateBucket(w)
    PROVE  /\ pc[w] = "put"
           /\ UNCHANGED <<now, replica, started>>
           /\ bucket' = consumeToken(Basis(w), sampled[w]).bucket
           /\ lag' = lag + Granted(w)
           /\ behind' = [v \in Worker |->
                 IF v = w \/ pc[v] # "put" THEN 0 ELSE behind[v] + Granted(w)]
           /\ pc' = [pc EXCEPT ![w] = "clock"]
           /\ Meter(Units(w))
           /\ sampled' = [sampled EXCEPT ![w] = 0]
           /\ read' = [read EXCEPT ![w] = NoBucket]
  BY Zenon DEF putRateBucket, Basis, Granted, Units

LEMMA MeterTyped ==
    ASSUME TypeOK, now' \in 0..MaxNow, NEW u \in Int, Meter(u)
    PROVE  meter' \in Int /\ mark' \in 0..MaxNow
  <1>1. PerTick * now' \in Int
    BY Products, Constants
  <1>2. meter \in Int /\ mark \in 0..MaxNow
    BY DEF TypeOK
  <1>3. Most(meter + u, PerTick * now') \in Int
    BY <1>1, <1>2 DEF Most
  <1> QED  BY <1>2, <1>3 DEF Meter

LEMMA TypeStep ==
    ASSUME TypeOK, [Next]_vars
    PROVE  TypeOK'
  <1>1. ASSUME NEW w \in Worker, Clock(w)  PROVE TypeOK'
    <2>1. started' \in 0..MaxCalls
      BY <1>1, RateAssumption DEF TypeOK, Clock
    <2> QED  BY Zenon, <1>1, <2>1 DEF TypeOK, Clock, stored, metering
  <1>2. ASSUME NEW w \in Worker, getRateBucket(w)  PROVE TypeOK'
    <2>1. 0 \in Nat
      OBVIOUS
    <2> QED  BY Zenon, <1>2, <2>1 DEF TypeOK, getRateBucket, stored, metering
  <1>3. ASSUME NEW w \in Worker, putRateBucket(w)  PROVE TypeOK'
    <2>0. sampled[w] \in 0..MaxNow /\ 0 \in 0..MaxNow /\ now' \in 0..MaxNow
      BY <1>3, PutShape, Constants DEF TypeOK
    <2>1. bucket' \in Bucket
      BY <1>3, <2>0, PutShape, BasisTyped, Consumed
    <2>2. lag' \in Nat /\ behind' \in [Worker -> Nat]
      BY <1>3, PutShape, BasisTyped DEF TypeOK
    <2>3. meter' \in Int /\ mark' \in 0..MaxNow
      BY <1>3, <2>0, PutShape, BasisTyped, MeterTyped
    <2> QED  BY Zenon, <1>3, <2>0, <2>1, <2>2, <2>3, PutShape DEF TypeOK
  <1>4. CASE Replicate
    <2>1. 0 \in Nat
      OBVIOUS
    <2> QED  BY Zenon, <1>4, <2>1 DEF TypeOK, Replicate, calls, metering
  <1>5. CASE Tick
    <2>1. now' \in 0..MaxNow
      BY <1>5, Constants DEF TypeOK, Tick
    <2>2. meter' \in Int /\ mark' \in 0..MaxNow
      BY <1>5, <2>1, MeterTyped DEF Tick
    <2> QED  BY Zenon, <1>5, <2>1, <2>2 DEF TypeOK, Tick, stored, calls
  <1>6. CASE UNCHANGED vars
    BY Zenon, <1>6 DEF TypeOK, vars, stored, calls, metering
  <1> QED  BY Zenon, <1>1, <1>2, <1>3, <1>4, <1>5, <1>6 DEF Next

(***************************************************************************)
(* The meter.                                                              *)
(***************************************************************************)
\* Covers, of any meter and mark.
CoversAt(b, d, m, k) ==
    \/ b # NoBucket /\ m - d + b.tokens <= capacity + PerTick * b.lastRefill
    \/ m - d <= PerTick * k

\* Setting the meter and the mark keeps what a bucket covers.
LEMMA MeterCovers ==
    ASSUME TypeOK, now' \in 0..MaxNow, mark <= now', NEW u \in Int, Meter(u),
           NEW b \in Bucket \cup {NoBucket}, NEW d \in Nat, CoversAt(b, d, meter + u, mark)
    PROVE  CoversAt(b, d, meter', mark')
  <1>1. meter \in Int /\ mark \in Int /\ now' \in Int /\ meter + u \in Int
    BY Constants DEF TypeOK
  <1>2. PerTick * now' \in Int /\ PerTick * mark \in Int /\ PerTick * mark <= PerTick * now'
    BY <1>1, Products
  <1>3. CASE \A w \in Worker : pc'[w] = "clock"
    <2>1. mark' = now' /\ meter' = Most(meter + u, PerTick * now')
      BY Zenon, <1>3 DEF Meter
    <2>2. CASE meter + u < PerTick * now'
      BY <1>1, <1>2, <2>1, <2>2 DEF CoversAt, Most
    <2>3. CASE ~(meter + u < PerTick * now')
      <3>1. meter' = meter + u
        BY <2>1, <2>3 DEF Most
      <3>2. CASE (meter + u) - d <= PerTick * mark
        BY <1>1, <1>2, <2>1, <3>1, <3>2 DEF CoversAt
      <3>3. CASE ~((meter + u) - d <= PerTick * mark)
        <4>1. b # NoBucket /\ (meter + u) - d + b.tokens <= capacity + PerTick * b.lastRefill
          BY Zenon, <3>3 DEF CoversAt
        <4>2. meter' - d + b.tokens <= capacity + PerTick * b.lastRefill
          BY <3>1, <4>1
        <4> QED  BY Zenon, <4>1, <4>2 DEF CoversAt
      <3> QED  BY <3>2, <3>3
    <2> QED  BY <2>2, <2>3
  <1>4. CASE ~(\A w \in Worker : pc'[w] = "clock")
    BY Zenon, <1>4 DEF Meter
  <1> QED  BY <1>3, <1>4

\* A lower meter or a greater allowance keeps what a bucket covers.
LEMMA CoversLess ==
    ASSUME NEW b \in Bucket \cup {NoBucket}, NEW d \in Int, NEW m \in Int, NEW k \in Int,
           NEW e \in Int, NEW n \in Int, CoversAt(b, d, m, k), n - e <= m - d
    PROVE  CoversAt(b, e, n, k)
  <1>1. PerTick * k \in Int
    BY Products
  <1>2. CASE m - d <= PerTick * k
    BY <1>1, <1>2 DEF CoversAt
  <1>3. CASE ~(m - d <= PerTick * k)
    <2>1. b # NoBucket /\ m - d + b.tokens <= capacity + PerTick * b.lastRefill
      BY Zenon, <1>3 DEF CoversAt
    <2>2. b.tokens \in Int /\ b.lastRefill \in Int
      BY <2>1, Constants DEF Bucket
    <2>3. PerTick * b.lastRefill \in Int /\ capacity \in Int
      BY <2>2, Products, Constants
    <2>4. n - e + b.tokens <= capacity + PerTick * b.lastRefill
      BY <2>1, <2>2, <2>3
    <2> QED  BY <2>1, <2>4 DEF CoversAt
  <1> QED  BY <1>2, <1>3

\* The bucket a put leaves behind covers the meter.
LEMMA PutCovers ==
    ASSUME TypeOK, NEW w \in Worker, mark <= sampled[w], CoversAt(read[w], behind[w], meter, mark)
    PROVE  CoversAt(consumeToken(Basis(w), sampled[w]).bucket, 0, meter + Units(w), mark)
  <1> DEFINE b == Basis(w)
             new == consumeToken(b, sampled[w]).bucket
             s == sampled[w]
             back == PerTick * Rewound(w)
  <1>1. s \in 0..MaxNow /\ mark \in 0..MaxNow /\ meter \in Int /\ behind[w] \in Nat
    BY DEF TypeOK
  <1>2. /\ b \in Bucket /\ new \in Bucket /\ new.lastRefill = s
        /\ new.tokens + Granted(w) <= capacity
        /\ new.tokens + Granted(w) + PerTick * b.lastRefill <= b.tokens + PerTick * s + back
    BY <1>1, BasisTyped, Consumed DEF Granted
  <1>3. Units(w) = Granted(w) - behind[w] - back /\ Granted(w) \in Nat /\ back \in Nat
    BY BasisTyped DEF Units
  <1>4. /\ b.tokens \in Int /\ new.tokens \in Int
        /\ PerTick * b.lastRefill \in Int /\ PerTick * s \in Int /\ PerTick * mark \in Int
        /\ PerTick * mark <= PerTick * s
    <2>1. /\ b.tokens \in Int /\ new.tokens \in Int /\ b.lastRefill \in Int
          /\ s \in Int /\ mark \in Int
      BY <1>1, <1>2, Constants DEF Bucket
    <2> QED  BY <2>1, Products
  <1>5. meter + Units(w) + new.tokens <= capacity + PerTick * s
    <2>1. CASE meter - behind[w] <= PerTick * mark
      <3> HIDE DEF b, new, s, back
      <3> QED  BY <1>1, <1>2, <1>3, <1>4, <2>1, Constants
    <2>2. CASE ~(meter - behind[w] <= PerTick * mark)
      <3>1. read[w] # NoBucket
            /\ meter - behind[w] + read[w].tokens <= capacity + PerTick * read[w].lastRefill
        BY Zenon, <2>2 DEF CoversAt
      <3>2. meter - behind[w] + b.tokens <= capacity + PerTick * b.lastRefill
        BY <3>1, BasisTyped
      <3> HIDE DEF b, new, s, back
      <3> QED  BY <1>1, <1>2, <1>3, <1>4, <3>2, Constants
    <2> QED  BY <2>1, <2>2
  <1>6. new # NoBucket
    BY <1>2, Constants
  <1>7. (meter + Units(w)) - 0 + new.tokens <= capacity + PerTick * new.lastRefill
    BY <1>1, <1>2, <1>4, <1>5, BasisTyped
  <1> QED  BY Zenon, <1>6, <1>7 DEF CoversAt

LEMMA InvariantInit == Init => TypeOK /\ RateInvariant
  <1> SUFFICES ASSUME Init  PROVE TypeOK /\ RateInvariant
    OBVIOUS
  <1>1. TypeOK
    BY Constants, RateAssumption DEF Init, TypeOK
  <1>2. PerTick * 0 = 0
    BY Constants
  <1> QED  BY <1>1, <1>2 DEF Init, RateInvariant, Covers

LEMMA InvariantStep ==
    ASSUME TypeOK, RateInvariant, [Next]_vars
    PROVE  RateInvariant'
  <1>0. /\ TypeOK' /\ now \in Nat /\ now' \in 0..MaxNow /\ meter \in Int /\ mark \in Int
        /\ bucket \in Bucket \cup {NoBucket} /\ replica \in Bucket \cup {NoBucket}
        /\ lag \in Nat /\ behind \in [Worker -> Nat] /\ pc \in [Worker -> {"clock", "get", "put"}]
        /\ read \in [Worker -> Bucket \cup {NoBucket}] /\ sampled \in [Worker -> 0..MaxNow]
    BY TypeStep DEF TypeOK
  <1>00. /\ CoversAt(bucket, 0, meter, mark) /\ CoversAt(replica, lag, meter, mark)
         /\ \A v \in Worker : pc[v] = "put" => CoversAt(read[v], behind[v], meter, mark)
         /\ \A v \in Worker : pc[v] # "clock" => mark <= sampled[v] /\ sampled[v] <= now
         /\ \A b \in {bucket, replica} : b # NoBucket => b.lastRefill <= now
         /\ mark <= now
    BY Zenon DEF RateInvariant, Covers, CoversAt
  <1>1. ASSUME NEW w \in Worker, Clock(w)  PROVE RateInvariant'
    <2>1. UNCHANGED <<bucket, replica, lag, behind, read, meter, mark, now>>
      BY Zenon, <1>1 DEF Clock, stored, metering
    <2>2. \A v \in Worker : pc'[v] = "put" => pc[v] = "put"
      BY Zenon, <1>0, <1>1 DEF Clock
    <2>3. \A v \in Worker : pc'[v] # "clock" => mark <= sampled'[v] /\ sampled'[v] <= now
      <3>1. now <= now
        BY <1>0
      <3> QED  BY Zenon, <1>0, <1>00, <1>1, <3>1 DEF Clock
    <2> QED  BY Zenon, <1>00, <2>1, <2>2, <2>3 DEF RateInvariant, Covers, CoversAt
  <1>2. ASSUME NEW w \in Worker, getRateBucket(w)  PROVE RateInvariant'
    <2>1. UNCHANGED <<bucket, replica, lag, sampled, meter, mark, now>>
      BY Zenon, <1>2 DEF getRateBucket, stored, metering
    <2>2. \A v \in Worker : pc'[v] = "put" => CoversAt(read'[v], behind'[v], meter, mark)
      BY Zenon, <1>0, <1>00, <1>2 DEF getRateBucket
    <2>3. \A v \in Worker : pc'[v] # "clock" => pc[v] # "clock"
      BY Zenon, <1>0, <1>2 DEF getRateBucket
    <2> QED  BY Zenon, <1>00, <2>1, <2>2, <2>3 DEF RateInvariant, Covers, CoversAt
  <1>3. ASSUME NEW w \in Worker, putRateBucket(w)  PROVE RateInvariant'
    <2>1. /\ pc[w] = "put" /\ UNCHANGED <<now, replica>>
          /\ bucket' = consumeToken(Basis(w), sampled[w]).bucket
          /\ lag' = lag + Granted(w)
          /\ behind' = [v \in Worker |->
                IF v = w \/ pc[v] # "put" THEN 0 ELSE behind[v] + Granted(w)]
          /\ pc' = [pc EXCEPT ![w] = "clock"]
          /\ Meter(Units(w))
          /\ sampled' = [sampled EXCEPT ![w] = 0]
          /\ read' = [read EXCEPT ![w] = NoBucket]
      BY Zenon, <1>3, PutShape
    <2>2. /\ Granted(w) \in Nat /\ Units(w) \in Int
          /\ Units(w) <= Granted(w)
      <3>1. /\ Granted(w) \in Nat /\ Units(w) \in Int /\ PerTick * Rewound(w) \in Nat
            /\ behind[w] \in Nat
        BY <1>0, BasisTyped
      <3> QED  BY <3>1 DEF Units
    <2>3. ASSUME NEW b \in Bucket \cup {NoBucket}, NEW d \in Nat, CoversAt(b, d, meter, mark)
          PROVE  CoversAt(b, d + Granted(w), meter', mark')
      <3>1. /\ d + Granted(w) \in Nat /\ meter + Units(w) \in Int
            /\ (meter + Units(w)) - (d + Granted(w)) <= meter - d
            /\ d \in Int /\ d + Granted(w) \in Int
        BY <1>0, <2>2
      <3>2. CoversAt(b, d + Granted(w), meter + Units(w), mark)
        BY Zenon, <1>0, <2>3, <3>1, CoversLess
      <3>3. mark <= now'
        BY <1>00, <2>1
      <3> QED  BY <1>0, <2>1, <2>2, <3>1, <3>2, <3>3, MeterCovers
    <2>4. bucket' \in Bucket /\ bucket'.lastRefill = sampled[w] /\ sampled[w] <= now
      BY <1>0, <1>00, <2>1, BasisTyped, Consumed
    <2>5. CoversAt(bucket', 0, meter', mark')
      <3>1. CoversAt(bucket', 0, meter + Units(w), mark)
        BY <1>00, <2>1, PutCovers
      <3>2. mark <= now'
        BY <1>00, <2>1
      <3> QED  BY <1>0, <2>1, <2>2, <2>4, <3>1, <3>2, MeterCovers
    <2>6. CoversAt(replica', lag', meter', mark')
      BY <1>0, <1>00, <2>1, <2>3
    <2>7. \A v \in Worker : pc'[v] = "put" => CoversAt(read'[v], behind'[v], meter', mark')
      BY <1>0, <1>00, <2>1, <2>3
    <2>8. mark' <= now' /\ (mark' = mark \/ \A v \in Worker : pc'[v] = "clock")
      BY <1>0, <1>00, <2>1 DEF Meter
    <2>9. \A v \in Worker : pc'[v] # "clock" => mark' <= sampled'[v] /\ sampled'[v] <= now'
      BY Zenon, <1>0, <1>00, <2>1, <2>8
    <2>10. \A b \in {bucket', replica'} : b # NoBucket => b.lastRefill <= now'
      BY <1>00, <2>1, <2>4
    <2> QED  BY Zenon, <2>5, <2>6, <2>7, <2>8, <2>9, <2>10 DEF RateInvariant, Covers, CoversAt
  <1>4. CASE Replicate
    <2>1. UNCHANGED <<bucket, pc, sampled, read, behind, meter, mark, now>>
          /\ replica' = bucket /\ lag' = 0
      BY Zenon, <1>4 DEF Replicate, calls, metering
    <2> QED  BY Zenon, <1>00, <2>1 DEF RateInvariant, Covers, CoversAt
  <1>5. CASE Tick
    <2>1. UNCHANGED <<bucket, replica, lag, pc, sampled, read, behind>>
          /\ now' = now + 1 /\ Meter(0)
      BY Zenon, <1>5 DEF Tick, stored, calls
    <2>2. now <= now' /\ mark <= now' /\ meter + 0 = meter
      BY <1>0, <1>00, <2>1
    <2>3. ASSUME NEW b \in Bucket \cup {NoBucket}, NEW d \in Nat, CoversAt(b, d, meter, mark)
          PROVE  CoversAt(b, d, meter', mark')
      BY <1>0, <2>1, <2>2, <2>3, MeterCovers
    <2>4. /\ CoversAt(bucket, 0, meter', mark') /\ CoversAt(replica, lag, meter', mark')
          /\ \A v \in Worker : pc[v] = "put" => CoversAt(read[v], behind[v], meter', mark')
      BY <1>0, <1>00, <2>3
    <2>5. mark' <= now' /\ (mark' = mark \/ \A v \in Worker : pc'[v] = "clock")
      BY <1>0, <2>1, <2>2 DEF Meter
    <2>6. \A v \in Worker : pc[v] # "clock" => mark' <= sampled[v] /\ sampled[v] <= now'
      <3>1. \A v \in Worker : pc[v] # "clock" => mark <= sampled[v] /\ sampled[v] <= now'
        BY <1>0, <1>00, <2>1
      <3> QED  BY Zenon, <2>1, <2>5, <3>1
    <2>7. \A b \in {bucket, replica} : b # NoBucket => b.lastRefill <= now'
      BY <1>0, <1>00, <2>1, Constants DEF Bucket
    <2> QED  BY Zenon, <2>1, <2>4, <2>5, <2>6, <2>7 DEF RateInvariant, Covers, CoversAt
  <1>6. CASE UNCHANGED vars
    <2>1. UNCHANGED <<now, bucket, replica, lag, pc, sampled, read, behind, meter, mark>>
      BY Zenon, <1>6 DEF vars, stored, calls, metering
    <2> QED  BY Zenon, <1>00, <2>1 DEF RateInvariant, Covers, CoversAt
  <1> QED  BY Zenon, <1>1, <1>2, <1>3, <1>4, <1>5, <1>6 DEF Next

\* The bucket and what every call holds of it stay well typed: no put stores
\* more tokens than a burst or fewer than none, whatever it overwrites.
THEOREM RateTypeCorrect == Spec => []TypeOK
  <1>1. TypeOK /\ [Next]_vars => TypeOK'
    BY TypeStep
  <1> QED  BY InvariantInit, <1>1, PTL DEF Spec

\* The strengthening below is an invariant: each bucket, stored, replicated
\* or read, holds no more than the meter leaves.
THEOREM RateInvariantHolds == Spec => []RateInvariant
  <1>1. TypeOK /\ RateInvariant /\ [Next]_vars => RateInvariant'
    BY InvariantStep
  <1> QED  BY InvariantInit, RateTypeCorrect, <1>1, PTL DEF Spec

\* From any quiet moment on, the gate grants at most a burst and the rate
\* times the time, and what lost updates and rewound refills let through.
THEOREM RateRespected == Spec => []GrantsWithinRate
  <1>1. TypeOK /\ RateInvariant => GrantsWithinRate
    <2> SUFFICES ASSUME TypeOK, RateInvariant  PROVE GrantsWithinRate
      OBVIOUS
    <2>1. now \in Int /\ mark \in Int /\ meter \in Int /\ mark <= now
      BY DEF TypeOK, RateInvariant
    <2>2. PerTick * mark \in Int /\ PerTick * now \in Int /\ PerTick * mark <= PerTick * now
      BY <2>1, Products
    <2>3. CASE meter - 0 <= PerTick * mark
      BY <2>1, <2>2, <2>3, Constants DEF GrantsWithinRate
    <2>4. CASE ~(meter - 0 <= PerTick * mark)
      <3>1. /\ bucket # NoBucket /\ bucket.lastRefill <= now
            /\ meter - 0 + bucket.tokens <= capacity + PerTick * bucket.lastRefill
        BY Zenon, <2>4 DEF RateInvariant, Covers
      <3>2. bucket.tokens \in Nat /\ bucket.lastRefill \in Int
        BY <3>1, Constants DEF TypeOK, Bucket
      <3>3. PerTick * bucket.lastRefill \in Int /\ PerTick * bucket.lastRefill <= PerTick * now
        BY <2>1, <3>1, <3>2, Products
      <3> QED  BY <2>1, <2>2, <3>1, <3>2, <3>3, Constants DEF GrantsWithinRate
    <2> QED  BY <2>3, <2>4
  <1> QED  BY RateTypeCorrect, RateInvariantHolds, <1>1, PTL

(***************************************************************************)
(* The wait of a throttled message.                                        *)
(***************************************************************************)
\* Rounding up: the wait refills the missing part of a token, and one tick
\* less does not.
LEMMA WaitIsLeast ==
    ASSUME NEW tokens \in Nat, tokens < One
    PROVE  /\ retryAfter(tokens) \in Nat /\ retryAfter(tokens) >= 1
           /\ tokens + PerTick * retryAfter(tokens) >= One
           /\ tokens + PerTick * (retryAfter(tokens) - 1) < One
  <1> DEFINE n == One - tokens + PerTick - 1
             q == n \div PerTick
  <1>1. n \in Nat /\ n >= PerTick
    BY Constants
  <1>2. q \in Int /\ PerTick * q <= n /\ n < PerTick * q + PerTick
    BY <1>1, Constants
  <1>3. retryAfter(tokens) = q
    BY DEF retryAfter
  <1> HIDE DEF q
  <1>4. q >= 1
    <2> SUFFICES ASSUME q <= 0  PROVE FALSE
      BY <1>2
    <2>1. PerTick * q <= PerTick * 0 /\ PerTick * 0 = 0
      BY <1>2, Constants
    <2> QED  BY <1>1, <1>2, <2>1, Constants
  <1>5. PerTick * (q - 1) = PerTick * q - PerTick /\ PerTick * q \in Int
    BY <1>2, Constants
  <1>6. tokens + PerTick * q >= One /\ tokens + (PerTick * q - PerTick) < One
    BY <1>2, <1>5, Constants
  <1> QED  BY <1>2, <1>3, <1>4, <1>5, <1>6

\* A bucket is allowed a token exactly when it holds one after the refill,
\* d ticks after it was filled last; the capacity never cuts off a token.
LEMMA AllowedAfter ==
    ASSUME NEW tokens \in 0..capacity, NEW t \in Nat, NEW d \in Nat
    PROVE  consumeToken([tokens |-> tokens, lastRefill |-> t], t + d).allowed
             <=> tokens + PerTick * d >= One
  <1> DEFINE b == [tokens |-> tokens, lastRefill |-> t]
             units == tokens + PerTick * d
  <1>1. (IF t + d > b.lastRefill THEN t + d - b.lastRefill ELSE 0) = d
    OBVIOUS
  <1>2. refilled(b, t + d) = Least(capacity, units)
    BY <1>1 DEF refilled
  <1>3. PerTick * d \in Int
    BY Constants
  <1>4. units \in Int
    BY <1>3, Constants
  <1> HIDE DEF units
  <1>5. Least(capacity, units) >= One <=> units >= One
    BY <1>4, Constants DEF Least
  <1>6. consumeToken(b, t + d).allowed <=> refilled(b, t + d) >= One
    BY DEF consumeToken
  <1> QED  BY <1>2, <1>5, <1>6 DEF units

\* A throttled message that comes back when it was told to is admitted, and
\* a tick earlier it would not be, for every rate.
THEOREM ThrottledReturnAdmitted == Spec => []RetryAfterSuffices
  <1>1. TypeOK => RetryAfterSuffices
    <2> SUFFICES ASSUME TypeOK, bucket # NoBucket, ~consumeToken(bucket, now).allowed
                 PROVE  /\ consumeToken(consumeToken(bucket, now).bucket,
                                        now + consumeToken(bucket, now).retryAfter).allowed
                        /\ ~consumeToken(consumeToken(bucket, now).bucket,
                                         (now + consumeToken(bucket, now).retryAfter) - 1).allowed
      BY DEF RetryAfterSuffices
    <2> DEFINE tokens == refilled(bucket, now)
               wait == retryAfter(tokens)
               left == [tokens |-> tokens, lastRefill |-> now]
    <2>1. bucket \in Bucket /\ now \in 0..MaxNow
      BY DEF TypeOK
    <2>2. /\ consumeToken(bucket, now).bucket = left
          /\ consumeToken(bucket, now).retryAfter = wait
          /\ ~(tokens >= One)
      BY DEF consumeToken
    <2>3. tokens \in 0..capacity
      <3>1. left \in Bucket
        BY <2>1, <2>2, Consumed
      <3> HIDE DEF tokens
      <3> QED  BY <3>1 DEF Bucket
    <2> HIDE DEF tokens
    <2>4. tokens \in Nat /\ tokens < One /\ now \in Nat
      BY <2>1, <2>2, <2>3, Constants
    <2>5. /\ wait \in Nat /\ wait >= 1
          /\ tokens + PerTick * wait >= One /\ tokens + PerTick * (wait - 1) < One
      BY <2>4, WaitIsLeast
    <2> HIDE DEF wait
    <2>6. consumeToken(left, now + wait).allowed
      BY <2>3, <2>4, <2>5, AllowedAfter
    <2>7. wait - 1 \in Nat /\ (now + wait) - 1 = now + (wait - 1)
      BY <2>4, <2>5
    <2>8. ~(tokens + PerTick * (wait - 1) >= One)
      <3>1. PerTick * (wait - 1) \in Int
        BY <2>7, Constants
      <3> QED  BY <2>4, <2>5, <3>1, Constants
    <2>9. ~consumeToken(left, (now + wait) - 1).allowed
      BY <2>3, <2>4, <2>7, <2>8, AllowedAfter
    <2> HIDE DEF left
    <2> QED  BY <2>2, <2>6, <2>9
  <1> QED  BY RateTypeCorrect, <1>1, PTL
=============================================================================
