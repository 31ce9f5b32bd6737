------------------------------- MODULE Policy -------------------------------
(***************************************************************************)
(* The pure delivery policies of packages/core/src/policy: the             *)
(* per-endpoint circuit breaker, the retry schedule and the classification *)
(* of a delivery attempt.                                                  *)
(*                                                                         *)
(* Time is relative.  Where the code stores an absolute openedAt and       *)
(* compares it with now, the model stores cool, the part of the cooldown   *)
(* that is still ahead: cool = max(0, openedAt + cooldownMs - now).  A     *)
(* clock tick counts it down (Elapse).  An absent openedAt is cool = 0.    *)
(***************************************************************************)
EXTENDS Naturals, Sequences

CONSTANTS Threshold,      \* circuitCfg.failureThreshold
          Cooldown,       \* circuitCfg.cooldownMs, in clock ticks
          Schedule,       \* retry.scheduleMs, in clock ticks, one per retry
          RetryAfterCap   \* RETRY_AFTER_CAP_MS, in clock ticks

ASSUME PolicyAssumption ==
    /\ Threshold \in Nat \ {0}
    /\ Cooldown \in Nat
    /\ Schedule \in Seq(Nat)
    /\ RetryAfterCap \in Nat

(***************************************************************************)
(* Circuit breaker.                                                        *)
(***************************************************************************)
CircuitState == {"closed", "open", "half-open"}

CircuitRecord == [state: CircuitState, failures: Nat, cool: 0..Cooldown]

initialCircuit == [state |-> "closed", failures |-> 0, cool |-> 0]

onFailure(rec) ==
    LET failures == rec.failures + 1
    IN  IF rec.state = "half-open" \/ failures >= Threshold
        THEN [state |-> "open", failures |-> failures, cool |-> Cooldown]
        ELSE [state |-> "closed", failures |-> failures, cool |-> 0]

\* MUTANT of onSuccess: the count of consecutive failures is not reset.
onSuccessKeepsCount(rec) ==
    [rec EXCEPT !.state = "closed", !.cool = 0]

onSuccess(rec) == [state |-> "closed", failures |-> 0, cool |-> 0]

toHalfOpen(rec) == [rec EXCEPT !.state = "half-open"]

\* MUTANT of canAttempt: half-open admits nobody, on the belief that the one
\* probe in flight will always report back.
canAttemptOneProbeOnly(rec) ==
    CASE rec.state = "closed"    -> [allow |-> TRUE,  probe |-> FALSE]
      [] rec.state = "half-open" -> [allow |-> FALSE, probe |-> FALSE]
      [] rec.state = "open"      -> [allow |-> rec.cool = 0, probe |-> rec.cool = 0]

canAttempt(rec) ==
    CASE rec.state = "closed"    -> [allow |-> TRUE, probe |-> FALSE]
      [] rec.state = "half-open" -> [allow |-> TRUE, probe |-> TRUE]
      [] rec.state = "open"      -> [allow |-> rec.cool = 0, probe |-> rec.cool = 0]

\* One clock tick brings the end of the cooldown one tick nearer.
Countdown(n) == IF n = 0 THEN 0 ELSE n - 1

Elapse(rec) == [rec EXCEPT !.cool = Countdown(rec.cool)]

(***************************************************************************)
(* Retry schedule.  nextDelayMs returns null past the end of the schedule, *)
(* a capped Retry-After when the receiver sent one, and a uniformly        *)
(* jittered delay in [0, base] otherwise; both choices are the             *)
(* environment's, so the result is the set of delays they allow.           *)
(***************************************************************************)
nextDelays(attemptNo) ==
    IF attemptNo < Len(Schedule)
    THEN (0..Schedule[attemptNo + 1]) \cup (0..RetryAfterCap)
    ELSE {}

\* base + fullJitter(cooldownMs): the wake-up of a message parked by an open breaker.
probeDelays(rec) == {rec.cool + jitter : jitter \in 0..Cooldown}

(***************************************************************************)
(* Attempt status and outcome.  Status codes are represented by the class  *)
(* classifyOutcome distinguishes.                                          *)
(***************************************************************************)
AttemptStatus == {"1xx", "2xx", "3xx", "429", "4xx", "5xx", "timeout", "network"}

\* MUTANT of classifyOutcome: a timed-out request is counted as delivered.
classifyOutcomeOptimistic(status) ==
    CASE status \in {"2xx", "timeout"}   -> "delivered"
      [] status \in {"3xx", "4xx"}       -> "permanent"
      [] status \in {"1xx", "429", "5xx", "network"} -> "retryable"

classifyOutcome(status) ==
    CASE status = "2xx"              -> "delivered"
      [] status \in {"3xx", "4xx"}   -> "permanent"
      [] status \in {"1xx", "429", "5xx", "timeout", "network"} -> "retryable"
=============================================================================
