------------------------------ MODULE Delivery ------------------------------
(***************************************************************************)
(* One message from its fan-out to the answers of its receiver, while the  *)
(* portal changes the endpoint: fanout and subscribes (core/src/fanout.ts),*)
(* deliverOnce (core/src/deliver.ts), the HTTP clients (http-fetch.ts) and *)
(* signing and verification (packages/signing).                            *)
(*                                                                         *)
(* An event type and a pattern are sequences of dot-separated segments.  A *)
(* signature is the secret it was made with, for the one id and body of    *)
(* the message: two secrets never make the same digest.  Time is in ticks  *)
(* and moves between the steps of an attempt.  The gates of processMessage *)
(* between getEndpoint and deliverOnce, and what it does with the result,  *)
(* are in module Engine.                                                   *)
(***************************************************************************)
EXTENDS EndpointStore, Policy, UrlPolicy

CONSTANTS EventType,     \* the type of the event
          Second,        \* ticks in a second
          Tolerance,     \* TOLERANCE_SECONDS
          MaxAttempts,   \* bound: attempts of the message
          MaxNow,        \* bound: the last tick
          None,          \* no value
          EnginePolicy,  \* opts.urlPolicy of the engine
          ClientPolicy   \* opts.urlPolicy of the adapter, for its HTTP client

ASSUME DeliveryAssumption ==
    /\ Second \in Nat \ {0} /\ Tolerance \in Nat
    /\ MaxAttempts \in Nat /\ MaxNow \in Nat /\ Second - 1 <= MaxNow
    /\ EventType \in Seq(STRING) /\ EventType # <<>>
    /\ Subscription \subseteq SUBSET Seq(STRING)

VARIABLES
    now,        \* the clock
    phase,      \* where the message is
    attempts,   \* attempts made
    target,     \* the endpoint that this attempt has read
    headers,    \* the signatures and the timestamp of the request
    result,     \* what deliverOnce returned, or None
    holds,      \* the secret the receiver verifies with
    posted,     \* history: targets a request has left for
    verdict,    \* history: what the receiver made of the request of this attempt
    \* history: the event was queued only for an endpoint that may get it
    fanned,
    \* history: the secret the receiver held at getEndpoint, if every endpoint that could be
    \* read had it
    window

attempt == <<target, headers, result, verdict, window>>
deliveryVars == <<now, phase, attempts, attempt, holds, posted, fanned>>
vars == <<storeVars, deliveryVars>>

-----------------------------------------------------------------------------
\* MUTANT of subscribes: the dot before the wildcard is not part of the prefix.
subscribesLoose(e, type) ==
    \E p \in e.eventTypes :
       \/ p = <<"*">> \/ p = type
       \/ /\ Len(p) > 1 /\ p[Len(p)] = "*"
          /\ Len(type) >= Len(p) - 1 /\ SubSeq(type, 1, Len(p) - 1) = SubSeq(p, 1, Len(p) - 1)

subscribes(e, type) ==
    \E p \in e.eventTypes :
       \/ p = <<"*">> \/ p = type
       \/ /\ Len(p) > 1 /\ p[Len(p)] = "*"
          /\ Len(type) >= Len(p) /\ SubSeq(type, 1, Len(p) - 1) = SubSeq(p, 1, Len(p) - 1)

floorSeconds(t) == t \div Second

\* MUTANT of sign: only the primary secret signs.
signPrimary(secrets, t) == [signatures |-> {secrets[1]}, timestamp |-> floorSeconds(t)]

\* Signer.headers: one signature per secret, over the timestamp in seconds.
sign(secrets, t) ==
    [signatures |-> {secrets[i] : i \in DOMAIN secrets}, timestamp |-> floorSeconds(t)]

Distance(a, b) == IF a < b THEN b - a ELSE a - b

verify(h, secret, t) ==
    /\ Distance(floorSeconds(t), h.timestamp) <= Tolerance
    /\ secret \in h.signatures

-----------------------------------------------------------------------------
\* The raw answers of a receiver: a status class, with a Retry-After header
\* where deliverOnce looks at it (None: no number).  A bad signature is answered with a 4xx.
RetryAfterHeader == {None} \cup -1..RetryAfterCap + 1

Answer ==
    {[status |-> s, retryAfter |-> None] : s \in {"2xx", "opaqueredirect", "3xx", "4xx", "5xx"}}
    \cup {[status |-> s, retryAfter |-> r] : s \in {"429", "503"}, r \in RetryAfterHeader}

Refusal == {[status |-> "4xx", retryAfter |-> None]}

\* MUTANT of httpPost: redirects are followed, and the new target says 200.
httpPostFollows(a) == IF a.status = "opaqueredirect" THEN [a EXCEPT !.status = "2xx"] ELSE a

\* The HTTP client reports a redirect as a 302 and does not follow it.
httpPost(a) == IF a.status = "opaqueredirect" THEN [a EXCEPT !.status = "3xx"] ELSE a

\* The header is in seconds, delays are in ticks.
parseRetryAfter(raw) == IF raw = None THEN None ELSE IF raw < 0 THEN None ELSE raw * Second

\* classifyOutcome does not tell a 503 from the other 5xx.
Class(status) == IF status = "503" THEN "5xx" ELSE status

\* What deliverOnce returns for an answer, and for none.
Classified(a) ==
    [status |-> a.status, outcome |-> classifyOutcome(Class(a.status)), blocked |-> FALSE,
     retryAfter |-> IF a.status \in {"429", "503"} THEN parseRetryAfter(a.retryAfter) ELSE None]

Unanswered(s) == [status |-> s, outcome |-> "retryable", blocked |-> FALSE, retryAfter |-> None]

Blocked == [status |-> "network", outcome |-> "permanent", blocked |-> TRUE, retryAfter |-> None]

\* MUTANT of nextDelayMs: Retry-After is not capped.
nextDelayMsUncapped(attemptNo, retryAfter) ==
    IF attemptNo >= Len(Schedule) THEN {}
    ELSE IF retryAfter # None THEN {retryAfter} ELSE 0..Schedule[attemptNo + 1]

\* The delays before the next attempt: one if the receiver named it, all the
\* jittered ones otherwise, none past the end of the schedule.
nextDelayMs(attemptNo, retryAfter) ==
    IF attemptNo >= Len(Schedule) THEN {}
    ELSE IF retryAfter # None
         THEN {IF retryAfter > RetryAfterCap THEN RetryAfterCap ELSE retryAfter}
         ELSE 0..Schedule[attemptNo + 1]

-----------------------------------------------------------------------------
Init ==
    /\ StoreInit
    /\ now \in 0..Second - 1
    /\ phase = "event" /\ attempts = 0 /\ posted = {} /\ holds = None /\ fanned = TRUE
    /\ target = Absent /\ headers = None /\ result = None /\ verdict = "none" /\ window = None

Passes == now' \in now..MaxNow

\* The endpoints that a read may return, in terms of the calls: what they asked
\* for last and, until the replicas of the table agree, what they asked for
\* before.  Once calls have overlapped, what the table holds.
Asks == IF adapter = "durable" \/ alone THEN {wanted} \cup superseded ELSE getEndpoint

\* The endpoint is enabled, and has a pattern that covers the type.
MayGet(e) ==
    /\ e # Absent /\ ~e.disabled
    /\ \E p \in e.eventTypes : \E n \in 0..Len(p) :
          /\ n = Len(p) => p = EventType
          /\ n < Len(p) => p[Len(p)] = "*" /\ n = Len(p) - 1 /\ n < Len(EventType)
          /\ \A i \in 1..n : p[i] = EventType[i]

Has(e, secret) == \E i \in DOMAIN e.secrets : e.secrets[i] = secret

\* MUTANT of fanout: a disabled endpoint gets messages too.
fanoutDisabled ==
    \E e \in getEndpoint :
       phase' = IF e # Absent /\ subscribes(e, EventType) THEN "queued" ELSE "dropped"

\* The event becomes a message if the endpoint that matchEndpoints lists is
\* subscribed and enabled.
fanout ==
    \E e \in getEndpoint :
       phase' = IF e # Absent /\ ~e.disabled /\ subscribes(e, EventType)
                THEN "queued" ELSE "dropped"

Fanout ==
    /\ phase = "event" /\ issued > 0
    /\ fanout
    /\ fanned' = (phase' = "queued" => \E e \in Asks : MayGet(e))
    /\ UNCHANGED <<storeVars, now, attempts, attempt, holds, posted>>

\* MUTANT of Gone: a deleted endpoint is not noticed.
GoneDisabledOnly(e) == IF e = Absent THEN FALSE ELSE e.disabled

Gone(e) == IF e = Absent THEN TRUE ELSE e.disabled

\* processMessage reads the endpoint; a message to none, or to a disabled
\* one, is dead.
GetEndpoint ==
    /\ phase = "queued" /\ attempts < MaxAttempts
    /\ attempts' = attempts + 1
    /\ target' \in getEndpoint
    /\ phase' = IF Gone(target') THEN "dead" ELSE "check"
    /\ window' = IF \A e \in Asks \ {Absent} : Has(e, holds) THEN holds ELSE None
    /\ headers' = None /\ result' = None /\ verdict' = "none"
    /\ UNCHANGED <<storeVars, now, holds, posted, fanned>>

\* The policy is asked, and what it allows is signed.
CheckAndSign ==
    /\ phase = "check"
    /\ Passes
    /\ \/ /\ ~allowed(target.url, EnginePolicy)
          /\ result' = Blocked /\ phase' = "result"
          /\ UNCHANGED headers
       \/ /\ allowed(target.url, EnginePolicy)
          /\ headers' = sign(target.secrets, now') /\ phase' = "post"
          /\ UNCHANGED result
    /\ UNCHANGED <<storeVars, attempts, target, verdict, window, holds, posted, fanned>>

\* MUTANT of Post: the client does not ask its own policy.
PostUnchecked ==
    /\ phase = "post"
    /\ posted' = posted \cup {target.url}
    /\ phase' = "sent"
    /\ UNCHANGED <<storeVars, now, attempts, attempt, holds, fanned>>

\* The client asks its own policy, and sends the request to the url that was
\* checked and signed for.
Post ==
    /\ phase = "post"
    /\ \/ /\ ~allowed(target.url, ClientPolicy)
          /\ result' = Unanswered("network") /\ phase' = "result"
          /\ UNCHANGED posted
       \/ /\ allowed(target.url, ClientPolicy)
          /\ posted' = posted \cup {target.url} /\ phase' = "sent"
          /\ UNCHANGED result
    /\ UNCHANGED <<storeVars, now, attempts, target, headers, verdict, window, holds, fanned>>

\* The receiver verifies the request and answers, or its answer is lost.
Receive ==
    /\ phase = "sent"
    /\ Passes
    /\ \/ /\ ~verify(headers, holds, now')
          /\ verdict' = "refused"
          /\ \E a \in Refusal : result' = Classified(httpPost(a))
       \/ /\ verify(headers, holds, now')
          /\ \E a \in Answer :
                /\ verdict' = IF a.status = "2xx" THEN "accepted" ELSE "declined"
                /\ result' \in {Classified(httpPost(a)), Unanswered("timeout")}
    /\ phase' = "result"
    /\ UNCHANGED <<storeVars, attempts, target, headers, window, holds, posted, fanned>>

\* The request is lost.
Lose ==
    /\ phase = "sent"
    /\ \E s \in {"timeout", "network"} : result' = Unanswered(s)
    /\ phase' = "result"
    /\ UNCHANGED <<storeVars, now, attempts, target, headers, verdict, window, holds, posted, fanned>>

\* A retry runs deliverOnce again, later.
Retry ==
    /\ phase = "result" /\ result.outcome = "retryable" /\ attempts < MaxAttempts
    /\ Passes
    /\ phase' = "queued"
    /\ UNCHANGED <<storeVars, attempts, attempt, holds, posted, fanned>>

\* The customer gives the receiver the secret that a call has returned.
Install ==
    /\ issued > 0 /\ holds # issued
    /\ holds' = issued
    /\ UNCHANGED <<storeVars, now, phase, attempts, attempt, posted, fanned>>

Next ==
    \/ StoreNext /\ UNCHANGED deliveryVars
    \/ Fanout \/ GetEndpoint \/ CheckAndSign \/ Post \/ Receive \/ Lose \/ Retry \/ Install

Spec == Init /\ [][Next]_vars

-----------------------------------------------------------------------------
TypeOK ==
    /\ StoreTypeOK
    /\ now \in 0..MaxNow /\ attempts \in 0..MaxAttempts
    /\ phase \in {"event", "dropped", "queued", "dead", "check", "post", "sent", "result"}
    /\ target \in Endpoint \cup {Absent}
    /\ holds \in 1..issued \cup {None} /\ window \in 1..issued \cup {None}
    /\ posted \subseteq Url
    /\ verdict \in {"none", "refused", "declined", "accepted"}
    /\ phase \in {"check", "post", "sent"} => target # Absent

(***************************************************************************)
(* No request leaves for a target that the policy of the engine or that of *)
(* the HTTP client refuses, also when the url of the endpoint is patched   *)
(* between the checks and the request.  (deliver.ts: "enforces the URL     *)
(* policy first"; http-fetch.ts)                                           *)
(***************************************************************************)
RefusedNeverPosted ==
    \A u \in posted : allowed(u, EnginePolicy) /\ allowed(u, ClientPolicy)

(***************************************************************************)
(* Rotation keeps deliveries verifiable: a receiver that held one of the   *)
(* last two secrets when the endpoint was read, and holds it still,        *)
(* accepts every request that reaches it within the tolerance of the       *)
(* moment it was signed, in the first attempt and in a late retry.  Over   *)
(* the table, whose reads may be outdated, that is a secret of every       *)
(* endpoint a read may return: after a rotation the previous secret at     *)
(* once, and the new one only when the replicas have caught up, since an   *)
(* outdated item signs without it.  (endpoints.ts rotateSecret: "the       *)
(* previous secret stays valid during a dual-secret window"; sign.ts,      *)
(* verify.ts, state-dynamo.ts getEndpoint)                                 *)
(***************************************************************************)
WindowVerifies ==
    [][Receive /\ window # None /\ window = holds /\ now' - now <= Tolerance * Second
          => verdict' # "refused"]_vars

(***************************************************************************)
(* A delivery counts as delivered only if the receiver of the endpoint     *)
(* verified it and took it with a 2xx: no lost answer, redirect or refusal *)
(* does.  (http-fetch.ts, deliver.ts, outcome.ts)                          *)
(***************************************************************************)
DeliveredMeansAccepted ==
    result # None /\ result.outcome = "delivered" => verdict = "accepted"

(***************************************************************************)
(* The results of deliverOnce are those that the action Post of module     *)
(* Engine chooses from, and the retry delays they lead to are those of     *)
(* nextDelays, whatever Retry-After header the receiver sends.             *)
(***************************************************************************)
ResultsAsEngineAssumes ==
    result # None =>
       /\ result.blocked \/ \E s \in AttemptStatus : result.outcome = classifyOutcome(s)
       /\ result.blocked => result.outcome = "permanent"
       /\ result.outcome = "retryable" => nextDelayMs(attempts - 1, result.retryAfter) \subseteq nextDelays(attempts - 1)

(***************************************************************************)
(* An event is queued for the endpoint only if the endpoint as the calls   *)
(* asked for it is enabled and has a pattern that covers the type.  Over   *)
(* the tenant object an acknowledged disable, unsubscribe or delete is     *)
(* respected at once; over the table only when its replicas have caught    *)
(* up, and until then an endpoint that was asked for before may count.     *)
(* After overlapping calls on the table it is an item the table holds or   *)
(* held.  (fanout.ts; state-dynamo.ts listEndpoints)                       *)
(***************************************************************************)
FanoutFollowsRegistry == fanned
=============================================================================
