--------------------------- MODULE DeliveryProofs ---------------------------
(***************************************************************************)
(* Proofs about the endpoint registry, the delivery of a message, the URL  *)
(* policy and the tolerance of signatures, for every number of calls,      *)
(* targets, subscriptions and attempts.                                    *)
(***************************************************************************)
EXTENDS Delivery, TLAPS

\* A record of the four fields, whatever its secrets are.
Shape(e) ==
    /\ e = [url |-> e.url, eventTypes |-> e.eventTypes, disabled |-> e.disabled, secrets |-> e.secrets]
    /\ e.url \in Url /\ e.eventTypes \in Subscription /\ e.disabled \in BOOLEAN

(***************************************************************************)
(* Why nothing is lost: as long as calls follow each other there is at     *)
(* most one call between its read and its put, what it read is what is     *)
(* stored, and that is what the calls asked for.  What a replica may still *)
(* return is then what they asked for before.                              *)
(***************************************************************************)
Stored ==
    /\ row # Absent => Shape(row)
    /\ \A e \in older : e # Absent => Shape(e)
    /\ \A c \in Call : step[c] = "put" =>
          adapter = "dynamo" /\ read[c] # Absent /\ Shape(read[c]) /\ change[c] \in Change

Followed ==
    /\ adapter \in {"dynamo", "durable"}
    /\ adapter = "durable" => older = {}
    /\ adapter = "durable" \/ alone => row = wanted /\ older \subseteq superseded
    /\ alone => \A c, d \in Call : step[c] = "put" /\ step[d] = "put" => c = d
    /\ alone => \A c \in Call : step[c] = "put" => read[c] = row

Shapes ==
    /\ step = [c \in Call |-> step[c]]
    /\ read = [c \in Call |-> read[c]]
    /\ change = [c \in Call |-> change[c]]

StoreInv == Shapes /\ Stored /\ Followed

\* A change of the stored endpoint is the change that was asked for.
LEMMA ChangedAsAsked ==
    ASSUME NEW e, Shape(e), NEW ch \in Change
    PROVE  /\ Changed(e, ch) = Asked(e, ch)
           /\ Shape(Asked(e, ch))
<1>0. Keep \notin Url /\ Keep \notin Subscription /\ Keep \notin BOOLEAN
  BY StoreAssumption
<1>1. /\ ch.url \in Url \cup {Keep} /\ ch.eventTypes \in Subscription \cup {Keep}
      /\ ch.disabled \in BOOLEAN \cup {Keep}
      /\ ch.rotate \in BOOLEAN
      /\ ch.rotate => ch.url = Keep /\ ch.eventTypes = Keep /\ ch.disabled = Keep
  <2>1. CASE ch \in Patch
    BY <2>1, StoreAssumption
  <2>2. CASE ch = [NoChange EXCEPT !.rotate = TRUE]
    BY <2>2 DEF NoChange
  <2> QED  BY <2>1, <2>2, Zenon DEF Change
<1>2. /\ Or(ch.url, e.url) = (IF ch.url \in Url THEN ch.url ELSE e.url)
      /\ Or(ch.url, e.url) \in Url
  BY <1>0, <1>1, Zenon DEF Or, Shape
<1>3. /\ Or(ch.eventTypes, e.eventTypes) = (IF ch.eventTypes \in Subscription THEN ch.eventTypes ELSE e.eventTypes)
      /\ Or(ch.eventTypes, e.eventTypes) \in Subscription
  BY <1>0, <1>1, Zenon DEF Or, Shape
<1>4. /\ Or(ch.disabled, e.disabled) = (IF ch.disabled \in BOOLEAN THEN ch.disabled ELSE e.disabled)
      /\ Or(ch.disabled, e.disabled) \in BOOLEAN
  BY <1>0, <1>1, Zenon DEF Or, Shape
<1>5. CASE ch.rotate
  <2>1. Or(ch.url, e.url) = e.url /\ Or(ch.eventTypes, e.eventTypes) = e.eventTypes
        /\ Or(ch.disabled, e.disabled) = e.disabled
    BY <1>1, <1>5 DEF Or
  <2>2. Asked(e, ch) = [url |-> e.url, eventTypes |-> e.eventTypes, disabled |-> e.disabled,
                        secrets |-> <<issued + 1, e.secrets[1]>>]
    BY <1>2, <1>3, <1>4, <1>5, <2>1, Zenon DEF Asked
  <2>3. Changed(e, ch) = [e EXCEPT !.secrets = <<issued + 1, e.secrets[1]>>]
    BY <1>5, Zenon DEF Changed, rotated
  <2> QED  BY <2>2, <2>3 DEF Shape
<1>6. CASE ~ch.rotate
  <2> DEFINE u == Or(ch.url, e.url)
             t == Or(ch.eventTypes, e.eventTypes)
             d == Or(ch.disabled, e.disabled)
  <2>1. Asked(e, ch) = [url |-> u, eventTypes |-> t, disabled |-> d, secrets |-> e.secrets]
    BY <1>2, <1>3, <1>4, <1>6, Zenon DEF Asked
  <2>2. Changed(e, ch) = [e EXCEPT !.url = u, !.eventTypes = t, !.disabled = d]
    BY <1>6, Zenon DEF Changed, patched
  <2>3. u \in Url /\ t \in Subscription /\ d \in BOOLEAN
    BY <1>2, <1>3, <1>4
  <2> HIDE DEF u, t, d
  <2> QED  BY <2>1, <2>2, <2>3 DEF Shape
<1> QED  BY <1>1, <1>5, <1>6

LEMMA StoreStart == StoreInit => StoreInv
BY DEF StoreInit, StoreInv, Shapes, Stored, Followed

\* A call that begins alone finds nobody between read and put.
LEMMA BegunAlone ==
    ASSUME Begun, alone'
    PROVE  alone /\ \A c \in Call : step[c] # "put"
BY DEF Begun, Busy

LEMMA StoreInductive == StoreInv /\ [StoreNext]_storeVars => StoreInv'
<1> SUFFICES ASSUME StoreInv, [StoreNext]_storeVars  PROVE StoreInv'
  OBVIOUS
<1> USE DEF StoreInv, Shapes
<1>1. CASE UNCHANGED storeVars
  <2>1. Stored'  BY <1>1 DEF storeVars, Stored, Shape
  <2>2. Followed'  BY <1>1 DEF storeVars, Followed
  <2> QED  BY <1>1, <2>1, <2>2 DEF storeVars
<1>2. ASSUME NEW c \in Call, createEndpoint(c)  PROVE StoreInv'
  <2>1. PICK u \in Url, t \in Subscription :
           LET e == [url |-> u, eventTypes |-> t, disabled |-> FALSE, secrets |-> <<1>>]
           IN  Store(e) /\ Acknowledge(e)
    BY <1>2, Zenon DEF createEndpoint
  <2> DEFINE e == [url |-> u, eventTypes |-> t, disabled |-> FALSE, secrets |-> <<1>>]
  <2>2. Shape(e)  BY DEF Shape
  <2>3. row' = e /\ wanted' = e /\ older' \subseteq older \cup {row}
        /\ (adapter = "durable" => older' = older /\ superseded' = superseded)
        /\ (adapter # "durable" => older' = older \cup {row} /\ superseded' = superseded \cup {wanted})
    BY <2>1 DEF Store, Acknowledge, Followed
  <2> HIDE DEF e
  <2>4. UNCHANGED <<adapter, read, change>> /\ Begun /\ step' = [step EXCEPT ![c] = "done"]
    BY <1>2, Zenon DEF createEndpoint
  <2>5. \A d \in Call : step'[d] = "put" => step[d] = "put"
    BY <2>4
  <2>6. Stored'  BY <2>2, <2>3, <2>4, <2>5 DEF Stored, Shape
  <2>7. Followed'  BY <2>3, <2>4, <2>5, BegunAlone DEF Followed
  <2> QED  BY <2>4, <2>6, <2>7
<1>3. ASSUME NEW c \in Call, deleteEndpoint(c)  PROVE StoreInv'
  <2>3. row' = Absent /\ wanted' = Absent /\ older' \subseteq older \cup {row}
        /\ (adapter = "durable" => older' = older /\ superseded' = superseded)
        /\ (adapter # "durable" => older' = older \cup {row} /\ superseded' = superseded \cup {wanted})
    BY <1>3 DEF deleteEndpoint, Store, Acknowledge, Followed
  <2>4. UNCHANGED <<adapter, read, change>> /\ Begun /\ step' = [step EXCEPT ![c] = "done"]
    BY <1>3, Zenon DEF deleteEndpoint
  <2>5. \A d \in Call : step'[d] = "put" => step[d] = "put"
    BY <2>4
  <2>6. Stored'  BY <2>3, <2>4, <2>5 DEF Stored, Shape
  <2>7. Followed'  BY <2>3, <2>4, <2>5, BegunAlone DEF Followed
  <2> QED  BY <2>4, <2>6, <2>7
<1>4. ASSUME NEW c \in Call, NEW ch \in Change, Fetch(c, ch)  PROVE StoreInv'
  <2>1. UNCHANGED <<adapter, row, older, issued, wanted, superseded>> /\ adapter = "dynamo"
    BY <1>4, Zenon DEF Fetch
  <2>2. PICK e \in getEndpoint :
          \/ /\ e = Absent
             /\ step' = [step EXCEPT ![c] = "failed"]
             /\ UNCHANGED <<read, change, alone>>
          \/ /\ e # Absent
             /\ step' = [step EXCEPT ![c] = "put"]
             /\ read' = [read EXCEPT ![c] = e]
             /\ change' = [change EXCEPT ![c] = ch]
             /\ alone' = (alone /\ ~Busy /\ e = row)
    BY <1>4, Zenon DEF Fetch
  <2>3. CASE e = Absent
    <3>1. \A d \in Call : step'[d] = "put" => step[d] = "put"
      BY <2>2, <2>3
    <3>2. Stored'  BY <2>1, <2>2, <2>3, <3>1 DEF Stored, Shape
    <3>3. Followed'  BY <2>1, <2>2, <2>3, <3>1 DEF Followed
    <3> QED  BY <2>2, <2>3, <3>2, <3>3
  <2>4. CASE e # Absent
    <3>1. Shape(e)  BY <2>4 DEF getEndpoint, Stored
    <3>2. /\ step'[c] = "put" /\ read'[c] = e /\ change'[c] = ch
          /\ \A d \in Call \ {c} : step'[d] = step[d] /\ read'[d] = read[d] /\ change'[d] = change[d]
      BY <2>2, <2>4
    <3>3. Stored'  BY <2>1, <2>4, <3>1, <3>2 DEF Stored, Shape
    <3>4. alone' => alone /\ e = row /\ \A d \in Call : step[d] # "put"
      BY <2>2, <2>4 DEF Busy
    <3>5. Followed'  BY <2>1, <3>2, <3>4 DEF Followed
    <3> QED  BY <2>2, <2>4, <3>3, <3>5
  <2> QED  BY <2>3, <2>4
<1>5. ASSUME NEW c \in Call, putEndpointItem(c)  PROVE StoreInv'
  <2>1. /\ step[c] = "put" /\ adapter = "dynamo" /\ read[c] # Absent
        /\ Shape(read[c]) /\ change[c] \in Change
    BY <1>5 DEF putEndpointItem, Stored
  <2>e. PICK e : e = read[c]  OBVIOUS
  <2>2. PICK ch \in Change : ch = change[c]  BY <2>1
  <2>3. Changed(e, ch) = Asked(e, ch) /\ Shape(Asked(e, ch))
    BY <2>1, <2>e, <2>2, ChangedAsAsked
  <2>4. /\ row' = Asked(e, ch) /\ older' = older \cup {row}
        /\ wanted' = (IF wanted = Absent THEN Absent ELSE Asked(wanted, ch))
        /\ superseded' = superseded \cup {wanted}
        /\ step' = [step EXCEPT ![c] = "done"]
        /\ read' = [read EXCEPT ![c] = Absent] /\ change' = [change EXCEPT ![c] = NoChange]
        /\ UNCHANGED <<adapter, alone>>
    BY <1>5, <2>1, <2>e, <2>2, <2>3 DEF putEndpointItem, Store, Finish, Acknowledge
  <2>5. \A d \in Call : step'[d] = "put" =>
           d # c /\ step[d] = "put" /\ read'[d] = read[d] /\ change'[d] = change[d]
    BY <2>4
  <2>6. Stored'  BY <2>3, <2>4, <2>5 DEF Stored, Shape
  <2>7. Followed'  BY <2>1, <2>e, <2>2, <2>4, <2>5, Zenon DEF Followed
  <2> QED  BY <2>4, <2>6, <2>7
<1>6. ASSUME NEW c \in Call, NEW ch \in Change, Amend(c, ch)  PROVE StoreInv'
  <2>1. adapter = "durable" /\ UNCHANGED <<adapter, read, change>> /\ Begun
    BY <1>6, Zenon DEF Amend
  <2>2. CASE row = Absent
    <3>1. step' = [step EXCEPT ![c] = "failed"] /\ UNCHANGED <<row, older, issued, wanted, superseded>>
      BY <1>6, <2>2, Zenon DEF Amend
    <3>2. \A d \in Call : step'[d] = "put" => step[d] = "put"  BY <3>1
    <3>3. Stored'  BY <2>1, <3>1, <3>2 DEF Stored, Shape
    <3>4. Followed'  BY <2>1, <3>1, <3>2, BegunAlone DEF Followed
    <3> QED  BY <2>1, <3>1, <3>3, <3>4
  <2>3. CASE row # Absent
    <3>1. Store(Changed(row, ch)) /\ Finish(c, ch)  BY <1>6, <2>3, Zenon DEF Amend
    <3>2. PICK e : e = row  OBVIOUS
    <3>3. Shape(e)  BY <2>3, <3>2 DEF Stored
    <3>4. Changed(e, ch) = Asked(e, ch) /\ Shape(Asked(e, ch))  BY <3>3, ChangedAsAsked
    <3>5. /\ row' = Asked(e, ch) /\ older' = older /\ wanted' = Asked(e, ch)
          /\ superseded' = superseded
          /\ step' = [step EXCEPT ![c] = "done"]
      BY <2>1, <2>3, <3>1, <3>2, <3>4 DEF Store, Finish, Acknowledge, Followed
    <3>6. \A d \in Call : step'[d] = "put" => step[d] = "put"  BY <3>5
    <3>7. Stored'  BY <2>1, <3>4, <3>5, <3>6 DEF Stored, Shape
    <3>8. Followed'  BY <2>1, <3>5, <3>6, BegunAlone DEF Followed
    <3> QED  BY <2>1, <3>5, <3>7, <3>8
  <2> QED  BY <2>2, <2>3
<1>7. CASE CatchUp
  <2>1. Stored'  BY <1>7 DEF CatchUp, Stored, Shape
  <2>2. Followed'  BY <1>7 DEF CatchUp, Followed
  <2> QED  BY <1>7, <2>1, <2>2 DEF CatchUp
<1> QED  BY <1>1, <1>2, <1>3, <1>4, <1>5, <1>6, <1>7, Zenon DEF StoreNext

(***************************************************************************)
(* Floors: two moments at most n seconds apart are at most n apart when    *)
(* both are rounded down to seconds.                                       *)
(***************************************************************************)
LEMMA FloorDistance ==
    ASSUME NEW a \in Nat, NEW b \in Nat, a <= b, b - a <= Tolerance * Second
    PROVE  Distance(floorSeconds(b), floorSeconds(a)) <= Tolerance
<1>0. Second \in Nat /\ Second > 0 /\ Tolerance \in Nat  BY DeliveryAssumption
<1> DEFINE p == a \div Second
           q == b \div Second
<1>1. p \in Nat /\ q \in Nat  BY <1>0
<1>2. /\ Second * p <= a /\ a < Second * p + Second
      /\ Second * q <= b /\ b < Second * q + Second
  BY <1>0
<1> HIDE DEF p, q
<1>3. p <= q
  <2> SUFFICES ASSUME q + 1 <= p  PROVE FALSE  BY <1>1
  <2>1. Second * (q + 1) <= Second * p  BY <1>0, <1>1
  <2> QED  BY <1>0, <1>1, <1>2, <2>1
<1>4. q - p <= Tolerance
  <2> SUFFICES ASSUME p + Tolerance + 1 <= q  PROVE FALSE  BY <1>0, <1>1
  <2>1. Second * (p + Tolerance + 1) <= Second * q  BY <1>0, <1>1
  <2>2. Second * (p + Tolerance + 1) = Second * p + Tolerance * Second + Second  BY <1>0, <1>1
  <2> QED  BY <1>0, <1>1, <1>2, <2>1, <2>2
<1> QED  BY <1>0, <1>1, <1>3, <1>4 DEF Distance, floorSeconds, p, q

(***************************************************************************)
(* What holds of an attempt between its steps: a target is checked before  *)
(* it is signed for, the headers carry the secrets of the target and the   *)
(* second of the signing, and a receiver in the window has one of these.   *)
(***************************************************************************)
AttemptInv ==
    /\ now \in Nat
    /\ phase = "post" => allowed(target.url, EnginePolicy)
    /\ phase \in {"post", "sent"} => headers = sign(target.secrets, now)
    /\ phase \in {"check", "post", "sent"} /\ window # None =>
          \E i \in DOMAIN target.secrets : target.secrets[i] = window
    /\ RefusedNeverPosted
    /\ DeliveredMeansAccepted
    /\ FanoutFollowsRegistry

DeliveryInv == StoreInv /\ AttemptInv

\* A read returns what the calls asked for, last or before.
LEMMA ReadsAsAsked ==
    ASSUME StoreInv, NEW e \in getEndpoint
    PROVE  e \in Asks
BY DEF StoreInv, Asks, getEndpoint, Followed

\* No answer but a 2xx is a delivery.
LEMMA OnlySuccessDelivers ==
    ASSUME NEW a \in Answer, Classified(httpPost(a)).outcome = "delivered"
    PROVE  a.status = "2xx"
<1>1. a.status \in {"2xx", "opaqueredirect", "3xx", "4xx", "5xx", "429", "503"}
      /\ a = [status |-> a.status, retryAfter |-> a.retryAfter]
  BY DEF Answer
<1>2. httpPost(a).status = IF a.status = "opaqueredirect" THEN "3xx" ELSE a.status
  BY <1>1 DEF httpPost
<1>3. classifyOutcome(Class(httpPost(a).status)) = "delivered"
  BY Zenon DEF Classified
<1> QED  BY <1>1, <1>2, <1>3 DEF Class, classifyOutcome

\* The pattern that made the event a message covers its type.
LEMMA SubscriptionCovers ==
    ASSUME NEW e, e.eventTypes \in Subscription, subscribes(e, EventType),
           e # Absent, ~e.disabled
    PROVE  MayGet(e)
<1> SUFFICES \E p \in e.eventTypes : \E n \in 0..Len(p) :
                /\ n = Len(p) => p = EventType
                /\ n < Len(p) => p[Len(p)] = "*" /\ n = Len(p) - 1 /\ n < Len(EventType)
                /\ \A i \in 1..n : p[i] = EventType[i]
  BY Zenon DEF MayGet
<1>0. EventType \in Seq(STRING) /\ Len(EventType) \in Nat \ {0}
  BY DeliveryAssumption
<1>1. PICK p \in e.eventTypes :
         \/ p = <<"*">> \/ p = EventType
         \/ /\ Len(p) > 1 /\ p[Len(p)] = "*"
            /\ Len(EventType) >= Len(p)
            /\ SubSeq(EventType, 1, Len(p) - 1) = SubSeq(p, 1, Len(p) - 1)
  BY Zenon DEF subscribes
<1>2. p \in Seq(STRING) /\ Len(p) \in Nat  BY DeliveryAssumption
<1>3. CASE p = EventType
  <2> WITNESS p \in e.eventTypes
  <2>1. Len(p) \in 0..Len(p)  BY <1>2
  <2> WITNESS Len(p) \in 0..Len(p)
  <2> QED  BY <1>2, <1>3
<1>4. CASE p = <<"*">>
  <2>1. Len(p) = 1 /\ p[1] = "*"  BY <1>4
  <2> WITNESS p \in e.eventTypes
  <2> WITNESS 0 \in 0..Len(p)
  <2> QED  BY <1>0, <2>1
<1>5. CASE /\ Len(p) > 1 /\ p[Len(p)] = "*"
           /\ Len(EventType) >= Len(p)
           /\ SubSeq(EventType, 1, Len(p) - 1) = SubSeq(p, 1, Len(p) - 1)
  <2>1. \A i \in 1..Len(p) - 1 : p[i] = EventType[i]
    <3> SUFFICES ASSUME NEW i \in 1..Len(p) - 1  PROVE p[i] = EventType[i]
      OBVIOUS
    <3>1. SubSeq(p, 1, Len(p) - 1)[i] = p[i]  BY <1>2, <1>5
    <3>2. SubSeq(EventType, 1, Len(p) - 1)[i] = EventType[i]  BY <1>0, <1>2, <1>5
    <3> QED  BY <1>5, <3>1, <3>2
  <2>2. Len(p) - 1 \in 0..Len(p)  BY <1>2, <1>5
  <2> WITNESS p \in e.eventTypes
  <2> WITNESS Len(p) - 1 \in 0..Len(p)
  <2> QED  BY <1>0, <1>2, <1>5, <2>1
<1> QED  BY <1>1, <1>3, <1>4, <1>5

LEMMA DeliveryStart == Init => DeliveryInv
<1> SUFFICES ASSUME Init  PROVE DeliveryInv
  OBVIOUS
<1>1. StoreInv  BY StoreStart DEF Init
<1>2. now \in Nat  BY DeliveryAssumption DEF Init
<1>3. AttemptInv
  BY <1>2 DEF Init, AttemptInv, RefusedNeverPosted, DeliveredMeansAccepted, FanoutFollowsRegistry
<1> QED  BY <1>1, <1>3 DEF DeliveryInv

LEMMA AttemptInductive ==
    ASSUME DeliveryInv, [Next]_vars
    PROVE  AttemptInv'
<1> USE DEF DeliveryInv
<1>0. ASSUME UNCHANGED deliveryVars  PROVE AttemptInv'
  BY <1>0 DEF deliveryVars, attempt, AttemptInv, RefusedNeverPosted, DeliveredMeansAccepted, FanoutFollowsRegistry
<1>n. Passes => now' \in Nat  BY DeliveryAssumption DEF Passes, AttemptInv
<1>1. CASE Fanout
  <2>1. PICK e \in getEndpoint :
           phase' = IF e # Absent /\ ~e.disabled /\ subscribes(e, EventType)
                    THEN "queued" ELSE "dropped"
    BY <1>1, Zenon DEF Fanout, fanout
  <2>2. fanned'
    <3> SUFFICES ASSUME phase' = "queued"  PROVE \E x \in Asks : MayGet(x)
      BY <1>1, Zenon DEF Fanout
    <3>1. e \in Asks  BY ReadsAsAsked
    <3>2. e # Absent /\ ~e.disabled /\ subscribes(e, EventType)  BY <2>1
    <3>3. e.eventTypes \in Subscription  BY <3>2 DEF getEndpoint, StoreInv, Stored, Shape
    <3> QED  BY <3>1, <3>2, <3>3, SubscriptionCovers
  <2>3. phase' \in {"queued", "dropped"}  BY <2>1
  <2>4. UNCHANGED <<now, attempts, attempt, holds, posted>>  BY <1>1, Zenon DEF Fanout
  <2> QED  BY <2>2, <2>3, <2>4 DEF attempt, AttemptInv, RefusedNeverPosted, DeliveredMeansAccepted, FanoutFollowsRegistry
<1>2. CASE GetEndpoint
  <2>1. target' \in getEndpoint  BY <1>2, Zenon DEF GetEndpoint
  <2>2. phase' \in {"dead", "check"} /\ result' = None /\ UNCHANGED <<now, holds, posted, fanned>>
        /\ (phase' = "check" => target' # Absent)
    BY <1>2 DEF GetEndpoint, Gone
  <2>3. phase' = "check" /\ window' # None => \E i \in DOMAIN target'.secrets : target'.secrets[i] = window'
    <3> SUFFICES ASSUME phase' = "check", window' # None
                 PROVE  \E i \in DOMAIN target'.secrets : target'.secrets[i] = window'
      OBVIOUS
    <3>1. (\A e \in Asks \ {Absent} : Has(e, holds)) /\ window' = holds
      BY <1>2, Zenon DEF GetEndpoint
    <3>2. target' \in Asks \ {Absent}  BY <2>1, <2>2, ReadsAsAsked
    <3> QED  BY <3>1, <3>2, Zenon DEF Has
  <2> QED  BY <2>2, <2>3 DEF AttemptInv, RefusedNeverPosted, DeliveredMeansAccepted, FanoutFollowsRegistry
<1>3. CASE CheckAndSign
  <2>1. now' \in Nat /\ phase = "check" /\ UNCHANGED <<target, verdict, window, posted, fanned>>
    BY <1>3, <1>n, Zenon DEF CheckAndSign
  <2>2. CASE ~allowed(target.url, EnginePolicy)
    <3>1. result' = Blocked /\ phase' = "result"  BY <1>3, <2>2, Zenon DEF CheckAndSign
    <3> QED  BY <2>1, <3>1 DEF Blocked, AttemptInv, RefusedNeverPosted, DeliveredMeansAccepted, FanoutFollowsRegistry
  <2>3. CASE allowed(target.url, EnginePolicy)
    <3>1. headers' = sign(target.secrets, now') /\ phase' = "post" /\ UNCHANGED result
      BY <1>3, <2>3, Zenon DEF CheckAndSign
    <3>2. headers' = sign(target'.secrets, now')  BY <2>1, <3>1
    <3>3. allowed(target'.url, EnginePolicy)  BY <2>1, <2>3
    <3> QED  BY <2>1, <3>1, <3>2, <3>3 DEF AttemptInv, RefusedNeverPosted, DeliveredMeansAccepted, FanoutFollowsRegistry
  <2> QED  BY <2>2, <2>3
<1>4. CASE Post
  <2>1. phase = "post" /\ UNCHANGED <<now, target, headers, verdict, window, fanned>>
    BY <1>4, Zenon DEF Post
  <2>2. CASE ~allowed(target.url, ClientPolicy)
    <3>1. result' = Unanswered("network") /\ phase' = "result" /\ UNCHANGED posted
      BY <1>4, <2>2, Zenon DEF Post
    <3> QED  BY <2>1, <3>1 DEF Unanswered, AttemptInv, RefusedNeverPosted, DeliveredMeansAccepted, FanoutFollowsRegistry
  <2>3. CASE allowed(target.url, ClientPolicy)
    <3>1. posted' = posted \cup {target.url} /\ phase' = "sent" /\ UNCHANGED result
      BY <1>4, <2>3, Zenon DEF Post
    <3>2. RefusedNeverPosted'
      BY <2>1, <2>3, <3>1 DEF AttemptInv, RefusedNeverPosted
    <3>3. headers' = sign(target'.secrets, now')  BY <2>1 DEF AttemptInv
    <3> QED  BY <2>1, <3>1, <3>2, <3>3 DEF AttemptInv, DeliveredMeansAccepted, FanoutFollowsRegistry
  <2> QED  BY <2>2, <2>3
<1>5. CASE Receive
  <2>1. now' \in Nat /\ phase' = "result" /\ UNCHANGED <<posted, fanned>>
    BY <1>5, <1>n, Zenon DEF Receive
  <2>2. DeliveredMeansAccepted'
    <3>1. CASE ~verify(headers, holds, now')
      <4>1. PICK a \in Refusal : result' = Classified(httpPost(a))
        BY <1>5, <3>1, Zenon DEF Receive
      <4>2. a \in Answer /\ a.status = "4xx"  BY DEF Refusal, Answer
      <4>3. Classified(httpPost(a)).outcome # "delivered"  BY <4>2, OnlySuccessDelivers
      <4> QED  BY <4>1, <4>3 DEF DeliveredMeansAccepted
    <3>2. CASE verify(headers, holds, now')
      <4>1. PICK a \in Answer :
               /\ verdict' = IF a.status = "2xx" THEN "accepted" ELSE "declined"
               /\ result' \in {Classified(httpPost(a)), Unanswered("timeout")}
        BY <1>5, <3>2, Zenon DEF Receive
      <4>2. Classified(httpPost(a)).outcome = "delivered" => a.status = "2xx"
        BY OnlySuccessDelivers
      <4>3. Unanswered("timeout").outcome = "retryable"  BY DEF Unanswered
      <4> QED  BY <4>1, <4>2, <4>3 DEF DeliveredMeansAccepted
    <3> QED  BY <3>1, <3>2
  <2> QED  BY <2>1, <2>2 DEF AttemptInv, RefusedNeverPosted, FanoutFollowsRegistry
<1>6. CASE Lose
  <2>1. (result' = Unanswered("timeout") \/ result' = Unanswered("network"))
        /\ phase' = "result" /\ UNCHANGED <<now, posted, fanned>>
    BY <1>6 DEF Lose
  <2> QED  BY <2>1 DEF Unanswered, AttemptInv, RefusedNeverPosted, DeliveredMeansAccepted, FanoutFollowsRegistry
<1>7. CASE Retry
  <2>1. now' \in Nat /\ phase' = "queued" /\ UNCHANGED <<attempt, posted, fanned>>
    BY <1>7, <1>n, Zenon DEF Retry
  <2> QED  BY <2>1 DEF attempt, AttemptInv, RefusedNeverPosted, DeliveredMeansAccepted, FanoutFollowsRegistry
<1>8. CASE Install
  <2>1. UNCHANGED <<now, phase, attempt, posted, fanned>>  BY <1>8, Zenon DEF Install
  <2> QED  BY <2>1 DEF attempt, AttemptInv, RefusedNeverPosted, DeliveredMeansAccepted, FanoutFollowsRegistry
<1> QED  BY <1>0, <1>1, <1>2, <1>3, <1>4, <1>5, <1>6, <1>7, <1>8, Zenon DEF Next, vars

LEMMA DeliveryInductive == DeliveryInv /\ [Next]_vars => DeliveryInv'
<1> SUFFICES ASSUME DeliveryInv, [Next]_vars  PROVE DeliveryInv'
  OBVIOUS
<1>1. AttemptInv'  BY AttemptInductive
<1>2. [StoreNext]_storeVars
  BY Zenon DEF Next, vars, Fanout, GetEndpoint, CheckAndSign, Post, Receive, Lose, Retry, Install
<1>3. StoreInv'  BY <1>2, StoreInductive DEF DeliveryInv
<1> QED  BY <1>1, <1>3 DEF DeliveryInv

-----------------------------------------------------------------------------
(***************************************************************************)
(* Types.  An endpoint has at least one secret, all of them issued: a      *)
(* rotation keeps the first one, so it must be there.                      *)
(***************************************************************************)
Usable(n) ==
    [url: Url, eventTypes: Subscription, disabled: BOOLEAN, secrets: Seq(1..n) \ {<<>>}]

StoreTypes ==
    /\ adapter \in {"dynamo", "durable"} /\ issued \in Nat /\ alone \in BOOLEAN
    /\ row \in Usable(issued) \cup {Absent} /\ wanted \in Usable(issued) \cup {Absent}
    /\ older \subseteq Usable(issued) \cup {Absent}
    /\ superseded \subseteq Usable(issued) \cup {Absent}
    /\ adapter = "durable" => older = {} /\ superseded = {}
    /\ step \in [Call -> {"new", "put", "done", "failed"}]
    /\ read \in [Call -> Usable(issued) \cup {Absent}]
    /\ change \in [Call -> Change \cup {NoChange}]
    /\ \A c \in Call : step[c] = "put" =>
          adapter = "dynamo" /\ read[c] # Absent /\ change[c] \in Change

LEMMA UsableTyped == StoreTypes => StoreTypeOK
<1>1. Usable(issued) \subseteq Endpoint  BY DEF Usable, Endpoint
<1> QED  BY <1>1 DEF StoreTypes, StoreTypeOK

LEMMA UsableGrows ==
    ASSUME NEW n \in Nat, NEW m \in Nat, n <= m
    PROVE  Usable(n) \subseteq Usable(m)
<1>1. Seq(1..n) \subseteq Seq(1..m)
  <2> SUFFICES ASSUME NEW q \in Seq(1..n)  PROVE q \in Seq(1..m)
    OBVIOUS
  <2>1. \A i \in 1..Len(q) : q[i] \in 1..m  OBVIOUS
  <2> QED  BY <2>1
<1> QED  BY <1>1 DEF Usable

LEMMA ShapeUsable ==
    ASSUME NEW n, NEW e, Shape(e), e.secrets \in Seq(1..n) \ {<<>>}
    PROVE  e \in Usable(n)
BY DEF Shape, Usable

\* A changed endpoint has its secrets from those issued by then.
LEMMA ChangedUsable ==
    ASSUME issued \in Nat, NEW e \in Usable(issued), NEW ch \in Change
    PROVE  LET n == IF ch.rotate THEN issued + 1 ELSE issued
           IN  Changed(e, ch) \in Usable(n) /\ Asked(e, ch) \in Usable(n)
<1>1. Shape(e) /\ e.secrets \in Seq(1..issued) /\ e.secrets # <<>>
  BY DEF Usable, Shape
<1>2. Changed(e, ch) = Asked(e, ch) /\ Shape(Asked(e, ch))
  BY <1>1, ChangedAsAsked
<1>3. Asked(e, ch).secrets = IF ch.rotate THEN <<issued + 1, e.secrets[1]>> ELSE e.secrets
  BY DEF Asked
<1>4. e.secrets[1] \in 1..issued  BY <1>1
<1>5. CASE ch.rotate
  <2>1. <<issued + 1, e.secrets[1]>> \in Seq(1..(issued + 1)) \ {<<>>}  BY <1>4
  <2> QED  BY <1>2, <1>3, <1>5, <2>1, ShapeUsable
<1>6. CASE ~ch.rotate
  BY <1>1, <1>2, <1>3, <1>6, ShapeUsable
<1> QED  BY <1>5, <1>6

LEMMA StoreTypesStep == StoreTypes /\ [StoreNext]_storeVars => StoreTypes'
<1> SUFFICES ASSUME StoreTypes, [StoreNext]_storeVars  PROVE StoreTypes'
  OBVIOUS
<1>0. /\ adapter \in {"dynamo", "durable"} /\ issued \in Nat /\ alone \in BOOLEAN
      /\ row \in Usable(issued) \cup {Absent} /\ wanted \in Usable(issued) \cup {Absent}
      /\ older \subseteq Usable(issued) \cup {Absent}
      /\ superseded \subseteq Usable(issued) \cup {Absent}
      /\ (adapter = "durable" => older = {} /\ superseded = {})
      /\ step \in [Call -> {"new", "put", "done", "failed"}]
      /\ read \in [Call -> Usable(issued) \cup {Absent}]
      /\ change \in [Call -> Change \cup {NoChange}]
      /\ \A c \in Call : step[c] = "put" =>
            adapter = "dynamo" /\ read[c] # Absent /\ change[c] \in Change
  BY DEF StoreTypes
<1>1. CASE UNCHANGED storeVars  BY <1>1, Zenon DEF storeVars, StoreTypes
<1>a. Begun => alone' \in BOOLEAN  BY DEF Begun
<1>2. ASSUME NEW c \in Call, createEndpoint(c)  PROVE StoreTypes'
  <2>1. PICK u \in Url, t \in Subscription :
           LET e == [url |-> u, eventTypes |-> t, disabled |-> FALSE, secrets |-> <<1>>]
           IN  Store(e) /\ Acknowledge(e)
    BY <1>2, Zenon DEF createEndpoint
  <2> DEFINE e == [url |-> u, eventTypes |-> t, disabled |-> FALSE, secrets |-> <<1>>]
  <2>2. issued' = 1 /\ Usable(issued) \subseteq Usable(1) /\ UNCHANGED <<adapter, read, change>>
        /\ alone' \in BOOLEAN /\ step' = [step EXCEPT ![c] = "done"]
    BY <1>0, <1>2, <1>a, UsableGrows DEF createEndpoint
  <2>3. e \in Usable(1)
    <3>1. <<1>> \in Seq(1..1) /\ <<1>> # <<>>  OBVIOUS
    <3> QED  BY <3>1 DEF Usable
  <2>4. /\ row' = e /\ wanted' = e
        /\ older' = IF adapter = "dynamo" THEN older \cup {row} ELSE older
        /\ superseded' = IF adapter = "dynamo" THEN superseded \cup {wanted} ELSE superseded
    BY <2>1, Zenon DEF Store, Acknowledge
  <2> HIDE DEF e
  <2> QED  BY <1>0, <2>2, <2>3, <2>4 DEF StoreTypes
<1>3. ASSUME NEW c \in Call, NEW ch \in Change, Fetch(c, ch)  PROVE StoreTypes'
  <2>0. /\ UNCHANGED <<adapter, row, older, issued, wanted, superseded>> /\ alone' \in BOOLEAN
        /\ adapter = "dynamo"
    BY <1>0, <1>3 DEF Fetch
  <2>1. CASE step' = [step EXCEPT ![c] = "failed"] /\ UNCHANGED <<read, change>>
    BY <1>0, <2>0, <2>1 DEF StoreTypes
  <2>2. ASSUME NEW e \in getEndpoint, e # Absent, step' = [step EXCEPT ![c] = "put"],
               read' = [read EXCEPT ![c] = e], change' = [change EXCEPT ![c] = ch]
        PROVE  StoreTypes'
    <3>1. e \in Usable(issued)  BY <1>0, <2>2 DEF getEndpoint
    <3> QED  BY <1>0, <2>0, <2>2, <3>1 DEF StoreTypes
  <2> QED  BY <1>3, <2>1, <2>2, Zenon DEF Fetch
<1>4. ASSUME NEW c \in Call, NEW e \in Usable(issued), NEW ch \in Change,
             Store(Changed(e, ch)), Finish(c, ch), UNCHANGED adapter, alone' \in BOOLEAN,
             \/ UNCHANGED <<read, change>>
             \/ /\ read' = [read EXCEPT ![c] = Absent]
                /\ change' = [change EXCEPT ![c] = NoChange]
      PROVE  StoreTypes'
  <2> DEFINE n == IF ch.rotate THEN issued + 1 ELSE issued
  <2>1. issued' = n /\ n \in Nat /\ issued <= n
    BY <1>0, <1>4 DEF Finish
  <2>2. Changed(e, ch) \in Usable(n) /\ (wanted # Absent => Asked(wanted, ch) \in Usable(n))
    BY <1>0, ChangedUsable
  <2>3. Usable(issued) \subseteq Usable(n)  BY <1>0, <2>1, UsableGrows
  <2>4. /\ wanted' = (IF wanted = Absent THEN Absent ELSE Asked(wanted, ch))
        /\ step' = [step EXCEPT ![c] = "done"] /\ row' = Changed(e, ch)
        /\ older' = IF adapter = "dynamo" THEN older \cup {row} ELSE older
        /\ superseded' = IF adapter = "dynamo" THEN superseded \cup {wanted} ELSE superseded
    BY <1>4, Zenon DEF Finish, Store, Acknowledge
  <2> HIDE DEF n
  <2>5. row' \in Usable(issued') /\ wanted' \in Usable(issued') \cup {Absent}
    BY <2>1, <2>2, <2>4
  <2>6. /\ older' \subseteq Usable(issued') \cup {Absent}
        /\ superseded' \subseteq Usable(issued') \cup {Absent}
        /\ (adapter' = "durable" => older' = {} /\ superseded' = {})
    BY <1>0, <1>4, <2>1, <2>3, <2>4
  <2>7. /\ read' \in [Call -> Usable(issued') \cup {Absent}]
        /\ change' \in [Call -> Change \cup {NoChange}]
    BY <1>0, <1>4, <2>1, <2>3
  <2>8. /\ step' \in [Call -> {"new", "put", "done", "failed"}]
        /\ \A d \in Call : step'[d] = "put" =>
              adapter' = "dynamo" /\ read'[d] # Absent /\ change'[d] \in Change
    BY <1>0, <1>4, <2>4
  <2> QED  BY <1>0, <1>4, <2>1, <2>5, <2>6, <2>7, <2>8, Zenon DEF StoreTypes
<1>5. ASSUME NEW c \in Call, putEndpointItem(c)  PROVE StoreTypes'
  <2>1. read[c] \in Usable(issued) /\ change[c] \in Change
    BY <1>0, <1>5 DEF putEndpointItem
  <2> QED  BY <1>0, <1>4, <1>5, <2>1 DEF putEndpointItem
<1>6. ASSUME NEW c \in Call, NEW ch \in Change, Amend(c, ch)  PROVE StoreTypes'
  <2>0. UNCHANGED <<adapter, read, change>> /\ alone' \in BOOLEAN
    BY <1>6, <1>a, Zenon DEF Amend
  <2>1. CASE step' = [step EXCEPT ![c] = "failed"] /\ UNCHANGED <<row, older, issued, wanted, superseded>>
    BY <1>0, <2>0, <2>1 DEF StoreTypes
  <2>2. CASE row # Absent /\ Store(Changed(row, ch)) /\ Finish(c, ch)
    BY <1>0, <1>4, <2>0, <2>2
  <2> QED  BY <1>6, <2>1, <2>2, Zenon DEF Amend
<1>7. ASSUME NEW c \in Call, deleteEndpoint(c)  PROVE StoreTypes'
  <2>1. /\ UNCHANGED <<adapter, issued, read, change>> /\ alone' \in BOOLEAN
        /\ row' = Absent /\ wanted' = Absent /\ step' = [step EXCEPT ![c] = "done"]
        /\ older' = IF adapter = "dynamo" THEN older \cup {row} ELSE older
        /\ superseded' = IF adapter = "dynamo" THEN superseded \cup {wanted} ELSE superseded
    BY <1>7, <1>a, Zenon DEF deleteEndpoint, Store, Acknowledge
  <2> QED  BY <1>0, <2>1 DEF StoreTypes
<1>8. CASE CatchUp
  BY <1>0, <1>8 DEF CatchUp, StoreTypes
<1> QED  BY <1>1, <1>2, <1>3, <1>5, <1>6, <1>7, <1>8, Zenon DEF StoreNext

LEMMA IssuedGrows == StoreTypes /\ [StoreNext]_storeVars => issued' \in Nat /\ issued <= issued'
<1> SUFFICES ASSUME StoreTypes, [StoreNext]_storeVars  PROVE issued' \in Nat /\ issued <= issued'
  OBVIOUS
<1>0. issued \in Nat  BY DEF StoreTypes
<1>1. \A c \in Call, ch \in Change \cup {NoChange} : Finish(c, ch) => issued' \in {issued, issued + 1}
  BY DEF Finish
<1>2. issued' \in {1, issued, issued + 1} /\ (issued' = 1 => issued = 0 \/ issued = 1)
  <2>1. ASSUME NEW c \in Call, putEndpointItem(c)  PROVE issued' \in {issued, issued + 1}
    BY <1>1, <2>1 DEF putEndpointItem, StoreTypes
  <2>2. ASSUME NEW c \in Call, NEW ch \in Change, Amend(c, ch)  PROVE issued' \in {issued, issued + 1}
    BY <1>1, <2>2 DEF Amend
  <2>3. ASSUME NEW c \in Call, NEW ch \in Change, Fetch(c, ch) \/ deleteEndpoint(c)
        PROVE  issued' = issued
    BY <2>3 DEF Fetch, deleteEndpoint
  <2>4. ASSUME NEW c \in Call, createEndpoint(c)  PROVE issued = 0 /\ issued' = 1
    BY <2>4 DEF createEndpoint
  <2>5. CatchUp \/ UNCHANGED storeVars => issued' = issued  BY DEF CatchUp, storeVars
  <2>6. ASSUME NEW c \in Call, deleteEndpoint(c)  PROVE issued' = issued
    BY <2>6 DEF deleteEndpoint
  <2>7. issued' = issued \/ issued' = issued + 1 \/ (issued = 0 /\ issued' = 1)
    BY <2>1, <2>2, <2>3, <2>4, <2>5, <2>6, Zenon DEF StoreNext
  <2> QED  BY <1>0, <2>7
<1> QED  BY <1>0, <1>2

\* What the types of an attempt rest on.
DeliveryTypes ==
    /\ StoreTypes
    /\ now \in 0..MaxNow /\ attempts \in 0..MaxAttempts
    /\ phase \in {"event", "dropped", "queued", "dead", "check", "post", "sent", "result"}
    /\ target \in Usable(issued) \cup {Absent}
    /\ holds \in 1..issued \cup {None} /\ window \in 1..issued \cup {None}
    /\ posted \subseteq Url
    /\ verdict \in {"none", "refused", "declined", "accepted"}
    /\ phase \in {"check", "post", "sent"} => target # Absent

LEMMA TypesStart == Init => DeliveryTypes
<1> SUFFICES ASSUME Init  PROVE DeliveryTypes
  OBVIOUS
<1>1. StoreTypes  BY DEF Init, StoreInit, StoreTypes
<1>2. now \in 0..MaxNow /\ 0 \in 0..MaxAttempts  BY DeliveryAssumption DEF Init
<1> QED  BY <1>1, <1>2 DEF Init, DeliveryTypes

LEMMA TypesStep == DeliveryTypes /\ [Next]_vars => DeliveryTypes'
<1> SUFFICES ASSUME DeliveryTypes, [Next]_vars  PROVE DeliveryTypes'
  OBVIOUS
<1>0. /\ StoreTypes /\ issued \in Nat /\ MaxNow \in Nat /\ MaxAttempts \in Nat
      /\ now \in 0..MaxNow /\ attempts \in 0..MaxAttempts
      /\ target \in Usable(issued) \cup {Absent}
      /\ holds \in 1..issued \cup {None} /\ window \in 1..issued \cup {None}
      /\ posted \subseteq Url
      /\ verdict \in {"none", "refused", "declined", "accepted"}
      /\ phase \in {"check", "post", "sent"} => target # Absent
  BY DeliveryAssumption DEF DeliveryTypes, StoreTypes
<1>1. [StoreNext]_storeVars
  BY Zenon DEF Next, vars, Fanout, GetEndpoint, CheckAndSign, Post, Receive, Lose, Retry, Install
<1>2. StoreTypes'  BY <1>0, <1>1, StoreTypesStep
<1>3. CASE UNCHANGED deliveryVars
  <2>1. issued' \in Nat /\ issued <= issued'  BY <1>0, <1>1, IssuedGrows
  <2>2. Usable(issued) \subseteq Usable(issued') /\ 1..issued \subseteq 1..issued'
    BY <1>0, <2>1, UsableGrows
  <2>3. UNCHANGED <<now, phase, attempts, target, holds, window, posted, verdict>>
    BY <1>3, Zenon DEF deliveryVars, attempt
  <2>4. /\ target' \in Usable(issued') \cup {Absent}
        /\ holds' \in 1..issued' \cup {None} /\ window' \in 1..issued' \cup {None}
    BY <1>0, <2>2, <2>3, Zenon
  <2> QED  BY <1>2, <2>3, <2>4, Zenon DEF DeliveryTypes
<1>n. Passes => now' \in 0..MaxNow  BY <1>0 DEF Passes
<1>4. CASE Fanout
  <2>1. phase' \in {"queued", "dropped"} /\ UNCHANGED <<issued, now, attempts, target, holds, window, posted, verdict>>
    BY <1>4 DEF Fanout, fanout, storeVars, attempt
  <2> QED  BY <1>0, <1>2, <2>1 DEF DeliveryTypes
<1>5. CASE GetEndpoint
  <2>1. /\ target' \in getEndpoint /\ phase' \in {"dead", "check"}
        /\ phase' = "check" => target' # Absent
        /\ window' \in {holds, None} /\ attempts' \in 0..MaxAttempts /\ verdict' = "none"
        /\ UNCHANGED <<issued, now, holds, posted>>
    BY <1>0, <1>5 DEF GetEndpoint, Gone, storeVars
  <2>2. target' \in Usable(issued) \cup {Absent}
    BY <1>0, <2>1 DEF getEndpoint, StoreTypes
  <2> QED  BY <1>0, <1>2, <2>1, <2>2 DEF DeliveryTypes
<1>6. CASE CheckAndSign
  <2>1. /\ phase = "check" /\ phase' \in {"result", "post"} /\ now' \in 0..MaxNow
        /\ UNCHANGED <<issued, attempts, target, verdict, window, holds, posted>>
    BY <1>6, <1>n DEF CheckAndSign, storeVars
  <2> QED  BY <1>0, <1>2, <2>1 DEF DeliveryTypes
<1>7. CASE Post
  <2>1. /\ phase = "post" /\ phase' \in {"result", "sent"} /\ posted' \subseteq posted \cup {target.url}
        /\ UNCHANGED <<issued, now, attempts, target, verdict, window, holds>>
    BY <1>7 DEF Post, storeVars
  <2>2. target.url \in Url  BY <1>0, <2>1 DEF Usable
  <2> QED  BY <1>0, <1>2, <2>1, <2>2 DEF DeliveryTypes
<1>8. CASE Receive
  <2>1. /\ phase' = "result" /\ now' \in 0..MaxNow
        /\ UNCHANGED <<issued, attempts, target, window, holds, posted>>
    BY <1>8, <1>n, Zenon DEF Receive, storeVars
  <2>2. verdict' \in {"refused", "declined", "accepted"}
    <3>1. verdict' = "refused" \/ \E a \in Answer : verdict' = IF a.status = "2xx" THEN "accepted" ELSE "declined"
      BY <1>8, Zenon DEF Receive
    <3> QED  BY <3>1
  <2> QED  BY <1>0, <1>2, <2>1, <2>2 DEF DeliveryTypes
<1>9. CASE Lose \/ Retry
  <2>1. /\ phase' \in {"result", "queued"} /\ now' \in 0..MaxNow
        /\ UNCHANGED <<issued, attempts, target, verdict, window, holds, posted>>
    BY <1>0, <1>9, <1>n DEF Lose, Retry, storeVars, attempt
  <2> QED  BY <1>0, <1>2, <2>1 DEF DeliveryTypes
<1>10. CASE Install
  <2>1. issued > 0 /\ holds' = issued /\ UNCHANGED <<issued, now, phase, attempts, target, verdict, window, posted>>
    BY <1>10, Zenon DEF Install, storeVars, attempt
  <2>2. holds' \in 1..issued'  BY <1>0, <2>1
  <2> QED  BY <1>0, <1>2, <2>1, <2>2 DEF DeliveryTypes
<1>11. Next \/ UNCHANGED vars => UNCHANGED deliveryVars \/ Fanout \/ GetEndpoint \/ CheckAndSign \/ Post
                                   \/ Receive \/ Lose \/ Retry \/ Install
  BY Zenon DEF Next, vars
<1> QED  BY <1>3, <1>4, <1>5, <1>6, <1>7, <1>8, <1>9, <1>10, <1>11, Zenon

-----------------------------------------------------------------------------
(***************************************************************************)
(* What processMessage may rely on in a result of deliverOnce.             *)
(***************************************************************************)
Fits(r) ==
    /\ r.blocked \/ \E s \in AttemptStatus : r.outcome = classifyOutcome(s)
    /\ r.blocked => r.outcome = "permanent"
    /\ r.outcome = "retryable" =>
          \A n \in Int : nextDelayMs(n, r.retryAfter) \subseteq nextDelays(n)

\* A capped Retry-After, or no Retry-After, leads to a delay that the schedule
\* of the engine allows.
LEMMA DelaysFit ==
    ASSUME NEW n \in Int, NEW r, r = None \/ r \in Nat
    PROVE  nextDelayMs(n, r) \subseteq nextDelays(n)
<1>0. Len(Schedule) \in Nat /\ RetryAfterCap \in Nat  BY PolicyAssumption
<1>1. CASE r = None
  BY <1>0, <1>1 DEF nextDelayMs, nextDelays
<1>2. CASE r # None
  <2>1. (IF r > RetryAfterCap THEN RetryAfterCap ELSE r) \in 0..RetryAfterCap
    BY <1>0, <1>2
  <2> QED  BY <1>0, <1>2, <2>1 DEF nextDelayMs, nextDelays
<1> QED  BY <1>1, <1>2

LEMMA UnansweredFits ==
    ASSUME NEW s \in {"timeout", "network"}
    PROVE  Fits(Unanswered(s))
<1>1. Unanswered(s).outcome = classifyOutcome(s) /\ s \in AttemptStatus /\ ~Unanswered(s).blocked
      /\ Unanswered(s).retryAfter = None
  BY DEF Unanswered, classifyOutcome, AttemptStatus
<1> QED  BY <1>1, DelaysFit, Zenon DEF Fits

LEMMA BlockedFits == Fits(Blocked)
BY DEF Fits, Blocked

LEMMA ClassifiedFits ==
    ASSUME NEW a \in Answer
    PROVE  Fits(Classified(httpPost(a)))
<1>1. /\ a.status \in {"2xx", "opaqueredirect", "3xx", "4xx", "5xx", "429", "503"}
      /\ a = [status |-> a.status, retryAfter |-> a.retryAfter]
      /\ a.retryAfter \in RetryAfterHeader
  BY DEF Answer, RetryAfterHeader
<1> DEFINE b == httpPost(a)
<1>2. /\ b.status \in {"2xx", "3xx", "4xx", "5xx", "429", "503"}
      /\ b.retryAfter \in RetryAfterHeader
  BY <1>1 DEF httpPost
<1> HIDE DEF b
<1>3. Class(b.status) \in AttemptStatus
  BY <1>2 DEF Class, AttemptStatus
<1>4. parseRetryAfter(b.retryAfter) = None \/ parseRetryAfter(b.retryAfter) \in Nat
  <2>1. b.retryAfter = None \/ b.retryAfter \in Int
    BY <1>2, PolicyAssumption DEF RetryAfterHeader
  <2> QED  BY <2>1, DeliveryAssumption DEF parseRetryAfter
<1>5. /\ Classified(b).outcome = classifyOutcome(Class(b.status)) /\ ~Classified(b).blocked
      /\ Classified(b).retryAfter = None \/ Classified(b).retryAfter \in Nat
  BY <1>4 DEF Classified
<1>6. Fits(Classified(b))  BY <1>3, <1>5, DelaysFit, Zenon DEF Fits
<1> QED  BY <1>6 DEF b

ResultFits == result # None => Fits(result)

LEMMA ResultStep == ResultFits /\ [Next]_vars => ResultFits'
<1> SUFFICES ASSUME ResultFits, [Next]_vars  PROVE ResultFits'
  OBVIOUS
<1>1. CASE UNCHANGED result  BY <1>1 DEF ResultFits, Fits, nextDelayMs, nextDelays
<1>2. CASE result' = None  BY <1>2 DEF ResultFits
<1>3. ASSUME NEW r, Fits(r), result' = r  PROVE ResultFits'
  BY <1>3 DEF ResultFits, Fits, nextDelayMs, nextDelays
<1>4. CASE CheckAndSign
  BY <1>1, <1>3, <1>4, BlockedFits, Zenon DEF CheckAndSign
<1>5. CASE Post
  <2>1. Fits(Unanswered("network"))  BY UnansweredFits
  <2> QED  BY <1>1, <1>3, <1>5, <2>1, Zenon DEF Post
<1>6. CASE Receive
  <2>1. Fits(Unanswered("timeout"))  BY UnansweredFits
  <2>2. Refusal \subseteq Answer  BY DEF Refusal, Answer
  <2>3. \E a \in Answer : result' \in {Classified(httpPost(a)), Unanswered("timeout")}
    BY <1>6, <2>2, Zenon DEF Receive
  <2> QED  BY <1>3, <2>1, <2>3, ClassifiedFits, Zenon
<1>7. CASE Lose
  BY <1>3, <1>7, UnansweredFits, Zenon DEF Lose
<1>8. CASE GetEndpoint  BY <1>2, <1>8, Zenon DEF GetEndpoint
<1>9. CASE Fanout \/ Retry \/ Install \/ UNCHANGED deliveryVars
  BY <1>1, <1>9, Zenon DEF Fanout, Retry, Install, deliveryVars, attempt
<1> QED  BY <1>4, <1>5, <1>6, <1>7, <1>8, <1>9, Zenon DEF Next, vars

(***************************************************************************)
(* The registry and the attempts are well typed: among others, every       *)
(* stored endpoint has a secret, and an attempt that checks, signs or      *)
(* posts has a target.  (endpoints.ts, state-dynamo.ts, deliver.ts)        *)
(***************************************************************************)
THEOREM DeliveryTyped == Spec => []TypeOK
<1>1. Init => DeliveryTypes  BY TypesStart
<1>2. DeliveryTypes /\ [Next]_vars => DeliveryTypes'  BY TypesStep
<1>3. DeliveryTypes => TypeOK
  <2>1. Usable(issued) \subseteq Endpoint  BY DEF Usable, Endpoint
  <2> QED  BY <2>1, UsableTyped DEF DeliveryTypes, TypeOK
<1> QED  BY <1>1, <1>2, <1>3, PTL DEF Spec

(***************************************************************************)
(* Whatever the receiver answers, and whatever Retry-After it sends, the   *)
(* result of deliverOnce is one that the model of processMessage chooses   *)
(* from, and its retry delay one that nextDelays has.  (deliver.ts,        *)
(* outcome.ts, retry.ts)                                                   *)
(***************************************************************************)
THEOREM ResultsFitEngine == Spec => []ResultsAsEngineAssumes
<1>1. Init => DeliveryTypes /\ ResultFits  BY TypesStart DEF Init, ResultFits
<1>2. DeliveryTypes /\ ResultFits /\ [Next]_vars => (DeliveryTypes /\ ResultFits)'
  BY TypesStep, ResultStep
<1>3. DeliveryTypes /\ ResultFits => ResultsAsEngineAssumes
  <2>1. DeliveryTypes => attempts - 1 \in Int  BY DEF DeliveryTypes
  <2> QED  BY <2>1, Zenon DEF ResultFits, Fits, ResultsAsEngineAssumes
<1> QED  BY <1>1, <1>2, <1>3, PTL DEF Spec

-----------------------------------------------------------------------------
\* A request that reaches a receiver in the window in time is not refused.
LEMMA InWindowVerifies ==
    ASSUME DeliveryInv, Receive, window # None, window = holds,
           now' - now <= Tolerance * Second
    PROVE  verdict' # "refused"
<1>1. /\ now \in Nat /\ headers = sign(target.secrets, now)
      /\ \E i \in DOMAIN target.secrets : target.secrets[i] = holds
  BY DEF Receive, DeliveryInv, AttemptInv
<1>2. holds \in headers.signatures /\ headers.timestamp = floorSeconds(now)
  BY <1>1 DEF sign
<1>3. PICK t \in Nat : t = now' /\ now <= t
  BY <1>1, DeliveryAssumption DEF Receive, Passes
<1>4. PICK n \in Nat : n = now  BY <1>1
<1>5. Distance(floorSeconds(t), floorSeconds(n)) <= Tolerance
  BY <1>3, <1>4, FloorDistance
<1>6. verify(headers, holds, now')
  BY <1>2, <1>3, <1>4, <1>5, Zenon DEF verify
<1> QED  BY <1>6 DEF Receive

\* The invariant from which the theorems below follow.
THEOREM DeliveryInvariantHolds == Spec => []DeliveryInv
<1>1. Init => DeliveryInv  BY DeliveryStart
<1>2. DeliveryInv /\ [Next]_vars => DeliveryInv'  BY DeliveryInductive
<1> QED  BY <1>1, <1>2, PTL DEF Spec

(***************************************************************************)
(* No acknowledged change of an endpoint is lost in the tenant object, nor *)
(* in the table as long as calls follow each other and read what is        *)
(* stored.  (tenant-do.ts, state-dynamo.ts)                                *)
(***************************************************************************)
THEOREM ChangesKept == Spec => []NothingLost
<1>1. DeliveryInv => NothingLost
  BY DEF DeliveryInv, StoreInv, Followed, NothingLost
<1> QED  BY <1>1, DeliveryInvariantHolds, PTL

(***************************************************************************)
(* Requests leave only for targets that both policies allow, also when the *)
(* url is patched while an attempt runs.  (deliver.ts, http-fetch.ts)      *)
(***************************************************************************)
THEOREM DeliverySafe == Spec => []RefusedNeverPosted
<1>1. DeliveryInv => RefusedNeverPosted  BY DEF DeliveryInv, AttemptInv
<1> QED  BY <1>1, DeliveryInvariantHolds, PTL

(***************************************************************************)
(* Only a request that the receiver verified and took with a 2xx counts as *)
(* delivered.  (http-fetch.ts, deliver.ts, outcome.ts)                     *)
(***************************************************************************)
THEOREM OnlyAcceptedDelivered == Spec => []DeliveredMeansAccepted
<1>1. DeliveryInv => DeliveredMeansAccepted  BY DEF DeliveryInv, AttemptInv
<1> QED  BY <1>1, DeliveryInvariantHolds, PTL

(***************************************************************************)
(* Only an endpoint that the acknowledged calls left enabled and           *)
(* subscribed to the type of the event gets it: over the tenant object as  *)
(* the last of them left it, over the table as one of those left it that   *)
(* its replicas have not all caught up with.  (fanout.ts; state-dynamo.ts  *)
(* listEndpoints)                                                          *)
(***************************************************************************)
THEOREM FanoutRespectsCalls == Spec => []FanoutFollowsRegistry
<1>1. DeliveryInv => FanoutFollowsRegistry  BY DEF DeliveryInv, AttemptInv
<1> QED  BY <1>1, DeliveryInvariantHolds, PTL

(***************************************************************************)
(* Deliveries verify throughout a rotation, for every tolerance and every  *)
(* resolution of the clock: over the tenant object with either of the last *)
(* two secrets, over the table with a secret that every item has which a   *)
(* read may return.  (sign.ts, verify.ts, rotateSecret, getEndpoint)       *)
(***************************************************************************)
THEOREM RotationVerifies == Spec => WindowVerifies
<1>1. DeliveryInv /\ [Next]_vars =>
         [Receive /\ window # None /\ window = holds /\ now' - now <= Tolerance * Second
             => verdict' # "refused"]_vars
  BY InWindowVerifies, Zenon
<1> QED  BY <1>1, DeliveryInvariantHolds, PTL DEF Spec, WindowVerifies

-----------------------------------------------------------------------------
(***************************************************************************)
(* The reserved IPv4 blocks by their first and last 32-bit address.        *)
(***************************************************************************)
Address(a, b, c, d) == ((a * 256 + b) * 256 + c) * 256 + d

InBlock(address, first, last) == first <= address /\ address <= last

Reserved(address) ==
    \/ InBlock(address, Address(0, 0, 0, 0), Address(0, 255, 255, 255))           \* 0/8
    \/ InBlock(address, Address(10, 0, 0, 0), Address(10, 255, 255, 255))         \* 10/8
    \/ InBlock(address, Address(100, 64, 0, 0), Address(100, 127, 255, 255))      \* 100.64/10
    \/ InBlock(address, Address(127, 0, 0, 0), Address(127, 255, 255, 255))       \* 127/8
    \/ InBlock(address, Address(169, 254, 0, 0), Address(169, 254, 255, 255))     \* 169.254/16
    \/ InBlock(address, Address(172, 16, 0, 0), Address(172, 31, 255, 255))       \* 172.16/12
    \/ InBlock(address, Address(192, 168, 0, 0), Address(192, 168, 255, 255))     \* 192.168/16
    \/ InBlock(address, Address(224, 0, 0, 0), Address(255, 255, 255, 255))       \* 224/4, 240/4

(***************************************************************************)
(* The tests of isBlockedIpv4 on the first two octets refuse the addresses *)
(* of the reserved blocks and no other, for all 2^32 addresses.            *)
(* (url-policy.ts isBlockedIpv4)                                           *)
(***************************************************************************)
THEOREM BlockedIffReserved ==
    \A a, b, c, d \in 0..255 : isBlockedIpv4(<<a, b, c, d>>) <=> Reserved(Address(a, b, c, d))
BY DEF isBlockedIpv4, Reserved, InBlock, Address
=============================================================================
