---------------------------- MODULE IngestProofs ----------------------------
(***************************************************************************)
(* Exactly one event per idempotency key, and receipts that count what was *)
(* enqueued, for any number of calls and endpoints.                        *)
(***************************************************************************)
EXTENDS Ingest, FiniteSetTheorems, FunctionTheorems, TLAPS

LEMMA IngestInit == Init => TypeOK /\ IngestInvariant
  BY DEF Init, TypeOK, IngestInvariant, Ticked, Accepted, Row, noRow, PC

\* A set of endpoints is finite, and its size is a number.
LEMMA FanSize ==
    ASSUME NEW S \in SUBSET Endpoint
    PROVE  IsFiniteSet(S) /\ Cardinality(S) \in Nat
  BY IngestAssumption, FS_Subset, FS_CardinalityType

LEMMA SendTypes ==
    ASSUME TypeOK, NEW c \in Call, send(c) \/ Fail(c)
    PROVE  TypeOK'
  <1> USE DEF TypeOK, Goto
  <1>1. CASE RecordEvent(c)
    BY <1>1 DEF RecordEvent, PC, Row
  <1>2. CASE ReadBack(c)
    BY <1>2 DEF ReadBack, Found, Answer, PC
  <1>3. CASE MatchEndpoints(c)
    BY <1>3 DEF MatchEndpoints, NextMessage, PC
  <1>4. CASE PutMessage(c)
    BY <1>4 DEF PutMessage, PC
  <1>5. CASE Enqueue(c)
    BY <1>5 DEF Enqueue, NextMessage, PC
  <1>6. CASE FinalizeEvent(c)
    <2> DEFINE row == [eventId |-> c, messageCount |-> Cardinality(fan[c])]
    <2>1. row \in Row
      BY FanSize DEF Row
    <2> HIDE DEF row
    <2> QED  BY <1>6, <2>1 DEF FinalizeEvent, Answer, PC, row
  <1>7. CASE Fail(c)
    BY <1>7 DEF Fail, PC
  <1> QED
    BY <1>1, <1>2, <1>3, <1>4, <1>5, <1>6, <1>7 DEF send

LEMMA SendInvariant ==
    ASSUME TypeOK, IngestInvariant, NEW c \in Call, send(c) \/ Fail(c)
    PROVE  IngestInvariant'
  <1>0. /\ idem \in Row /\ pc \in [Call -> PC] /\ receipt \in [Call -> Row]
        /\ fan \in [Call -> SUBSET Endpoint] /\ todo \in [Call -> SUBSET Endpoint]
        /\ messages \subseteq Call \X Endpoint /\ enqueued \subseteq messages
        /\ NoEvent \notin Call
    BY IngestAssumption DEF TypeOK
  <1> USE DEF IngestInvariant, Accepted, Goto, Ticked
  <1>1. CASE RecordEvent(c)
    <2>1. CASE idem.eventId = NoEvent
      <3>1. messages = {} /\ idem' = [eventId |-> c, messageCount |-> 0]
        BY <1>0, <1>1, <2>1 DEF RecordEvent
      <3>2. \A d \in Call : pc[d] \in {"recordEvent", "failed"}
        BY <1>0, <2>1 DEF PC
      <3> QED  BY <1>0, <1>1, <2>1, <3>1, <3>2 DEF RecordEvent
    <2>2. CASE idem.eventId # NoEvent
      BY <1>0, <1>1, <2>2 DEF RecordEvent
    <2> QED  BY <2>1, <2>2
  <1>2. CASE ReadBack(c)
    BY <1>0, <1>2 DEF ReadBack, Found, Answer
  <1>3. CASE MatchEndpoints(c)
    <2>1. /\ fan[c] = {} /\ idem.eventId = c /\ idem.messageCount = 0
          /\ {x \in enqueued : x[1] = c} = {}
      BY <1>3 DEF MatchEndpoints
    <2>2. /\ UNCHANGED <<idem, messages, enqueued, receipt>>
          /\ pc'[c] \in {"putMessage", "finalizeEvent"}
          /\ pc'[c] = "finalizeEvent" => todo'[c] = {}
          /\ fan'[c] = todo'[c]
          /\ \A d \in Call \ {c} : pc'[d] = pc[d] /\ fan'[d] = fan[d] /\ todo'[d] = todo[d]
      BY <1>0, <1>3 DEF MatchEndpoints, NextMessage
    <2> QED  BY <2>1, <2>2
  <1>4. CASE PutMessage(c)
    BY <1>0, <1>4 DEF PutMessage
  <1>5. CASE Enqueue(c)
    <2>1. PICK e \in todo[c] :
              enqueued' = enqueued \cup {<<c, e>>} /\ NextMessage(c, todo[c] \ {e})
      BY Zenon, <1>5 DEF Enqueue
    <2>2. e \in fan[c]
      BY <1>5
    <2>3. {x \in enqueued' : x[1] = c} = {<<c, f>> : f \in fan[c] \ (todo[c] \ {e})}
      BY <2>1, <2>2
    <2>4. \A d \in Call \ {c} : {x \in enqueued' : x[1] = d} = {x \in enqueued : x[1] = d}
      BY <2>1
    <2>5. /\ UNCHANGED <<idem, messages, receipt, fan>>
          /\ pc'[c] \in {"putMessage", "finalizeEvent"}
          /\ pc'[c] = "finalizeEvent" => todo'[c] = {}
          /\ todo'[c] = todo[c] \ {e}
          /\ \A d \in Call \ {c} : pc'[d] = pc[d] /\ todo'[d] = todo[d]
      BY <1>0, <1>5, <2>1 DEF Enqueue, NextMessage
    <2> QED  BY <1>5, <2>3, <2>4, <2>5 DEF Enqueue
  <1>6. CASE FinalizeEvent(c)
    BY <1>0, <1>6, FanSize DEF FinalizeEvent, Answer
  <1>7. CASE Fail(c)
    BY <1>0, <1>7 DEF Fail
  <1> QED
    BY <1>1, <1>2, <1>3, <1>4, <1>5, <1>6, <1>7 DEF send

(***************************************************************************)
(* The invariant of ingest, for any number of calls that race, repeat or   *)
(* crash and any endpoints (engine.ts 117-136, state-dynamo.ts 69-109).    *)
(***************************************************************************)
THEOREM IngestInvariantHolds == Spec => [](TypeOK /\ IngestInvariant)
  <1>1. TypeOK /\ IngestInvariant /\ [Next]_vars => (TypeOK /\ IngestInvariant)'
    <2> SUFFICES ASSUME TypeOK, IngestInvariant, [Next]_vars
                 PROVE  TypeOK' /\ IngestInvariant'
      OBVIOUS
    <2>1. ASSUME NEW e \in Endpoint, SetEndpoint(e)  PROVE TypeOK' /\ IngestInvariant'
      BY <2>1 DEF SetEndpoint, TypeOK, IngestInvariant, Accepted, Ticked
    <2>2. CASE UNCHANGED vars
      BY <2>2 DEF vars, TypeOK, IngestInvariant, Accepted, Ticked
    <2> QED  BY <2>1, <2>2, SendTypes, SendInvariant DEF Next
  <1> QED  BY IngestInit, <1>1, PTL DEF Spec

(***************************************************************************)
(* However many calls of send() race, repeat or crash, the messages of one *)
(* event at most are enqueued for an idempotency key (state-dynamo.ts      *)
(* 75-99).                                                                 *)
(***************************************************************************)
THEOREM OneFanOutPerKey == Spec => []FannedOutOnce
  <1>1. TypeOK /\ IngestInvariant => FannedOutOnce
    BY DEF TypeOK, IngestInvariant, FannedOutOnce
  <1> QED  BY IngestInvariantHolds, <1>1, PTL

(***************************************************************************)
(* Every receipt names the event that is stored for its key, whichever of  *)
(* the racing calls stored it (state-dynamo.ts 75-99, engine.ts 120-127).  *)
(***************************************************************************)
THEOREM ReceiptsNameStored == Spec => []ReceiptsAgree
  <1>1. TypeOK /\ IngestInvariant => ReceiptsAgree
    BY DEF TypeOK, IngestInvariant, ReceiptsAgree
  <1> QED  BY IngestInvariantHolds, <1>1, PTL

\* As many messages as endpoints.
LEMMA PairsSize ==
    ASSUME NEW c, NEW S, IsFiniteSet(S)
    PROVE  Cardinality({<<c, e>> : e \in S}) = Cardinality(S)
  <1> DEFINE T == {<<c, e>> : e \in S}
             f == [e \in S |-> <<c, e>>]
  <1>1. f \in [S -> T] /\ \A a, b \in S : f[a] = f[b] => a = b
    OBVIOUS
  <1>2. \A t \in T : \E e \in S : f[e] = t
    OBVIOUS
  <1>3. ExistsBijection(S, T)
    BY <1>1, <1>2, Fun_IsBij DEF ExistsBijection
  <1> QED  BY <1>3, FS_Bijection

(***************************************************************************)
(* A receipt that counts messages counts exactly the enqueued ones         *)
(* (engine.ts 131-136).                                                    *)
(***************************************************************************)
THEOREM ReceiptsCount == Spec => []CountsAreEnqueued
  <1>1. TypeOK /\ IngestInvariant => CountsAreEnqueued
    <2> SUFFICES ASSUME TypeOK, IngestInvariant, NEW c \in Call,
                        Accepted(c), receipt[c].messageCount > 0
                 PROVE  receipt[c].messageCount
                           = Cardinality({x \in enqueued : x[1] = receipt[c].eventId})
      BY DEF CountsAreEnqueued
    <2>1. /\ receipt[c] = idem /\ idem.eventId # NoEvent
          /\ idem.eventId \in Call \cup {NoEvent}
      BY DEF IngestInvariant, TypeOK, Row, Accepted
    <2>2. PICK o \in Call : o = idem.eventId
      BY <2>1
    <2>3. /\ todo[o] = {} /\ idem.messageCount = Cardinality(fan[o])
          /\ {x \in enqueued : x[1] = o} = {<<o, e>> : e \in fan[o] \ todo[o]}
      BY <2>1, <2>2 DEF IngestInvariant, Ticked
    <2>4. {x \in enqueued : x[1] = o} = {<<o, e>> : e \in fan[o]} /\ IsFiniteSet(fan[o])
      BY <2>3, FanSize DEF TypeOK
    <2>5. Cardinality({<<o, e>> : e \in fan[o]}) = Cardinality(fan[o])
      BY <2>4, PairsSize
    <2> QED  BY Zenon, <2>1, <2>2, <2>3, <2>4, <2>5
  <1> QED  BY IngestInvariantHolds, <1>1, PTL
=============================================================================
