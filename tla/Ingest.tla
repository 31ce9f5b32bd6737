------------------------------- MODULE Ingest -------------------------------
(***************************************************************************)
(* WebhookEngine.send (packages/core/src/engine.ts): concurrent and        *)
(* repeated calls that carry the same idempotency key.                     *)
(*                                                                         *)
(* Each port call of send() is one step.  Calls with different keys share  *)
(* no state, so the model has one key.  A call draws a fresh event id, so  *)
(* the call itself stands for the id.  A message is the pair of an event   *)
(* id and an endpoint, since fanout makes one message per endpoint.        *)
(***************************************************************************)
EXTENDS Naturals, FiniteSets

CONSTANTS Call,               \* calls of send() with one idempotency key
          Endpoint,           \* the tenant's endpoints that may subscribe
          NoEvent             \* the event id of an absent idempotency row

ASSUME IngestAssumption ==
    /\ NoEvent \notin Call
    /\ IsFiniteSet(Endpoint)

VARIABLES
    idem,        \* the idempotency row: event id and message count
    subscribed,  \* the endpoints that are enabled and match the event type
    messages,    \* stored messages
    enqueued,    \* messages handed to the transport
    pc,          \* the next port call of each send()
    fan,         \* the messages' endpoints fanout returned
    todo,        \* those not yet enqueued
    receipt      \* what the call returned to its producer

vars == <<idem, subscribed, messages, enqueued, pc, fan, todo, receipt>>

Row == [eventId: Call \cup {NoEvent}, messageCount: Nat]

noRow == [eventId |-> NoEvent, messageCount |-> 0]

PC == {"recordEvent", "readBack", "matchEndpoints", "putMessage", "enqueue",
       "finalizeEvent", "returned", "failed"}

TypeOK ==
    /\ idem \in Row
    /\ subscribed \subseteq Endpoint
    /\ messages \subseteq Call \X Endpoint
    /\ enqueued \subseteq messages
    /\ pc \in [Call -> PC]
    /\ fan \in [Call -> SUBSET Endpoint]
    /\ todo \in [Call -> SUBSET Endpoint]
    /\ receipt \in [Call -> Row]

Init ==
    /\ idem = noRow
    /\ subscribed \in SUBSET Endpoint
    /\ messages = {} /\ enqueued = {}
    /\ pc = [c \in Call |-> "recordEvent"]
    /\ fan = [c \in Call |-> {}]
    /\ todo = [c \in Call |-> {}]
    /\ receipt = [c \in Call |-> noRow]

-----------------------------------------------------------------------------
Goto(c, label) == pc' = [pc EXCEPT ![c] = label]

\* send() returns a receipt with accepted: true.
Answer(c, row) ==
    /\ receipt' = [receipt EXCEPT ![c] = row]
    /\ Goto(c, "returned")

\* MUTANT of RecordEvent: the put is not conditional on the row being absent.
RecordEventBlindly(c) ==
    /\ pc[c] = "recordEvent"
    /\ idem' = [eventId |-> c, messageCount |-> 0]
    /\ Goto(c, "matchEndpoints")
    /\ UNCHANGED <<subscribed, messages, enqueued, fan, todo, receipt>>

\* recordEvent: a put of the idempotency row, conditional on its absence.
RecordEvent(c) ==
    /\ pc[c] = "recordEvent"
    /\ \/ /\ idem.eventId = NoEvent
          /\ idem' = [eventId |-> c, messageCount |-> 0]
          /\ Goto(c, "matchEndpoints")
       \/ /\ idem.eventId # NoEvent
          /\ Goto(c, "readBack")
          /\ UNCHANGED idem
    /\ UNCHANGED <<subscribed, messages, enqueued, fan, todo, receipt>>

\* What recordEvent returns to the loser of the conditional put for the row it
\* read.  A row that is not there is treated as a new event, which fans out.
Found(c, row) ==
    \/ row.eventId # NoEvent /\ Answer(c, row)
    \/ row.eventId = NoEvent /\ Goto(c, "matchEndpoints") /\ UNCHANGED receipt

\* MUTANT of ReadBack: the row is read from a replica, which may not have it.
ReadBackEventually(c) ==
    /\ pc[c] = "readBack"
    /\ Found(c, idem) \/ Found(c, noRow)
    /\ UNCHANGED <<idem, subscribed, messages, enqueued, fan, todo>>

\* The loser reads the winner's row, with ConsistentRead.
ReadBack(c) ==
    /\ pc[c] = "readBack"
    /\ Found(c, idem)
    /\ UNCHANGED <<idem, subscribed, messages, enqueued, fan, todo>>

\* The message put before the next send, or the end of the loop.
NextMessage(c, rest) ==
    /\ todo' = [todo EXCEPT ![c] = rest]
    /\ Goto(c, IF rest = {} THEN "finalizeEvent" ELSE "putMessage")

\* matchEndpoints and fanout: one message per enabled, subscribed endpoint.
MatchEndpoints(c) ==
    /\ pc[c] = "matchEndpoints"
    /\ fan' = [fan EXCEPT ![c] = subscribed]
    /\ NextMessage(c, subscribed)
    /\ UNCHANGED <<idem, subscribed, messages, enqueued, receipt>>

PutMessage(c) ==
    /\ pc[c] = "putMessage"
    /\ \E e \in todo[c] : messages' = messages \cup {<<c, e>>}
    /\ Goto(c, "enqueue")
    /\ UNCHANGED <<idem, subscribed, enqueued, fan, todo, receipt>>

\* transport.send of the message just stored.
Enqueue(c) ==
    /\ pc[c] = "enqueue"
    /\ \E e \in todo[c] :
          /\ <<c, e>> \in messages
          /\ enqueued' = enqueued \cup {<<c, e>>}
          /\ NextMessage(c, todo[c] \ {e})
    /\ UNCHANGED <<idem, subscribed, messages, fan, receipt>>

\* MUTANT of FinalizeEvent: the count is the number of subscribers at the end.
FinalizeEventRecount(c) ==
    /\ pc[c] = "finalizeEvent"
    /\ LET row == [eventId |-> c, messageCount |-> Cardinality(subscribed)]
       IN  idem' = row /\ Answer(c, row)
    /\ UNCHANGED <<subscribed, messages, enqueued, fan, todo>>

FinalizeEvent(c) ==
    /\ pc[c] = "finalizeEvent"
    /\ LET row == [eventId |-> c, messageCount |-> Cardinality(fan[c])]
       IN  idem' = row /\ Answer(c, row)
    /\ UNCHANGED <<subscribed, messages, enqueued, fan, todo>>

Running(c) == pc[c] \notin {"recordEvent", "returned", "failed"}

\* A port call throws, or the process ends: the producer gets no receipt.
Fail(c) ==
    /\ Running(c)
    /\ Goto(c, "failed")
    /\ UNCHANGED <<idem, subscribed, messages, enqueued, fan, todo, receipt>>

\* The portal creates, deletes, enables, disables or re-subscribes an endpoint.
SetEndpoint(e) ==
    /\ subscribed' = (subscribed \cup {e}) \ (subscribed \cap {e})
    /\ UNCHANGED <<idem, messages, enqueued, pc, fan, todo, receipt>>

send(c) ==
    \/ RecordEvent(c) \/ ReadBack(c) \/ MatchEndpoints(c) \/ PutMessage(c)
    \/ Enqueue(c) \/ FinalizeEvent(c)

Next ==
    \/ \E c \in Call : send(c) \/ Fail(c)
    \/ \E e \in Endpoint : SetEndpoint(e)

Spec == Init /\ [][Next]_vars

\* A call of send() runs on until it returns or fails.
FairSpec == Spec /\ \A c \in Call : WF_vars(send(c))

-----------------------------------------------------------------------------
(***************************************************************************)
(* Properties.                                                             *)
(***************************************************************************)
Accepted(c) == pc[c] = "returned"

\* Whatever calls race, crash or repeat, messages of one event only are ever
\* enqueued for a key (recordEvent, state-dynamo.ts 75-99).
FannedOutOnce ==
    \A x, y \in enqueued : x[1] = y[1]

\* All producers that were answered hold receipts for the same event, the one
\* in the store (engine.ts 120-127).
ReceiptsAgree ==
    \A c \in Call : Accepted(c) => receipt[c].eventId = idem.eventId

\* A receipt that counts messages counts exactly the enqueued ones, all of
\* them: it is only written after the last transport.send (engine.ts 131-136).
CountsAreEnqueued ==
    \A c \in Call : Accepted(c) /\ receipt[c].messageCount > 0 =>
        receipt[c].messageCount = Cardinality({x \in enqueued : x[1] = receipt[c].eventId})

\* Once a producer was told accepted: true, an endpoint that is subscribed all
\* along gets a message for the event.
AcceptedDurably ==
    \A e \in Endpoint :
        [](e \in subscribed) =>
            ((\E c \in Call : Accepted(c)) ~> (\E c \in Call : <<c, e>> \in enqueued))

(***************************************************************************)
(* What makes these inductive: once the row exists it names the only call  *)
(* that may fan out, and that call has enqueued what it has ticked off.    *)
(***************************************************************************)
Ticked(c) == {<<c, e>> : e \in fan[c] \ todo[c]}

IngestInvariant ==
    /\ \A x \in messages : x[1] = idem.eventId
    /\ \A c \in Call :
          /\ pc[c] \in {"matchEndpoints", "putMessage", "enqueue", "finalizeEvent"}
                => idem.eventId = c /\ idem.messageCount = 0
          /\ pc[c] \in {"readBack", "returned"} => idem.eventId # NoEvent
          /\ Accepted(c) => receipt[c].eventId = idem.eventId
          /\ Accepted(c) /\ receipt[c].messageCount > 0 => receipt[c] = idem
          /\ pc[c] \in {"recordEvent", "readBack", "matchEndpoints"} => fan[c] = {}
          /\ pc[c] = "finalizeEvent" => todo[c] = {}
          /\ todo[c] \subseteq fan[c]
          /\ {x \in enqueued : x[1] = c} = Ticked(c)
          /\ idem.eventId = c /\ idem.messageCount > 0
                => todo[c] = {} /\ idem.messageCount = Cardinality(fan[c])
=============================================================================
