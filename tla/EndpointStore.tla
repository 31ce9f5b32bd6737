--------------------------- MODULE EndpointStore ---------------------------
(***************************************************************************)
(* The endpoint registry: the endpoint calls of the portal over the        *)
(* DynamoDB table (aws/src/state-dynamo.ts) and over the tenant object of  *)
(* Cloudflare (cloudflare/src/tenant-do.ts), for one endpoint.             *)
(*                                                                         *)
(* The table is read and written by two requests, the read may return an   *)
(* older item, and the put has no condition.  A method of the object runs  *)
(* to its end before the next one starts: storage awaits keep the input    *)
(* gate of the object closed.                                              *)
(***************************************************************************)
EXTENDS Naturals, Sequences

CONSTANTS Call,           \* portal calls, each made once
          Url,            \* targets an endpoint may be given
          Subscription,   \* sets of event-type patterns it may be given
          Patch,          \* bodies of the portal's PATCH, with any of the three fields
          Absent,         \* no endpoint
          Keep            \* a field a patch does not have

ASSUME StoreAssumption ==
    /\ Patch \subseteq [url: Url \cup {Keep}, eventTypes: Subscription \cup {Keep},
                        disabled: BOOLEAN \cup {Keep}, rotate: {FALSE}]
    /\ Keep \notin Url /\ Keep \notin Subscription /\ Keep \notin BOOLEAN
    /\ Absent \notin [url: Url, eventTypes: Subscription, disabled: BOOLEAN, secrets: Seq(Nat)]

VARIABLES
    adapter,   \* "dynamo" or "durable"
    row,       \* the endpoint as stored, or Absent
    older,     \* earlier items that an eventually consistent read may return
    issued,    \* secrets generated so far; a secret is its number
    step,      \* the next step of each call
    read,      \* the endpoint it read and has not yet written
    change,    \* what it was asked to change in it
    \* history: the endpoint that the acknowledged calls ask for, one after the other
    wanted,
    \* history: what they asked for before that, and a replica may still return
    superseded,
    \* history: no call has yet begun while another was under way, nor read an outdated item
    alone

storeVars == <<adapter, row, older, issued, step, read, change, wanted, superseded, alone>>

-----------------------------------------------------------------------------
Endpoint ==
    [url: Url, eventTypes: Subscription, disabled: BOOLEAN, secrets: Seq(1..issued)]

\* A call changes the endpoint by a patch or by a rotation.
NoChange == [url |-> Keep, eventTypes |-> Keep, disabled |-> Keep, rotate |-> FALSE]

Change == Patch \cup {[NoChange EXCEPT !.rotate = TRUE]}

StoreTypeOK ==
    /\ adapter \in {"dynamo", "durable"}
    /\ issued \in Nat
    /\ row \in Endpoint \cup {Absent} /\ wanted \in Endpoint \cup {Absent}
    /\ older \subseteq Endpoint \cup {Absent} /\ superseded \subseteq Endpoint \cup {Absent}
    /\ adapter = "durable" => older = {} /\ superseded = {}
    /\ step \in [Call -> {"new", "put", "done", "failed"}]
    /\ read \in [Call -> Endpoint \cup {Absent}]
    /\ change \in [Call -> Change \cup {NoChange}]
    /\ \A c \in Call : step[c] = "put" => adapter = "dynamo" /\ read[c] # Absent
    /\ alone \in BOOLEAN

StoreInit ==
    /\ adapter \in {"dynamo", "durable"}
    /\ row = Absent /\ wanted = Absent /\ older = {} /\ superseded = {} /\ issued = 0
    /\ step = [c \in Call |-> "new"]
    /\ read = [c \in Call |-> Absent]
    /\ change = [c \in Call |-> NoChange]
    /\ alone = TRUE

-----------------------------------------------------------------------------
Or(field, stored) == IF field = Keep THEN stored ELSE field

\* MUTANT of patched: a field the patch does not have is reset to its default.
patchedReset(e, ch) ==
    [e EXCEPT !.url = Or(ch.url, e.url), !.eventTypes = Or(ch.eventTypes, e.eventTypes),
              !.disabled = Or(ch.disabled, FALSE)]

\* updateEndpoint: the fields of the patch replace those of the endpoint.
patched(e, ch) ==
    [e EXCEPT !.url = Or(ch.url, e.url), !.eventTypes = Or(ch.eventTypes, e.eventTypes),
              !.disabled = Or(ch.disabled, e.disabled)]

\* MUTANT of rotated: the previous secret is dropped at once.
rotatedSingle(e, secret) == [e EXCEPT !.secrets = <<secret>>]

\* rotateSecret: the new primary secret, and the previous primary.
rotated(e, secret) == [e EXCEPT !.secrets = <<secret, e.secrets[1]>>]

Changed(e, ch) == IF ch.rotate THEN rotated(e, issued + 1) ELSE patched(e, ch)

\* What a call asks for, field by field: the rest stays.
Asked(e, ch) ==
    [url        |-> IF ch.url \in Url THEN ch.url ELSE e.url,
     eventTypes |-> IF ch.eventTypes \in Subscription THEN ch.eventTypes ELSE e.eventTypes,
     disabled   |-> IF ch.disabled \in BOOLEAN THEN ch.disabled ELSE e.disabled,
     secrets    |-> IF ch.rotate THEN <<issued + 1, e.secrets[1]>> ELSE e.secrets]

\* What getEndpoint and listEndpoints may return.
getEndpoint == {row} \cup older

Store(e) ==
    /\ row' = e
    /\ older' = IF adapter = "dynamo" THEN older \cup {row} ELSE older

\* The call is acknowledged: e is asked for from now on.
Acknowledge(e) ==
    /\ wanted' = e
    /\ superseded' = IF adapter = "dynamo" THEN superseded \cup {wanted} ELSE superseded

Finish(c, ch) ==
    /\ issued' = IF ch.rotate THEN issued + 1 ELSE issued
    /\ Acknowledge(IF wanted = Absent THEN Absent ELSE Asked(wanted, ch))
    /\ step' = [step EXCEPT ![c] = "done"]

Busy == \E c \in Call : step[c] = "put"

Begun == alone' = (alone /\ ~Busy)

createEndpoint(c) ==
    /\ step[c] = "new" /\ issued = 0
    /\ \E u \in Url, t \in Subscription :
          LET e == [url |-> u, eventTypes |-> t, disabled |-> FALSE, secrets |-> <<1>>]
          IN  Store(e) /\ Acknowledge(e)
    /\ issued' = 1
    /\ step' = [step EXCEPT ![c] = "done"]
    /\ Begun
    /\ UNCHANGED <<adapter, read, change>>

\* updateEndpoint and rotateSecret over the table: getEndpoint, and the error
\* when it finds nothing ...
Fetch(c, ch) ==
    /\ adapter = "dynamo" /\ step[c] = "new" /\ issued > 0
    /\ \E e \in getEndpoint :
          \/ /\ e = Absent
             /\ step' = [step EXCEPT ![c] = "failed"]
             /\ UNCHANGED <<read, change, alone>>
          \/ /\ e # Absent
             /\ step' = [step EXCEPT ![c] = "put"]
             /\ read' = [read EXCEPT ![c] = e]
             /\ change' = [change EXCEPT ![c] = ch]
             /\ alone' = (alone /\ ~Busy /\ e = row)
    /\ UNCHANGED <<adapter, row, older, issued, wanted, superseded>>

\* ... and putEndpointItem of the changed copy.
putEndpointItem(c) ==
    /\ step[c] = "put"
    /\ Store(Changed(read[c], change[c]))
    /\ Finish(c, change[c])
    /\ read' = [read EXCEPT ![c] = Absent]
    /\ change' = [change EXCEPT ![c] = NoChange]
    /\ UNCHANGED <<adapter, alone>>

\* updateEndpoint and rotateSecret of the tenant object.
Amend(c, ch) ==
    /\ adapter = "durable" /\ step[c] = "new" /\ issued > 0
    /\ \/ row = Absent /\ step' = [step EXCEPT ![c] = "failed"]
                       /\ UNCHANGED <<row, older, issued, wanted, superseded>>
       \/ row # Absent /\ Store(Changed(row, ch)) /\ Finish(c, ch)
    /\ Begun
    /\ UNCHANGED <<adapter, read, change>>

deleteEndpoint(c) ==
    /\ step[c] = "new" /\ issued > 0
    /\ Store(Absent)
    /\ Acknowledge(Absent)
    /\ step' = [step EXCEPT ![c] = "done"]
    /\ Begun
    /\ UNCHANGED <<adapter, issued, read, change>>

\* Every replica of the table has the last write (external: DynamoDB).
CatchUp ==
    /\ older # {} /\ older' = {} /\ superseded' = {}
    /\ UNCHANGED <<adapter, row, issued, step, read, change, wanted, alone>>

StoreNext ==
    \/ \E c \in Call : \/ createEndpoint(c) \/ putEndpointItem(c) \/ deleteEndpoint(c)
                       \/ \E ch \in Change : Fetch(c, ch) \/ Amend(c, ch)
    \/ CatchUp

(***************************************************************************)
(* No acknowledged change is lost: what is stored is what the calls asked  *)
(* for, always in the tenant object, and in the table as long as calls     *)
(* follow each other and each reads what is stored, not an older item.  An *)
(* update keeps the fields its patch leaves out, a rotation keeps the      *)
(* previous secret, and a deleted endpoint does not come back.             *)
(* (state-dynamo.ts updateEndpoint, rotateSecret, deleteEndpoint;          *)
(* tenant-do.ts)                                                           *)
(***************************************************************************)
NothingLost == adapter = "durable" \/ alone => row = wanted
=============================================================================
