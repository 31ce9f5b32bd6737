---------------------------- MODULE DeliveryLog ----------------------------
(***************************************************************************)
(* The delivery log of a tenant: messages, attempts and dead letters, as   *)
(* the DynamoDB table keeps them (aws/src/state-dynamo.ts) and as the      *)
(* Durable Objects do (cloudflare/src/endpoint-do.ts, one per endpoint,    *)
(* state-do.ts and the message index of tenant-do.ts), with the listing of *)
(* the portal (core/src/portal/deliveries.ts) running against the writes.  *)
(*                                                                         *)
(* A message is its number, and numbers are in the order of the keys.  A   *)
(* version of it is its creation time and its status.  A log is the        *)
(* attempts of one message, or the dead letters; its rows are kept by      *)
(* sequence number.                                                        *)
(***************************************************************************)
EXTENDS Integers, FiniteSets

CONSTANTS Message,      \* message ids, numbers
          Endpoint,     \* endpoint ids, numbers in the order of the registry
          EndpointOf,   \* the endpoint of each message
          Created,      \* creation times of the messages stored at the start, or 0
          Worker,       \* concurrent writers: engine workers and portal calls
          Query,        \* the queries the portal may be asked
          Unset,        \* a filter that is not set
          PageSize,     \* rows in one page of a DynamoDB query
          NoMessage,    \* not stored
          Log,          \* the logs: the attempts of a message each, and the dead letters
          MaxWrites,    \* bound: writes
          MaxCrashes    \* bound: writers that stop between two requests

\* A stored version of a message.
Version == [createdAt: Nat, status: {"pending", "delivered"}]

ASSUME LogAssumption ==
    /\ Message \subseteq Nat /\ IsFiniteSet(Message) /\ Endpoint \subseteq Nat
    /\ NoMessage \notin Version /\ Unset \notin Nat
    /\ \A q \in Query : q.limit \in Nat \cup {Unset}
    /\ EndpointOf \in [Message -> Endpoint] /\ Created \in [Message -> Nat]
    /\ PageSize \in Nat \ {0} /\ MaxWrites \in Nat /\ MaxCrashes \in Nat

VARIABLES
    adapter,    \* "dynamo" or "durable"
    table,      \* the stored version of each message
    older,      \* the versions an eventually consistent read may still return
    index,      \* messages that the tenant object can find
    live,       \* endpoints that are registered
    counter,    \* the last sequence number of each log
    rows,       \* the rows of each log: <<sequence number, entry>>
    clock,      \* the time of the last creation
    pc, job,    \* the next request of each writer, and what it writes
    writes, crashes,
    reader,     \* the listing under way
    \* history: messages stored, in every replica, and entries appended
    kept, appended,
    \* history: messages that stay as they are, and readable, throughout the listing
    steady

stores == <<table, older, index, counter, rows>>
bounds == <<writes, crashes>>
history == <<kept, appended, steady>>
vars == <<adapter, stores, live, clock, pc, job, bounds, reader, history>>

Idle == [step |-> "idle"]

Init ==
    /\ adapter \in {"dynamo", "durable"}
    /\ table = [m \in Message |->
          IF Created[m] = 0 THEN NoMessage
          ELSE [createdAt |-> Created[m], status |-> "pending"]]
    /\ older = [m \in Message |-> {}]
    /\ index = {m \in Message : Created[m] # 0}
    /\ live = Endpoint
    /\ counter = [l \in Log |-> 0] /\ rows = [l \in Log |-> {}]
    /\ clock \in {Created[m] : m \in Message} /\ \A m \in Message : Created[m] <= clock
    /\ pc = [w \in Worker |-> "idle"] /\ job = [w \in Worker |-> Idle]
    /\ writes = 0 /\ crashes = 0
    /\ reader = Idle
    /\ kept = index /\ appended = {} /\ steady = {}

-----------------------------------------------------------------------------
(***************************************************************************)
(* Writers.                                                                *)
(***************************************************************************)
Begin(w, j, first) ==
    /\ pc[w] = "idle" /\ writes < MaxWrites
    /\ writes' = writes + 1
    /\ pc' = [pc EXCEPT ![w] = first]
    /\ job' = [job EXCEPT ![w] = j]
    /\ UNCHANGED <<adapter, stores, live, crashes, reader, history>>

\* A message is created or replayed, with a new creation time, or its status
\* is updated.
StartPut(w, m) ==
    \/ \E t \in {clock, clock + 1} :
          /\ Begin(w, [message |-> m, version |-> [createdAt |-> t, status |-> "pending"]], "put")
          /\ clock' = t
    \/ /\ table[m] # NoMessage
       /\ Begin(w, [message |-> m, version |-> [table[m] EXCEPT !.status = "delivered"]], "put")
       /\ UNCHANGED clock

\* putMessage: the message ...
PutMessage(w) ==
    /\ pc[w] = "put"
    /\ LET m == job[w].message
       IN  /\ table' = [table EXCEPT ![m] = job[w].version]
           /\ older' = [older EXCEPT ![m] = IF adapter = "dynamo" THEN @ \cup {table[m]} ELSE @]
           /\ steady' = steady \ {m}
    /\ pc' = [pc EXCEPT ![w] = "index"]
    /\ UNCHANGED <<adapter, index, counter, rows, live, clock, job, bounds, reader, kept, appended>>

\* MUTANT of registerMessage: only a new message is registered.
registerMessageOnce(w) ==
    index' = IF job[w].version.status = "pending" THEN index \cup {job[w].message} ELSE index

registerMessage(w) == index' = index \cup {job[w].message}

\* ... and then its entry in the index, every time.  The table's index is
\* never read.
PutIndex(w) ==
    /\ pc[w] = "index"
    /\ registerMessage(w)
    /\ kept' = kept \cup {m \in {job[w].message} : older[m] = {}}
    /\ pc' = [pc EXCEPT ![w] = "idle"] /\ job' = [job EXCEPT ![w] = Idle]
    /\ UNCHANGED <<adapter, table, older, counter, rows, live, clock, bounds, reader, appended, steady>>

\* appendAttempt and addToDlq, to their log.  An entry is the number of its write.
StartAppend(w, l) ==
    /\ Begin(w, [log |-> l, entry |-> writes, seq |-> 0],
             IF adapter = "dynamo" THEN "seq" ELSE "append")
    /\ UNCHANGED clock

\* MUTANT of nextSeq: the number is one more than the rows there are.
nextSeqCounted(l) == Cardinality(rows[l]) + 1

\* ADD seq 1: the counter is increased and returned in one request.
nextSeq(l) == counter[l] + 1

NextSeq(w) ==
    /\ pc[w] = "seq"
    /\ LET l == job[w].log
       IN  /\ counter' = [counter EXCEPT ![l] = nextSeq(l)]
           /\ job' = [job EXCEPT ![w].seq = nextSeq(l)]
    /\ pc' = [pc EXCEPT ![w] = "row"]
    /\ UNCHANGED <<adapter, table, older, index, rows, live, clock, bounds, reader, history>>

\* The row with this number is written; one that has it already is replaced.
Row(w, l, seq) ==
    /\ rows' = [rows EXCEPT ![l] = {r \in @ : r[1] # seq} \cup {<<seq, job[w].entry>>}]
    /\ appended' = appended \cup {<<l, job[w].entry>>}
    /\ pc' = [pc EXCEPT ![w] = "idle"] /\ job' = [job EXCEPT ![w] = Idle]
    /\ UNCHANGED <<adapter, table, older, index, live, clock, bounds, reader, kept, steady>>

PutRow(w) == pc[w] = "row" /\ Row(w, job[w].log, job[w].seq) /\ UNCHANGED counter

\* The endpoint object reads, extends and writes its list in one call.
Append(w) ==
    /\ pc[w] = "append"
    /\ LET l == job[w].log
       IN  Row(w, l, counter[l] + 1) /\ counter' = [counter EXCEPT ![l] = @ + 1]

\* A writer stops between two requests.
Crash(w) ==
    /\ pc[w] # "idle" /\ crashes < MaxCrashes
    /\ crashes' = crashes + 1
    /\ pc' = [pc EXCEPT ![w] = "idle"] /\ job' = [job EXCEPT ![w] = Idle]
    /\ UNCHANGED <<adapter, stores, live, clock, writes, reader, history>>

deleteEndpoint(e) ==
    /\ e \in live /\ writes < MaxWrites
    /\ writes' = writes + 1
    /\ live' = live \ {e}
    /\ UNCHANGED <<adapter, stores, clock, pc, job, crashes, reader, history>>

\* Every replica of the table has the last write of m (external: DynamoDB).
CatchUp(m) ==
    /\ older[m] # {} /\ older' = [older EXCEPT ![m] = {}]
    /\ kept' = kept \cup {m}
    /\ UNCHANGED <<adapter, table, index, counter, rows, live, clock, pc, job, bounds, reader,
                   appended, steady>>

\* What a read of the message may return, where it is stored.
Readable(m) == {table[m]} \cup older[m]

-----------------------------------------------------------------------------
(***************************************************************************)
(* listDeliveries.  A listed row is a message number and a version.        *)
(***************************************************************************)
Matches(q, m, v) ==
    /\ q.endpoint \in {Unset, EndpointOf[m]}
    /\ q.status \in {Unset, v.status}
    /\ q.before # Unset => v.createdAt < q.before
    /\ q.after # Unset => v.createdAt > q.after

\* Newest first; the sort is stable, so that ties stay in the order in which
\* the rows were read.
Position(r) ==
    IF adapter = "durable" THEN <<EndpointOf[r.message], r.message>> ELSE <<0, r.message>>

Precedes(r, s) ==
    LET p == Position(r)
        q == Position(s)
    IN  \/ r.version.createdAt > s.version.createdAt
        \/ /\ r.version.createdAt = s.version.createdAt
           /\ p[1] < q[1] \/ (p[1] = q[1] /\ p[2] < q[2])

\* sort and slice(0, limit)
Newest(found, limit) ==
    IF limit = Unset THEN found
    ELSE {r \in found : Cardinality({s \in found : Precedes(s, r)}) < limit}

Rows(ms, versions) ==
    {[message |-> m, version |-> versions[m]] : m \in {n \in ms : versions[n] # NoMessage}}

Filter(q, found) == {r \in found : Matches(q, r.message, r.version)}

\* The messages that a listing can be held to: stored and replicated when it
\* begins, and within its reach.
Settled(q) ==
    {m \in Message :
        /\ table[m] # NoMessage /\ older[m] = {}
        /\ adapter = "durable" /\ q.endpoint = Unset => EndpointOf[m] \in live}

StartList(q) ==
    /\ reader = Idle
    /\ steady' = Settled(q)
    /\ reader' = [step |-> IF adapter = "dynamo" THEN "page" ELSE "objects",
                  q |-> q, found |-> {}, cursor |-> -1,
                  objects |-> IF q.endpoint = Unset THEN live ELSE {q.endpoint}]
    /\ UNCHANGED <<adapter, stores, live, clock, pc, job, bounds, kept, appended>>

Finished(found) ==
    reader' = [reader EXCEPT !.step = "done", !.found = Newest(Filter(reader.q, found), reader.q.limit)]

Ahead == {m \in Message : m > reader.cursor /\ Readable(m) # {NoMessage}}

\* The next keys of the table, up to a page.
Page == {m \in Ahead : Cardinality({n \in Ahead : n < m}) < PageSize}

\* MUTANT of More: the first page is taken for the whole answer.
MoreNever == FALSE

\* LastEvaluatedKey: there are keys behind the page.
More == Page # Ahead

\* queryAll: one page, from the last key of the page before.  Each row is the
\* stored version or an older one.
ReadPage ==
    /\ reader.step = "page"
    /\ \E seen \in [Page -> UNION {Readable(m) : m \in Page}] :
          LET found == reader.found \cup Rows(Page, seen)
          IN  /\ \A m \in Page : seen[m] \in Readable(m)
              /\ \/ /\ More
                    /\ reader' = [reader EXCEPT !.found = found,
                                    !.cursor = CHOOSE m \in Page : \A n \in Page : n <= m]
                 \/ ~More /\ Finished(found)
    /\ UNCHANGED <<adapter, stores, live, clock, pc, job, bounds, history>>

\* MUTANT of Object: the object applies the limit before the filters.
ObjectSlicedFirst(e) ==
    Filter(reader.q, Newest(Rows({m \in Message : EndpointOf[m] = e}, table), reader.q.limit))

\* listDeliveries of one endpoint object, in one call.
Object(e) ==
    Newest(Filter(reader.q, Rows({m \in Message : EndpointOf[m] = e}, table)), reader.q.limit)

ReadObject ==
    /\ reader.step = "objects"
    /\ \/ \E e \in reader.objects :
             reader' = [reader EXCEPT !.found = @ \cup Object(e), !.objects = @ \ {e}]
       \/ reader.objects = {} /\ Finished(reader.found)
    /\ UNCHANGED <<adapter, stores, live, clock, pc, job, bounds, history>>

\* The answer has been given.
Answered ==
    /\ reader.step = "done"
    /\ reader' = Idle /\ steady' = {}
    /\ UNCHANGED <<adapter, stores, live, clock, pc, job, bounds, kept, appended>>

Next ==
    \/ \E w \in Worker :
          \/ \E m \in Message : StartPut(w, m)
          \/ \E l \in Log : StartAppend(w, l)
          \/ PutMessage(w) \/ PutIndex(w) \/ NextSeq(w) \/ PutRow(w) \/ Append(w) \/ Crash(w)
    \/ \E e \in Endpoint : deleteEndpoint(e)
    \/ \E m \in Message : CatchUp(m)
    \/ \E q \in Query : StartList(q)
    \/ ReadPage \/ ReadObject \/ Answered

Spec == Init /\ [][Next]_vars

-----------------------------------------------------------------------------
\* getMessage: one read of the table, which may be outdated; or the index of the
\* tenant object, and then the endpoint object.
getMessage(m) == IF adapter = "durable" /\ m \notin index THEN {NoMessage} ELSE Readable(m)

(***************************************************************************)
(* A message that was stored is found by its id, for ever: in the Durable  *)
(* Objects once putMessage has returned, in the table once the replicas    *)
(* have caught up with its first put (until then a GetItem that is not     *)
(* consistent may still miss it).  A put that stopped before the index     *)
(* leaves a message that the next put makes findable, a later put opens no *)
(* gap, and deleting the endpoint hides nothing.  (state-do.ts putMessage: *)
(* "harmless to repeat on every putMessage"; getMessage there and in       *)
(* state-dynamo.ts)                                                        *)
(***************************************************************************)
StoredIsFound == \A m \in kept : NoMessage \notin getMessage(m)

(***************************************************************************)
(* No entry of a log is lost: rows appended at the same time, and after    *)
(* writers that took a number and stopped, have numbers of their own.      *)
(* (state-dynamo.ts nextSeq, appendAttempt, addToDlq; endpoint-do.ts)      *)
(***************************************************************************)
AppendsKept == \A a \in appended : \E r \in rows[a[1]] : r[2] = a[2]

(***************************************************************************)
(* A listing is complete, whatever is written meanwhile: every message     *)
(* that stays as it is and matches the query is listed, or the limit is    *)
(* reached with messages that are no older.  No message is listed twice.   *)
(* (state-dynamo.ts listDeliveries and queryAll; the limit per object and  *)
(* the merge of state-do.ts)                                               *)
(***************************************************************************)
ListingComplete ==
    reader # Idle /\ reader.step = "done" =>
       /\ \A r, s \in reader.found : r.message = s.message => r = s
       /\ \A m \in steady : Matches(reader.q, m, table[m]) =>
             \/ [message |-> m, version |-> table[m]] \in reader.found
             \/ /\ reader.q.limit # Unset /\ Cardinality(reader.found) = reader.q.limit
                /\ \A r \in reader.found : r.version.createdAt >= table[m].createdAt

-----------------------------------------------------------------------------
(***************************************************************************)
(* What every step preserves.                                              *)
(***************************************************************************)
PutJob == [message: Message, version: Version]
AppendJob == [log: Log, entry: Nat, seq: Nat]
ListedRow == [message: Message, version: Version]
Listing == [step: {"page", "objects", "done"}, q: Query, found: SUBSET ListedRow,
            cursor: Int, objects: SUBSET (Endpoint \cup {r.endpoint : r \in Query})]

TypeOK ==
    /\ table \in [Message -> Version \cup {NoMessage}]
    /\ older \in [Message -> SUBSET (Version \cup {NoMessage})]
    /\ index \subseteq Message /\ kept \subseteq Message /\ steady \subseteq Message
    /\ live \subseteq Endpoint
    /\ counter \in [Log -> Nat] /\ rows \in [Log -> SUBSET (Nat \X Nat)]
    /\ appended \subseteq Log \X Nat
    /\ clock \in Nat /\ writes \in Nat
    /\ pc \in [Worker -> {"idle", "put", "index", "seq", "row", "append"}]
    /\ job \in [Worker -> PutJob \cup AppendJob \cup {Idle}]
    /\ \A w \in Worker : /\ pc[w] \in {"put", "index"} => job[w] \in PutJob
                         /\ pc[w] \in {"seq", "row", "append"} => job[w] \in AppendJob
    /\ reader \in Listing \cup {Idle}

\* A message that was stored is in every replica of the table, or in the index;
\* one on its way into the index, or into the replicas, is in the table.
StoredAndIndexed ==
    /\ adapter = "durable" => \A m \in Message : older[m] = {}
    /\ \A m \in kept : /\ table[m] # NoMessage /\ NoMessage \notin older[m]
                       /\ adapter = "durable" => m \in index
    /\ \A m \in Message : older[m] # {} => table[m] # NoMessage
    /\ \A w \in Worker : pc[w] = "index" => table[job[w].message] # NoMessage

\* A number that a writer holds is in no row yet, and no other writer holds it.
NumbersFresh ==
    /\ \A l \in Log : \A r \in rows[l] : r[1] <= counter[l]
    /\ \A w \in Worker : pc[w] = "row" =>
          /\ job[w].seq <= counter[job[w].log]
          /\ \A r \in rows[job[w].log] : r[1] # job[w].seq
          /\ \A v \in Worker : pc[v] = "row" /\ job[v].log = job[w].log /\ v # w
                => job[v].seq # job[w].seq

AsStored(m) == [message |-> m, version |-> table[m]]

\* The limit is used up by rows that come before this one.
Crowded(r) ==
    /\ reader.q.limit # Unset
    /\ Cardinality({s \in reader.found : Precedes(s, r)}) >= reader.q.limit

\* How far a listing has come: the keys up to the cursor, or the objects that
\* are no longer to be asked, have been read.
ListingSoFar ==
    /\ \A m \in steady : table[m] # NoMessage /\ older[m] = {}
    /\ reader # Idle =>
          /\ IsFiniteSet(reader.found)
          /\ \A r, s \in reader.found : r.message = s.message => r = s
    /\ reader.step = "page" =>
          /\ \A r \in reader.found : r.message <= reader.cursor
          /\ \A m \in steady : m <= reader.cursor => AsStored(m) \in reader.found
    /\ reader.step = "objects" =>
          /\ \A r \in reader.found : /\ EndpointOf[r.message] \notin reader.objects
                                     /\ Matches(reader.q, r.message, r.version)
          /\ \A m \in steady : Matches(reader.q, m, table[m]) =>
                \/ EndpointOf[m] \in reader.objects
                \/ AsStored(m) \in reader.found
                \/ Crowded(AsStored(m))
=============================================================================
