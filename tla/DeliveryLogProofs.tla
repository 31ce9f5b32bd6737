------------------------- MODULE DeliveryLogProofs -------------------------
(***************************************************************************)
(* Proofs about module DeliveryLog, for both adapters and for every set of *)
(* messages, endpoints, logs, writers and queries, every page size and     *)
(* every number of crashes: what is stored is found, what is appended is   *)
(* kept, and a listing is complete while others write.                     *)
(***************************************************************************)
EXTENDS DeliveryLog, FiniteSetTheorems, TLAPS

(***************************************************************************)
(* The order of a listing.                                                 *)
(***************************************************************************)
\* The part of Position that is the same for every row of one query.
Group(r) == IF adapter = "durable" THEN EndpointOf[r.message] ELSE 0

LEMMA RowTypes ==
    ASSUME NEW r \in ListedRow
    PROVE  r.message \in Nat /\ r.version.createdAt \in Nat /\ Group(r) \in Nat
  <1>1. r.message \in Message /\ r.version \in Version
    BY DEF ListedRow
  <1>2. r.message \in Nat /\ EndpointOf[r.message] \in Nat
    BY <1>1, LogAssumption
  <1> QED  BY <1>1, <1>2 DEF Version, Group

LEMMA PrecedesIs ==
    ASSUME NEW r, NEW s
    PROVE  Precedes(r, s) <=>
              \/ r.version.createdAt > s.version.createdAt
              \/ /\ r.version.createdAt = s.version.createdAt
                 /\ Group(r) < Group(s) \/ (Group(r) = Group(s) /\ r.message < s.message)
  BY DEF Precedes, Position, Group

\* Precedes orders the rows of distinct messages, and newer rows come first.
LEMMA PrecedesOrders ==
    /\ \A r, s, t \in ListedRow : Precedes(r, s) /\ Precedes(s, t) => Precedes(r, t)
    /\ \A r \in ListedRow : ~Precedes(r, r)
    /\ \A r, s \in ListedRow : r.message # s.message => Precedes(r, s) \/ Precedes(s, r)
    /\ \A r, s \in ListedRow : r.version.createdAt > s.version.createdAt => Precedes(r, s)
  <1>1. ASSUME NEW r \in ListedRow, NEW s \in ListedRow, NEW t \in ListedRow
        PROVE  Precedes(r, s) /\ Precedes(s, t) => Precedes(r, t)
    BY RowTypes, PrecedesIs
  <1>2. ASSUME NEW r \in ListedRow, NEW s \in ListedRow
        PROVE  /\ ~Precedes(r, r)
               /\ r.message # s.message => Precedes(r, s) \/ Precedes(s, r)
               /\ r.version.createdAt > s.version.createdAt => Precedes(r, s)
    BY RowTypes, PrecedesIs
  <1> QED  BY <1>1, <1>2

(***************************************************************************)
(* Sort and slice.                                                         *)
(***************************************************************************)
Before(F, r) == {s \in F : Precedes(s, r)}

Rank(F, r) == Cardinality(Before(F, r))

\* A set of rows, none of them of the same message.
Listable(F) ==
    /\ F \subseteq ListedRow /\ IsFiniteSet(F)
    /\ \A r, s \in F : r.message = s.message => r = s

LEMMA RankType ==
    ASSUME NEW F, Listable(F), NEW r
    PROVE  Rank(F, r) \in Nat /\ Rank(F, r) <= Cardinality(F) /\ Cardinality(F) \in Nat
  <1>1. Before(F, r) \in SUBSET F /\ IsFiniteSet(F)
    BY DEF Before, Listable
  <1> QED  BY <1>1, FS_Subset, FS_CardinalityType DEF Rank

\* A later row has a higher rank.
LEMMA RankGrows ==
    ASSUME NEW F, Listable(F), NEW r \in ListedRow, NEW s \in ListedRow, Precedes(s, r)
    PROVE  /\ Rank(F, s) <= Rank(F, r)
           /\ s \in F => Rank(F, s) < Rank(F, r)
  <1>1. /\ Before(F, s) \in SUBSET Before(F, r) /\ Before(F, r) \in SUBSET F
        /\ s \in F => s \in Before(F, r) /\ s \notin Before(F, s)
    BY PrecedesOrders DEF Before, Listable
  <1>2. IsFiniteSet(Before(F, r))
    BY <1>1, FS_Subset DEF Listable
  <1>3. /\ Cardinality(Before(F, s)) <= Cardinality(Before(F, r))
        /\ Cardinality(Before(F, s)) = Cardinality(Before(F, r)) => Before(F, s) = Before(F, r)
    BY <1>1, <1>2, FS_Subset
  <1>4. Rank(F, s) \in Nat /\ Rank(F, r) \in Nat
    BY RankType
  <1> QED  BY <1>1, <1>3, <1>4 DEF Rank

\* Ranks are the numbers from 0, each once, so a slice is as long as its limit.
LEMMA SliceLength ==
    ASSUME NEW F, Listable(F), NEW limit \in Nat, limit <= Cardinality(F)
    PROVE  Cardinality({r \in F : Rank(F, r) < limit}) = limit
  <1> DEFINE N == Cardinality(F)
             f == [r \in F |-> Rank(F, r)]
             G == {r \in F : Rank(F, r) < limit}
             g == [r \in G |-> Rank(F, r)]
  <1>1. N \in Nat /\ IsFiniteSet(F) /\ F \subseteq ListedRow
    BY FS_CardinalityType DEF Listable
  <1>2. ASSUME NEW r \in F  PROVE Rank(F, r) \in 0..(N - 1)
    <2>1. Before(F, r) \in SUBSET F /\ Before(F, r) # F
      BY PrecedesOrders, <1>1 DEF Before
    <2>2. Cardinality(Before(F, r)) # N
      BY <1>1, <2>1, FS_Subset
    <2>3. Rank(F, r) \in Nat /\ Rank(F, r) <= N
      BY RankType
    <2> QED  BY <1>1, <2>2, <2>3 DEF Rank
  <1>3. ASSUME NEW r \in F, NEW s \in F, Rank(F, r) = Rank(F, s)  PROVE r = s
    <2>1. r \in ListedRow /\ s \in ListedRow
      BY <1>1
    <2>2. ~(Rank(F, r) < Rank(F, s)) /\ ~(Rank(F, s) < Rank(F, r))
      BY <1>3, RankType
    <2>3. ~Precedes(r, s) /\ ~Precedes(s, r)
      BY <2>1, <2>2, RankGrows
    <2> QED  BY <2>1, <2>3, PrecedesOrders DEF Listable
  <1>4. f \in Injection(F, 0..(N - 1))
    BY <1>2, <1>3 DEF Injection, IsInjective
  <1>5. IsFiniteSet(0..(N - 1)) /\ Cardinality(0..(N - 1)) = N
    <2> HIDE DEF N
    <2>1. 0 \in Int /\ N - 1 \in Int /\ N \in Nat
      BY <1>1
    <2>2. /\ IsFiniteSet(0..(N - 1))
          /\ Cardinality(0..(N - 1)) = IF 0 > N - 1 THEN 0 ELSE (N - 1) - 0 + 1
      BY <2>1, FS_Interval
    <2> QED  BY <2>1, <2>2
  <1>6. f \in Surjection(F, 0..(N - 1))
    <2>1. Cardinality(F) = Cardinality(0..(N - 1))
      BY <1>5
    <2> HIDE DEF f, N
    <2> QED  BY <1>4, <1>5, <2>1, FS_Injection
  <1>7. \A n \in 0..(N - 1) : \E r \in F : Rank(F, r) = n
    BY <1>6 DEF Surjection
  <1>8. g \in Bijection(G, 0..(limit - 1))
    <2>1. g \in [G -> 0..(limit - 1)]
      BY RankType
    <2>2. g \in Injection(G, 0..(limit - 1))
      BY <1>3, <2>1 DEF Injection, IsInjective
    <2>3. ASSUME NEW n \in 0..(limit - 1)  PROVE \E r \in G : g[r] = n
      <3>1. n \in 0..(N - 1) /\ n < limit
        BY <1>1
      <3>2. PICK r \in F : Rank(F, r) = n
        BY <1>7, <3>1
      <3> QED  BY <3>1, <3>2
    <2> QED  BY <2>1, <2>2, <2>3 DEF Bijection, Surjection
  <1>9. IsFiniteSet(G)
    BY <1>1, FS_Subset
  <1>10. Cardinality(0..(limit - 1)) = Cardinality(G)
    BY <1>8, <1>9, FS_Bijection DEF ExistsBijection
  <1>11. Cardinality(0..(limit - 1)) = limit
    BY FS_Interval
  <1> QED  BY <1>10, <1>11

\* A slice is what its rows' ranks say.
LEMMA NewestIs ==
    ASSUME NEW F, NEW limit
    PROVE  Newest(F, limit) = IF limit = Unset THEN F ELSE {r \in F : Rank(F, r) < limit}
  BY DEF Newest, Rank, Before

\* The limit is reached when it leaves out a row, or a row that as many precede,
\* and nothing listed is older.
LEMMA SliceFull ==
    ASSUME NEW F, Listable(F), NEW limit \in Nat, NEW x \in ListedRow, Rank(F, x) >= limit
    PROVE  /\ Cardinality(Newest(F, limit)) = limit
           /\ \A r \in Newest(F, limit) : r.version.createdAt >= x.version.createdAt
  <1>1. limit # Unset
    BY LogAssumption
  <1>2. Newest(F, limit) = {r \in F : Rank(F, r) < limit}
    BY <1>1, NewestIs
  <1>3. Rank(F, x) \in Nat /\ limit <= Cardinality(F)
    BY RankType
  <1>4. Cardinality(Newest(F, limit)) = limit
    BY <1>2, <1>3, SliceLength
  <1>5. ASSUME NEW r \in Newest(F, limit), ~(r.version.createdAt >= x.version.createdAt)
        PROVE  FALSE
    <2>1. r \in ListedRow /\ Rank(F, r) < limit /\ Rank(F, r) \in Nat
      BY <1>2, RankType DEF Listable
    <2>2. Precedes(x, r)
      BY <1>5, <2>1, RowTypes, PrecedesOrders
    <2>3. Rank(F, x) <= Rank(F, r)
      BY <2>1, <2>2, RankGrows
    <2> QED  BY <1>3, <2>1, <2>3
  <1> QED  BY <1>4, <1>5

\* Everything in a slice precedes every row that it leaves out.
LEMMA SlicePrecedes ==
    ASSUME NEW F, Listable(F), NEW limit \in Nat, NEW x \in F, x \notin Newest(F, limit)
    PROVE  /\ Rank(F, x) >= limit
           /\ \A r \in Newest(F, limit) : Precedes(r, x)
  <1>1. limit # Unset
    BY LogAssumption
  <1>2. Newest(F, limit) = {r \in F : Rank(F, r) < limit}
    BY <1>1, NewestIs
  <1>3. Rank(F, x) >= limit /\ Rank(F, x) \in Nat /\ x \in ListedRow
    BY <1>2, RankType DEF Listable
  <1>4. ASSUME NEW r \in Newest(F, limit)  PROVE Precedes(r, x)
    <2>1. r \in F /\ r \in ListedRow /\ Rank(F, r) < limit /\ Rank(F, r) \in Nat
      BY <1>2, RankType DEF Listable
    <2>2. ~(Rank(F, x) <= Rank(F, r))
      BY <1>3, <2>1
    <2>3. ~Precedes(x, r)
      BY <1>3, <2>1, <2>2, RankGrows
    <2>4. r.message # x.message
      BY <2>1, <1>2 DEF Listable
    <2> QED  BY <1>3, <2>1, <2>3, <2>4, PrecedesOrders
  <1> QED  BY <1>3, <1>4

LEMMA NewestSubset ==
    ASSUME NEW F, NEW limit
    PROVE  Newest(F, limit) \subseteq F
  BY NewestIs

LEMMA ListableSubset ==
    ASSUME NEW F, Listable(F), NEW G \in SUBSET F
    PROVE  Listable(G)
  BY FS_Subset DEF Listable

\* Rows of distinct messages.
LEMMA RowsListable ==
    ASSUME NEW ms \in SUBSET Message, NEW versions,
           \A m \in ms : versions[m] \in Version \cup {NoMessage}
    PROVE  Listable(Rows(ms, versions))
  <1> DEFINE S == {n \in ms : versions[n] # NoMessage}
             f == [m \in S |-> [message |-> m, version |-> versions[m]]]
  <1>1. IsFiniteSet(S)
    BY LogAssumption, FS_Subset
  <1>2. f \in Surjection(S, Rows(ms, versions))
    BY DEF Rows, Surjection
  <1>3. IsFiniteSet(Rows(ms, versions))
    <2> HIDE DEF f, S
    <2> QED  BY <1>1, <1>2, FS_Surjection
  <1> QED  BY <1>3 DEF Listable, ListedRow, Rows

(***************************************************************************)
(* Pages.                                                                  *)
(***************************************************************************)
\* A nonempty finite set of numbers has a least element: the sets of the numbers
\* below each are finite, and so one of them is minimal.
LEMMA LeastNumber ==
    ASSUME NEW S \in SUBSET Nat, IsFiniteSet(S), S # {}
    PROVE  \E m \in S : \A n \in S : m <= n
  <1> DEFINE below(m) == {n \in S : n < m}
             T == {below(m) : m \in S}
             R == StrictSubsetOrdering(S)
  <1>1. IsWellFoundedOn(R, SUBSET S)
    BY FS_StrictSubsetOrderingWellFounded, FS_FiniteSubsetsOfFinite
  <1>2. T \subseteq SUBSET S /\ T # {}
    OBVIOUS
  <1>3. PICK x \in T : \A y \in T : <<y, x>> \notin R
    <2> HIDE DEF R, T
    <2> QED  BY <1>1, <1>2, WFMin
  <1>4. PICK m \in S : x = below(m)
    BY <1>3
  <1>5. ASSUME NEW n \in S, n < m  PROVE FALSE
    <2>1. n \in Nat /\ m \in Nat /\ ~(n < n) /\ \A k \in S : k < n => k < m
      BY <1>5
    <2>2. below(n) \subseteq below(m) /\ n \in below(m) /\ n \notin below(n)
      BY Zenon, <1>5, <2>1
    <2>3. <<below(n), below(m)>> \in R
      BY Zenon, <2>2 DEF StrictSubsetOrdering
    <2> QED  BY Zenon, <1>3, <1>4, <2>3
  <1> QED  BY <1>5

\* ... and a greatest.
LEMMA GreatestNumber ==
    ASSUME NEW S \in SUBSET Nat, IsFiniteSet(S), S # {}
    PROVE  \E m \in S : \A n \in S : n <= m
  <1> DEFINE above(m) == {n \in S : n > m}
             T == {above(m) : m \in S}
             R == StrictSubsetOrdering(S)
  <1>1. IsWellFoundedOn(R, SUBSET S)
    BY FS_StrictSubsetOrderingWellFounded, FS_FiniteSubsetsOfFinite
  <1>2. T \subseteq SUBSET S /\ T # {}
    OBVIOUS
  <1>3. PICK x \in T : \A y \in T : <<y, x>> \notin R
    <2> HIDE DEF R, T
    <2> QED  BY <1>1, <1>2, WFMin
  <1>4. PICK m \in S : x = above(m)
    BY <1>3
  <1>5. ASSUME NEW n \in S, n > m  PROVE FALSE
    <2>1. n \in Nat /\ m \in Nat /\ ~(n > n) /\ \A k \in S : k > n => k > m
      BY <1>5
    <2>2. above(n) \subseteq above(m) /\ n \in above(m) /\ n \notin above(n)
      BY Zenon, <1>5, <2>1
    <2>3. <<above(n), above(m)>> \in R
      BY Zenon, <2>2 DEF StrictSubsetOrdering
    <2> QED  BY Zenon, <1>3, <1>4, <2>3
  <1> QED  BY <1>5

\* A page is the least of the keys ahead, and not empty unless there are none.
LEMMA PageIsFirst ==
    /\ Ahead \subseteq Nat /\ Page \subseteq Ahead /\ Ahead \subseteq Message
    /\ \A m \in Ahead \ Page, n \in Page : n < m
    /\ Ahead # {} => Page # {}
  <1> DEFINE below(m) == {n \in Ahead : n < m}
  <1>1. Ahead \subseteq Message /\ Ahead \subseteq Nat /\ IsFiniteSet(Ahead)
    BY LogAssumption, FS_Subset DEF Ahead
  <1>2. Page = {m \in Ahead : Cardinality(below(m)) < PageSize}
    BY DEF Page
  <1>3. ASSUME NEW m \in Ahead  PROVE IsFiniteSet(below(m)) /\ Cardinality(below(m)) \in Nat
    BY <1>1, FS_Subset, FS_CardinalityType
  <1>4. ASSUME NEW m \in Ahead \ Page, NEW n \in Page, ~(n < m)  PROVE FALSE
    <2>1. m \in Nat /\ n \in Nat /\ m \in Ahead /\ n \in Ahead
      BY <1>1, <1>2, <1>4
    <2>2. \A k \in Ahead : k < m => k < n
      BY <1>1, <1>4, <2>1
    <2>3. below(m) \in SUBSET below(n)
      BY <2>2
    <2>4. Cardinality(below(m)) <= Cardinality(below(n))
      <3> HIDE DEF below
      <3> QED  BY <1>3, <2>1, <2>3, FS_Subset
    <2>5. Cardinality(below(n)) < PageSize /\ ~(Cardinality(below(m)) < PageSize)
      BY <1>2, <1>4
    <2> HIDE DEF below
    <2> QED  BY <1>3, <2>1, <2>4, <2>5, LogAssumption
  <1>5. ASSUME Ahead # {}  PROVE Page # {}
    <2>1. PICK m \in Ahead : \A n \in Ahead : m <= n
      BY <1>1, <1>5, LeastNumber
    <2>2. \A n \in Ahead : ~(n < m)
      BY <1>1, <2>1
    <2>3. below(m) = {}
      BY <2>2
    <2>4. Cardinality(below(m)) = 0
      BY <2>3, FS_EmptySet
    <2> QED  BY <1>2, <2>4, LogAssumption
  <1> QED  BY <1>1, <1>2, <1>4, <1>5

\* The last key of a page with more behind it.
LastKey == CHOOSE m \in Page : \A n \in Page : n <= m

LEMMA LastKeyIs == More => LastKey \in Page /\ \A n \in Page : n <= LastKey
  <1>1. Page \subseteq Nat /\ Page \subseteq Message /\ (More => Page # {})
    BY PageIsFirst DEF More
  <1>2. IsFiniteSet(Page)
    BY <1>1, LogAssumption, FS_Subset
  <1>3. More => \E m \in Page : \A n \in Page : n <= m
    BY <1>1, <1>2, GreatestNumber
  <1> QED  BY Zenon, <1>3 DEF LastKey

(***************************************************************************)
(* Types.                                                                  *)
(***************************************************************************)
LEMMA ReaderIs ==
    ASSUME TypeOK
    PROVE  /\ reader.step \in {"page", "objects", "done"} => reader \in Listing
           /\ reader # Idle => reader \in Listing
           /\ reader = Idle => reader.step = "idle"
  BY DEF TypeOK, Idle

LEMMA Fields ==
    ASSUME NEW r \in Listing
    PROVE  /\ r.step \in {"page", "objects", "done"} /\ r.q \in Query
           /\ r.found \subseteq ListedRow /\ r.cursor \in Int
           /\ r.objects \subseteq Endpoint \cup {q.endpoint : q \in Query}
           /\ r # Idle
  BY DEF Listing, Idle

LEMMA FilterSubset ==
    ASSUME NEW q, NEW F
    PROVE  Filter(q, F) \subseteq F
  BY DEF Filter

\* A listing that goes on, or ends with these rows.
LEMMA PageTyped ==
    ASSUME NEW r \in Listing, NEW F \in SUBSET ListedRow, NEW c \in Int
    PROVE  [r EXCEPT !.found = F, !.cursor = c] \in Listing
  BY DEF Listing

LEMMA ObjectTyped ==
    ASSUME NEW r \in Listing, NEW F \in SUBSET ListedRow, NEW o \in SUBSET r.objects
    PROVE  [r EXCEPT !.found = F, !.objects = o] \in Listing
  <1>1. o \subseteq Endpoint \cup {q.endpoint : q \in Query}
    BY Fields
  <1> QED  BY <1>1 DEF Listing

LEMMA DoneTyped ==
    ASSUME NEW r \in Listing, NEW F \in SUBSET ListedRow
    PROVE  [r EXCEPT !.step = "done", !.found = F] \in Listing
  BY DEF Listing

LEMMA ReadableTyped ==
    ASSUME table \in [Message -> Version \cup {NoMessage}],
           older \in [Message -> SUBSET (Version \cup {NoMessage})], NEW m \in Message
    PROVE  Readable(m) \subseteq Version \cup {NoMessage}
  BY DEF Readable

LEMMA ReadTypes ==
    ASSUME TypeOK, ReadPage \/ ReadObject
    PROVE  TypeOK'
  <1>1. reader \in Listing
    BY ReaderIs DEF ReadPage, ReadObject
  <1>2. /\ table \in [Message -> Version \cup {NoMessage}]
        /\ older \in [Message -> SUBSET (Version \cup {NoMessage})]
        /\ reader.found \subseteq ListedRow
    BY <1>1, Fields DEF TypeOK
  <1>3. ASSUME NEW F \in SUBSET ListedRow, Finished(F)  PROVE reader' \in Listing
    <2>1. Newest(Filter(reader.q, F), reader.q.limit) \in SUBSET ListedRow
      BY FilterSubset, NewestSubset
    <2> QED  BY <1>1, <1>3, <2>1, DoneTyped DEF Finished
  <1>4. CASE ReadPage
    <2>1. PICK seen :
             LET found == reader.found \cup Rows(Page, seen)
             IN  /\ \A m \in Page : seen[m] \in Readable(m)
                 /\ \/ More /\ reader' = [reader EXCEPT !.found = found, !.cursor = LastKey]
                    \/ ~More /\ Finished(found)
      BY Zenon, <1>4 DEF ReadPage, LastKey
    <2> DEFINE found == reader.found \cup Rows(Page, seen)
    <2>2. Page \in SUBSET Message
      BY PageIsFirst
    <2>3. found \in SUBSET ListedRow
      <3>1. \A m \in Page : seen[m] \in Version \cup {NoMessage}
        BY <1>2, <2>1, <2>2, ReadableTyped
      <3> QED  BY <1>2, <2>2, <3>1, RowsListable DEF Listable
    <2>4. ASSUME More  PROVE LastKey \in Int
      <3>1. LastKey \in Nat
        BY Zenon, <2>4, LastKeyIs, PageIsFirst
      <3> QED  BY <3>1
    <2>5. \/ More /\ reader' = [reader EXCEPT !.found = found, !.cursor = LastKey]
          \/ ~More /\ Finished(found)
      BY Zenon, <2>1
    <2>6. reader' \in Listing
      <3> HIDE DEF found
      <3>1. CASE More
        BY <1>1, <2>3, <2>4, <2>5, <3>1, PageTyped
      <3>2. CASE ~More
        BY <1>3, <2>3, <2>5, <3>2
      <3> QED  BY <3>1, <3>2
    <2> QED  BY Zenon, <1>4, <2>6 DEF TypeOK, ReadPage, stores, bounds, history
  <1>5. CASE ReadObject
    <2>1. ASSUME NEW e \in reader.objects,
                 reader' = [reader EXCEPT !.found = reader.found \cup Object(e),
                                          !.objects = reader.objects \ {e}]
          PROVE  reader' \in Listing
      <3>1. {m \in Message : EndpointOf[m] = e} \in SUBSET Message
        OBVIOUS
      <3>2. Object(e) \subseteq ListedRow
        BY <1>2, <3>1, RowsListable, FilterSubset, NewestSubset DEF Object, Listable
      <3>3. reader.found \cup Object(e) \in SUBSET ListedRow
        BY <1>2, <3>2
      <3>4. reader.objects \ {e} \in SUBSET reader.objects
        OBVIOUS
      <3> QED  BY <1>1, <2>1, <3>3, <3>4, ObjectTyped
    <2>2. reader' \in Listing
      BY Zenon, <1>2, <1>3, <1>5, <2>1 DEF ReadObject
    <2> QED  BY Zenon, <1>5, <2>2 DEF TypeOK, ReadObject, stores, bounds, history
  <1> QED  BY <1>4, <1>5

LEMMA LogTypesInit == Init => TypeOK
  BY LogAssumption DEF Init, TypeOK, Version, Idle

\* A writer begins.
LEMMA BeginTypes ==
    ASSUME TypeOK, NEW w \in Worker, NEW j, NEW first, Begin(w, j, first), clock' \in Nat,
           \/ j \in PutJob /\ first = "put"
           \/ j \in AppendJob /\ first \in {"seq", "append"}
    PROVE  TypeOK'
  <1>1. writes' \in Nat
    BY DEF Begin, TypeOK
  <1>2. pc' \in [Worker -> {"idle", "put", "index", "seq", "row", "append"}]
    BY DEF Begin, TypeOK
  <1>3. job' \in [Worker -> PutJob \cup AppendJob \cup {Idle}]
    BY Zenon DEF Begin, TypeOK
  <1>4. \A v \in Worker : /\ pc'[v] \in {"put", "index"} => job'[v] \in PutJob
                          /\ pc'[v] \in {"seq", "row", "append"} => job'[v] \in AppendJob
    BY Zenon DEF Begin, TypeOK
  <1> QED  BY Zenon, <1>1, <1>2, <1>3, <1>4 DEF Begin, TypeOK, stores, history

\* A writer stops, or has finished.
LEMMA EndTypes ==
    ASSUME TypeOK, NEW w \in Worker,
           pc' = [pc EXCEPT ![w] = "idle"], job' = [job EXCEPT ![w] = Idle]
    PROVE  /\ pc' \in [Worker -> {"idle", "put", "index", "seq", "row", "append"}]
           /\ job' \in [Worker -> PutJob \cup AppendJob \cup {Idle}]
           /\ \A v \in Worker : /\ pc'[v] \in {"put", "index"} => job'[v] \in PutJob
                                /\ pc'[v] \in {"seq", "row", "append"} => job'[v] \in AppendJob
  <1>1. /\ pc \in [Worker -> {"idle", "put", "index", "seq", "row", "append"}]
        /\ job \in [Worker -> PutJob \cup AppendJob \cup {Idle}]
    BY DEF TypeOK
  <1>2. \A v \in Worker : \/ pc'[v] = "idle"
                          \/ pc'[v] = pc[v] /\ job'[v] = job[v]
    BY Zenon, <1>1
  <1>3. \A v \in Worker : /\ pc'[v] \in {"put", "index"} => job'[v] \in PutJob
                          /\ pc'[v] \in {"seq", "row", "append"} => job'[v] \in AppendJob
    BY Zenon, <1>2 DEF TypeOK
  <1>4. job' \in [Worker -> PutJob \cup AppendJob \cup {Idle}]
    BY Zenon, <1>1
  <1>5. pc' \in [Worker -> {"idle", "put", "index", "seq", "row", "append"}]
    BY <1>1
  <1> QED  BY <1>3, <1>4, <1>5

LEMMA PutTypes ==
    ASSUME TypeOK, NEW w \in Worker,
           (\E m \in Message : StartPut(w, m)) \/ PutMessage(w) \/ PutIndex(w)
    PROVE  TypeOK'
  <1>0. /\ table \in [Message -> Version \cup {NoMessage}]
        /\ older \in [Message -> SUBSET (Version \cup {NoMessage})]
        /\ pc \in [Worker -> {"idle", "put", "index", "seq", "row", "append"}]
        /\ pc[w] \in {"put", "index"} => job[w] \in PutJob
        /\ clock \in Nat
    BY DEF TypeOK
  <1>1. ASSUME NEW m \in Message, StartPut(w, m)  PROVE TypeOK'
    <2>1. ASSUME NEW t \in {clock, clock + 1},
                 Begin(w, [message |-> m, version |-> [createdAt |-> t, status |-> "pending"]],
                       "put"),
                 clock' = t
          PROVE  TypeOK'
      <3>1. t \in Nat
        BY <1>0, <2>1
      <3>2. [message |-> m, version |-> [createdAt |-> t, status |-> "pending"]] \in PutJob
        BY <3>1 DEF PutJob, Version
      <3> QED  BY <2>1, <3>1, <3>2, BeginTypes
    <2>2. ASSUME table[m] # NoMessage, UNCHANGED clock,
                 Begin(w, [message |-> m, version |-> [table[m] EXCEPT !.status = "delivered"]],
                       "put")
          PROVE  TypeOK'
      <3>1. [table[m] EXCEPT !.status = "delivered"] \in Version
        BY <1>0, <2>2 DEF Version
      <3>2. [message |-> m, version |-> [table[m] EXCEPT !.status = "delivered"]] \in PutJob
        BY <3>1 DEF PutJob
      <3> QED  BY <1>0, <2>2, <3>2, BeginTypes
    <2> QED  BY Zenon, <1>1, <2>1, <2>2 DEF StartPut
  <1>2. CASE PutMessage(w)
    <2>1. job[w].message \in Message /\ job[w].version \in Version
      BY <1>0, <1>2 DEF PutMessage, PutJob
    <2>2. table[job[w].message] \in Version \cup {NoMessage}
      BY <1>0, <2>1
    <2>3. /\ table' \in [Message -> Version \cup {NoMessage}]
          /\ older' \in [Message -> SUBSET (Version \cup {NoMessage})]
      BY Zenon, <1>0, <1>2, <2>1, <2>2 DEF PutMessage
    <2>4. steady' \subseteq Message
      BY Zenon, <1>2 DEF PutMessage, TypeOK
    <2>5. pc' \in [Worker -> {"idle", "put", "index", "seq", "row", "append"}]
      BY <1>0, <1>2 DEF PutMessage
    <2>6. \A v \in Worker : /\ pc'[v] \in {"put", "index"} => job'[v] \in PutJob
                            /\ pc'[v] \in {"seq", "row", "append"} => job'[v] \in AppendJob
      BY Zenon, <1>0, <1>2 DEF PutMessage, TypeOK
    <2> QED  BY Zenon, <1>2, <2>3, <2>4, <2>5, <2>6 DEF TypeOK, PutMessage, bounds
  <1>3. CASE PutIndex(w)
    <2>1. job[w].message \in Message
      BY <1>0, <1>3 DEF PutIndex, PutJob
    <2>2. index' \subseteq Message /\ kept' \subseteq Message
      BY <1>3, <2>1 DEF PutIndex, registerMessage, TypeOK
    <2> QED  BY Zenon, <1>3, <2>2, EndTypes DEF TypeOK, PutIndex, bounds
  <1> QED  BY <1>1, <1>2, <1>3

LEMMA AppendTypes ==
    ASSUME TypeOK, NEW w \in Worker,
           \/ \E l \in Log : StartAppend(w, l)
           \/ NextSeq(w) \/ PutRow(w) \/ Append(w) \/ Crash(w)
    PROVE  TypeOK'
  <1>0. /\ counter \in [Log -> Nat] /\ rows \in [Log -> SUBSET (Nat \X Nat)]
        /\ pc \in [Worker -> {"idle", "put", "index", "seq", "row", "append"}]
        /\ job \in [Worker -> PutJob \cup AppendJob \cup {Idle}]
        /\ pc[w] \in {"seq", "row", "append"} => job[w] \in AppendJob
        /\ clock \in Nat /\ writes \in Nat /\ appended \subseteq Log \X Nat
    BY DEF TypeOK
  <1>1. ASSUME NEW l \in Log, StartAppend(w, l)  PROVE TypeOK'
    <2>1. [log |-> l, entry |-> writes, seq |-> 0] \in AppendJob
      BY <1>0 DEF AppendJob
    <2>2. clock' \in Nat
      BY <1>0, <1>1 DEF StartAppend
    <2>3. PICK first \in {"seq", "append"} :
             Begin(w, [log |-> l, entry |-> writes, seq |-> 0], first)
      BY Zenon, <1>1 DEF StartAppend
    <2> QED  BY <2>1, <2>2, <2>3, BeginTypes
  <1>2. CASE NextSeq(w)
    <2>1. job[w] \in AppendJob /\ job[w].log \in Log
      BY <1>0, <1>2 DEF NextSeq, AppendJob
    <2>2. nextSeq(job[w].log) \in Nat
      BY <1>0, <2>1 DEF nextSeq
    <2>3. [job[w] EXCEPT !.seq = nextSeq(job[w].log)] \in AppendJob
      BY <2>1, <2>2 DEF AppendJob
    <2>4. /\ counter' \in [Log -> Nat]
          /\ job' = [job EXCEPT ![w] = [job[w] EXCEPT !.seq = nextSeq(job[w].log)]]
      BY <1>0, <1>2, <2>1, <2>2 DEF NextSeq
    <2>5. job' \in [Worker -> PutJob \cup AppendJob \cup {Idle}]
      BY Zenon, <1>0, <2>3, <2>4
    <2>6. pc' \in [Worker -> {"idle", "put", "index", "seq", "row", "append"}]
      BY <1>0, <1>2 DEF NextSeq
    <2>7. \A v \in Worker : /\ pc'[v] \in {"put", "index"} => job'[v] \in PutJob
                            /\ pc'[v] \in {"seq", "row", "append"} => job'[v] \in AppendJob
      BY Zenon, <1>0, <1>2, <2>3, <2>4 DEF NextSeq, TypeOK
    <2> QED  BY Zenon, <1>2, <2>4, <2>5, <2>6, <2>7 DEF TypeOK, NextSeq, bounds, history
  <1>3. ASSUME NEW l \in Log, NEW n \in Nat, Row(w, l, n), job[w].entry \in Nat,
               counter' \in [Log -> Nat]
        PROVE  TypeOK'
    <2>1. appended' \subseteq Log \X Nat
      BY <1>0, <1>3 DEF Row
    <2>2. {r \in rows[l] : r[1] # n} \cup {<<n, job[w].entry>>} \in SUBSET (Nat \X Nat)
      BY <1>0, <1>3
    <2>3. rows' = [rows EXCEPT ![l] = {r \in rows[l] : r[1] # n} \cup {<<n, job[w].entry>>}]
      BY <1>3 DEF Row
    <2>4. rows' \in [Log -> SUBSET (Nat \X Nat)]
      BY Zenon, <1>0, <2>2, <2>3
    <2> QED  BY Zenon, <1>3, <2>1, <2>4, EndTypes DEF TypeOK, Row, bounds
  <1>4. CASE PutRow(w)
    <2>1. job[w].log \in Log /\ job[w].seq \in Nat /\ job[w].entry \in Nat
      BY <1>0, <1>4 DEF PutRow, AppendJob
    <2> QED  BY Zenon, <1>0, <1>3, <1>4, <2>1 DEF PutRow
  <1>5. CASE Append(w)
    <2>1. job[w].log \in Log /\ job[w].entry \in Nat
      BY <1>0, <1>5 DEF Append, AppendJob
    <2>2. counter[job[w].log] + 1 \in Nat
      BY <1>0, <2>1
    <2>3. Row(w, job[w].log, counter[job[w].log] + 1) /\ counter' \in [Log -> Nat]
      BY <1>0, <1>5, <2>1, <2>2 DEF Append
    <2> QED  BY <1>3, <2>1, <2>2, <2>3
  <1>6. CASE Crash(w)
    BY Zenon, <1>6, EndTypes DEF TypeOK, Crash, stores, history
  <1> QED  BY <1>1, <1>2, <1>4, <1>5, <1>6

LEMMA OtherTypes ==
    ASSUME TypeOK,
           \/ \E e \in Endpoint : deleteEndpoint(e)
           \/ \E m \in Message : CatchUp(m)
           \/ (\E q \in Query : StartList(q)) \/ Answered \/ UNCHANGED vars
    PROVE  TypeOK'
  <1>1. ASSUME NEW e \in Endpoint, deleteEndpoint(e)  PROVE TypeOK'
    <2>1. writes' \in Nat /\ live' \subseteq Endpoint
      BY <1>1 DEF deleteEndpoint, TypeOK
    <2> QED  BY Zenon, <1>1, <2>1 DEF deleteEndpoint, TypeOK, stores, history
  <1>2. ASSUME NEW m \in Message, CatchUp(m)  PROVE TypeOK'
    <2>1. /\ older' \in [Message -> SUBSET (Version \cup {NoMessage})]
          /\ kept' \subseteq Message
      BY <1>2 DEF CatchUp, TypeOK
    <2> QED  BY Zenon, <1>2, <2>1 DEF CatchUp, TypeOK, bounds
  <1>3. ASSUME NEW q \in Query, StartList(q)  PROVE TypeOK'
    <2>1. reader' \in Listing
      BY <1>3 DEF StartList, Listing, TypeOK
    <2>2. steady' \subseteq Message
      BY Zenon, <1>3 DEF StartList, Settled
    <2> QED  BY Zenon, <1>3, <2>1, <2>2 DEF StartList, TypeOK, stores, bounds
  <1>4. CASE Answered
    BY Zenon, <1>4 DEF Answered, TypeOK, stores, bounds
  <1>5. CASE UNCHANGED vars
    BY Zenon, <1>5 DEF vars, TypeOK, stores, bounds, history
  <1> QED  BY <1>1, <1>2, <1>3, <1>4, <1>5

LEMMA LogTypesStep ==
    ASSUME TypeOK, [Next]_vars
    PROVE  TypeOK'
  BY PutTypes, AppendTypes, ReadTypes, OtherTypes DEF Next

(***************************************************************************)
(* Stored messages.                                                        *)
(***************************************************************************)
\* Steps that write no message.
LEMMA StoredFrame ==
    ASSUME TypeOK, StoredAndIndexed, UNCHANGED <<adapter, table, older, index, kept>>,
           \A w \in Worker : pc'[w] = "index" => pc[w] = "index" /\ job'[w] = job[w]
    PROVE  StoredAndIndexed'
  BY Zenon DEF StoredAndIndexed

LEMMA StoredStep ==
    ASSUME TypeOK, StoredAndIndexed, [Next]_vars
    PROVE  StoredAndIndexed'
  <1>0. /\ pc \in [Worker -> {"idle", "put", "index", "seq", "row", "append"}]
        /\ job \in [Worker -> PutJob \cup AppendJob \cup {Idle}]
        /\ table \in [Message -> Version \cup {NoMessage}]
        /\ older \in [Message -> SUBSET (Version \cup {NoMessage})]
        /\ \A w \in Worker : pc[w] \in {"put", "index"} => job[w] \in PutJob
        /\ kept \subseteq Message
    BY DEF TypeOK
  <1>1. ASSUME NEW w \in Worker, NEW j, NEW first \in {"put", "seq", "append"},
               Begin(w, j, first)
        PROVE  StoredAndIndexed'
    <2>1. \A v \in Worker : pc'[v] = "index" => pc[v] = "index" /\ job'[v] = job[v]
      BY <1>0, <1>1 DEF Begin
    <2> QED  BY Zenon, <1>1, <2>1, StoredFrame DEF Begin, stores, history
  <1>2. ASSUME NEW w \in Worker, NEW m \in Message, StartPut(w, m)  PROVE StoredAndIndexed'
    BY Zenon, <1>1, <1>2 DEF StartPut
  <1>3. ASSUME NEW w \in Worker, NEW l \in Log, StartAppend(w, l)  PROVE StoredAndIndexed'
    BY Zenon, <1>1, <1>3 DEF StartAppend
  <1>4. ASSUME NEW w \in Worker, PutMessage(w)  PROVE StoredAndIndexed'
    <2>1. job[w].message \in Message /\ job[w].version \in Version
      BY <1>0, <1>4 DEF PutMessage, PutJob
    <2>2. job[w].version # NoMessage
      BY <2>1, LogAssumption
    <2>3. \A m \in Message : table[m] # NoMessage => table'[m] # NoMessage
      BY Zenon, <1>0, <1>4, <2>1, <2>2 DEF PutMessage
    <2>4. table'[job[w].message] # NoMessage
      BY Zenon, <1>0, <1>4, <2>1, <2>2 DEF PutMessage
    <2>5. \A v \in Worker : pc[v] = "index" => job[v].message \in Message
      BY <1>0 DEF PutJob
    <2>6. \A v \in Worker : v # w => pc'[v] = pc[v]
      BY Zenon, <1>0, <1>4 DEF PutMessage
    <2>7. UNCHANGED <<adapter, job, kept, index>>
      BY Zenon, <1>4 DEF PutMessage
    <2>8. /\ \A m \in Message : older'[m] = older[m] \/ older'[m] = older[m] \cup {table[m]}
          /\ \A m \in Message : m = job[w].message \/ older'[m] = older[m]
          /\ adapter = "durable" => \A m \in Message : older'[m] = older[m]
      BY <1>0, <1>4, <2>1 DEF PutMessage
    <2>9. \A m \in kept : /\ table'[m] # NoMessage /\ NoMessage \notin older'[m]
                          /\ adapter = "durable" => m \in index
      BY <1>0, <2>3, <2>8 DEF StoredAndIndexed
    <2>10. \A v \in Worker : pc'[v] = "index" => table'[job[v].message] # NoMessage
      BY Zenon, <2>3, <2>4, <2>5, <2>6 DEF StoredAndIndexed
    <2>11. \A m \in Message : older'[m] # {} => table'[m] # NoMessage
      BY Zenon, <2>3, <2>4, <2>8 DEF StoredAndIndexed
    <2>12. adapter = "durable" => \A m \in Message : older'[m] = {}
      BY Zenon, <2>8 DEF StoredAndIndexed
    <2> QED  BY Zenon, <2>7, <2>9, <2>10, <2>11, <2>12 DEF StoredAndIndexed
  <1>5. ASSUME NEW w \in Worker, PutIndex(w)  PROVE StoredAndIndexed'
    <2>1. table[job[w].message] # NoMessage /\ UNCHANGED <<adapter, table, older>>
      BY Zenon, <1>5 DEF StoredAndIndexed, PutIndex
    <2>2. \A m \in kept' : m \in kept \/ (m = job[w].message /\ older[m] = {})
      BY <1>5 DEF PutIndex
    <2>3. \A m \in kept' : /\ table'[m] # NoMessage /\ NoMessage \notin older'[m]
                           /\ adapter = "durable" => m \in index'
      BY <1>5, <2>1, <2>2 DEF PutIndex, registerMessage, StoredAndIndexed
    <2>4. \A v \in Worker : pc'[v] = "index" => pc[v] = "index" /\ job'[v] = job[v]
      BY <1>0, <1>5 DEF PutIndex
    <2> QED  BY Zenon, <2>1, <2>3, <2>4 DEF StoredAndIndexed
  <1>6. ASSUME NEW w \in Worker, NextSeq(w)  PROVE StoredAndIndexed'
    <2>1. \A v \in Worker : pc'[v] = "index" => pc[v] = "index" /\ job'[v] = job[v]
      BY <1>0, <1>6 DEF NextSeq
    <2> QED  BY Zenon, <1>6, <2>1, StoredFrame DEF NextSeq, history
  <1>7. ASSUME NEW w \in Worker, UNCHANGED <<adapter, table, older, index, kept>>,
               pc' = [pc EXCEPT ![w] = "idle"], job' = [job EXCEPT ![w] = Idle]
        PROVE  StoredAndIndexed'
    <2>1. \A v \in Worker : pc'[v] = "index" => pc[v] = "index" /\ job'[v] = job[v]
      BY <1>0, <1>7
    <2> QED  BY <1>7, <2>1, StoredFrame
  <1>8. ASSUME NEW w \in Worker, PutRow(w) \/ Append(w) \/ Crash(w)  PROVE StoredAndIndexed'
    BY Zenon, <1>7, <1>8 DEF PutRow, Append, Row, Crash, stores, history
  <1>9. CASE UNCHANGED <<adapter, table, older, index, kept, pc, job>>
    BY Zenon, <1>9, StoredFrame
  <1>10. ASSUME \/ \E e \in Endpoint : deleteEndpoint(e)
                \/ (\E q \in Query : StartList(q))
                \/ ReadPage \/ ReadObject \/ Answered \/ UNCHANGED vars
         PROVE  UNCHANGED <<adapter, table, older, index, kept, pc, job>>
    BY Zenon, <1>10 DEF deleteEndpoint, StartList, ReadPage, ReadObject, Answered,
         vars, stores, bounds, history
  <1>11. ASSUME NEW m \in Message, CatchUp(m)  PROVE StoredAndIndexed'
    <2>1. UNCHANGED <<adapter, table, index, pc, job>> /\ kept' = kept \cup {m} /\ older[m] # {}
      BY Zenon, <1>11 DEF CatchUp
    <2>2. \A n \in Message : older'[n] = (IF n = m THEN {} ELSE older[n])
      BY <1>0, <1>11 DEF CatchUp
    <2>3. table[m] # NoMessage /\ adapter # "durable"
      BY <2>1 DEF StoredAndIndexed
    <2>4. \A n \in kept' : table'[n] # NoMessage /\ NoMessage \notin older'[n]
      BY <1>0, <2>1, <2>2, <2>3 DEF StoredAndIndexed
    <2>5. \A n \in Message : older'[n] # {} => table'[n] # NoMessage
      BY <2>1, <2>2 DEF StoredAndIndexed
    <2> QED  BY Zenon, <2>1, <2>3, <2>4, <2>5 DEF StoredAndIndexed
  <1> QED  BY Zenon, <1>2, <1>3, <1>4, <1>5, <1>6, <1>8, <1>9, <1>10, <1>11 DEF Next

LEMMA StoredInit == Init => StoredAndIndexed
  <1> SUFFICES ASSUME Init  PROVE StoredAndIndexed
    OBVIOUS
  <1>1. ASSUME NEW m \in kept  PROVE table[m] # NoMessage /\ m \in index
    <2>1. m \in Message /\ Created[m] # 0 /\ m \in index
      BY Zenon DEF Init
    <2>2. [createdAt |-> Created[m], status |-> "pending"] \in Version
      BY <2>1, LogAssumption DEF Version
    <2>3. table[m] = [createdAt |-> Created[m], status |-> "pending"]
      BY Zenon, <2>1 DEF Init
    <2> QED  BY <2>1, <2>2, <2>3, LogAssumption
  <1>2. (\A w \in Worker : pc[w] # "index") /\ (\A m \in Message : older[m] = {})
        /\ kept \subseteq Message
    BY DEF Init
  <1> QED  BY <1>1, <1>2 DEF StoredAndIndexed

(***************************************************************************)
(* A message that putMessage stored is found by getMessage ever after: in  *)
(* the objects, since the index entry is written after the message, on     *)
(* every put, and nothing removes either; in the table from the moment its *)
(* replicas have the first put, whatever is put later and however long     *)
(* they lag then.                                                          *)
(***************************************************************************)
THEOREM StoredAlwaysFound == Spec => []StoredIsFound
  <1>1. Init => TypeOK /\ StoredAndIndexed
    BY LogTypesInit, StoredInit
  <1>2. TypeOK /\ StoredAndIndexed /\ [Next]_vars => TypeOK' /\ StoredAndIndexed'
    BY LogTypesStep, StoredStep
  <1>3. StoredAndIndexed => StoredIsFound
    BY DEF StoredAndIndexed, StoredIsFound, getMessage, Readable
  <1> QED  BY <1>1, <1>2, <1>3, PTL DEF Spec

(***************************************************************************)
(* Appended entries.                                                       *)
(***************************************************************************)
\* Steps that write no row.
LEMMA NumbersFrame ==
    ASSUME TypeOK, NumbersFresh, AppendsKept, UNCHANGED <<counter, rows, appended>>,
           \A w \in Worker : pc'[w] = "row" => pc[w] = "row" /\ job'[w] = job[w]
    PROVE  NumbersFresh' /\ AppendsKept'
  <1>1. NumbersFresh'
    BY Zenon DEF NumbersFresh
  <1>2. AppendsKept'
    BY Zenon DEF AppendsKept
  <1> QED  BY <1>1, <1>2

\* A row with a number that no row has.
LEMMA RowKeeps ==
    ASSUME TypeOK, AppendsKept, NEW w \in Worker, NEW l \in Log, NEW n \in Nat, Row(w, l, n),
           \A r \in rows[l] : r[1] # n
    PROVE  /\ AppendsKept'
           /\ \A k \in Log : k # l => rows'[k] = rows[k]
           /\ rows'[l] = rows[l] \cup {<<n, job[w].entry>>}
  <1>1. rows \in [Log -> SUBSET (Nat \X Nat)] /\ appended \subseteq Log \X Nat
    BY DEF TypeOK
  <1>2. {r \in rows[l] : r[1] # n} = rows[l]
    OBVIOUS
  <1>3. rows' = [rows EXCEPT ![l] = rows[l] \cup {<<n, job[w].entry>>}]
    BY Zenon, <1>2 DEF Row
  <1>4. /\ \A k \in Log : k # l => rows'[k] = rows[k]
        /\ rows'[l] = rows[l] \cup {<<n, job[w].entry>>}
    BY Zenon, <1>1, <1>3
  <1>5. ASSUME NEW a \in appended'  PROVE \E r \in rows'[a[1]] : r[2] = a[2]
    <2>1. CASE a \in appended
      <3>1. a[1] \in Log
        BY <1>1, <2>1
      <3>2. rows[a[1]] \subseteq rows'[a[1]]
        BY Zenon, <1>4, <3>1
      <3> QED  BY Zenon, <2>1, <3>2 DEF AppendsKept
    <2>2. CASE a = <<l, job[w].entry>>
      <3>1. <<n, job[w].entry>> \in rows'[a[1]] /\ a[2] = job[w].entry
        BY <1>4, <2>2
      <3> QED  BY <3>1
    <2> QED  BY Zenon, <2>1, <2>2 DEF Row
  <1> QED  BY Zenon, <1>4, <1>5 DEF AppendsKept

LEMMA NumbersStep ==
    ASSUME TypeOK, NumbersFresh, AppendsKept, [Next]_vars
    PROVE  NumbersFresh' /\ AppendsKept'
  <1>0. /\ pc \in [Worker -> {"idle", "put", "index", "seq", "row", "append"}]
        /\ job \in [Worker -> PutJob \cup AppendJob \cup {Idle}]
        /\ counter \in [Log -> Nat] /\ rows \in [Log -> SUBSET (Nat \X Nat)]
        /\ \A w \in Worker : pc[w] \in {"seq", "row", "append"} => job[w] \in AppendJob
    BY DEF TypeOK
  <1>1. ASSUME NEW w \in Worker, NEW j, NEW first \in {"put", "seq", "append"},
               Begin(w, j, first)
        PROVE  NumbersFresh' /\ AppendsKept'
    <2>1. \A v \in Worker : pc'[v] = "row" => pc[v] = "row" /\ job'[v] = job[v]
      BY <1>0, <1>1 DEF Begin
    <2> QED  BY Zenon, <1>1, <2>1, NumbersFrame DEF Begin, stores, history
  <1>2. ASSUME NEW w \in Worker, NEW m \in Message, StartPut(w, m)
        PROVE  NumbersFresh' /\ AppendsKept'
    BY Zenon, <1>1, <1>2 DEF StartPut
  <1>3. ASSUME NEW w \in Worker, NEW l \in Log, StartAppend(w, l)
        PROVE  NumbersFresh' /\ AppendsKept'
    BY Zenon, <1>1, <1>3 DEF StartAppend
  <1>4. ASSUME NEW w \in Worker, PutMessage(w)  PROVE NumbersFresh' /\ AppendsKept'
    <2>1. \A v \in Worker : pc'[v] = "row" => pc[v] = "row" /\ job'[v] = job[v]
      BY <1>0, <1>4 DEF PutMessage
    <2> QED  BY Zenon, <1>4, <2>1, NumbersFrame DEF PutMessage
  <1>5. ASSUME NEW w \in Worker, NextSeq(w)  PROVE NumbersFresh' /\ AppendsKept'
    <2> DEFINE l == job[w].log
               n == counter[l] + 1
    <2>1. job[w] \in AppendJob /\ l \in Log /\ n \in Nat
      BY <1>0, <1>5 DEF NextSeq, AppendJob
    <2>2. /\ counter' = [counter EXCEPT ![l] = n]
          /\ job' = [job EXCEPT ![w] = [job[w] EXCEPT !.seq = n]]
          /\ pc' = [pc EXCEPT ![w] = "row"]
          /\ UNCHANGED <<rows, appended>>
      BY <1>5 DEF NextSeq, nextSeq, history
    <2>3. job'[w].log = l /\ job'[w].seq = n /\ counter'[l] = n
      BY <1>0, <2>1, <2>2 DEF AppendJob
    <2>4. \A v \in Worker : v # w => pc'[v] = pc[v] /\ job'[v] = job[v]
      BY Zenon, <1>0, <2>2
    <2>5. \A k \in Log : counter'[k] \in Nat /\ counter[k] \in Nat /\ counter[k] <= counter'[k]
      BY <1>0, <2>1, <2>2
    <2>6. \A k \in Log : \A r \in rows'[k] : r[1] <= counter'[k]
      <3>1. ASSUME NEW k \in Log, NEW r \in rows[k]  PROVE r[1] <= counter'[k]
        <4>1. r[1] \in Nat /\ r[1] <= counter[k]
          BY <1>0 DEF NumbersFresh
        <4> QED  BY <2>5, <4>1
      <3> QED  BY <2>2, <3>1
    <2>7. \A v \in Worker : v # w /\ pc[v] = "row" =>
             /\ job[v].log \in Log /\ job[v].seq \in Nat
             /\ job[v].seq <= counter[job[v].log]
             /\ \A r \in rows[job[v].log] : r[1] # job[v].seq
      BY <1>0 DEF AppendJob, NumbersFresh
    <2>8. \A r \in rows[l] : r[1] # n
      <3>1. ASSUME NEW r \in rows[l]  PROVE r[1] # n
        <4>1. r[1] \in Nat /\ r[1] <= counter[l] /\ counter[l] \in Nat
          BY <1>0, <2>1 DEF NumbersFresh
        <4> QED  BY <4>1
      <3> QED  BY <3>1
    <2>9. \A v \in Worker : v # w /\ pc[v] = "row" /\ job[v].log = l => job[v].seq # n
      BY <1>0, <2>1, <2>7
    <2> HIDE DEF l, n
    <2>10. ASSUME NEW v \in Worker, pc'[v] = "row"
           PROVE  /\ job'[v].seq <= counter'[job'[v].log]
                  /\ \A r \in rows'[job'[v].log] : r[1] # job'[v].seq
                  /\ \A u \in Worker : pc'[u] = "row" /\ job'[u].log = job'[v].log /\ u # v
                        => job'[u].seq # job'[v].seq
      <3>1. CASE v = w
        <4>1. n <= n
          BY <2>1
        <4>2. job'[v].seq <= counter'[job'[v].log]
          BY Zenon, <3>1, <2>3, <4>1
        <4>3. \A r \in rows'[job'[v].log] : r[1] # job'[v].seq
          BY Zenon, <3>1, <2>2, <2>3, <2>8
        <4>4. \A u \in Worker : pc'[u] = "row" /\ job'[u].log = job'[v].log /\ u # v
                 => job'[u].seq # job'[v].seq
          BY Zenon, <3>1, <2>3, <2>4, <2>9
        <4> QED  BY <4>2, <4>3, <4>4
      <3>2. CASE v # w
        <4>1. pc[v] = "row" /\ job'[v] = job[v]
          BY Zenon, <2>4, <2>10, <3>2
        <4>2. job[v].seq <= counter'[job[v].log]
          BY <2>5, <2>7, <3>2, <4>1
        <4>3. \A r \in rows'[job[v].log] : r[1] # job[v].seq
          BY Zenon, <2>2, <2>7, <3>2, <4>1
        <4>4. \A u \in Worker : pc'[u] = "row" /\ job'[u].log = job[v].log /\ u # v
                 => job'[u].seq # job[v].seq
          <5>1. ASSUME NEW u \in Worker, pc'[u] = "row", job'[u].log = job[v].log, u # v,
                       job'[u].seq = job[v].seq
                PROVE  FALSE
            <6>1. CASE u = w
              BY <2>3, <2>9, <3>2, <4>1, <5>1, <6>1
            <6>2. CASE u # w
              <7>1. pc[u] = "row" /\ job'[u] = job[u]
                BY <2>4, <5>1, <6>2
              <7> QED  BY <4>1, <5>1, <7>1 DEF NumbersFresh
            <6> QED  BY <6>1, <6>2
          <5> QED  BY <5>1
        <4> QED  BY Zenon, <4>1, <4>2, <4>3, <4>4
      <3> QED  BY <3>1, <3>2
    <2>11. NumbersFresh'
      BY Zenon, <2>6, <2>10 DEF NumbersFresh
    <2>12. AppendsKept'
      BY Zenon, <2>2 DEF AppendsKept
    <2> QED  BY <2>11, <2>12
  <1>6. ASSUME NEW w \in Worker, PutRow(w)  PROVE NumbersFresh' /\ AppendsKept'
    <2> DEFINE l == job[w].log
               n == job[w].seq
    <2>1. l \in Log /\ n \in Nat /\ n <= counter[l] /\ pc[w] = "row"
      BY <1>0, <1>6 DEF PutRow, AppendJob, NumbersFresh
    <2>2. \A r \in rows[l] : r[1] # n
      BY <1>6 DEF PutRow, NumbersFresh
    <2>3. /\ AppendsKept'
          /\ \A k \in Log : k # l => rows'[k] = rows[k]
          /\ rows'[l] = rows[l] \cup {<<n, job[w].entry>>}
      BY Zenon, <1>6, <2>1, <2>2, RowKeeps DEF PutRow
    <2>4. UNCHANGED counter
      BY <1>6 DEF PutRow
    <2>5. \A v \in Worker : pc'[v] = "row" => pc[v] = "row" /\ job'[v] = job[v] /\ v # w
      BY <1>0, <1>6 DEF PutRow, Row
    <2>6. \A v \in Worker : pc[v] = "row" /\ v # w /\ job[v].log = l => job[v].seq # n
      BY Zenon, <2>1 DEF NumbersFresh
    <2>7. \A v \in Worker : pc[v] = "row" => job[v].log \in Log
      BY <1>0 DEF AppendJob
    <2> HIDE DEF l, n
    <2>8. <<n, job[w].entry>>[1] = n
      OBVIOUS
    <2>9. \A k \in Log : \A r \in rows'[k] : r \in rows[k] \/ (k = l /\ r[1] = n)
      BY Zenon, <2>3, <2>8
    <2>10. \A k \in Log : \A r \in rows'[k] : r[1] <= counter'[k]
      BY Zenon, <2>1, <2>4, <2>9 DEF NumbersFresh
    <2>11. ASSUME NEW v \in Worker, pc'[v] = "row"
           PROVE  /\ job'[v].seq <= counter'[job'[v].log]
                  /\ \A r \in rows'[job'[v].log] : r[1] # job'[v].seq
                  /\ \A u \in Worker : pc'[u] = "row" /\ job'[u].log = job'[v].log /\ u # v
                        => job'[u].seq # job'[v].seq
      <3>1. pc[v] = "row" /\ job'[v] = job[v] /\ v # w /\ job[v].log \in Log
        BY Zenon, <2>5, <2>7, <2>11
      <3>2. \A r \in rows'[job[v].log] : r[1] # job[v].seq
        BY Zenon, <2>6, <2>9, <3>1 DEF NumbersFresh
      <3>3. \A u \in Worker : pc'[u] = "row" /\ job'[u].log = job[v].log /\ u # v
               => job'[u].seq # job[v].seq
        BY Zenon, <2>5, <3>1 DEF NumbersFresh
      <3> QED  BY Zenon, <2>4, <3>1, <3>2, <3>3 DEF NumbersFresh
    <2> QED  BY Zenon, <2>3, <2>10, <2>11 DEF NumbersFresh
  <1>7. ASSUME NEW w \in Worker, Append(w)  PROVE NumbersFresh' /\ AppendsKept'
    <2> DEFINE l == job[w].log
               n == counter[l] + 1
    <2>1. l \in Log /\ n \in Nat /\ counter[l] \in Nat
      BY <1>0, <1>7 DEF Append, AppendJob
    <2>2. \A k \in Log : \A r \in rows[k] : r[1] \in Nat /\ r[1] <= counter[k]
      BY <1>0 DEF NumbersFresh
    <2>3. \A r \in rows[l] : r[1] # n
      BY <2>1, <2>2
    <2>4. Row(w, l, n) /\ counter' = [counter EXCEPT ![l] = n]
      BY <1>7 DEF Append
    <2>5. \A v \in Worker : pc[v] = "row" =>
             job[v].log \in Log /\ job[v].seq \in Nat /\ job[v].seq <= counter[job[v].log]
      BY <1>0 DEF AppendJob, NumbersFresh
    <2>6. \A v \in Worker : pc[v] = "row" /\ job[v].log = l => job[v].seq # n
      BY <2>1, <2>5
    <2>7. \A k \in Log : counter[k] \in Nat /\ counter'[k] \in Nat /\ counter[k] <= counter'[k]
      BY <1>0, <2>1, <2>4
    <2>8. counter'[l] = n /\ n <= n
      BY <1>0, <2>1, <2>4
    <2>9. \A v \in Worker : pc'[v] = "row" => pc[v] = "row" /\ job'[v] = job[v]
      BY <1>0, <2>4 DEF Row
    <2> HIDE DEF l, n
    <2>10. /\ AppendsKept'
           /\ \A k \in Log : k # l => rows'[k] = rows[k]
           /\ rows'[l] = rows[l] \cup {<<n, job[w].entry>>}
      BY Zenon, <2>1, <2>3, <2>4, RowKeeps
    <2>11. <<n, job[w].entry>>[1] = n
      OBVIOUS
    <2>12. \A k \in Log : \A r \in rows'[k] : r \in rows[k] \/ (k = l /\ r[1] = n)
      BY Zenon, <2>10, <2>11
    <2>13. \A k \in Log : \A r \in rows[k] : r[1] <= counter'[k]
      BY <2>2, <2>7
    <2>14. \A k \in Log : \A r \in rows'[k] : r[1] <= counter'[k]
      BY Zenon, <2>8, <2>12, <2>13
    <2>15. \A v \in Worker : pc[v] = "row" => job[v].seq <= counter'[job[v].log]
      BY <2>5, <2>7
    <2>16. \A v \in Worker : pc[v] = "row" => \A r \in rows'[job[v].log] : r[1] # job[v].seq
      BY Zenon, <2>5, <2>6, <2>12 DEF NumbersFresh
    <2>17. NumbersFresh'
      <3>1. ASSUME NEW v \in Worker, pc'[v] = "row"
            PROVE  /\ job'[v].seq <= counter'[job'[v].log]
                   /\ \A r \in rows'[job'[v].log] : r[1] # job'[v].seq
        BY Zenon, <2>9, <2>15, <2>16, <3>1
      <3>2. ASSUME NEW v \in Worker, pc'[v] = "row", NEW u \in Worker, pc'[u] = "row",
                   job'[u].log = job'[v].log, u # v
            PROVE  job'[u].seq # job'[v].seq
        <4>1. /\ pc[u] = "row" /\ job'[u] = job[u]
              /\ pc[v] = "row" /\ job'[v] = job[v]
          BY <2>9, <3>2
        <4> QED  BY <3>2, <4>1 DEF NumbersFresh
      <3> QED  BY Zenon, <2>14, <3>1, <3>2 DEF NumbersFresh
    <2> QED  BY <2>10, <2>17
  <1>8. ASSUME NEW w \in Worker, PutIndex(w) \/ Crash(w)  PROVE NumbersFresh' /\ AppendsKept'
    <2>1. /\ pc' = [pc EXCEPT ![w] = "idle"] /\ job' = [job EXCEPT ![w] = Idle]
          /\ UNCHANGED <<counter, rows, appended>>
      BY Zenon, <1>8 DEF PutIndex, Crash, stores, history
    <2>2. \A v \in Worker : pc'[v] = "row" => pc[v] = "row" /\ job'[v] = job[v]
      BY <1>0, <2>1
    <2> QED  BY <2>1, <2>2, NumbersFrame
  <1>9. CASE UNCHANGED <<counter, rows, appended, pc, job>>
    BY Zenon, <1>9, NumbersFrame
  <1>10. ASSUME \/ \E e \in Endpoint : deleteEndpoint(e)
                \/ (\E m \in Message : CatchUp(m)) \/ (\E q \in Query : StartList(q))
                \/ ReadPage \/ ReadObject \/ Answered \/ UNCHANGED vars
         PROVE  UNCHANGED <<counter, rows, appended, pc, job>>
    BY Zenon, <1>10 DEF deleteEndpoint, CatchUp, StartList, ReadPage, ReadObject, Answered,
         vars, stores, bounds, history
  <1> QED  BY Zenon, <1>2, <1>3, <1>4, <1>5, <1>6, <1>7, <1>8, <1>9, <1>10 DEF Next

(***************************************************************************)
(* No entry of the attempt logs and of the DLQ is lost, with any number of *)
(* writers and with crashes between nextSeq and the row: a number is taken *)
(* by one writer, and no row has it before that writer's.                  *)
(***************************************************************************)
THEOREM NoAppendLost == Spec => []AppendsKept
  <1>1. Init => TypeOK /\ NumbersFresh /\ AppendsKept
    <2>1. Init => NumbersFresh
      BY DEF Init, NumbersFresh
    <2>2. Init => AppendsKept
      BY DEF Init, AppendsKept
    <2> QED  BY <2>1, <2>2, LogTypesInit
  <1>2. TypeOK /\ NumbersFresh /\ AppendsKept /\ [Next]_vars
           => TypeOK' /\ NumbersFresh' /\ AppendsKept'
    BY LogTypesStep, NumbersStep
  <1> QED  BY <1>1, <1>2, PTL DEF Spec

(***************************************************************************)
(* Listings.                                                               *)
(***************************************************************************)
\* A message of a listing's steady set, as a row.
LEMMA SteadyRow ==
    ASSUME TypeOK, ListingSoFar, NEW m \in steady
    PROVE  /\ m \in Message /\ m \in Nat
           /\ table[m] \in Version /\ older[m] = {} /\ table[m] # NoMessage
           /\ AsStored(m) \in ListedRow
           /\ AsStored(m).message = m /\ AsStored(m).version = table[m]
  <1>1. m \in Message /\ table[m] # NoMessage /\ older[m] = {}
    BY DEF TypeOK, ListingSoFar
  <1>2. m \in Nat /\ table[m] \in Version
    BY <1>1, LogAssumption DEF TypeOK
  <1> QED  BY <1>1, <1>2 DEF AsStored, ListedRow

\* Steps of others: what stays in the steady set stays as it is.
LEMMA ListFrame ==
    ASSUME ListingSoFar, ListingComplete, UNCHANGED <<adapter, reader>>,
           steady' \subseteq steady,
           \A m \in steady' : table'[m] = table[m] /\ older'[m] \subseteq older[m]
    PROVE  ListingSoFar' /\ ListingComplete'
  <1>1. ASSUME NEW m \in steady'
        PROVE  /\ m \in steady /\ AsStored(m)' = AsStored(m)
               /\ table'[m] = table[m] /\ older'[m] = {} /\ table'[m] # NoMessage
    BY DEF AsStored, ListingSoFar
  <1>2. ASSUME NEW r  PROVE Crowded(r)' <=> Crowded(r)
    <2>1. ASSUME NEW s  PROVE Precedes(s, r)' <=> Precedes(s, r)
      BY Zenon DEF Precedes, Position
    <2>2. {s \in reader'.found : Precedes(s, r)'} = {s \in reader.found : Precedes(s, r)}
      BY Zenon, <2>1
    <2> QED  BY Zenon, <2>2 DEF Crowded
  <1>3. ASSUME reader'.step = "objects", NEW m \in steady', Matches(reader'.q, m, table'[m])
        PROVE  \/ EndpointOf[m] \in reader'.objects
               \/ AsStored(m)' \in reader'.found
               \/ Crowded(AsStored(m))'
    <2>1. \/ EndpointOf[m] \in reader.objects
          \/ AsStored(m) \in reader.found
          \/ Crowded(AsStored(m))
      BY Zenon, <1>1, <1>3 DEF ListingSoFar
    <2>2. ASSUME Crowded(AsStored(m))  PROVE Crowded(AsStored(m))'
      <3>1. \A r : Crowded(r) => Crowded(r)'
        BY <1>2
      <3>2. \A r : r = AsStored(m)' /\ Crowded(r)' => Crowded(AsStored(m))'
        BY Zenon DEF Crowded, Precedes, Position, AsStored
      <3> QED  BY Zenon, <1>1, <2>2, <3>1, <3>2
    <2> QED  BY Zenon, <1>1, <2>1, <2>2
  <1>4. ASSUME reader'.step = "page", NEW m \in steady', m <= reader'.cursor
        PROVE  AsStored(m)' \in reader'.found
    BY Zenon, <1>1, <1>4 DEF ListingSoFar
  <1>5. ListingSoFar'
    <2>1. \A m \in steady' : table'[m] # NoMessage /\ older'[m] = {}
      BY <1>1
    <2>2. reader' # Idle =>
             /\ IsFiniteSet(reader'.found)
             /\ \A r, s \in reader'.found : r.message = s.message => r = s
      BY Zenon DEF ListingSoFar
    <2>3. reader'.step = "page" => \A r \in reader'.found : r.message <= reader'.cursor
      BY Zenon DEF ListingSoFar
    <2>4. reader'.step = "objects" =>
             \A r \in reader'.found : /\ EndpointOf[r.message] \notin reader'.objects
                                      /\ Matches(reader'.q, r.message, r.version)
      BY Zenon DEF ListingSoFar
    <2> QED  BY Zenon, <1>3, <1>4, <2>1, <2>2, <2>3, <2>4 DEF ListingSoFar
  <1>6. ListingComplete'
    BY Zenon, <1>1 DEF ListingComplete
  <1> QED  BY <1>5, <1>6

\* The row of a message that was read, or that the limit leaves no place for.
LEMMA FinishedRow ==
    ASSUME NEW G, Listable(G), NEW limit \in Nat \cup {Unset}, NEW x \in ListedRow,
           x \in G \/ (limit # Unset /\ Rank(G, x) >= limit)
    PROVE  \/ x \in Newest(G, limit)
           \/ /\ limit # Unset /\ Cardinality(Newest(G, limit)) = limit
              /\ \A r \in Newest(G, limit) : r.version.createdAt >= x.version.createdAt
  <1>1. CASE limit = Unset
    BY <1>1, NewestIs
  <1>2. CASE limit \in Nat /\ limit # Unset
    <2>1. CASE Rank(G, x) >= limit
      BY <1>2, <2>1, SliceFull
    <2>2. CASE x \in G /\ x \notin Newest(G, limit)
      <3>1. Rank(G, x) >= limit
        BY <1>2, <2>2, SlicePrecedes
      <3> QED  BY <1>2, <3>1, SliceFull
    <2> QED  BY <1>2, <2>1, <2>2
  <1> QED  BY <1>1, <1>2

\* The last step of a listing: the filters, the sort and the slice.
LEMMA FinishedStep ==
    ASSUME TypeOK, ListingSoFar, reader \in Listing, NEW F, Listable(F), Finished(F),
           UNCHANGED <<table, older, steady>>,
           \A m \in steady : Matches(reader.q, m, table[m]) =>
              \/ AsStored(m) \in F
              \/ /\ reader.q.limit # Unset
                 /\ Rank(Filter(reader.q, F), AsStored(m)) >= reader.q.limit
    PROVE  ListingSoFar' /\ ListingComplete'
  <1> DEFINE G == Filter(reader.q, F)
             N == Newest(G, reader.q.limit)
  <1>1. reader.q.limit \in Nat \cup {Unset}
    BY Fields, LogAssumption
  <1>2. Listable(G) /\ Listable(N)
    BY FilterSubset, NewestSubset, ListableSubset
  <1>3. reader'.step = "done" /\ reader'.found = N /\ reader'.q = reader.q
    BY DEF Finished, Listing
  <1>4. ASSUME NEW m \in steady, Matches(reader.q, m, table[m])
        PROVE  \/ AsStored(m) \in N
               \/ /\ reader.q.limit # Unset /\ Cardinality(N) = reader.q.limit
                  /\ \A r \in N : r.version.createdAt >= table[m].createdAt
    <2>1. /\ AsStored(m) \in ListedRow
          /\ AsStored(m).message = m /\ AsStored(m).version = table[m]
      BY SteadyRow
    <2>2. AsStored(m) \in F => AsStored(m) \in G
      BY <1>4, <2>1 DEF Filter
    <2>3. AsStored(m) \in G \/ (reader.q.limit # Unset /\ Rank(G, AsStored(m)) >= reader.q.limit)
      BY <1>4, <2>2
    <2> HIDE DEF G
    <2>4. \/ AsStored(m) \in N
          \/ /\ reader.q.limit # Unset /\ Cardinality(N) = reader.q.limit
             /\ \A r \in N : r.version.createdAt >= AsStored(m).version.createdAt
      BY <1>1, <1>2, <2>1, <2>3, FinishedRow
    <2> QED  BY <2>1, <2>4
  <1> HIDE DEF N
  <1>5. /\ IsFiniteSet(N)
        /\ \A r, s \in N : r.message = s.message => r = s
    BY <1>2 DEF Listable
  <1>6. ListingSoFar'
    <2>1. \A m \in steady' : table'[m] # NoMessage /\ older'[m] = {}
      BY DEF ListingSoFar
    <2> QED  BY <1>3, <1>5, <2>1 DEF ListingSoFar
  <1>7. ListingComplete'
    <2>1. ASSUME NEW m \in steady', Matches(reader'.q, m, table'[m])
          PROVE  \/ [message |-> m, version |-> table'[m]] \in reader'.found
                 \/ /\ reader'.q.limit # Unset /\ Cardinality(reader'.found) = reader'.q.limit
                    /\ \A r \in reader'.found : r.version.createdAt >= table'[m].createdAt
      BY Zenon, <1>3, <1>4, <2>1 DEF AsStored
    <2> QED  BY Zenon, <1>3, <1>5, <2>1 DEF ListingComplete
  <1> QED  BY <1>6, <1>7

\* What a page adds: its keys, each once, and the steady messages among them as
\* they are stored.
LEMMA PageRead ==
    ASSUME TypeOK, ListingSoFar, reader.step = "page", NEW seen,
           \A m \in Page : seen[m] \in Readable(m),
           NEW F, F = reader.found \cup Rows(Page, seen)
    PROVE  /\ Listable(F)
           /\ \A r \in F : r.message <= reader.cursor \/ r.message \in Page
           /\ \A m \in steady : m <= reader.cursor \/ m \in Page => AsStored(m) \in F
           /\ \A m \in steady : m <= reader.cursor \/ m \in Ahead
  <1> DEFINE R == Rows(Page, seen)
  <1>1. /\ reader \in Listing /\ reader.found \subseteq ListedRow /\ reader.cursor \in Int
        /\ reader # Idle
    BY ReaderIs, Fields
  <1>2. /\ table \in [Message -> Version \cup {NoMessage}]
        /\ older \in [Message -> SUBSET (Version \cup {NoMessage})]
    BY DEF TypeOK
  <1>3. Page \in SUBSET Message
    BY PageIsFirst
  <1>4. Listable(R)
    <2>1. \A m \in Page : seen[m] \in Version \cup {NoMessage}
      BY <1>2, <1>3, ReadableTyped
    <2> QED  BY <1>3, <2>1, RowsListable
  <1>5. Listable(reader.found)
    BY <1>1 DEF ListingSoFar, Listable
  <1>6. \A r \in R : r.message \in Page
    BY DEF Rows
  <1>7. \A m \in Page : m \in Nat /\ m > reader.cursor
    BY PageIsFirst DEF Page, Ahead
  <1>8. \A r \in reader.found : r.message \in Nat /\ r.message <= reader.cursor
    BY <1>1, RowTypes DEF ListingSoFar
  <1>9. F = reader.found \cup R
    OBVIOUS
  <1> HIDE DEF R
  <1>10. Listable(F)
    <2>1. IsFiniteSet(reader.found \cup R)
      BY <1>4, <1>5, FS_Union DEF Listable
    <2>2. F \subseteq ListedRow
      BY <1>4, <1>5, <1>9 DEF Listable
    <2>3. \A r \in reader.found : \A m \in Page : r.message # m
      BY <1>1, <1>7, <1>8
    <2>4. \A r \in reader.found : \A s \in R : r.message # s.message
      BY Zenon, <1>6, <2>3
    <2>5. ASSUME NEW r \in F, NEW s \in F, r.message = s.message  PROVE r = s
      BY <1>4, <1>5, <1>9, <2>4, <2>5 DEF Listable
    <2> QED  BY <1>9, <2>1, <2>2, <2>5 DEF Listable
  <1>11. \A r \in F : r.message <= reader.cursor \/ r.message \in Page
    BY Zenon, <1>6, <1>8, <1>9
  <1>12. ASSUME NEW m \in steady  PROVE m <= reader.cursor \/ m \in Ahead
    <2>1. m \in Message /\ m \in Nat /\ table[m] # NoMessage
      BY SteadyRow
    <2> QED  BY <1>1, <2>1 DEF Ahead, Readable
  <1>13. ASSUME NEW m \in steady, m <= reader.cursor \/ m \in Page  PROVE AsStored(m) \in F
    <2>1. table[m] # NoMessage /\ older[m] = {}
      BY SteadyRow
    <2>2. CASE m <= reader.cursor
      BY <1>9, <2>2 DEF ListingSoFar
    <2>3. CASE m \in Page
      <3>1. seen[m] = table[m]
        BY <2>1, <2>3 DEF Readable
      <3>2. AsStored(m) \in R
        BY <2>1, <2>3, <3>1 DEF R, Rows, AsStored
      <3> QED  BY <1>9, <3>2
    <2> QED  BY <1>13, <2>2, <2>3
  <1> QED  BY <1>10, <1>11, <1>12, <1>13

LEMMA PageStep ==
    ASSUME TypeOK, ListingSoFar, ReadPage
    PROVE  ListingSoFar' /\ ListingComplete'
  <1>1. PICK seen :
           LET found == reader.found \cup Rows(Page, seen)
           IN  /\ \A m \in Page : seen[m] \in Readable(m)
               /\ \/ More /\ reader' = [reader EXCEPT !.found = found, !.cursor = LastKey]
                  \/ ~More /\ Finished(found)
    BY Zenon DEF ReadPage, LastKey
  <1> DEFINE F == reader.found \cup Rows(Page, seen)
  <1>2. \/ More /\ reader' = [reader EXCEPT !.found = F, !.cursor = LastKey]
        \/ ~More /\ Finished(F)
    BY Zenon, <1>1
  <1>3. reader.step = "page" /\ UNCHANGED <<table, older, steady, adapter>>
    BY Zenon DEF ReadPage, stores, history
  <1>4. reader \in Listing /\ reader.cursor \in Int
    BY <1>3, ReaderIs, Fields
  <1>5. /\ Listable(F)
        /\ \A r \in F : r.message <= reader.cursor \/ r.message \in Page
        /\ \A m \in steady : m <= reader.cursor \/ m \in Page => AsStored(m) \in F
        /\ \A m \in steady : m <= reader.cursor \/ m \in Ahead
    BY <1>1, <1>3, PageRead
  <1> HIDE DEF F
  <1>6. CASE More
    <2>1. /\ LastKey \in Page /\ \A n \in Page : n <= LastKey /\ n \in Nat
          /\ \A n \in Ahead \ Page : n \in Nat /\ LastKey < n
      BY Zenon, <1>6, LastKeyIs, PageIsFirst
    <2>2. LastKey \in Nat /\ LastKey > reader.cursor
      BY <2>1 DEF Page, Ahead
    <2>3. /\ reader'.step = "page" /\ reader'.found = F /\ reader'.cursor = LastKey
          /\ reader' # Idle
      <3>1. reader' = [reader EXCEPT !.found = F, !.cursor = LastKey]
        BY <1>2, <1>6
      <3>2. reader'.step = "page" /\ reader'.found = F /\ reader'.cursor = LastKey
        BY <1>3, <1>4, <3>1 DEF Listing
      <3> QED  BY <3>2 DEF Idle
    <2>4. \A r \in F : r.message <= LastKey
      <3>1. ASSUME NEW r \in F  PROVE r.message <= LastKey
        <4>1. r.message \in Nat
          BY <1>5, RowTypes DEF Listable
        <4> QED  BY <1>4, <1>5, <2>1, <2>2, <4>1
      <3> QED  BY <3>1
    <2>5. ASSUME NEW m \in steady, m <= LastKey  PROVE AsStored(m) \in F
      <3>1. m \in Nat
        BY SteadyRow
      <3>2. ~(LastKey < m)
        BY <2>2, <2>5, <3>1
      <3> QED  BY <1>5, <2>1, <3>2
    <2>6. \A m \in steady : AsStored(m)' = AsStored(m)
      BY <1>3 DEF AsStored
    <2>7. /\ IsFiniteSet(F)
          /\ \A r, s \in F : r.message = s.message => r = s
      BY <1>5 DEF Listable
    <2>8. \A m \in steady' : table'[m] # NoMessage /\ older'[m] = {}
      BY <1>3 DEF ListingSoFar
    <2>9. ListingSoFar'
      BY <1>3, <2>3, <2>4, <2>5, <2>6, <2>7, <2>8 DEF ListingSoFar
    <2>10. ListingComplete'
      BY <2>3 DEF ListingComplete
    <2> QED  BY <2>9, <2>10
  <1>7. CASE ~More
    <2>1. Page = Ahead /\ Finished(F)
      BY <1>2, <1>7 DEF More
    <2>2. \A m \in steady : AsStored(m) \in F
      BY <1>5, <2>1
    <2> QED  BY <1>3, <1>4, <1>5, <2>1, <2>2, FinishedStep
  <1> QED  BY <1>6, <1>7

\* More rows crowd out no less.
LEMMA RankSubset ==
    ASSUME NEW F, Listable(F), NEW G \in SUBSET F, NEW x
    PROVE  Rank(G, x) <= Rank(F, x)
  <1>1. Before(G, x) \in SUBSET Before(F, x) /\ Before(F, x) \in SUBSET F
    BY DEF Before
  <1>2. IsFiniteSet(Before(F, x))
    BY <1>1, FS_Subset DEF Listable
  <1> QED  BY <1>1, <1>2, FS_Subset DEF Rank

LEMMA RankAll ==
    ASSUME NEW F, Listable(F), NEW G \in SUBSET F, NEW x, \A r \in G : Precedes(r, x)
    PROVE  Cardinality(G) <= Rank(F, x)
  <1>1. G \in SUBSET Before(F, x) /\ Before(F, x) \in SUBSET F
    BY DEF Before
  <1>2. IsFiniteSet(Before(F, x))
    BY <1>1, FS_Subset DEF Listable
  <1> QED  BY <1>1, <1>2, FS_Subset DEF Rank

LEMMA CrowdedIs ==
    ASSUME NEW r
    PROVE  Crowded(r) <=> reader.q.limit # Unset /\ Rank(reader.found, r) >= reader.q.limit
  BY Zenon DEF Crowded, Rank, Before

LEMMA CrowdedNext ==
    ASSUME UNCHANGED <<adapter, table>>, NEW m, NEW F, reader'.found = F, reader'.q = reader.q
    PROVE  Crowded(AsStored(m))' <=>
              reader.q.limit # Unset /\ Rank(F, AsStored(m)) >= reader.q.limit
  <1>1. ASSUME NEW s  PROVE Precedes(s, AsStored(m))' <=> Precedes(s, AsStored(m))
    BY Zenon DEF Precedes, Position, AsStored
  <1>2. {s \in reader'.found : Precedes(s, AsStored(m))'} = Before(F, AsStored(m))
    BY Zenon, <1>1 DEF Before
  <1> QED  BY Zenon, <1>2 DEF Crowded, Rank

\* What the answer of one object holds, and what its slice leaves out.
LEMMA ObjectRead ==
    ASSUME TypeOK, ListingSoFar, reader \in Listing, NEW e
    PROVE  /\ Listable(Object(e))
           /\ \A r \in Object(e) : /\ EndpointOf[r.message] = e
                                   /\ Matches(reader.q, r.message, r.version)
           /\ \A m \in steady : EndpointOf[m] = e /\ Matches(reader.q, m, table[m]) =>
                 \/ AsStored(m) \in Object(e)
                 \/ /\ reader.q.limit \in Nat /\ reader.q.limit # Unset
                    /\ Cardinality(Object(e)) = reader.q.limit
                    /\ \A r \in Object(e) : Precedes(r, AsStored(m))
  <1> DEFINE of == {m \in Message : EndpointOf[m] = e}
             R == Rows(of, table)
             A == Filter(reader.q, R)
  <1>1. Object(e) = Newest(A, reader.q.limit)
    BY DEF Object
  <1>2. of \in SUBSET Message /\ table \in [Message -> Version \cup {NoMessage}]
    BY DEF TypeOK
  <1>3. Listable(R)
    BY <1>2, RowsListable
  <1>4. \A r \in R : EndpointOf[r.message] = e
    BY DEF Rows
  <1>5. \A m \in steady : EndpointOf[m] = e => AsStored(m) \in R
    BY SteadyRow DEF Rows, AsStored
  <1>6. reader.q.limit \in Nat \cup {Unset}
    BY Fields, LogAssumption
  <1> HIDE DEF R
  <1>7. Listable(A) /\ Listable(Object(e)) /\ Object(e) \subseteq A /\ A \subseteq R
    BY <1>1, <1>3, FilterSubset, NewestSubset, ListableSubset
  <1>8. \A r \in A : Matches(reader.q, r.message, r.version)
    BY DEF Filter
  <1>9. ASSUME NEW m \in steady, EndpointOf[m] = e, Matches(reader.q, m, table[m]),
               AsStored(m) \notin Object(e)
        PROVE  /\ reader.q.limit \in Nat /\ reader.q.limit # Unset
               /\ Cardinality(Object(e)) = reader.q.limit
               /\ \A r \in Object(e) : Precedes(r, AsStored(m))
    <2>1. AsStored(m) \in A /\ AsStored(m) \in ListedRow
      BY <1>5, <1>9, SteadyRow DEF Filter
    <2> HIDE DEF A
    <2>2. reader.q.limit # Unset /\ reader.q.limit \in Nat
      BY <1>1, <1>6, <1>9, <2>1, NewestIs
    <2>3. /\ Rank(A, AsStored(m)) >= reader.q.limit
          /\ \A r \in Object(e) : Precedes(r, AsStored(m))
      BY <1>1, <1>7, <1>9, <2>1, <2>2, SlicePrecedes
    <2>4. Cardinality(Object(e)) = reader.q.limit
      BY <1>1, <1>7, <2>1, <2>2, <2>3, SliceFull
    <2> QED  BY <2>2, <2>3, <2>4
  <1> HIDE DEF A
  <1> QED  BY <1>4, <1>7, <1>8, <1>9

LEMMA ObjectStep ==
    ASSUME TypeOK, ListingSoFar, ReadObject
    PROVE  ListingSoFar' /\ ListingComplete'
  <1>1. reader.step = "objects" /\ UNCHANGED <<table, older, steady, adapter>>
    BY Zenon DEF ReadObject, stores, history
  <1>2. /\ reader \in Listing /\ reader # Idle /\ reader.found \subseteq ListedRow
    BY <1>1, ReaderIs, Fields
  <1>3. Listable(reader.found)
    BY <1>2 DEF ListingSoFar, Listable
  <1>4. reader.q.limit \in Nat \cup {Unset}
    BY <1>2, Fields, LogAssumption
  <1>5. /\ \A r \in reader.found : /\ EndpointOf[r.message] \notin reader.objects
                                   /\ Matches(reader.q, r.message, r.version)
        /\ \A m \in steady : Matches(reader.q, m, table[m]) =>
              \/ EndpointOf[m] \in reader.objects
              \/ AsStored(m) \in reader.found
              \/ reader.q.limit # Unset /\ Rank(reader.found, AsStored(m)) >= reader.q.limit
    BY Zenon, <1>1, CrowdedIs DEF ListingSoFar
  <1>6. ASSUME NEW e \in reader.objects,
               reader' = [reader EXCEPT !.found = reader.found \cup Object(e),
                                        !.objects = reader.objects \ {e}]
        PROVE  ListingSoFar' /\ ListingComplete'
    <2> DEFINE F == reader.found \cup Object(e)
    <2>1. /\ Listable(Object(e))
          /\ \A r \in Object(e) : /\ EndpointOf[r.message] = e
                                  /\ Matches(reader.q, r.message, r.version)
          /\ \A m \in steady : EndpointOf[m] = e /\ Matches(reader.q, m, table[m]) =>
                \/ AsStored(m) \in Object(e)
                \/ /\ reader.q.limit \in Nat /\ reader.q.limit # Unset
                   /\ Cardinality(Object(e)) = reader.q.limit
                   /\ \A r \in Object(e) : Precedes(r, AsStored(m))
      BY <1>2, ObjectRead
    <2>2. Listable(F)
      <3>1. IsFiniteSet(F)
        BY <1>3, <2>1, FS_Union DEF Listable
      <3>2. \A r \in reader.found : \A s \in Object(e) : r.message # s.message
        BY Zenon, <1>5, <1>6, <2>1
      <3> QED  BY <1>3, <2>1, <3>1, <3>2 DEF Listable
    <2>3. /\ reader'.step = "objects" /\ reader'.q = reader.q /\ reader'.found = F
          /\ reader'.objects = reader.objects \ {e} /\ reader' # Idle
      <3>1. /\ reader'.step = "objects" /\ reader'.q = reader.q /\ reader'.found = F
            /\ reader'.objects = reader.objects \ {e}
        BY <1>1, <1>2, <1>6 DEF Listing
      <3> QED  BY <3>1 DEF Idle
    <2>4. \A r \in F : /\ EndpointOf[r.message] \notin reader.objects \ {e}
                       /\ Matches(reader.q, r.message, r.version)
      BY Zenon, <1>5, <2>1
    <2>5. reader.found \in SUBSET F /\ Object(e) \in SUBSET F
      OBVIOUS
    <2> HIDE DEF F
    <2>6. ASSUME NEW m \in steady, Matches(reader.q, m, table[m])
          PROVE  \/ EndpointOf[m] \in reader.objects \ {e}
                 \/ AsStored(m) \in F
                 \/ reader.q.limit # Unset /\ Rank(F, AsStored(m)) >= reader.q.limit
      <3>1. CASE EndpointOf[m] \in reader.objects /\ EndpointOf[m] # e
        BY <3>1
      <3>2. CASE AsStored(m) \in reader.found
        BY <2>5, <3>2
      <3>3. CASE reader.q.limit # Unset /\ Rank(reader.found, AsStored(m)) >= reader.q.limit
        <4>1. Rank(reader.found, AsStored(m)) <= Rank(F, AsStored(m))
          BY <2>2, <2>5, RankSubset
        <4>2. Rank(reader.found, AsStored(m)) \in Nat /\ Rank(F, AsStored(m)) \in Nat
          BY <1>3, <2>2, RankType
        <4> QED  BY <1>4, <3>3, <4>1, <4>2
      <3>4. CASE EndpointOf[m] = e
        <4>1. CASE AsStored(m) \in Object(e)
          BY <2>5, <4>1
        <4>2. CASE AsStored(m) \notin Object(e)
          <5>1. /\ reader.q.limit \in Nat /\ reader.q.limit # Unset
                /\ Cardinality(Object(e)) = reader.q.limit
                /\ \A r \in Object(e) : Precedes(r, AsStored(m))
            BY <2>1, <2>6, <3>4, <4>2
          <5>2. Cardinality(Object(e)) <= Rank(F, AsStored(m))
            BY <2>2, <2>5, <5>1, RankAll
          <5>3. Rank(F, AsStored(m)) \in Nat
            BY <2>2, RankType
          <5> QED  BY <5>1, <5>2, <5>3
        <4> QED  BY <4>1, <4>2
      <3> QED  BY <1>5, <2>6, <3>1, <3>2, <3>3, <3>4
    <2>7. \A m \in steady : /\ AsStored(m)' = AsStored(m)
                            /\ Crowded(AsStored(m))' <=>
                                  /\ reader.q.limit # Unset
                                  /\ Rank(F, AsStored(m)) >= reader.q.limit
      BY <1>1, <2>3, CrowdedNext DEF AsStored
    <2>8. /\ IsFiniteSet(F)
          /\ \A r, s \in F : r.message = s.message => r = s
      BY <2>2 DEF Listable
    <2>9. \A m \in steady' : table'[m] # NoMessage /\ older'[m] = {}
      BY <1>1 DEF ListingSoFar
    <2>10. \A m \in steady' : Matches(reader'.q, m, table'[m]) =>
              \/ EndpointOf[m] \in reader'.objects
              \/ AsStored(m)' \in reader'.found
              \/ Crowded(AsStored(m))'
      BY Zenon, <1>1, <2>3, <2>6, <2>7
    <2>11. \A r \in reader'.found : /\ EndpointOf[r.message] \notin reader'.objects
                                    /\ Matches(reader'.q, r.message, r.version)
      BY Zenon, <2>3, <2>4
    <2>12. reader'.step # "page" /\ reader'.step # "done"
      BY <2>3
    <2>13. ListingSoFar'
      BY Zenon, <2>3, <2>8, <2>9, <2>10, <2>11, <2>12 DEF ListingSoFar
    <2>14. ListingComplete'
      BY Zenon, <2>12 DEF ListingComplete
    <2> QED  BY <2>13, <2>14
  <1>7. ASSUME reader.objects = {}, Finished(reader.found)
        PROVE  ListingSoFar' /\ ListingComplete'
    <2>1. Filter(reader.q, reader.found) = reader.found
      BY Zenon, <1>5 DEF Filter
    <2>2. \A m \in steady : Matches(reader.q, m, table[m]) =>
             \/ AsStored(m) \in reader.found
             \/ /\ reader.q.limit # Unset
                /\ Rank(Filter(reader.q, reader.found), AsStored(m)) >= reader.q.limit
      BY Zenon, <1>5, <1>7, <2>1
    <2> QED  BY <1>1, <1>2, <1>3, <1>7, <2>2, FinishedStep
  <1> QED  BY Zenon, <1>6, <1>7 DEF ReadObject

\* A listing begins, with every steady message that matches still to be read.
LEMMA StartStep ==
    ASSUME TypeOK, adapter \in {"dynamo", "durable"}, NEW q \in Query, StartList(q)
    PROVE  ListingSoFar' /\ ListingComplete'
  <1>1. /\ steady' = Settled(q) /\ UNCHANGED <<table, older, adapter>>
    BY Zenon DEF StartList, stores
  <1>2. /\ reader'.step = IF adapter = "dynamo" THEN "page" ELSE "objects"
        /\ reader'.q = q /\ reader'.found = {} /\ reader'.cursor = -1
        /\ reader'.objects = IF q.endpoint = Unset THEN live ELSE {q.endpoint}
    BY DEF StartList
  <1>3. reader'.step # "done" /\ (reader'.step = "objects" => adapter = "durable")
    BY <1>2
  <1>4. ASSUME NEW m \in steady'
        PROVE  /\ m \in Message /\ table'[m] # NoMessage /\ older'[m] = {}
               /\ ~(m <= reader'.cursor)
    <2>1. m \in Message /\ table[m] # NoMessage /\ older[m] = {}
      BY Zenon, <1>1, <1>4 DEF Settled
    <2>2. m \in Nat
      BY <2>1, LogAssumption
    <2> QED  BY <1>1, <1>2, <2>1, <2>2
  <1>5. ASSUME adapter = "durable", NEW m \in steady', Matches(q, m, table'[m])
        PROVE  EndpointOf[m] \in reader'.objects
    BY Zenon, <1>1, <1>2, <1>5 DEF Settled, Matches
  <1>6. IsFiniteSet({})
    BY FS_EmptySet
  <1>7. reader'.step = "objects" =>
           \A m \in steady' : Matches(reader'.q, m, table'[m]) => EndpointOf[m] \in reader'.objects
    BY Zenon, <1>2, <1>3, <1>5
  <1>8. ListingSoFar'
    BY <1>2, <1>4, <1>6, <1>7 DEF ListingSoFar
  <1>9. ListingComplete'
    BY Zenon, <1>3 DEF ListingComplete
  <1> QED  BY <1>8, <1>9

LEMMA ListStep ==
    ASSUME TypeOK, adapter \in {"dynamo", "durable"}, ListingSoFar, ListingComplete, [Next]_vars
    PROVE  ListingSoFar' /\ ListingComplete'
  <1>1. CASE UNCHANGED <<adapter, reader, table, older, steady>>
    BY Zenon, <1>1, ListFrame
  <1>2. ASSUME NEW w \in Worker, NEW j, NEW first, Begin(w, j, first)
        PROVE  UNCHANGED <<adapter, reader, table, older, steady>>
    BY Zenon, <1>2 DEF Begin, stores, history
  <1>3. ASSUME NEW w \in Worker,
               \/ \E m \in Message : StartPut(w, m)
               \/ \E l \in Log : StartAppend(w, l)
        PROVE  UNCHANGED <<adapter, reader, table, older, steady>>
    BY Zenon, <1>2, <1>3 DEF StartPut, StartAppend
  <1>4. ASSUME NEW w \in Worker,
               PutIndex(w) \/ NextSeq(w) \/ PutRow(w) \/ Append(w) \/ Crash(w)
        PROVE  UNCHANGED <<adapter, reader, table, older, steady>>
    BY Zenon, <1>4 DEF PutIndex, NextSeq, PutRow, Append, Row, Crash, stores, history
  <1>5. ASSUME (\E e \in Endpoint : deleteEndpoint(e)) \/ UNCHANGED vars
        PROVE  UNCHANGED <<adapter, reader, table, older, steady>>
    BY Zenon, <1>5 DEF deleteEndpoint, vars, stores, history
  <1>6. ASSUME NEW w \in Worker, PutMessage(w)  PROVE ListingSoFar' /\ ListingComplete'
    <2>1. /\ table \in [Message -> Version \cup {NoMessage}]
          /\ older \in [Message -> SUBSET (Version \cup {NoMessage})]
          /\ steady \subseteq Message
      BY DEF TypeOK
    <2>2. steady' \subseteq steady /\ UNCHANGED <<adapter, reader>>
      BY Zenon, <1>6 DEF PutMessage
    <2>3. \A m \in steady' : m \in Message /\ m # job[w].message
      BY Zenon, <1>6, <2>1 DEF PutMessage
    <2>4. \A m \in steady' : table'[m] = table[m] /\ older'[m] \subseteq older[m]
      BY Zenon, <1>6, <2>1, <2>3 DEF PutMessage
    <2> QED  BY Zenon, <2>2, <2>4, ListFrame
  <1>7. ASSUME NEW m \in Message, CatchUp(m)  PROVE ListingSoFar' /\ ListingComplete'
    <2>1. /\ older \in [Message -> SUBSET (Version \cup {NoMessage})]
          /\ steady \subseteq Message
      BY DEF TypeOK
    <2>2. UNCHANGED <<adapter, reader, table, steady>>
      BY Zenon, <1>7 DEF CatchUp
    <2>3. \A n \in steady : older'[n] \subseteq older[n]
      BY <1>7, <2>1 DEF CatchUp
    <2> QED  BY Zenon, <2>2, <2>3, ListFrame
  <1>8. CASE Answered
    <2>1. reader' = Idle /\ steady' = {}
      BY Zenon, <1>8 DEF Answered
    <2> QED  BY <2>1 DEF ListingSoFar, ListingComplete, Idle
  <1>9. ASSUME NEW q \in Query, StartList(q)  PROVE ListingSoFar' /\ ListingComplete'
    BY <1>9, StartStep
  <1> QED  BY Zenon, <1>1, <1>3, <1>4, <1>5, <1>6, <1>7, <1>8, <1>9, PageStep, ObjectStep DEF Next

(***************************************************************************)
(* A listing is complete, with either adapter and for every page size: a   *)
(* message that nobody writes while listDeliveries runs is in the answer   *)
(* if it matches, unless the answer has as many rows as were asked for and *)
(* none of them is older.  The cursor of queryAll skips nothing, and the   *)
(* limit that each endpoint object applies on its own takes away no row    *)
(* that the merged answer would have had.                                  *)
(***************************************************************************)
THEOREM ListingsComplete == Spec => []ListingComplete
  <1> DEFINE Inv == /\ TypeOK /\ adapter \in {"dynamo", "durable"}
                    /\ ListingSoFar /\ ListingComplete
  <1>1. Init => Inv
    <2> SUFFICES ASSUME Init
                 PROVE  adapter \in {"dynamo", "durable"} /\ ListingSoFar /\ ListingComplete
      BY LogTypesInit
    <2>1. reader = Idle /\ steady = {} /\ adapter \in {"dynamo", "durable"}
      BY Zenon DEF Init
    <2> QED  BY <2>1 DEF ListingSoFar, ListingComplete, Idle
  <1>2. Next \/ UNCHANGED vars => UNCHANGED adapter
    BY Zenon DEF Next, StartPut, StartAppend, Begin, PutMessage, PutIndex, NextSeq, PutRow,
         Append, Row, Crash, deleteEndpoint, CatchUp, StartList, ReadPage, ReadObject, Answered,
         vars
  <1>3. Inv /\ [Next]_vars => Inv'
    BY <1>2, LogTypesStep, ListStep
  <1> QED  BY <1>1, <1>3, PTL DEF Spec
=============================================================================
