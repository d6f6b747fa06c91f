------------------------------ MODULE ViewsProofs ------------------------------
(***************************************************************************)
(* What readers see of the incident tables, for every set of events, keys, *)
(* readers, scrapes and status changes, every page size and any number of  *)
(* calls and failures.  Incidents is finite: every query counts its rows.  *)
(***************************************************************************)
EXTENDS Views, FiniteSetTheorems, TLAPS

-----------------------------------------------------------------------------
(* The inductive invariant                                                 *)

PatchRecord == [pc : {"idle", "committed", "recorded", "read", "200", "500", "lost"},
                row : Row \cup {None}, evidence : Nat, counts : Counts]

ScrapeRecord == [pc : {"idle", "query", "read", "200", "500", "lost"},
                 counts : Counts, body : Series]

ReaderRecord ==
    [pc : {"idle", "find", "count", "page", "links", "200", "404", "lost"},
     route : {"list", "detail", "evidences", "history"}, sort : {"created_at", "status"},
     order : {"asc", "desc"}, only : {None, "open"}, subject : Incidents \cup {None},
     skip : Nat, total : Nat, items : SUBSET Incidents, size : Nat, links : SUBSET Nat,
     known : SUBSET Incidents, found : SUBSET Incidents]

TypeInv ==
    /\ status \in [Incidents -> IncidentStatus \cup {"none"}]
    /\ rank \in [Incidents -> Nat]
    /\ severity \in [Incidents -> Severities \cup {None}]
    /\ work.pc \in {"idle", "handle", "committed"} /\ work.event \in Events \cup {None}
    /\ work.new \subseteq Incidents \X Events
    /\ linked \in [Incidents \X Events -> Nat]
    /\ counted \subseteq Row
    /\ gauge \in Series
    /\ patch \in [Rows -> PatchRecord]
    /\ scrape \in [Scrapes -> ScrapeRecord]
    /\ reader \in [Readers -> ReaderRecord]
    /\ faults \in Nat

\* The tables can be counted, every incident has evidence, and no two incidents
\* have one place in the order of created_at.
TablesOK ==
    /\ IsFiniteSet(evidence) /\ IsFiniteSet(history)
    /\ \A i \in Exist : EvidenceOf(i) # {}
    /\ \A i, j \in Exist : rank[i] = rank[j] => i = j

\* What the process has counted of its event it has seen, and what it is about to
\* count is in the tables and not yet counted.
WorkOK ==
    /\ work.pc = "handle" =>
          /\ work.event \in Events /\ work.seen \subseteq evidence
          /\ \A x \in Incidents \X {work.event} : linked[x] > 0 => x \in work.seen
    /\ work.pc = "committed" => work.new \subseteq evidence /\ \A x \in work.new : linked[x] = 0

TalliesOK == CountersNotAhead /\ WorkOK

\* The row of a PATCH is in the trail, and its incident has evidence.
PatchOK(p) ==
    /\ patch[p].pc = "committed" =>
          /\ patch[p].row \in Row \cap history
          /\ patch[p].row.incident \in Exist
    /\ patch[p].pc \in {"recorded", "read", "200"} => patch[p].evidence > 0

ScrapeOK(s) ==
    /\ scrape[s].pc = "read" => scrape[s].counts \in truths[s]
    /\ scrape[s].pc = "200" => scrape[s].body \in truths[s]

\* What a route has found so far is still there.
AnswerOK(q) ==
    /\ q.pc = "idle" => q.route = "list" /\ q.skip = 0
    /\ q.pc = "find" => q.route # "list"
    /\ q.pc \in {"count", "page", "200"} /\ q.route # "list" => q.subject \in Exist
    /\ q.pc = "links" => q.route = "list" /\ q.items \subseteq Exist
    /\ q.pc = "page" => q.route # "detail"
    /\ q.pc = "page" /\ q.only = None => q.total <= Cardinality(RowsOf(q))
    /\ q.pc \in {"links", "200"} /\ q.only = None /\ q.route # "detail"
          => q.size >= PageSize(q.total, q.skip)
    /\ q.pc = "200" /\ q.route = "detail" => q.total > 0
    /\ 0 \notin q.links

\* What a walk should find and has not found yet is behind the pages it has seen:
\* incidents only move away from the start of the order.
WalkOK(q) ==
    LET After(n) == \A i \in q.known \ q.found : Position(i, Exist, q.order) > n IN
    q.route = "list" /\ q.sort = "created_at" /\ q.only = None =>
        /\ q.known \subseteq Exist
        /\ q.pc \in {"count", "page"} => After(q.skip)
        /\ q.pc \in {"links", "200"} => After(q.skip + Limit)
        /\ q.pc \in {"links", "200"} /\ q.size < Limit => q.known \subseteq q.found

ViewsInv ==
    /\ TypeInv /\ TablesOK /\ TalliesOK
    /\ \A p \in Rows : PatchOK(p)
    /\ \A s \in Scrapes : ScrapeOK(s)
    /\ \A r \in Readers : AnswerOK(reader[r]) /\ WalkOK(reader[r])

-----------------------------------------------------------------------------
(* Statuses, counts and pages                                              *)

LEMMA Statuses ==
    /\ \A n \in 1..6 : LifeCycle[n] \in IncidentStatus
    /\ "open" \in IncidentStatus /\ "none" \notin IncidentStatus
<1>1. DOMAIN LifeCycle = 1..6
  BY DEF LifeCycle
<1>2. /\ LifeCycle[1] = "open" /\ LifeCycle[2] = "acknowledged"
      /\ LifeCycle[3] = "investigating" /\ LifeCycle[4] = "contained"
      /\ LifeCycle[5] = "resolved" /\ LifeCycle[6] = "closed"
  BY DEF LifeCycle
<1>3. \A n \in 1..6 : n = 1 \/ n = 2 \/ n = 3 \/ n = 4 \/ n = 5 \/ n = 6
  OBVIOUS
<1>4. 1 \in 1..6
  OBVIOUS
<1> HIDE DEF LifeCycle
<1>5. IncidentStatus = {LifeCycle[n] : n \in 1..6}
  BY <1>1 DEF IncidentStatus
<1>6. \A n \in 1..6 : LifeCycle[n] # "none"
  BY <1>2, <1>3
<1> QED
  BY <1>2, <1>4, <1>5, <1>6

\* What a function gives for a finite set is finite.
LEMMA ImageFinite ==
    ASSUME NEW f, NEW S, IsFiniteSet(S)
    PROVE  IsFiniteSet({f[x] : x \in S})
<1> DEFINE T == {f[x] : x \in S}
<1> DEFINE g == [x \in S |-> f[x]]
<1>1. g \in [S -> T]
  OBVIOUS
<1>2. \A t \in T : \E x \in S : g[x] = t
  OBVIOUS
<1> HIDE DEF g, T
<1>3. g \in Surjection(S, T)
  BY <1>1, <1>2 DEF Surjection
<1>4. IsFiniteSet(T)
  BY <1>3, FS_Surjection
<1> QED
  BY <1>4 DEF T

\* A query over more rows counts no less.
LEMMA CountGrows ==
    ASSUME NEW T, IsFiniteSet(T), NEW S, S \subseteq T
    PROVE  /\ IsFiniteSet(S) /\ Cardinality(S) \in Nat /\ Cardinality(T) \in Nat
           /\ Cardinality(S) <= Cardinality(T)
           /\ Cardinality(S) = Cardinality(T) => S = T
<1>1. S \in SUBSET T
  OBVIOUS
<1> QED
  BY <1>1, FS_Subset, FS_CardinalityType

LEMMA CountPositive ==
    ASSUME NEW S, IsFiniteSet(S), S # {}
    PROVE  Cardinality(S) \in Nat /\ Cardinality(S) > 0
<1>1. Cardinality(S) \in Nat /\ Cardinality(S) # 0
  BY FS_CardinalityType, FS_EmptySet
<1> QED
  BY <1>1

\* A longer result leaves a page no shorter, and a page that is not full is the
\* last one.
LEMMA PageSizes ==
    ASSUME NEW n \in Nat, NEW skip \in Nat
    PROVE  /\ PageSize(n, skip) \in 0 .. Limit
           /\ \A m \in Nat : m <= n => PageSize(m, skip) <= PageSize(n, skip)
           /\ PageSize(n, skip) < Limit => n < skip + Limit
BY ViewsAssumptions DEF ViewsAssumptions, PageSize

LEMMA ExistFinite ==
    /\ IsFiniteSet(Exist) /\ IsFiniteSet(Exist') /\ Exist \subseteq Incidents
    /\ Exist' \subseteq Incidents /\ Limit \in Nat /\ Limit > 0
<1>1. IsFiniteSet(Incidents) /\ Limit \in Nat /\ Limit > 0
  BY ViewsAssumptions DEF ViewsAssumptions
<1>2. Exist \subseteq Incidents /\ Exist' \subseteq Incidents
  BY DEF Exist
<1> QED
  BY <1>1, <1>2, CountGrows

\* Every severity has a number, at every moment.
LEMMA CountsTyped == OpenBySeverity \in Counts /\ OpenBySeverity' \in Counts
<1>1. \A v \in Severities :
         Cardinality({i \in Exist : status[i] \in ActiveStatus /\ severity[i] = v}) \in Nat
  BY ExistFinite, CountGrows
<1>2. \A v \in Severities :
         Cardinality({i \in Exist' : status'[i] \in ActiveStatus /\ severity'[i] = v}) \in Nat
  BY ExistFinite, CountGrows
<1> QED
  BY <1>1, <1>2 DEF OpenBySeverity, Counts

-----------------------------------------------------------------------------
(* Positions in the order of a list                                        *)

\* No two of the rows S have one place.
Ranked(S) ==
    /\ \A i \in S : rank[i] \in Nat
    /\ \A i, j \in S : rank[i] = rank[j] => i = j

LEMMA PositionTyped ==
    ASSUME NEW S, IsFiniteSet(S), NEW order, NEW i \in S, Ranked(S)
    PROVE  Position(i, S, order) \in 1 .. Cardinality(S)
<1> DEFINE P == {j \in S : IF order = "asc" THEN rank[j] <= rank[i] ELSE rank[j] >= rank[i]}
<1>1. i \in P
  BY DEF Ranked
<1>2. P \subseteq S
  OBVIOUS
<1>3. Position(i, S, order) = Cardinality(P)
  BY DEF Position
<1> HIDE DEF P
<1>4. IsFiniteSet(P) /\ Cardinality(P) <= Cardinality(S) /\ Cardinality(S) \in Nat
  BY <1>2, CountGrows
<1>5. Cardinality(P) \in Nat /\ Cardinality(P) > 0
  BY <1>1, <1>4, CountPositive
<1> QED
  BY <1>3, <1>4, <1>5

\* Rows of smaller rank come first, or last.
LEMMA PositionFollowsRank ==
    ASSUME NEW S, IsFiniteSet(S), NEW order, NEW i \in S, NEW j \in S, Ranked(S),
           rank[i] < rank[j]
    PROVE  Position(i, S, order) # Position(j, S, order)
<1> DEFINE P(x) == {y \in S : IF order = "asc" THEN rank[y] <= rank[x] ELSE rank[y] >= rank[x]}
<1>1. Position(i, S, order) = Cardinality(P(i)) /\ Position(j, S, order) = Cardinality(P(j))
  BY DEF Position
<1>2. rank[i] \in Nat /\ rank[j] \in Nat /\ \A x \in S : rank[x] \in Nat
  BY DEF Ranked
<1>3. CASE order = "asc"
  <2>1. P(i) \subseteq P(j)
    BY <1>2, <1>3
  <2>2. j \in P(j) /\ j \notin P(i)
    BY <1>2, <1>3
  <2>3. P(j) \subseteq S
    OBVIOUS
  <2> HIDE DEF P
  <2>4. IsFiniteSet(P(j))
    BY <2>3, CountGrows
  <2>5. Cardinality(P(i)) # Cardinality(P(j))
    BY <2>1, <2>2, <2>4, CountGrows
  <2> QED
    BY <1>1, <2>5
<1>4. CASE order # "asc"
  <2>1. P(j) \subseteq P(i)
    BY <1>2, <1>4
  <2>2. i \in P(i) /\ i \notin P(j)
    BY <1>2, <1>4
  <2>3. P(i) \subseteq S
    OBVIOUS
  <2> HIDE DEF P
  <2>4. IsFiniteSet(P(i))
    BY <2>3, CountGrows
  <2>5. Cardinality(P(i)) # Cardinality(P(j))
    BY <2>1, <2>2, <2>4, CountGrows
  <2> QED
    BY <1>1, <2>5
<1> QED
  BY <1>3, <1>4

LEMMA PositionsApart ==
    ASSUME NEW S, IsFiniteSet(S), NEW order, NEW i \in S, NEW j \in S, Ranked(S),
           Position(i, S, order) = Position(j, S, order)
    PROVE  i = j
<1>1. rank[i] \in Nat /\ rank[j] \in Nat /\ (rank[i] = rank[j] => i = j)
  BY DEF Ranked
<1>2. ~ rank[i] < rank[j] /\ ~ rank[j] < rank[i]
  BY PositionFollowsRank
<1> QED
  BY <1>1, <1>2

\* A page of PageSize rows whose positions are those of the page leaves out no
\* row of such a position.
LEMMA PageIsComplete ==
    ASSUME NEW S, IsFiniteSet(S), NEW order, NEW skip \in Nat, Ranked(S), NEW T, T \subseteq S,
           Cardinality(T) = PageSize(Cardinality(S), skip),
           \A i \in T : Position(i, S, order) \in skip + 1 .. skip + Limit,
           NEW j \in S, Position(j, S, order) \in skip + 1 .. skip + Limit
    PROVE  j \in T
<1> DEFINE n == Cardinality(S)
<1> DEFINE last == IF n < skip + Limit THEN n ELSE skip + Limit
<1> DEFINE W == {i \in S : Position(i, S, order) \in skip + 1 .. skip + Limit}
<1> DEFINE f == [i \in W |-> Position(i, S, order)]
<1>1. Limit \in Nat /\ n \in Nat
  BY ExistFinite, FS_CardinalityType
<1>2. W \subseteq S /\ T \subseteq W /\ j \in W
  OBVIOUS
<1>3. \A i \in W : Position(i, S, order) \in skip + 1 .. last
  BY <1>1, PositionTyped
<1>4. f \in Injection(W, skip + 1 .. last)
  <2>1. f \in [W -> skip + 1 .. last]
    BY <1>3
  <2>2. ASSUME NEW x \in W, NEW y \in W, f[x] = f[y] PROVE x = y
    BY <1>2, <2>2, PositionsApart
  <2> HIDE DEF f, W
  <2> QED
    BY <2>1, <2>2 DEF Injection, IsInjective
<1>5. skip + 1 \in Int /\ last \in Int
  BY <1>1
<1>6. /\ IsFiniteSet(skip + 1 .. last)
      /\ Cardinality(skip + 1 .. last) = IF skip + 1 > last THEN 0 ELSE last - (skip + 1) + 1
  BY <1>5, FS_Interval
<1>7. Cardinality(skip + 1 .. last) = PageSize(n, skip)
  BY <1>1, <1>6 DEF PageSize
<1> HIDE DEF f, W, last, n
<1>8. IsFiniteSet(W) /\ Cardinality(W) <= PageSize(n, skip)
  BY <1>4, <1>6, <1>7, FS_Injection
<1>9. Cardinality(T) = PageSize(n, skip)
  BY DEF n
<1>10. Cardinality(T) = Cardinality(W)
  BY <1>2, <1>8, <1>9, CountGrows
<1> QED
  BY <1>2, <1>8, <1>10, CountGrows

-----------------------------------------------------------------------------
(* What every step leaves as it was                                        *)

\* No incident disappears or changes its place, no evidence and no row of the
\* trail is removed.
Grows ==
    /\ \A i \in Incidents : status[i] # "none" => status'[i] # "none" /\ rank'[i] = rank[i]
    /\ evidence \subseteq evidence' /\ history \subseteq history'

\* What the lemmas on readers need to know of the tables.
Countable ==
    /\ rank \in [Incidents -> Nat] /\ rank' \in [Incidents -> Nat]
    /\ TablesOK /\ TablesOK'

LEMMA ExistGrows ==
    ASSUME Grows PROVE Exist \subseteq Exist'
BY DEF Grows, Exist

LEMMA ExistRanked ==
    ASSUME Countable PROVE Ranked(Exist) /\ Ranked(Exist)'
<1>1. \A i \in Exist : rank[i] \in Nat
  BY DEF Countable, Exist
<1>2. \A i \in Exist' : rank'[i] \in Nat
  BY DEF Countable, Exist
<1> QED
  BY <1>1, <1>2 DEF Countable, TablesOK, Ranked

\* Incidents only move away from the start of the order.
LEMMA PositionGrows ==
    ASSUME Countable, Grows, NEW i \in Exist, NEW order
    PROVE  /\ Position(i, Exist, order) \in Nat /\ Position(i, Exist, order)' \in Nat
           /\ Position(i, Exist, order) > 0
           /\ Position(i, Exist, order) <= Position(i, Exist, order)'
<1> DEFINE P == {j \in Exist : IF order = "asc" THEN rank[j] <= rank[i] ELSE rank[j] >= rank[i]}
<1> DEFINE Q == {j \in Exist' : IF order = "asc" THEN rank'[j] <= rank'[i] ELSE rank'[j] >= rank'[i]}
<1>1. Position(i, Exist, order) = Cardinality(P) /\ Position(i, Exist, order)' = Cardinality(Q)
  BY DEF Position
<1>2. \A j \in Exist : j \in Exist' /\ rank'[j] = rank[j]
  BY DEF Grows, Exist
<1>3. P \subseteq Q
  BY <1>2
<1>4. Q \subseteq Exist' /\ i \in P
  BY DEF Countable, Exist
<1> HIDE DEF P, Q
<1>5. IsFiniteSet(Q)
  BY <1>4, ExistFinite, CountGrows
<1>6. /\ IsFiniteSet(P) /\ Cardinality(P) \in Nat /\ Cardinality(Q) \in Nat
      /\ Cardinality(P) <= Cardinality(Q)
  BY <1>3, <1>5, CountGrows
<1>7. Cardinality(P) > 0
  BY <1>4, <1>6, CountPositive
<1> QED
  BY <1>1, <1>6, <1>7

\* The rows of an answer without a filter only become more.
LEMMA RowsGrow ==
    ASSUME Countable, Grows, NEW q, q.only = None
    PROVE  /\ RowsOf(q) \subseteq RowsOf(q)'
           /\ Cardinality(RowsOf(q)) \in Nat /\ Cardinality(RowsOf(q)') \in Nat
           /\ Cardinality(RowsOf(q)) <= Cardinality(RowsOf(q)')
<1>1. CASE q.route = "list"
  <2>1. RowsOf(q) = Exist
    BY <1>1 DEF RowsOf, Matching
  <2>2. RowsOf(q)' = Exist'
    BY <1>1 DEF RowsOf, Matching
  <2> QED
    BY <2>1, <2>2, ExistGrows, ExistFinite, CountGrows
<1>2. CASE q.route = "history"
  <2>1. RowsOf(q) = {h \in history : h.incident = q.subject}
    BY <1>2 DEF RowsOf, HistoryOf
  <2>2. RowsOf(q)' = {h \in history' : h.incident = q.subject}
    BY <1>2 DEF RowsOf, HistoryOf
  <2>3. IsFiniteSet(history') /\ RowsOf(q)' \subseteq history' /\ RowsOf(q) \subseteq RowsOf(q)'
    BY <2>1, <2>2 DEF Countable, TablesOK, Grows
  <2>4. IsFiniteSet(RowsOf(q)')
    BY <2>3, CountGrows
  <2> QED
    BY <2>3, <2>4, CountGrows
<1>3. CASE q.route \notin {"list", "history"}
  <2>1. RowsOf(q) = {x \in evidence : x[1] = q.subject}
    BY <1>3 DEF RowsOf, EvidenceOf
  <2>2. RowsOf(q)' = {x \in evidence' : x[1] = q.subject}
    BY <1>3 DEF RowsOf, EvidenceOf
  <2>3. IsFiniteSet(evidence') /\ RowsOf(q)' \subseteq evidence' /\ RowsOf(q) \subseteq RowsOf(q)'
    BY <2>1, <2>2 DEF Countable, TablesOK, Grows
  <2>4. IsFiniteSet(RowsOf(q)')
    BY <2>3, CountGrows
  <2> QED
    BY <2>3, <2>4, CountGrows
<1> QED
  BY <1>1, <1>2, <1>3

\* The answers of the calls that take no step.
LEMMA AnswerStays ==
    ASSUME Countable, Grows, NEW q \in ReaderRecord, AnswerOK(q) PROVE AnswerOK(q)'
<1>1. q.subject \in Exist => q.subject \in Exist'
  BY ExistGrows
<1>2. q.items \subseteq Exist => q.items \subseteq Exist'
  BY ExistGrows
<1>3. q.only = None /\ q.total <= Cardinality(RowsOf(q)) => q.total <= Cardinality(RowsOf(q)')
  <2>1. q.total \in Nat
    BY DEF ReaderRecord
  <2> QED
    BY <2>1, RowsGrow
<1> QED
  BY <1>1, <1>2, <1>3 DEF AnswerOK

LEMMA WalkStays ==
    ASSUME Countable, Grows, NEW q \in ReaderRecord, WalkOK(q) PROVE WalkOK(q)'
<1>1. q.known \subseteq Exist => q.known \subseteq Exist'
  BY ExistGrows
<1>2. q.skip \in Nat /\ Limit \in Nat
  BY ExistFinite DEF ReaderRecord
<1>3. ASSUME q.known \subseteq Exist, NEW n \in Nat,
             \A i \in q.known \ q.found : Position(i, Exist, q.order) > n
      PROVE  \A i \in q.known \ q.found : Position(i, Exist, q.order)' > n
  BY <1>3, PositionGrows
<1> QED
  BY <1>1, <1>2, <1>3 DEF WalkOK

\* A step keeps the invariant when it keeps the tables in order and leaves each
\* call either as it was or in order.
LEMMA CallsStay ==
    ASSUME ViewsInv, TypeInv', TablesOK', Grows, TalliesOK', Remember,
           \A p \in Rows : patch'[p] = patch[p] \/ PatchOK(p)',
           \A s \in Scrapes : scrape'[s] = scrape[s] \/ ScrapeOK(s)',
           \A r \in Readers : reader'[r] = reader[r] \/ (AnswerOK(reader[r]) /\ WalkOK(reader[r]))'
    PROVE  ViewsInv'
<1>1. Countable
  BY DEF ViewsInv, TypeInv, Countable
<1>2. ASSUME NEW p \in Rows PROVE PatchOK(p)'
  <2>1. PatchOK(p)
    BY DEF ViewsInv
  <2>2. ASSUME patch'[p] = patch[p], patch[p].pc = "committed"
        PROVE  patch'[p].row \in Row \cap history' /\ patch'[p].row.incident \in Exist'
    BY <2>1, <2>2, ExistGrows DEF PatchOK, Grows
  <2> QED
    BY <2>1, <2>2 DEF PatchOK
<1>3. ASSUME NEW s \in Scrapes PROVE ScrapeOK(s)'
  <2>1. ScrapeOK(s)
    BY DEF ViewsInv
  <2>2. truths[s] \subseteq truths'[s]
    BY DEF Remember
  <2> QED
    BY <2>1, <2>2 DEF ScrapeOK
<1>4. ASSUME NEW r \in Readers PROVE AnswerOK(reader[r])' /\ WalkOK(reader[r])'
  <2>1. CASE reader'[r] = reader[r]
    <3>1. PICK q \in ReaderRecord : q = reader[r]
      BY DEF ViewsInv, TypeInv
    <3>2. AnswerOK(q) /\ WalkOK(q)
      BY <3>1 DEF ViewsInv
    <3>3. AnswerOK(q)' /\ WalkOK(q)'
      BY <1>1, <3>2, AnswerStays, WalkStays
    <3> QED
      BY <2>1, <3>1, <3>3 DEF AnswerOK, WalkOK, RowsOf, Matching, HistoryOf, EvidenceOf, Position
  <2> QED
    BY <2>1
<1> QED
  BY <1>2, <1>3, <1>4 DEF ViewsInv

\* Readers, scrapes and counters write no table.
LEMMA TablesStay ==
    ASSUME ViewsInv, UNCHANGED <<cvars, rank>>
    PROVE  Grows /\ TablesOK' /\ Exist' = Exist
<1>1. TablesOK
  BY DEF ViewsInv
<1> QED
  BY <1>1 DEF Grows, TablesOK, Exist, EvidenceOf, cvars

\* The counters of the consumer stay right when others write evidence.
LEMMA TalliesStay ==
    ASSUME ViewsInv, UNCHANGED <<work, linked>>, evidence \subseteq evidence',
           counted' \subseteq history'
    PROVE  TalliesOK'
<1>1. TalliesOK /\ linked \in [Incidents \X Events -> Nat]
  BY DEF ViewsInv, TypeInv
<1>2. \A x \in Incidents \X Events : linked'[x] <= IF x \in evidence' THEN 1 ELSE 0
  BY <1>1 DEF TalliesOK, CountersNotAhead
<1>3. WorkOK'
  BY <1>1 DEF TalliesOK, WorkOK
<1> QED
  BY <1>2, <1>3 DEF TalliesOK, CountersNotAhead

-----------------------------------------------------------------------------
(* The initial states                                                      *)

LEMMA InitTables ==
    ASSUME CInit
    PROVE  /\ status \in [Incidents -> IncidentStatus \cup {"none"}]
           /\ IsFiniteSet(evidence) /\ IsFiniteSet(history)
           /\ \A i \in Exist : EvidenceOf(i) # {}
           /\ \A x \in evidence : x[2] \in Events
           /\ \A i, j \in Exist : i = j
<1>0. PICK i : i = CHOOSE j \in Incidents : TRUE
  OBVIOUS
<1>1. PICK age \in Ages, e \in Events :
        /\ status = [j \in Incidents |-> IF age > 0 /\ j = i THEN LifeCycle[age] ELSE "none"]
        /\ evidence = IF age > 0 THEN {<<i, e>>} ELSE {}
        /\ history = IF age > 0 THEN {PastRow(i, n) : n \in 1 .. age - 1} ELSE {}
  BY <1>0 DEF CInit
<1>2. age \in 0..6
  BY CorrelatedAssumptions DEF CorrelatedAssumptions
<1>3. age > 0 => LifeCycle[age] \in IncidentStatus
  BY <1>2, Statuses
<1>4. CASE age = 0
  <2>1. evidence = {} /\ history = {} /\ status = [j \in Incidents |-> "none"]
    BY <1>1, <1>4
  <2>2. Exist = {}
    BY <2>1 DEF Exist
  <2> QED
    BY <2>1, <2>2, FS_EmptySet
<1>5. CASE age > 0
  <2>1. /\ status = [j \in Incidents |-> IF j = i THEN LifeCycle[age] ELSE "none"]
        /\ evidence = {<<i, e>>} /\ history = {PastRow(i, n) : n \in 1 .. age - 1}
    BY <1>1, <1>5
  <2>2. IsFiniteSet(history)
    <3> DEFINE f == [n \in 1 .. age - 1 |-> PastRow(i, n)]
    <3>1. history = {f[n] : n \in 1 .. age - 1}
      BY <2>1
    <3>2. IsFiniteSet(1 .. age - 1)
      BY <1>2, FS_Interval
    <3> HIDE DEF f
    <3> QED
      BY <3>1, <3>2, ImageFinite
  <2>3. IsFiniteSet(evidence)
    BY <2>1, FS_Singleton
  <2>4. Exist \subseteq {i}
    BY <2>1 DEF Exist
  <2>5. EvidenceOf(i) # {}
    <3>1. <<i, e>> \in evidence /\ <<i, e>>[1] = i
      BY <2>1
    <3> QED
      BY <3>1 DEF EvidenceOf
  <2>6. \A j \in Exist : EvidenceOf(j) # {}
    BY <2>4, <2>5
  <2>7. status \in [Incidents -> IncidentStatus \cup {"none"}]
    BY <1>3, <1>5, <2>1
  <2>8. \A j, k \in Exist : j = k
    BY <2>4
  <2>9. \A x \in evidence : x[2] \in Events
    BY <2>1
  <2> QED
    BY <2>2, <2>3, <2>6, <2>7, <2>8, <2>9
<1> QED
  BY <1>2, <1>4, <1>5

LEMMA InitEstablishes == Init => ViewsInv
<1> SUFFICES ASSUME Init PROVE ViewsInv
  OBVIOUS
<1>1. CInit
  BY DEF Init
<1>2. /\ status \in [Incidents -> IncidentStatus \cup {"none"}]
      /\ IsFiniteSet(evidence) /\ IsFiniteSet(history)
      /\ \A i \in Exist : EvidenceOf(i) # {}
      /\ \A x \in evidence : x[2] \in Events
      /\ \A i, j \in Exist : i = j
  BY <1>1, InitTables
<1>3. /\ rank = [i \in Incidents |-> IF i \in Exist THEN 1 ELSE 0]
      /\ severity = [i \in Incidents |->
            IF i \in Exist THEN SeverityOf[(CHOOSE x \in EvidenceOf(i) : TRUE)[2]] ELSE None]
      /\ work = Free /\ linked = Uncounted /\ counted = {} /\ gauge = OpenBySeverity
      /\ patch = [p \in Rows |-> Idle] /\ scrape = [s \in Scrapes |-> Quiet]
      /\ reader = [r \in Readers |-> Silent] /\ faults = 0
  BY DEF Init
<1>4. severity \in [Incidents -> Severities \cup {None}]
  <2>1. ASSUME NEW i \in Exist
        PROVE  SeverityOf[(CHOOSE x \in EvidenceOf(i) : TRUE)[2]] \in Severities
    <3>1. (CHOOSE x \in EvidenceOf(i) : TRUE) \in EvidenceOf(i)
      BY <1>2
    <3>2. (CHOOSE x \in EvidenceOf(i) : TRUE)[2] \in Events
      BY <1>2, <3>1 DEF EvidenceOf
    <3> QED
      BY <3>2, ViewsAssumptions DEF ViewsAssumptions
  <2> QED
    BY <1>3, <2>1
<1>5. NoCounts \in Counts /\ NoSeries \in Series /\ gauge \in Series
  BY <1>3, CountsTyped DEF NoCounts, NoSeries, Counts, Series
<1>6. Idle \in PatchRecord /\ Quiet \in ScrapeRecord /\ Silent \in ReaderRecord
  BY <1>5 DEF Idle, Quiet, Silent, PatchRecord, ScrapeRecord, ReaderRecord
<1>7. TypeInv
  BY <1>2, <1>3, <1>4, <1>5, <1>6 DEF TypeInv, Free, Uncounted
<1>8. TablesOK /\ TalliesOK
  BY <1>2, <1>3 DEF TablesOK, TalliesOK, CountersNotAhead, WorkOK, Free, Uncounted
<1>9. /\ \A p \in Rows : PatchOK(p)
      /\ \A s \in Scrapes : ScrapeOK(s)
  BY <1>3 DEF PatchOK, ScrapeOK, Idle, Quiet
<1>10. \A r \in Readers : AnswerOK(reader[r]) /\ WalkOK(reader[r])
  BY <1>3 DEF AnswerOK, WalkOK, Silent
<1> QED
  BY <1>7, <1>8, <1>9, <1>10 DEF ViewsInv

-----------------------------------------------------------------------------
(* The consumer                                                            *)

LEMMA CorrelateMoves ==
    ASSUME ViewsInv, NEW e \in Events, Correlate(e)
    PROVE  /\ status' \in [Incidents -> IncidentStatus \cup {"none"}]
           /\ \A i \in Incidents : status[i] # "none" => status'[i] = status[i]
           /\ evidence \subseteq evidence' /\ history' = history
           /\ IsFiniteSet(evidence')
           /\ evidence' \ evidence \subseteq Incidents \X Events
           /\ \A i \in Exist' \ Exist : \E x \in evidence' : x[1] = i
<1>1. PICK goes \in [KeySet(e) -> Incidents] :
        /\ status' = [i \in Incidents |->
                      IF i \notin Exist /\ \E k \in KeySet(e) : goes[k] = i
                      THEN "open" ELSE status[i]]
        /\ evidence' = evidence \cup {<<goes[k], e>> : k \in KeySet(e)}
        /\ history' = history
  BY DEF Correlate
<1>2. IsFiniteSet(KeySet(e))
  <2>1. KeysOf[e] \in Seq(Keys)
    BY CorrelatedAssumptions DEF CorrelatedAssumptions
  <2>2. DOMAIN KeysOf[e] = 1 .. Len(KeysOf[e]) /\ Len(KeysOf[e]) \in Nat
    BY <2>1
  <2>3. IsFiniteSet(DOMAIN KeysOf[e])
    BY <2>2, FS_Interval
  <2> QED
    BY <2>3, ImageFinite DEF KeySet
<1>3. IsFiniteSet({<<goes[k], e>> : k \in KeySet(e)})
  <2> DEFINE f == [k \in KeySet(e) |-> <<goes[k], e>>]
  <2>1. {<<goes[k], e>> : k \in KeySet(e)} = {f[k] : k \in KeySet(e)}
    OBVIOUS
  <2> HIDE DEF f
  <2> QED
    BY <1>2, <2>1, ImageFinite
<1>4. IsFiniteSet(evidence')
  BY <1>1, <1>3, FS_Union DEF ViewsInv, TablesOK
<1>5. status' \in [Incidents -> IncidentStatus \cup {"none"}]
  BY <1>1, Statuses DEF ViewsInv, TypeInv
<1>6. \A i \in Incidents : status[i] # "none" => status'[i] = status[i]
  BY <1>1 DEF Exist
<1>7. ASSUME NEW i \in Exist' \ Exist PROVE \E x \in evidence' : x[1] = i
  <2>1. i \in Incidents /\ status'[i] # "none" /\ status[i] = "none"
    BY <1>7 DEF Exist
  <2>2. PICK k \in KeySet(e) : goes[k] = i
    BY <1>1, <2>1
  <2>3. <<i, e>> \in evidence' /\ <<i, e>>[1] = i
    BY <1>1, <2>2
  <2> QED
    BY <2>3
<1>8. evidence' \ evidence \subseteq Incidents \X Events
  BY <1>1
<1> QED
  BY <1>1, <1>4, <1>5, <1>6, <1>7, <1>8

\* The tables of a commit, whoever makes it.
LEMMA StoreMoves ==
    ASSUME ViewsInv, NEW e \in Events, Store(e)
    PROVE  /\ status' \in [Incidents -> IncidentStatus \cup {"none"}]
           /\ severity' \in [Incidents -> Severities \cup {None}]
           /\ rank' \in [Incidents -> Nat]
           /\ Grows /\ TablesOK' /\ history' = history
<1>1. /\ status' \in [Incidents -> IncidentStatus \cup {"none"}]
      /\ \A i \in Incidents : status[i] # "none" => status'[i] = status[i]
      /\ evidence \subseteq evidence' /\ history' = history
      /\ IsFiniteSet(evidence')
      /\ evidence' \ evidence \subseteq Incidents \X Events
      /\ \A i \in Exist' \ Exist : \E x \in evidence' : x[1] = i
  BY CorrelateMoves DEF Store
<1> DEFINE new == {i \in Incidents : status[i] = "none" /\ status'[i] # "none"}
<1>2. /\ severity' = [i \in Incidents |-> IF i \in new THEN SeverityOf[e] ELSE severity[i]]
      /\ rank' \in [Incidents -> 0 .. Cardinality(Incidents)]
      /\ \A i \in Incidents \ new : rank'[i] = rank[i]
      /\ \A i, j \in Incidents : i \in new /\ i # j => rank'[i] \notin {0, rank'[j]}
  BY DEF Store
<1>3. new = Exist' \ Exist /\ new \subseteq Incidents
  BY DEF Exist
<1> HIDE DEF new
<1>4. TypeInv /\ TablesOK
  BY DEF ViewsInv
<1>5. severity' \in [Incidents -> Severities \cup {None}] /\ rank' \in [Incidents -> Nat]
  <2>1. severity' \in [Incidents -> Severities \cup {None}]
    BY <1>2, <1>4, ViewsAssumptions DEF TypeInv, ViewsAssumptions
  <2>2. rank' \in [Incidents -> Nat]
    <3>1. Cardinality(Incidents) \in Nat
      BY ViewsAssumptions, FS_CardinalityType DEF ViewsAssumptions
    <3>2. 0 .. Cardinality(Incidents) \subseteq Nat
      BY <3>1
    <3> QED
      BY <1>2, <3>2
  <2> QED
    BY <2>1, <2>2
<1>6. Grows
  BY <1>1, <1>2, <1>3 DEF Grows, Exist
<1>7. TablesOK'
  <2>1. ASSUME NEW i \in Exist' PROVE \E x \in evidence' : x[1] = i
    <3>1. CASE i \in Exist
      BY <1>1, <1>4, <3>1 DEF TablesOK, EvidenceOf
    <3> QED
      BY <1>1, <3>1
  <2>2. ASSUME NEW i \in Exist', NEW j \in Exist', rank'[i] = rank'[j] PROVE i = j
    <3>1. i \in Incidents /\ j \in Incidents
      BY DEF Exist
    <3>2. CASE i \in new \/ j \in new
      BY <1>2, <2>2, <3>1, <3>2
    <3>3. CASE i \notin new /\ j \notin new
      BY <1>2, <1>3, <1>4, <2>2, <3>1, <3>3 DEF TablesOK
    <3> QED
      BY <3>2, <3>3
  <2>3. \A i \in Exist' : EvidenceOf(i)' # {}
    BY <2>1 DEF EvidenceOf
  <2> QED
    BY <1>1, <1>4, <2>2, <2>3 DEF TablesOK
<1> QED
  BY <1>1, <1>5, <1>6, <1>7

LEMMA ConsumeElsewhereKeeps ==
    ASSUME ViewsInv, Remember, NEW e \in Events, ConsumeElsewhere(e) PROVE ViewsInv'
<1>1. /\ Store(e) /\ UNCHANGED <<work, linked, apiVars, faults>>
  BY DEF ConsumeElsewhere
<1>2. /\ status' \in [Incidents -> IncidentStatus \cup {"none"}]
      /\ severity' \in [Incidents -> Severities \cup {None}]
      /\ rank' \in [Incidents -> Nat]
      /\ Grows /\ TablesOK' /\ history' = history
  BY <1>1, StoreMoves
<1>3. TypeInv'
  BY <1>1, <1>2 DEF ViewsInv, TypeInv, apiVars
<1>4. TalliesOK'
  <2>1. counted' \subseteq history' /\ evidence \subseteq evidence'
    BY <1>1, <1>2 DEF ViewsInv, TalliesOK, CountersNotAhead, Grows, apiVars
  <2> QED
    BY <1>1, <2>1, TalliesStay
<1> QED
  BY <1>1, <1>2, <1>3, <1>4, CallsStay DEF apiVars

LEMMA ConsumeKeeps ==
    ASSUME ViewsInv, Remember, Consume PROVE ViewsInv'
<1>1. /\ work.pc = "handle" /\ Store(work.event) /\ UNCHANGED <<linked, apiVars, faults>>
  BY DEF Consume
<1>2. PICK N \in TakenForNew : work' = [Free EXCEPT !.pc = "committed", !.new = N]
  BY DEF Consume
<1>3. /\ TypeInv /\ TalliesOK /\ WorkOK /\ work.event \in Events
  BY <1>1 DEF ViewsInv, TalliesOK, WorkOK
<1>4. /\ status' \in [Incidents -> IncidentStatus \cup {"none"}]
      /\ severity' \in [Incidents -> Severities \cup {None}]
      /\ rank' \in [Incidents -> Nat]
      /\ Grows /\ TablesOK' /\ history' = history
  BY <1>1, <1>3, StoreMoves
<1>5. N \subseteq Incidents \X {work.event} /\ N \subseteq evidence' \ work.seen
  BY DEF TakenForNew
<1>6. /\ work'.pc = "committed" /\ work'.event = None /\ work'.new = N
  BY <1>2 DEF Free
<1>7. N \subseteq Incidents \X Events
  BY <1>3, <1>5
<1>8. TypeInv'
  BY <1>1, <1>3, <1>4, <1>6, <1>7 DEF TypeInv, apiVars
<1>9. \A x \in N : linked'[x] = 0
  <2>1. ASSUME NEW x \in N PROVE linked[x] = 0
    <3>1. x \in Incidents \X {work.event} /\ x \notin work.seen /\ linked[x] \in Nat
      BY <1>3, <1>5, <1>7 DEF TypeInv
    <3>2. ~ linked[x] > 0
      BY <1>1, <1>3, <3>1 DEF WorkOK
    <3> QED
      BY <3>1, <3>2
  <2> QED
    BY <1>1, <2>1
<1>10. WorkOK'
  BY <1>5, <1>6, <1>9 DEF WorkOK
<1>11. CountersNotAhead'
  <2>1. counted' \subseteq history'
    BY <1>1, <1>3, <1>4 DEF TalliesOK, CountersNotAhead, apiVars
  <2>2. \A x \in Incidents \X Events : linked'[x] <= IF x \in evidence' THEN 1 ELSE 0
    BY <1>1, <1>3, <1>4 DEF TypeInv, TalliesOK, CountersNotAhead, Grows
  <2> QED
    BY <2>1, <2>2 DEF CountersNotAhead
<1> QED
  BY <1>1, <1>4, <1>8, <1>10, <1>11, CallsStay DEF TalliesOK, apiVars

\* A step of the process that writes no table.
LEMMA WorkMoves ==
    ASSUME ViewsInv, Remember, UNCHANGED <<cvars, rank, severity, apiVars>>, faults' \in Nat,
           work'.pc \in {"idle", "handle", "committed"}, work'.event \in Events \cup {None},
           work'.new \subseteq Incidents \X Events, WorkOK',
           linked' \in [Incidents \X Events -> Nat],
           \A x \in Incidents \X Events : linked'[x] <= IF x \in evidence THEN 1 ELSE 0
    PROVE  ViewsInv'
<1>1. Grows /\ TablesOK'
  BY TablesStay
<1>2. TypeInv'
  BY DEF ViewsInv, TypeInv, cvars, apiVars
<1>3. CountersNotAhead'
  BY DEF ViewsInv, TalliesOK, CountersNotAhead, cvars, apiVars
<1> QED
  BY <1>1, <1>2, <1>3, CallsStay DEF TalliesOK, apiVars

LEMMA TakeKeeps ==
    ASSUME ViewsInv, Remember, NEW e \in Events, Take(e) PROVE ViewsInv'
<1>1. /\ TypeInv /\ linked \in [Incidents \X Events -> Nat] /\ faults \in Nat
      /\ \A x \in Incidents \X Events : linked[x] <= IF x \in evidence THEN 1 ELSE 0
  BY DEF ViewsInv, TypeInv, TalliesOK, CountersNotAhead
<1>2. /\ work'.pc = "handle" /\ work'.event = e /\ work'.new = {}
      /\ work'.seen = {x \in evidence : x[2] = e}
      /\ UNCHANGED <<cvars, rank, severity, linked, apiVars, faults>>
  BY DEF Take, Free
<1>3. ASSUME NEW x \in Incidents \X {e}, linked[x] > 0 PROVE x \in work'.seen
  <2>1. x \in Incidents \X Events /\ x[2] = e /\ linked[x] \in Nat
    BY <1>1
  <2>2. x \in evidence
    BY <1>1, <1>3, <2>1
  <2> QED
    BY <1>2, <2>1, <2>2
<1>4. WorkOK'
  BY <1>2, <1>3 DEF WorkOK, cvars
<1> QED
  BY <1>1, <1>2, <1>4, WorkMoves

LEMMA DropKeeps ==
    ASSUME ViewsInv, Remember, Drop PROVE ViewsInv'
<1>1. /\ linked \in [Incidents \X Events -> Nat] /\ faults \in Nat
      /\ \A x \in Incidents \X Events : linked[x] <= IF x \in evidence THEN 1 ELSE 0
  BY DEF ViewsInv, TypeInv, TalliesOK, CountersNotAhead
<1>2. /\ work'.pc = "idle" /\ work'.event = None /\ work'.new = {}
      /\ UNCHANGED <<cvars, rank, severity, linked, apiVars, faults>>
  BY DEF Drop, Free
<1>3. WorkOK'
  BY <1>2 DEF WorkOK
<1> QED
  BY <1>1, <1>2, <1>3, WorkMoves

LEMMA CountEvidenceKeeps ==
    ASSUME ViewsInv, Remember, CountEvidence PROVE ViewsInv'
<1>1. /\ linked \in [Incidents \X Events -> Nat] /\ faults \in Nat
      /\ \A x \in Incidents \X Events : linked[x] <= IF x \in evidence THEN 1 ELSE 0
  BY DEF ViewsInv, TypeInv, TalliesOK, CountersNotAhead
<1>2. /\ work'.pc = "idle" /\ work'.event = None /\ work'.new = {}
      /\ linked' = [x \in Incidents \X Events |-> linked[x] + IF x \in work.new THEN 1 ELSE 0]
      /\ UNCHANGED <<cvars, rank, severity, apiVars, faults>>
  BY DEF CountEvidence, Free
<1>3. work.new \subseteq evidence /\ \A x \in work.new : linked[x] = 0
  BY DEF CountEvidence, ViewsInv, TalliesOK, WorkOK
<1>4. /\ linked' \in [Incidents \X Events -> Nat]
      /\ \A x \in Incidents \X Events : linked'[x] <= IF x \in evidence THEN 1 ELSE 0
  BY <1>1, <1>2, <1>3
<1>5. WorkOK'
  BY <1>2 DEF WorkOK
<1> QED
  BY <1>1, <1>2, <1>4, <1>5, WorkMoves

LEMMA ConsumerCrashKeeps ==
    ASSUME ViewsInv, Remember, ConsumerCrash PROVE ViewsInv'
<1>1. /\ work'.pc = "idle" /\ work'.event = None /\ work'.new = {} /\ linked' = Uncounted
      /\ UNCHANGED <<cvars, rank, severity, apiVars>> /\ faults' = faults + 1
  BY DEF ConsumerCrash, Fails, Free
<1>2. /\ linked' \in [Incidents \X Events -> Nat] /\ faults' \in Nat
      /\ \A x \in Incidents \X Events : linked'[x] <= IF x \in evidence THEN 1 ELSE 0
  BY <1>1 DEF ViewsInv, TypeInv, Uncounted
<1>3. WorkOK'
  BY <1>1 DEF WorkOK
<1> QED
  BY <1>1, <1>2, <1>3, WorkMoves

-----------------------------------------------------------------------------
(* Status changes                                                          *)

\* A change takes no row away and leaves the incidents in their order.
LEMMA ChangeMoves ==
    ASSUME ViewsInv, NEW n, NEW i \in Incidents, NEW from \in IncidentStatus,
           NEW to \in IncidentStatus, Change(n, i, from, to), UNCHANGED rank
    PROVE  /\ status' \in [Incidents -> IncidentStatus \cup {"none"}]
           /\ Grows /\ TablesOK' /\ i \in Exist' /\ evidence' = evidence
           /\ [id |-> n, incident |-> i, from |-> from, to |-> to] \in history'
<1> DEFINE row == [id |-> n, incident |-> i, from |-> from, to |-> to]
<1>1. PICK s \in {to, status[i]} : status' = [status EXCEPT ![i] = s]
  BY DEF Change
<1>2. status[i] # "none" /\ history' = history \cup {row} /\ evidence' = evidence
  BY DEF Change, Exist
<1>3. TypeInv /\ TablesOK
  BY DEF ViewsInv
<1>4. s \in IncidentStatus
  BY <1>1, <1>2, <1>3 DEF TypeInv
<1>5. /\ status' \in [Incidents -> IncidentStatus \cup {"none"}]
      /\ \A j \in Incidents : status[j] # "none" <=> status'[j] # "none"
  BY <1>1, <1>2, <1>3, <1>4, Statuses DEF TypeInv
<1> HIDE DEF row
<1>6. IsFiniteSet(history')
  BY <1>2, <1>3, FS_AddElement DEF TablesOK
<1>7. Exist' = Exist /\ i \in Exist'
  BY <1>2, <1>5 DEF Exist
<1>8. TablesOK'
  BY <1>2, <1>3, <1>6, <1>7 DEF TablesOK, EvidenceOf
<1>9. Grows
  BY <1>2, <1>5 DEF Grows
<1>10. row \in history'
  BY <1>2
<1> QED
  BY <1>2, <1>5, <1>7, <1>8, <1>9, <1>10 DEF row

LEMMA PatchKeeps ==
    ASSUME ViewsInv, Remember, NEW p \in Rows, Patch(p) PROVE ViewsInv'
<1>1. PICK i \in Incidents, from \in IncidentStatus, to \in IncidentStatus :
        /\ Change(p, i, from, to)
        /\ Patching(p, [patch[p] EXCEPT !.pc = "committed",
              !.row = [id |-> p, incident |-> i, from |-> from, to |-> to]])
  BY DEF Patch
<1>2. UNCHANGED <<rank, severity, work, linked, counted, gauge, scrape, reader, faults>>
  BY DEF Patch
<1> DEFINE row == [id |-> p, incident |-> i, from |-> from, to |-> to]
<1>3. row \in Row /\ row.incident = i
  BY DEF Row
<1>4. /\ status' \in [Incidents -> IncidentStatus \cup {"none"}]
      /\ Grows /\ TablesOK' /\ i \in Exist' /\ evidence' = evidence /\ row \in history'
  BY <1>1, <1>2, ChangeMoves
<1>5. patch' = [patch EXCEPT ![p] = [patch[p] EXCEPT !.pc = "committed", !.row = row]]
  BY <1>1 DEF Patching
<1> HIDE DEF row
<1>6. TypeInv /\ counted \subseteq history /\ patch[p] \in PatchRecord
  BY DEF ViewsInv, TypeInv, TalliesOK, CountersNotAhead
<1>7. /\ patch' \in [Rows -> PatchRecord] /\ \A q \in Rows \ {p} : patch'[q] = patch[q]
      /\ patch'[p].pc = "committed" /\ patch'[p].row = row
  BY <1>3, <1>5, <1>6 DEF TypeInv, PatchRecord
<1>8. TypeInv'
  BY <1>2, <1>4, <1>6, <1>7 DEF TypeInv
<1>9. TalliesOK'
  BY <1>2, <1>4, <1>6, TalliesStay DEF Grows
<1>10. PatchOK(p)'
  BY <1>3, <1>4, <1>7 DEF PatchOK
<1> QED
  BY <1>2, <1>4, <1>7, <1>8, <1>9, <1>10, CallsStay

\* A step of a PATCH after its commit.
LEMMA PatchMoves ==
    ASSUME ViewsInv, Remember, NEW p \in Rows, NEW step \in PatchRecord,
           patch' = [patch EXCEPT ![p] = step], PatchOK(p)',
           counted' \subseteq Row \cap history, gauge' \in Series, faults' \in Nat,
           UNCHANGED <<consumerVars, scrape, reader>>
    PROVE  ViewsInv'
<1>1. Grows /\ TablesOK'
  BY TablesStay DEF consumerVars
<1>2. TypeInv'
  BY DEF ViewsInv, TypeInv, consumerVars, cvars
<1>3. TalliesOK'
  BY TalliesStay DEF ViewsInv, TalliesOK, CountersNotAhead, consumerVars, cvars
<1>4. \A q \in Rows : patch'[q] = patch[q] \/ PatchOK(q)'
  BY DEF ViewsInv, TypeInv
<1> QED
  BY <1>1, <1>2, <1>3, <1>4, CallsStay

LEMMA PatchStepKeeps ==
    ASSUME ViewsInv, Remember, NEW p \in Rows, PatchStep(p) PROVE ViewsInv'
<1>1. /\ patch[p] \in PatchRecord /\ patch \in [Rows -> PatchRecord] /\ PatchOK(p)
      /\ faults \in Nat /\ gauge \in Series /\ counted \subseteq Row \cap history
      /\ TablesOK
  BY DEF ViewsInv, TypeInv, TalliesOK, CountersNotAhead
<1>2. patch[p].pc = "committed" =>
        /\ patch[p].row \in Row \cap history
        /\ Cardinality(EvidenceOf(patch[p].row.incident)) \in Nat
        /\ Cardinality(EvidenceOf(patch[p].row.incident)) > 0
  <2>1. patch[p].pc = "committed" =>
           patch[p].row \in Row \cap history /\ patch[p].row.incident \in Exist
    BY <1>1 DEF PatchOK
  <2>2. ASSUME NEW i \in Exist
        PROVE  Cardinality(EvidenceOf(i)) \in Nat /\ Cardinality(EvidenceOf(i)) > 0
    <3>1. EvidenceOf(i) \subseteq evidence /\ EvidenceOf(i) # {} /\ IsFiniteSet(evidence)
      BY <1>1 DEF TablesOK, EvidenceOf
    <3> QED
      BY <3>1, CountGrows, CountPositive
  <2> QED
    BY <2>1, <2>2
<1>3. CASE PatchRecords(p)
  <2> DEFINE step == [patch[p] EXCEPT !.pc = "recorded",
                         !.evidence = Cardinality(EvidenceOf(patch[p].row.incident))]
  <2>1. patch[p].pc = "committed" /\ patch' = [patch EXCEPT ![p] = step]
    BY <1>3 DEF PatchRecords, Patching
  <2>2. counted' \subseteq counted \cup {patch[p].row} /\ faults' \in Nat
    BY <1>1, <1>3 DEF PatchRecords, Fails
  <2>3. UNCHANGED <<consumerVars, gauge, scrape, reader>>
    BY <1>3 DEF PatchRecords
  <2>4. step \in PatchRecord /\ step.pc = "recorded" /\ step.evidence > 0
    BY <1>1, <1>2, <2>1 DEF PatchRecord
  <2> HIDE DEF step
  <2>5. PatchOK(p)'
    BY <1>1, <2>1, <2>4 DEF PatchOK
  <2> QED
    BY <1>1, <1>2, <2>1, <2>2, <2>3, <2>4, <2>5, PatchMoves
<1>4. CASE PatchFails(p)
  <2> DEFINE step == [patch[p] EXCEPT !.pc = "500"]
  <2>1. patch' = [patch EXCEPT ![p] = step] /\ faults' \in Nat
    BY <1>1, <1>4 DEF PatchFails, Patching, Fails
  <2>2. UNCHANGED <<consumerVars, counted, gauge, scrape, reader>>
    BY <1>4 DEF PatchFails
  <2>3. step \in PatchRecord /\ step.pc = "500"
    BY <1>1 DEF PatchRecord
  <2> HIDE DEF step
  <2>4. PatchOK(p)'
    BY <1>1, <2>1, <2>3 DEF PatchOK
  <2> QED
    BY <1>1, <2>1, <2>2, <2>3, <2>4, PatchMoves
<1>5. CASE PatchReads(p)
  <2> DEFINE step == [patch[p] EXCEPT !.pc = "read", !.counts = OpenBySeverity]
  <2>1. patch[p].pc = "recorded" /\ patch' = [patch EXCEPT ![p] = step]
    BY <1>5 DEF PatchReads, Patching
  <2>2. UNCHANGED <<consumerVars, counted, gauge, scrape, reader, faults>>
    BY <1>5 DEF PatchReads
  <2>3. step \in PatchRecord /\ step.pc = "read" /\ step.evidence = patch[p].evidence
    BY <1>1, CountsTyped DEF PatchRecord
  <2> HIDE DEF step
  <2>4. PatchOK(p)'
    BY <1>1, <2>1, <2>3 DEF PatchOK
  <2> QED
    BY <1>1, <2>1, <2>2, <2>3, <2>4, PatchMoves
<1>6. CASE PatchReadFails(p)
  <2> DEFINE step == [patch[p] EXCEPT !.pc = "200"]
  <2>1. /\ patch[p].pc = "recorded" /\ patch' = [patch EXCEPT ![p] = step]
        /\ faults' \in Nat
    BY <1>1, <1>6 DEF PatchReadFails, Patching, Fails
  <2>2. UNCHANGED <<consumerVars, counted, gauge, scrape, reader>>
    BY <1>6 DEF PatchReadFails
  <2>3. step \in PatchRecord /\ step.pc = "200" /\ step.evidence = patch[p].evidence
    BY <1>1 DEF PatchRecord
  <2> HIDE DEF step
  <2>4. PatchOK(p)'
    BY <1>1, <2>1, <2>3 DEF PatchOK
  <2> QED
    BY <1>1, <2>1, <2>2, <2>3, <2>4, PatchMoves
<1>7. CASE PatchSets(p)
  <2> DEFINE step == [patch[p] EXCEPT !.pc = "200", !.counts = NoCounts]
  <2>1. /\ patch[p].pc = "read" /\ patch' = [patch EXCEPT ![p] = step]
        /\ gauge' = patch[p].counts
    BY <1>7 DEF PatchSets, Patching
  <2>2. UNCHANGED <<consumerVars, counted, scrape, reader, faults>>
    BY <1>7 DEF PatchSets
  <2>3. NoCounts \in Counts /\ patch[p].counts \in Series
    BY <1>1 DEF NoCounts, Counts, Series, PatchRecord
  <2>4. step \in PatchRecord /\ step.pc = "200" /\ step.evidence = patch[p].evidence
    BY <1>1, <2>3 DEF PatchRecord
  <2> HIDE DEF step
  <2>5. PatchOK(p)'
    BY <1>1, <2>1, <2>4 DEF PatchOK
  <2> QED
    BY <1>1, <2>1, <2>2, <2>3, <2>4, <2>5, PatchMoves
<1> QED
  BY <1>3, <1>4, <1>5, <1>6, <1>7 DEF PatchStep

-----------------------------------------------------------------------------
(* Scrapes                                                                 *)

LEMMA ScrapeMoves ==
    ASSUME ViewsInv, Remember, NEW s \in Scrapes, NEW step \in ScrapeRecord,
           scrape' = [scrape EXCEPT ![s] = step], ScrapeOK(s)',
           gauge' \in Series, faults' \in Nat,
           UNCHANGED <<consumerVars, counted, patch, reader>>
    PROVE  ViewsInv'
<1>1. Grows /\ TablesOK'
  BY TablesStay DEF consumerVars
<1>2. TypeInv'
  BY DEF ViewsInv, TypeInv, consumerVars, cvars
<1>3. TalliesOK'
  BY TalliesStay DEF ViewsInv, TalliesOK, CountersNotAhead, consumerVars, cvars
<1>4. \A q \in Scrapes : scrape'[q] = scrape[q] \/ ScrapeOK(q)'
  BY DEF ViewsInv, TypeInv
<1> QED
  BY <1>1, <1>2, <1>3, <1>4, CallsStay

LEMMA ScrapeStepKeeps ==
    ASSUME ViewsInv, Remember, NEW s \in Scrapes, ScrapeStep(s) PROVE ViewsInv'
<1>1. /\ scrape[s] \in ScrapeRecord /\ scrape \in [Scrapes -> ScrapeRecord] /\ ScrapeOK(s)
      /\ faults \in Nat /\ gauge \in Series
  BY DEF ViewsInv, TypeInv
<1>2. /\ truths[s] \subseteq truths'[s]
      /\ scrape'[s].pc = "read" => OpenBySeverity' \in truths'[s]
  BY DEF Remember
<1>3. CASE ScrapeStarts(s)
  <2> DEFINE step == [scrape[s] EXCEPT !.pc = "query"]
  <2>1. scrape' = [scrape EXCEPT ![s] = step]
    BY <1>3 DEF ScrapeStarts, Scraping
  <2>2. UNCHANGED <<consumerVars, counted, gauge, patch, reader, faults>>
    BY <1>3 DEF ScrapeStarts
  <2>3. step \in ScrapeRecord /\ step.pc = "query"
    BY <1>1 DEF ScrapeRecord
  <2> HIDE DEF step
  <2>4. ScrapeOK(s)'
    BY <1>1, <2>1, <2>3 DEF ScrapeOK
  <2> QED
    BY <1>1, <2>1, <2>2, <2>3, <2>4, ScrapeMoves
<1>4. CASE ScrapeReads(s)
  <2> DEFINE step == [scrape[s] EXCEPT !.pc = "read", !.counts = OpenBySeverity]
  <2>1. scrape' = [scrape EXCEPT ![s] = step]
    BY <1>4 DEF ScrapeReads, Scraping
  <2>2. UNCHANGED <<consumerVars, counted, gauge, patch, reader, faults>>
    BY <1>4 DEF ScrapeReads
  <2>3. step \in ScrapeRecord /\ step.pc = "read" /\ step.counts = OpenBySeverity
    BY <1>1, CountsTyped DEF ScrapeRecord
  <2> HIDE DEF step
  <2>4. OpenBySeverity' = OpenBySeverity
    BY <2>2 DEF OpenBySeverity, Exist, consumerVars, cvars
  <2>5. scrape'[s] = step
    BY <1>1, <2>1
  <2>6. ScrapeOK(s)'
    BY <1>2, <2>3, <2>4, <2>5 DEF ScrapeOK
  <2> QED
    BY <1>1, <2>1, <2>2, <2>3, <2>6, ScrapeMoves
<1>5. CASE ScrapeFails(s)
  <2> DEFINE step == [scrape[s] EXCEPT !.pc = "500"]
  <2>1. scrape' = [scrape EXCEPT ![s] = step] /\ faults' \in Nat
    BY <1>1, <1>5 DEF ScrapeFails, Scraping, Fails
  <2>2. UNCHANGED <<consumerVars, counted, gauge, patch, reader>>
    BY <1>5 DEF ScrapeFails
  <2>3. step \in ScrapeRecord /\ step.pc = "500"
    BY <1>1 DEF ScrapeRecord
  <2> HIDE DEF step
  <2>4. ScrapeOK(s)'
    BY <1>1, <2>1, <2>3 DEF ScrapeOK
  <2> QED
    BY <1>1, <2>1, <2>2, <2>3, <2>4, ScrapeMoves
<1>6. CASE ScrapeAnswers(s)
  <2> DEFINE step == [scrape[s] EXCEPT !.pc = "200", !.body = scrape[s].counts,
                                       !.counts = NoCounts]
  <2>1. scrape[s].pc = "read" /\ gauge' = scrape[s].counts
    BY <1>6 DEF ScrapeAnswers
  <2>2. scrape' = [scrape EXCEPT ![s] = step]
    BY <1>6 DEF ScrapeAnswers, Scraping
  <2>3. UNCHANGED <<consumerVars, counted, patch, reader, faults>>
    BY <1>6 DEF ScrapeAnswers
  <2>4. NoCounts \in Counts /\ scrape[s].counts \in Series
    BY <1>1 DEF NoCounts, Counts, Series, ScrapeRecord
  <2>5. step \in ScrapeRecord /\ step.pc = "200" /\ step.body = scrape[s].counts
    BY <1>1, <2>4 DEF ScrapeRecord
  <2> HIDE DEF step
  <2>6. scrape'[s] = step
    BY <1>1, <2>2
  <2>7. ScrapeOK(s)'
    BY <1>1, <1>2, <2>1, <2>5, <2>6 DEF ScrapeOK
  <2> QED
    BY <1>1, <2>1, <2>2, <2>3, <2>4, <2>5, <2>7, ScrapeMoves
<1> QED
  BY <1>3, <1>4, <1>5, <1>6 DEF ScrapeStep

-----------------------------------------------------------------------------
(* Read routes                                                             *)

\* A step of a read route sees the tables of the state it is taken in and writes
\* nothing but its own state.
LEMMA ReaderMoves ==
    ASSUME ViewsInv, Remember, NEW r \in Readers, NEW step \in ReaderRecord,
           Reading(r, step), AnswerOK(step), WalkOK(step)
    PROVE  ViewsInv'
<1>1. UNCHANGED <<consumerVars, counted, gauge, patch, scrape, faults>>
  BY DEF Reading
<1>2. reader' = [reader EXCEPT ![r] = step]
  BY DEF Reading
<1>3. Grows /\ TablesOK'
  BY <1>1, TablesStay DEF consumerVars
<1>4. TypeInv'
  BY <1>1, <1>2 DEF ViewsInv, TypeInv, consumerVars, cvars
<1>5. TalliesOK'
  BY <1>1, TalliesStay DEF ViewsInv, TalliesOK, CountersNotAhead, consumerVars, cvars
<1>6. Countable
  BY <1>3, <1>4 DEF Countable, ViewsInv, TypeInv
<1>7. reader'[r] = step /\ \A q \in Readers \ {r} : reader'[q] = reader[q]
  BY <1>2 DEF ViewsInv, TypeInv
<1>8. PICK q \in ReaderRecord : q = step
  OBVIOUS
<1>9. AnswerOK(q)' /\ WalkOK(q)'
  BY <1>3, <1>6, <1>8, AnswerStays, WalkStays
<1>10. AnswerOK(reader[r])' /\ WalkOK(reader[r])'
  BY <1>7, <1>8, <1>9 DEF AnswerOK, WalkOK, RowsOf, Matching, HistoryOf, EvidenceOf, Position
<1> QED
  BY <1>1, <1>3, <1>4, <1>5, <1>7, <1>10, CallsStay

\* The reader of a step, as a record.
LEMMA ReaderKnown ==
    ASSUME ViewsInv, NEW r \in Readers
    PROVE  /\ reader[r] \in ReaderRecord /\ AnswerOK(reader[r]) /\ WalkOK(reader[r])
           /\ rank \in [Incidents -> Nat] /\ TablesOK
BY DEF ViewsInv, TypeInv

LEMMA AskListKeeps ==
    ASSUME ViewsInv, Remember, NEW r \in Readers, AskList(r) PROVE ViewsInv'
<1>1. PICK q \in ReaderRecord : q = reader[r]
  BY ReaderKnown
<1>2. AnswerOK(q) /\ q.pc = "idle"
  BY <1>1, ReaderKnown DEF AskList
<1>3. PICK sort \in {"created_at", "status"}, order \in {"asc", "desc"}, only \in {None, "open"} :
         Reading(r, [q EXCEPT !.pc = "count", !.sort = sort, !.order = order,
                !.only = only, !.known = IF only = None THEN Exist ELSE {}])
  BY <1>1 DEF AskList
<1> DEFINE step == [q EXCEPT !.pc = "count", !.sort = sort, !.order = order,
                       !.only = only, !.known = IF only = None THEN Exist ELSE {}]
<1>4. /\ step \in ReaderRecord /\ step.pc = "count" /\ step.route = q.route
      /\ step.skip = q.skip /\ step.links = q.links /\ step.only = only
      /\ step.known = IF only = None THEN Exist ELSE {}
  BY ExistFinite DEF ReaderRecord
<1>5. Reading(r, step)
  BY <1>3
<1> HIDE DEF step
<1>6. q.route = "list" /\ q.skip = 0 /\ 0 \notin q.links
  BY <1>2 DEF AnswerOK
<1>7. AnswerOK(step)
  BY <1>4, <1>6 DEF AnswerOK
<1>8. \A i \in Exist : Position(i, Exist, step.order) > 0
  <2>1. PICK o : o = step.order
    OBVIOUS
  <2>2. Ranked(Exist)
    BY ReaderKnown DEF Ranked, TablesOK, Exist
  <2>3. ASSUME NEW i \in Exist PROVE Position(i, Exist, o) > 0
    <3>1. Position(i, Exist, o) \in 1 .. Cardinality(Exist) /\ Cardinality(Exist) \in Nat
      BY <2>2, ExistFinite, PositionTyped, FS_CardinalityType
    <3> QED
      BY <3>1
  <2> QED
    BY <2>1, <2>3
<1>9. WalkOK(step)
  BY <1>4, <1>6, <1>8 DEF WalkOK
<1> QED
  BY <1>4, <1>5, <1>7, <1>9, ReaderMoves

LEMMA AskOneKeeps ==
    ASSUME ViewsInv, Remember, NEW r \in Readers, AskOne(r) PROVE ViewsInv'
<1>1. PICK q \in ReaderRecord : q = reader[r]
  BY ReaderKnown
<1>2. AnswerOK(q)
  BY <1>1, ReaderKnown
<1>3. PICK route \in {"detail", "evidences", "history"}, i \in Incidents, skip \in {0, Limit} :
         Reading(r, [q EXCEPT !.pc = "find", !.route = route, !.subject = i, !.skip = skip])
  BY <1>1 DEF AskOne
<1> DEFINE step == [q EXCEPT !.pc = "find", !.route = route, !.subject = i, !.skip = skip]
<1>4. /\ step \in ReaderRecord /\ step.pc = "find" /\ step.route = route
      /\ step.links = q.links
  <2>1. skip \in Nat /\ i \in Incidents \cup {None}
    BY ExistFinite
  <2>2. route \in {"list", "detail", "evidences", "history"}
    OBVIOUS
  <2> QED
    BY <2>1, <2>2 DEF ReaderRecord
<1>5. Reading(r, step)
  BY <1>3
<1> HIDE DEF step
<1>6. AnswerOK(step)
  BY <1>2, <1>4 DEF AnswerOK
<1>7. WalkOK(step)
  BY <1>4 DEF WalkOK
<1> QED
  BY <1>4, <1>5, <1>6, <1>7, ReaderMoves

LEMMA FindKeeps ==
    ASSUME ViewsInv, Remember, NEW r \in Readers, Find(r) PROVE ViewsInv'
<1>1. PICK q \in ReaderRecord : q = reader[r]
  BY ReaderKnown
<1>2. AnswerOK(q) /\ q.pc = "find"
  BY <1>1, ReaderKnown DEF Find
<1> DEFINE step == [q EXCEPT !.pc = IF q.subject \in Exist THEN "count" ELSE "404"]
<1>3. /\ step \in ReaderRecord /\ step.pc = (IF q.subject \in Exist THEN "count" ELSE "404")
      /\ step.route = q.route /\ step.subject = q.subject /\ step.links = q.links
  BY DEF ReaderRecord
<1>4. Reading(r, step)
  BY <1>1 DEF Find
<1> HIDE DEF step
<1>5. q.route # "list" /\ 0 \notin q.links
  BY <1>2 DEF AnswerOK
<1>6. AnswerOK(step)
  BY <1>3, <1>5 DEF AnswerOK
<1>7. WalkOK(step)
  BY <1>3, <1>5 DEF WalkOK
<1> QED
  BY <1>3, <1>4, <1>6, <1>7, ReaderMoves

\* The rows of every answer can be counted.
LEMMA RowsCounted ==
    ASSUME TablesOK, NEW q
    PROVE  /\ IsFiniteSet(RowsOf(q)) /\ Cardinality(RowsOf(q)) \in Nat
           /\ q.route = "detail" /\ q.subject \in Exist => Cardinality(RowsOf(q)) > 0
<1>1. CASE q.route = "list"
  <2>1. RowsOf(q) \subseteq Exist
    BY <1>1 DEF RowsOf, Matching
  <2> QED
    BY <1>1, <2>1, ExistFinite, CountGrows
<1>2. CASE q.route = "history"
  <2>1. RowsOf(q) \subseteq history /\ IsFiniteSet(history)
    BY <1>2 DEF RowsOf, HistoryOf, TablesOK
  <2> QED
    BY <1>2, <2>1, CountGrows
<1>3. CASE q.route \notin {"list", "history"}
  <2>1. RowsOf(q) = EvidenceOf(q.subject)
    BY <1>3 DEF RowsOf
  <2>2. RowsOf(q) \subseteq evidence /\ IsFiniteSet(evidence)
    BY <2>1 DEF EvidenceOf, TablesOK
  <2>3. IsFiniteSet(RowsOf(q)) /\ Cardinality(RowsOf(q)) \in Nat
    BY <2>2, CountGrows
  <2>4. q.subject \in Exist => RowsOf(q) # {}
    BY <2>1 DEF TablesOK
  <2> QED
    BY <2>3, <2>4, CountPositive
<1> QED
  BY <1>1, <1>2, <1>3

LEMMA CountKeeps ==
    ASSUME ViewsInv, Remember, NEW r \in Readers, Count(r) PROVE ViewsInv'
<1>1. PICK q \in ReaderRecord : q = reader[r]
  BY ReaderKnown
<1>2. AnswerOK(q) /\ WalkOK(q) /\ q.pc = "count" /\ TablesOK
  BY <1>1, ReaderKnown DEF Count
<1>3. /\ Cardinality(RowsOf(q)) \in Nat
      /\ q.route = "detail" => Cardinality(RowsOf(q)) > 0
  <2>1. q.route = "detail" => q.subject \in Exist
    BY <1>2 DEF AnswerOK
  <2> QED
    BY <1>2, <2>1, RowsCounted
<1> DEFINE step == [q EXCEPT !.total = Cardinality(RowsOf(q)),
                             !.pc = IF q.route = "detail" THEN "200" ELSE "page"]
<1>4. /\ step \in ReaderRecord /\ step.pc = (IF q.route = "detail" THEN "200" ELSE "page")
      /\ step.total = Cardinality(RowsOf(q))
      /\ step.route = q.route /\ step.subject = q.subject /\ step.links = q.links
      /\ step.sort = q.sort /\ step.order = q.order /\ step.only = q.only
      /\ step.skip = q.skip /\ step.known = q.known /\ step.found = q.found
  BY <1>3 DEF ReaderRecord
<1>5. Reading(r, step)
  BY <1>1 DEF Count
<1> HIDE DEF step
<1>6. RowsOf(step) = RowsOf(q)
  BY <1>4 DEF RowsOf, Matching
<1>7. AnswerOK(step)
  BY <1>2, <1>3, <1>4, <1>6 DEF AnswerOK
<1>8. WalkOK(step)
  BY <1>2, <1>4 DEF WalkOK
<1> QED
  BY <1>4, <1>5, <1>7, <1>8, ReaderMoves

LEMMA PageKeeps ==
    ASSUME ViewsInv, Remember, NEW r \in Readers, Page(r) PROVE ViewsInv'
<1>1. PICK q \in ReaderRecord : q = reader[r]
  BY ReaderKnown
<1>2. AnswerOK(q) /\ WalkOK(q) /\ q.pc = "page" /\ q.route = "list"
  BY <1>1, ReaderKnown DEF Page
<1>3. PICK T \in Pages(q) :
         Reading(r, [q EXCEPT !.items = T, !.size = Cardinality(T), !.found = q.found \cup T,
                              !.links = {}, !.pc = IF T = {} THEN "200" ELSE "links"])
  BY <1>1 DEF Page
<1> DEFINE step == [q EXCEPT !.items = T, !.size = Cardinality(T), !.found = q.found \cup T,
                       !.links = {}, !.pc = IF T = {} THEN "200" ELSE "links"]
<1>4. /\ T \subseteq Matching(q) /\ Matching(q) \subseteq Exist
      /\ Cardinality(T) = PageSize(Cardinality(Matching(q)), q.skip)
      /\ q.sort = "created_at" =>
            \A i \in T : Position(i, Matching(q), q.order) \in q.skip + 1 .. q.skip + Limit
  BY DEF Pages, Matching
<1>5. /\ IsFiniteSet(Matching(q)) /\ Cardinality(Matching(q)) \in Nat /\ Cardinality(T) \in Nat
      /\ q.skip \in Nat /\ q.total \in Nat
  BY <1>4, ExistFinite, CountGrows DEF ReaderRecord
<1>6. T \subseteq Incidents
  BY <1>4, ExistFinite
<1>7. /\ step \in ReaderRecord /\ step.pc = (IF T = {} THEN "200" ELSE "links")
      /\ step.items = T /\ step.size = Cardinality(T) /\ step.links = {}
      /\ step.found = q.found \cup T
      /\ step.route = q.route /\ step.sort = q.sort /\ step.order = q.order
      /\ step.only = q.only /\ step.skip = q.skip /\ step.total = q.total
      /\ step.known = q.known
  BY <1>5, <1>6 DEF ReaderRecord
<1>8. Reading(r, step)
  BY <1>3
<1> HIDE DEF step
<1>9. AnswerOK(step)
  <2>1. q.only = None => q.total <= Cardinality(Matching(q))
    BY <1>2 DEF AnswerOK, RowsOf
  <2>2. q.only = None => Cardinality(T) >= PageSize(q.total, q.skip)
    BY <1>4, <1>5, <2>1, PageSizes
  <2>3. T \subseteq Exist
    BY <1>4
  <2> QED
    BY <1>2, <1>7, <2>2, <2>3 DEF AnswerOK
<1>10. WalkOK(step)
  <2> SUFFICES ASSUME q.sort = "created_at", q.only = None PROVE WalkOK(step)
    BY <1>7 DEF WalkOK
  <2>1. Matching(q) = Exist
    BY DEF Matching
  <2>2. q.known \subseteq Exist /\ \A i \in q.known \ q.found : Position(i, Exist, q.order) > q.skip
    BY <1>2 DEF WalkOK
  <2>3. Ranked(Exist)
    BY ReaderKnown DEF Ranked, TablesOK, Exist
  <2>4. ASSUME NEW i \in q.known \ (q.found \cup T)
        PROVE  /\ Position(i, Exist, q.order) > q.skip + Limit
               /\ Position(i, Exist, q.order) <= Cardinality(Exist)
    <3>1. i \in Exist /\ i \notin T /\ Position(i, Exist, q.order) > q.skip
      BY <2>2
    <3>2. Position(i, Exist, q.order) \in 1 .. Cardinality(Exist)
      BY <2>3, <3>1, ExistFinite, PositionTyped
    <3>3. Position(i, Exist, q.order) \notin q.skip + 1 .. q.skip + Limit
      BY <1>4, <1>5, <2>1, <2>3, <3>1, PageIsComplete
    <3> QED
      BY <1>5, <3>1, <3>2, <3>3, ExistFinite
  <2>5. Cardinality(T) < Limit => Cardinality(Exist) < q.skip + Limit
    BY <1>4, <1>5, <2>1, PageSizes
  <2>6. ASSUME Cardinality(T) < Limit PROVE q.known \subseteq q.found \cup T
    <3>1. ASSUME NEW i \in q.known \ (q.found \cup T) PROVE FALSE
      <4>1. i \in Exist
        BY <2>2
      <4>2. Position(i, Exist, q.order) \in 1 .. Cardinality(Exist)
        BY <2>3, <4>1, ExistFinite, PositionTyped
      <4> QED
        BY <1>5, <2>1, <2>4, <2>5, <2>6, <4>2, ExistFinite
    <3> QED
      BY <3>1
  <2> QED
    BY <1>7, <2>2, <2>4, <2>6 DEF WalkOK
<1> QED
  BY <1>7, <1>8, <1>9, <1>10, ReaderMoves

LEMMA LinksKeeps ==
    ASSUME ViewsInv, Remember, NEW r \in Readers, Links(r) PROVE ViewsInv'
<1>1. PICK q \in ReaderRecord : q = reader[r]
  BY ReaderKnown
<1>2. AnswerOK(q) /\ WalkOK(q) /\ q.pc = "links" /\ TablesOK
  BY <1>1, ReaderKnown DEF Links
<1> DEFINE counts == {Cardinality(EvidenceOf(i)) : i \in q.items}
<1>3. q.route = "list" /\ q.items \subseteq Exist
  BY <1>2 DEF AnswerOK
<1>4. counts \subseteq Nat /\ 0 \notin counts
  <2>1. ASSUME NEW i \in Exist
        PROVE  Cardinality(EvidenceOf(i)) \in Nat /\ Cardinality(EvidenceOf(i)) # 0
    <3>1. EvidenceOf(i) \subseteq evidence /\ EvidenceOf(i) # {} /\ IsFiniteSet(evidence)
      BY <1>2 DEF TablesOK, EvidenceOf
    <3>2. IsFiniteSet(EvidenceOf(i))
      BY <3>1, CountGrows
    <3>3. Cardinality(EvidenceOf(i)) \in Nat /\ Cardinality(EvidenceOf(i)) > 0
      BY <3>1, <3>2, CountPositive
    <3> QED
      BY <3>3
  <2> QED
    BY <1>3, <2>1
<1> DEFINE step == [q EXCEPT !.links = counts, !.pc = "200"]
<1>5. Reading(r, step)
  BY <1>1 DEF Links
<1> HIDE DEF counts
<1>6. /\ step \in ReaderRecord /\ step.pc = "200" /\ step.links = counts
      /\ step.route = q.route /\ step.sort = q.sort /\ step.order = q.order
      /\ step.only = q.only /\ step.skip = q.skip /\ step.total = q.total
      /\ step.size = q.size /\ step.known = q.known /\ step.found = q.found
  BY <1>4 DEF ReaderRecord
<1> HIDE DEF step
<1>7. AnswerOK(step)
  BY <1>2, <1>3, <1>4, <1>6 DEF AnswerOK
<1>8. WalkOK(step)
  BY <1>2, <1>6 DEF WalkOK
<1> QED
  BY <1>5, <1>6, <1>7, <1>8, ReaderMoves

LEMMA PageOfOneKeeps ==
    ASSUME ViewsInv, Remember, NEW r \in Readers, PageOfOne(r) PROVE ViewsInv'
<1>1. PICK q \in ReaderRecord : q = reader[r]
  BY ReaderKnown
<1>2. AnswerOK(q) /\ q.pc = "page" /\ q.route # "list" /\ TablesOK
  BY <1>1, ReaderKnown DEF PageOfOne
<1>3. /\ Cardinality(RowsOf(q)) \in Nat /\ q.skip \in Nat /\ q.total \in Nat /\ Limit \in Nat
  BY <1>2, RowsCounted, ExistFinite DEF ReaderRecord
<1> DEFINE step == [q EXCEPT !.pc = "200", !.size = PageSize(Cardinality(RowsOf(q)), q.skip)]
<1>4. PageSize(Cardinality(RowsOf(q)), q.skip) \in Nat
  <2>1. PageSize(Cardinality(RowsOf(q)), q.skip) \in 0 .. Limit
    BY <1>3, PageSizes
  <2> QED
    BY <1>3, <2>1
<1>5. /\ step \in ReaderRecord /\ step.pc = "200" /\ step.links = q.links
      /\ step.size = PageSize(Cardinality(RowsOf(q)), q.skip)
      /\ step.route = q.route /\ step.subject = q.subject
      /\ step.only = q.only /\ step.skip = q.skip /\ step.total = q.total
  BY <1>4 DEF ReaderRecord
<1>6. Reading(r, step)
  BY <1>1 DEF PageOfOne
<1> HIDE DEF step
<1>7. AnswerOK(step)
  <2>1. q.only = None => q.total <= Cardinality(RowsOf(q))
    BY <1>2 DEF AnswerOK
  <2>2. q.only = None => PageSize(Cardinality(RowsOf(q)), q.skip) >= PageSize(q.total, q.skip)
    <3>1. q.only = None => PageSize(q.total, q.skip) <= PageSize(Cardinality(RowsOf(q)), q.skip)
      BY <1>3, <2>1, PageSizes
    <3>2. PageSize(q.total, q.skip) \in 0 .. Limit
      BY <1>3, PageSizes
    <3> QED
      BY <1>3, <1>4, <3>1, <3>2
  <2> QED
    BY <1>2, <1>5, <2>2 DEF AnswerOK
<1>8. WalkOK(step)
  BY <1>2, <1>5 DEF WalkOK
<1> QED
  BY <1>5, <1>6, <1>7, <1>8, ReaderMoves

LEMMA NextPageKeeps ==
    ASSUME ViewsInv, Remember, NEW r \in Readers, NextPage(r) PROVE ViewsInv'
<1>1. PICK q \in ReaderRecord : q = reader[r]
  BY ReaderKnown
<1>2. AnswerOK(q) /\ WalkOK(q) /\ q.pc = "200" /\ q.route = "list"
  BY <1>1, ReaderKnown DEF NextPage
<1> DEFINE step == [q EXCEPT !.skip = q.skip + Limit, !.pc = "count"]
<1>3. /\ step \in ReaderRecord /\ step.pc = "count" /\ step.links = q.links
      /\ step.route = q.route /\ step.sort = q.sort /\ step.order = q.order
      /\ step.only = q.only /\ step.skip = q.skip + Limit
      /\ step.known = q.known /\ step.found = q.found
  <2>1. q.skip + Limit \in Nat
    BY ExistFinite DEF ReaderRecord
  <2> QED
    BY <2>1 DEF ReaderRecord
<1>4. Reading(r, step)
  BY <1>1 DEF NextPage
<1> HIDE DEF step
<1>5. AnswerOK(step)
  BY <1>2, <1>3 DEF AnswerOK
<1>6. WalkOK(step)
  BY <1>2, <1>3 DEF WalkOK
<1> QED
  BY <1>3, <1>4, <1>5, <1>6, ReaderMoves

-----------------------------------------------------------------------------
(* The API dies and starts again                                           *)

LEMMA RestartKeeps ==
    ASSUME ViewsInv, Remember, Restart PROVE ViewsInv'
<1>1. /\ counted' = {} /\ gauge' \in {OpenBySeverity, NoSeries} /\ faults' = faults + 1
      /\ UNCHANGED consumerVars
  BY DEF Restart, Fails
<1>2. /\ patch' = [p \in Rows |-> IF patch[p].pc = "idle" THEN patch[p]
                                  ELSE [Idle EXCEPT !.pc = "lost"]]
      /\ scrape' = [s \in Scrapes |-> IF scrape[s].pc = "idle" THEN scrape[s]
                                      ELSE [Quiet EXCEPT !.pc = "lost"]]
      /\ reader' = [r \in Readers |-> IF reader[r].pc = "idle" THEN reader[r]
                                      ELSE [Silent EXCEPT !.pc = "lost"]]
  BY DEF Restart
<1>3. Grows /\ TablesOK'
  BY <1>1, TablesStay DEF consumerVars
<1>4. NoCounts \in Counts /\ NoSeries \in Series /\ gauge' \in Series
  BY <1>1, CountsTyped DEF NoCounts, NoSeries, Counts, Series
<1>5. /\ [Idle EXCEPT !.pc = "lost"] \in PatchRecord
      /\ [Quiet EXCEPT !.pc = "lost"] \in ScrapeRecord
      /\ [Silent EXCEPT !.pc = "lost"] \in ReaderRecord
  BY <1>4 DEF Idle, Quiet, Silent, PatchRecord, ScrapeRecord, ReaderRecord
<1>6. /\ patch' \in [Rows -> PatchRecord] /\ scrape' \in [Scrapes -> ScrapeRecord]
      /\ reader' \in [Readers -> ReaderRecord]
  BY <1>2, <1>5 DEF ViewsInv, TypeInv
<1>7. TypeInv'
  BY <1>1, <1>4, <1>6 DEF ViewsInv, TypeInv, consumerVars, cvars
<1>8. TalliesOK'
  BY <1>1, TalliesStay DEF ViewsInv, TalliesOK, CountersNotAhead, consumerVars, cvars
<1>9. ASSUME NEW p \in Rows PROVE patch'[p] = patch[p] \/ PatchOK(p)'
  BY <1>2 DEF PatchOK, Idle
<1>10. ASSUME NEW s \in Scrapes PROVE scrape'[s] = scrape[s] \/ ScrapeOK(s)'
  BY <1>2 DEF ScrapeOK, Quiet
<1>11. ASSUME NEW r \in Readers
       PROVE  reader'[r] = reader[r] \/ (AnswerOK(reader[r]) /\ WalkOK(reader[r]))'
  <2>1. CASE reader[r].pc = "idle"
    BY <1>2, <2>1
  <2>2. CASE reader[r].pc # "idle"
    <3>1. /\ reader'[r].pc = "lost" /\ reader'[r].links = {} /\ reader'[r].known = {}
      BY <1>2, <2>2 DEF Silent
    <3>2. AnswerOK(reader[r])'
      BY <3>1 DEF AnswerOK
    <3>3. WalkOK(reader[r])'
      BY <3>1 DEF WalkOK
    <3> QED
      BY <3>2, <3>3
  <2> QED
    BY <2>1, <2>2
<1> QED
  BY <1>3, <1>7, <1>8, <1>9, <1>10, <1>11, CallsStay

-----------------------------------------------------------------------------
(* The theorems                                                            *)

LEMMA NextKeeps == ViewsInv /\ [Next]_vars => ViewsInv'
<1> SUFFICES ASSUME ViewsInv, [Next]_vars PROVE ViewsInv'
  OBVIOUS
<1>1. ASSUME NEW e \in Events, ConsumeElsewhere(e) \/ Take(e), Remember PROVE ViewsInv'
  BY <1>1, ConsumeElsewhereKeeps, TakeKeeps
<1>2. CASE Remember /\ (Consume \/ Drop \/ CountEvidence \/ ConsumerCrash)
  BY <1>2, ConsumeKeeps, DropKeeps, CountEvidenceKeeps, ConsumerCrashKeeps
<1>3. ASSUME NEW p \in Rows, Patch(p) \/ PatchStep(p), Remember PROVE ViewsInv'
  BY <1>3, PatchKeeps, PatchStepKeeps
<1>4. ASSUME NEW s \in Scrapes, ScrapeStep(s), Remember PROVE ViewsInv'
  BY <1>4, ScrapeStepKeeps
<1>5. ASSUME NEW r \in Readers, ReaderStep(r), Remember PROVE ViewsInv'
  BY <1>5, AskListKeeps, AskOneKeeps, FindKeeps, CountKeeps, PageKeeps, LinksKeeps,
     PageOfOneKeeps, NextPageKeeps DEF ReaderStep
<1>6. CASE Remember /\ Restart
  BY <1>6, RestartKeeps
<1>7. CASE UNCHANGED vars
  <2>1. Grows /\ TablesOK'
    BY <1>7, TablesStay DEF vars, consumerVars
  <2>2. TypeInv' /\ TalliesOK'
    BY <1>7, TalliesStay DEF ViewsInv, TypeInv, TalliesOK, CountersNotAhead, vars, consumerVars,
       apiVars, cvars
  <2>3. ASSUME NEW p \in Rows PROVE PatchOK(p)'
    BY <1>7 DEF ViewsInv, PatchOK, Exist, vars, consumerVars, apiVars, cvars
  <2>4. ASSUME NEW s \in Scrapes PROVE ScrapeOK(s)'
    BY <1>7 DEF ViewsInv, ScrapeOK, vars, apiVars
  <2>5. ASSUME NEW r \in Readers PROVE AnswerOK(reader[r])' /\ WalkOK(reader[r])'
    <3>1. PICK q \in ReaderRecord : q = reader[r]
      BY ReaderKnown
    <3>2. reader'[r] = q
      BY <1>7, <3>1 DEF vars, apiVars
    <3>3. Countable
      BY <2>1, <2>2 DEF Countable, ViewsInv, TypeInv
    <3>4. AnswerOK(q)' /\ WalkOK(q)'
      BY <2>1, <3>1, <3>3, ReaderKnown, AnswerStays, WalkStays
    <3> QED
      BY <3>2, <3>4 DEF AnswerOK, WalkOK, RowsOf, Matching, HistoryOf, EvidenceOf, Position
  <2> QED
    BY <2>1, <2>2, <2>3, <2>4, <2>5 DEF ViewsInv
<1> QED
  BY <1>1, <1>2, <1>3, <1>4, <1>5, <1>6, <1>7 DEF Next, Step

\* What readers know of the tables: a page, a count or a number of evidence that a
\* route has read may be out of date, but only by rows that have come since.
THEOREM ViewsInvariant == Spec => []ViewsInv
<1>1. Init => ViewsInv
  BY InitEstablishes
<1>2. ViewsInv /\ [Next]_vars => ViewsInv'
  BY NextKeeps
<1> QED
  BY <1>1, <1>2, PTL DEF Spec

\* The types of the consumer's, the API's and the readers' state.
THEOREM ViewsTypes == Spec => []TypeOK
<1>1. ViewsInv => TypeOK
  BY DEF ViewsInv, TypeInv, TypeOK, PatchRecord, ScrapeRecord, ReaderRecord
<1> QED
  BY <1>1, ViewsInvariant, PTL

\* No process of the consumer counts a row that is not in the tables, or counts one
\* twice, whatever other processes write between its look at the row, its save, its
\* commit and its counting; and the API counts no transition that is not in the trail.
THEOREM CountersBehind == Spec => []CountersNotAhead
<1>1. ViewsInv => CountersNotAhead
  BY DEF ViewsInv, TalliesOK
<1> QED
  BY <1>1, ViewsInvariant, PTL

\* A scrape answered 200 shows the counts of one moment of the scrape, whatever
\* status changes set the gauge to in between.
THEOREM ScrapesFresh == Spec => []ScrapeFresh
<1>1. ViewsInv => ScrapeFresh
  BY DEF ViewsInv, ScrapeOK, ScrapeFresh
<1> QED
  BY <1>1, ViewsInvariant, PTL

\* The queries of a route agree with each other, although others write between them.
THEOREM ReadersAgree == Spec => []ReadsAgree
<1>1. ViewsInv => ReadsAgree
  BY DEF ViewsInv, AnswerOK, PatchOK, ReadsAgree
<1> QED
  BY <1>1, ViewsInvariant, PTL

\* A walk through the pages in the order of created_at misses no incident that was
\* there when it began, for any page size and any number of incidents.
THEOREM WalksMissNothing == Spec => []WalkMissesNothing
<1>1. ViewsInv => WalkMissesNothing
  BY DEF ViewsInv, WalkOK, WalkMissesNothing
<1> QED
  BY <1>1, ViewsInvariant, PTL

\* The tables the readers see are those of Correlated, which Incidents implements:
\* no step of a consumer, an API or a reader does anything else to them.
THEOREM TablesCorrelated == Spec => CSpec
<1>1. Init => CInit
  BY DEF Init
<1>2. ViewsInv /\ [Next]_vars => [CNext]_cvars
  <2> SUFFICES ASSUME ViewsInv, [Next]_vars PROVE [CNext]_cvars
    OBVIOUS
  <2>1. ASSUME NEW e \in Events, ConsumeElsewhere(e) PROVE CNext
    BY <2>1 DEF ConsumeElsewhere, Store, CNext
  <2>8. CASE Consume
    <3>1. Correlate(work.event) /\ work.event \in Events
      BY <2>8 DEF Consume, Store, ViewsInv, TalliesOK, WorkOK
    <3> QED
      BY <3>1 DEF CNext
  <2>2. ASSUME NEW p \in Rows, Patch(p) PROVE CNext
    BY <2>2 DEF Patch, CNext
  <2>3. ASSUME NEW p \in Rows, PatchStep(p) PROVE UNCHANGED cvars
    BY <2>3 DEF PatchStep, PatchRecords, PatchFails, PatchReads, PatchReadFails, PatchSets,
       consumerVars
  <2>4. ASSUME NEW s \in Scrapes, ScrapeStep(s) PROVE UNCHANGED cvars
    BY <2>4 DEF ScrapeStep, ScrapeStarts, ScrapeReads, ScrapeFails, ScrapeAnswers, consumerVars
  <2>5. ASSUME NEW r \in Readers, ReaderStep(r) PROVE UNCHANGED cvars
    BY <2>5 DEF ReaderStep, AskList, AskOne, Find, Count, Page, Links, PageOfOne, NextPage,
       Reading, consumerVars
  <2>6. (\E e \in Events : Take(e)) \/ Drop \/ CountEvidence \/ ConsumerCrash \/ Restart
           => UNCHANGED cvars
    BY DEF Take, Drop, CountEvidence, ConsumerCrash, Restart, consumerVars
  <2>7. UNCHANGED vars => UNCHANGED cvars
    BY DEF vars, consumerVars
  <2> QED
    BY <2>1, <2>2, <2>3, <2>4, <2>5, <2>6, <2>7, <2>8 DEF Next, Step
<1> QED
  BY <1>1, <1>2, ViewsInvariant, PTL DEF Spec, CSpec
==============================================================================
