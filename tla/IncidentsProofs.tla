--------------------------- MODULE IncidentsProofs ---------------------------
(***************************************************************************)
(* The safety of Incidents for every set of events, keys, incidents,       *)
(* deliveries and requests, every assignment of keys to events and any     *)
(* number of faults, and its refinement of Correlated.                     *)
(***************************************************************************)
EXTENDS Incidents, TLAPS, WellFoundedInduction

-----------------------------------------------------------------------------
(* The inductive invariant                                                 *)

\* A transaction is open in these places of the rule loop.
Open == {"find", "insert", "exists", "attach", "commit"}

KeysOfJob(d) == KeysOf[job[d]]

\* The transaction of d sees i: it is committed, or a row of its own.
Visible(d, i) == status[i] # "none" \/ i \in fresh[d]

\* Where the rule loop is.
LoopOK(d) ==
    /\ idx[d] \in 1 .. Len(KeysOfJob(d)) + 1
    /\ pc[d] = "idle" => idx[d] = 1
    /\ pc[d] \in {"find", "insert", "exists", "attach"} => idx[d] <= Len(KeysOfJob(d))
    /\ pc[d] = "commit" => idx[d] = Len(KeysOfJob(d)) + 1
    /\ pc[d] \notin Open => fresh[d] = {} /\ links[d] = {}

\* The incident the current rule joins has the rule's key.
TargetOK(d) ==
    pc[d] \in {"exists", "attach"} =>
        target[d] \in Incidents /\ key[target[d]] = KeyAt(d) /\ Visible(d, target[d])

\* The rules behind have their evidence, and an uncommitted incident has it too,
\* unless it was inserted by the current rule.
RulesDone(d) ==
    pc[d] \in Open =>
        \A n \in 1 .. idx[d] - 1 : \E i \in Incidents :
            key[i] = KeysOfJob(d)[n] /\ <<i, job[d]>> \in evidence \cup links[d]

LinksOK(d) ==
    \A i \in Incidents, e \in Events : <<i, e>> \in links[d] =>
        /\ e = job[d] /\ Visible(d, i)
        /\ \E n \in 1 .. idx[d] - 1 : key[i] = KeysOfJob(d)[n]

LinksDistinct(d) ==
    \A i, j \in Incidents, e \in Events :
        <<i, e>> \in links[d] /\ <<j, e>> \in links[d] /\ key[i] = key[j] => i = j

FreshOK(d) ==
    \A i \in fresh[d] :
        /\ status[i] = "none" /\ key[i] # None
        /\ <<i, job[d]>> \in links[d] \/ (pc[d] \in {"exists", "attach"} /\ target[d] = i)

\* TrueMeansCorrelated, for one delivery.
TrueOK(d) ==
    pc[d] = "true" =>
        \A n \in DOMAIN KeysOfJob(d) :
            \E i \in Incidents : key[i] = KeysOfJob(d)[n] /\ <<i, job[d]>> \in evidence

DeliveryOK(d) ==
    /\ LoopOK(d) /\ TargetOK(d) /\ RulesDone(d) /\ LinksOK(d) /\ LinksDistinct(d)
    /\ FreshOK(d) /\ TrueOK(d)

\* i was in status s once.
Reached(i, s) == s = "open" \/ \E h \in history : h.incident = i /\ h.to = s

\* A request keeps a transition of the life cycle from a status its incident had,
\* and, once it has updated the row, writes the new status or the old one.
RequestOK(r) ==
    /\ rpc[r] \in {"select", "update", "commit"} =>
          /\ subject[r] \in Incidents /\ status[subject[r]] # "none"
          /\ MayMove(from[r], to[r]) /\ Reached(subject[r], from[r])
    /\ rpc[r] = "commit" => wrote[r] \in {to[r], status[subject[r]]}
    /\ rpc[r] # "200" => \A h \in history : h.id # r

\* i takes the place of its key in the partial index, or may as soon as an open
\* transaction commits.
Live(i) ==
    \/ Indexed(status[i])
    \/ \E d \in Deliveries : i \in fresh[d]
    \/ \E r \in Requests : rpc[r] = "commit" /\ subject[r] = i /\ Indexed(wrote[r])

OneLive == \A i, j \in Incidents : i # j /\ key[i] = key[j] => ~ (Live(i) /\ Live(j))

FreshApart == \A c, d \in Deliveries : c # d => fresh[c] \cap fresh[d] = {}

RowLocks ==
    \A q, r \in Requests :
        rpc[q] = "commit" /\ rpc[r] = "commit" /\ subject[q] = subject[r] => q = r

\* Committed incidents have a key and a status the trail leads to; evidence is of
\* committed incidents; each row of the trail starts where another ended.
TableOK ==
    /\ \A i \in Incidents : status[i] # "none" => key[i] # None /\ Reached(i, status[i])
    /\ \A i \in Incidents, e \in Events : <<i, e>> \in evidence => status[i] # "none"
    /\ \A h \in history : Reached(h.incident, h.from) /\ MayMove(h.from, h.to)

IncidentsInv ==
    /\ TypeOK
    /\ \A d \in Deliveries : DeliveryOK(d)
    /\ \A r \in Requests : RequestOK(r)
    /\ OneLive /\ FreshApart /\ RowLocks /\ TableOK
    /\ IncidentsHaveEvidence /\ SuccessorAfterResolution

-----------------------------------------------------------------------------
(* The life cycle and the keys                                             *)

LEMMA Statuses ==
    /\ IncidentStatus = {"open", "acknowledged", "investigating", "contained",
                         "resolved", "closed"}
    /\ \A n \in 1..6 : LifeCycle[n] \in IncidentStatus
    /\ LifeCycle[1] = "open"
<1>1. DOMAIN LifeCycle = 1..6
  BY DEF LifeCycle
<1>2. /\ LifeCycle[1] = "open" /\ LifeCycle[2] = "acknowledged"
      /\ LifeCycle[3] = "investigating" /\ LifeCycle[4] = "contained"
      /\ LifeCycle[5] = "resolved" /\ LifeCycle[6] = "closed"
  BY DEF LifeCycle
<1>3. \A n \in 1..6 : n = 1 \/ n = 2 \/ n = 3 \/ n = 4 \/ n = 5 \/ n = 6
  OBVIOUS
<1>4. 1 \in 1..6 /\ 2 \in 1..6 /\ 3 \in 1..6 /\ 4 \in 1..6 /\ 5 \in 1..6 /\ 6 \in 1..6
  OBVIOUS
<1> HIDE DEF LifeCycle
<1>5. IncidentStatus = {LifeCycle[n] : n \in 1..6}
  BY <1>1 DEF IncidentStatus
<1> QED
  BY <1>2, <1>3, <1>4, <1>5

\* A transition leads on: only a resolved incident is closed, none is opened again.
LEMMA Moves ==
    ASSUME NEW a, NEW b, MayMove(a, b)
    PROVE  /\ a \in IncidentStatus /\ b \in IncidentStatus
           /\ b # "open" /\ (b = "closed" => a = "resolved")
<1>1. PICK m \in 1..5 : LifeCycle[m] = a /\ LifeCycle[m + 1] = b
  BY DEF MayMove, Allowed
<1>2. a \in IncidentStatus /\ b \in IncidentStatus
  BY <1>1, Statuses
<1>3. /\ LifeCycle[1] = "open" /\ LifeCycle[2] = "acknowledged"
      /\ LifeCycle[3] = "investigating" /\ LifeCycle[4] = "contained"
      /\ LifeCycle[5] = "resolved" /\ LifeCycle[6] = "closed"
  BY DEF LifeCycle
<1>4. m = 1 \/ m = 2 \/ m = 3 \/ m = 4 \/ m = 5
  OBVIOUS
<1> QED
  BY <1>1, <1>2, <1>3, <1>4

LEMMA NextStatus ==
    ASSUME NEW n \in 1..5 PROVE MayMove(LifeCycle[n], LifeCycle[n + 1])
BY DEF MayMove, Allowed

LEMMA IndexedStatus ==
    ASSUME NEW s \in IncidentStatus \cup {"none"}
    PROVE  Indexed(s) <=> s \in ActiveStatus
BY Statuses DEF Indexed, ActiveStatus

LEMMA KeysOfEvent ==
    ASSUME NEW e \in Events
    PROVE  /\ KeysOf[e] \in Seq(Keys) /\ Len(KeysOf[e]) \in Nat
           /\ DOMAIN KeysOf[e] = 1 .. Len(KeysOf[e])
           /\ \A n \in 1 .. Len(KeysOf[e]) : KeysOf[e][n] \in Keys /\ KeysOf[e][n] # None
<1>1. KeysOf[e] \in Seq(Keys)
  BY IncidentsAssumptions DEF IncidentsAssumptions
<1>2. None \notin Keys
  BY IncidentsAssumptions DEF IncidentsAssumptions
<1> QED
  BY <1>1, <1>2

\* The rules of an event build different keys: a key names its rule.
LEMMA KeysApart ==
    ASSUME NEW e \in Events, NEW m \in 1 .. Len(KeysOf[e]), NEW n \in 1 .. Len(KeysOf[e]),
           KeysOf[e][m] = KeysOf[e][n]
    PROVE  m = n
<1>1. \A a, b \in 1 .. Len(KeysOf[e]) :
         a < b => RuleOf[KeysOf[e][a]] < RuleOf[KeysOf[e][b]]
  BY KeysOfEvent, IncidentsAssumptions DEF IncidentsAssumptions
<1>2. RuleOf[KeysOf[e][m]] \in Nat
  BY KeysOfEvent, IncidentsAssumptions DEF IncidentsAssumptions
<1>3. m \in Nat /\ n \in Nat
  BY KeysOfEvent
<1>4. ~ m < n
  BY <1>1, <1>2
<1>5. ~ n < m
  BY <1>1, <1>2
<1> QED
  BY <1>3, <1>4, <1>5

LEMMA NoneIsNoIncident == None \notin Incidents /\ None \notin Keys
BY IncidentsAssumptions DEF IncidentsAssumptions

-----------------------------------------------------------------------------
(* What every step leaves as it was                                        *)

\* A committed incident keeps its key and never disappears, and nothing is taken
\* from the evidence or the trail.
Grows ==
    /\ \A i \in Incidents : status[i] # "none" => status'[i] # "none" /\ key'[i] = key[i]
    /\ evidence \subseteq evidence'
    /\ history \subseteq history'

\* The step is not one of delivery d, and its uncommitted rows are its own.
Untouched(d) ==
    /\ pc'[d] = pc[d] /\ job'[d] = job[d] /\ idx'[d] = idx[d] /\ target'[d] = target[d]
    /\ fresh'[d] = fresh[d] /\ links'[d] = links[d]
    /\ \A i \in fresh[d] : status'[i] = status[i] /\ key'[i] = key[i]

\* The step is not one of request r, and leaves the row it has locked alone.
Unmoved(r) ==
    /\ rpc'[r] = rpc[r] /\ subject'[r] = subject[r] /\ from'[r] = from[r] /\ to'[r] = to[r]
    /\ wrote'[r] = wrote[r]
    /\ rpc[r] = "commit" => status'[subject[r]] = status[subject[r]]
    /\ \A h \in history' \ history : h.id # r

LEMMA DeliveryStays ==
    ASSUME IncidentsInv, Grows, NEW d \in Deliveries, Untouched(d) PROVE DeliveryOK(d)'
<1> USE DEF KeysOfJob, KeyAt
<1>0. DeliveryOK(d) /\ TypeOK
  BY DEF IncidentsInv
<1>1. ASSUME NEW i \in Incidents, Visible(d, i)
      PROVE  key'[i] = key[i] /\ Visible(d, i)'
  BY <1>1 DEF Visible, Grows, Untouched
<1>2. LoopOK(d)'
  BY <1>0 DEF DeliveryOK, LoopOK, Untouched
<1>3. TargetOK(d)'
  <2>1. TargetOK(d)
    BY <1>0 DEF DeliveryOK
  <2>2. \A i \in Incidents : i = target[d] /\ Visible(d, i) =>
            key'[i] = key[i] /\ (status'[i] # "none" \/ i \in fresh'[d])
    BY <1>1 DEF Visible
  <2> QED
    BY <2>1, <2>2 DEF TargetOK, Untouched, Visible
<1>4. ASSUME NEW i \in Incidents, <<i, job[d]>> \in evidence \cup links[d]
      PROVE  key'[i] = key[i]
  <2>1. job[d] \in Events
    BY <1>0 DEF TypeOK
  <2>2. Visible(d, i)
    BY <1>0, <1>4, <2>1 DEF IncidentsInv, TableOK, DeliveryOK, LinksOK, Visible
  <2> QED
    BY <1>1, <2>2
<1>5. RulesDone(d)'
  <2>1. RulesDone(d)
    BY <1>0 DEF DeliveryOK
  <2> QED
    BY <1>4, <2>1 DEF RulesDone, Untouched, Grows
<1>6. LinksOK(d)'
  <2>1. LinksOK(d)
    BY <1>0 DEF DeliveryOK
  <2> QED
    BY <1>1, <2>1 DEF LinksOK, Untouched
<1>7. LinksDistinct(d)'
  <2>1. LinksDistinct(d) /\ LinksOK(d)
    BY <1>0 DEF DeliveryOK
  <2> QED
    BY <1>1, <2>1 DEF LinksDistinct, LinksOK, Untouched
<1>8. FreshOK(d)'
  BY <1>0 DEF DeliveryOK, FreshOK, Untouched
<1>9. TrueOK(d)'
  <2>1. TrueOK(d)
    BY <1>0 DEF DeliveryOK
  <2> QED
    BY <1>4, <2>1 DEF TrueOK, Untouched, Grows
<1> QED
  BY <1>2, <1>3, <1>5, <1>6, <1>7, <1>8, <1>9 DEF DeliveryOK

LEMMA RequestStays ==
    ASSUME IncidentsInv, Grows, NEW r \in Requests, Unmoved(r) PROVE RequestOK(r)'
<1>1. RequestOK(r) /\ TypeOK
  BY DEF IncidentsInv
<1>2. Reached(subject[r], from[r]) => Reached(subject[r], from[r])'
  BY DEF Reached, Grows, Unmoved
<1>3. rpc'[r] \in {"select", "update", "commit"} =>
          /\ subject'[r] \in Incidents /\ status'[subject'[r]] # "none"
          /\ MayMove(from'[r], to'[r]) /\ Reached(subject[r], from[r])'
  BY <1>1, <1>2 DEF RequestOK, Unmoved, Grows
<1>4. rpc'[r] = "commit" => wrote'[r] \in {to'[r], status'[subject'[r]]}
  BY <1>1 DEF RequestOK, Unmoved
<1>5. rpc'[r] # "200" => \A h \in history' : h.id # r
  BY <1>1 DEF RequestOK, Unmoved
<1> QED
  BY <1>3, <1>4, <1>5 DEF RequestOK, Reached, Unmoved

LEMMA LiveStays ==
    ASSUME IncidentsInv, \A i \in Incidents : Live(i)' => Live(i) /\ key'[i] = key[i]
    PROVE  OneLive'
<1>1. OneLive
  BY DEF IncidentsInv
<1>2. ASSUME NEW i \in Incidents, NEW j \in Incidents, i # j, key'[i] = key'[j],
             Live(i)', Live(j)'
      PROVE  FALSE
  <2>1. Live(i) /\ Live(j) /\ key[i] = key[j]
    BY <1>2
  <2> QED
    BY <1>1, <1>2, <2>1 DEF OneLive
<1> QED
  BY <1>2 DEF OneLive

\* The rest of the invariant, when delivery d takes a step.
LEMMA DeliveryMoves ==
    ASSUME IncidentsInv, TypeOK', Grows, NEW d \in Deliveries, DeliveryOK(d)',
           \A x \in Deliveries \ {d} : Untouched(x),
           UNCHANGED <<requestVars, history>>,
           \A i \in Incidents : status[i] # "none" => status'[i] = status[i],
           OneLive', FreshApart', TableOK', IncidentsHaveEvidence', SuccessorAfterResolution'
    PROVE  IncidentsInv'
<1>1. ASSUME NEW x \in Deliveries PROVE DeliveryOK(x)'
  BY <1>1, DeliveryStays
<1>2. ASSUME NEW r \in Requests PROVE RequestOK(r)'
  <2>1. rpc[r] = "commit" => subject[r] \in Incidents /\ status[subject[r]] # "none"
    BY DEF IncidentsInv, RequestOK
  <2>2. Unmoved(r)
    BY <2>1 DEF Unmoved, requestVars
  <2> QED
    BY <2>2, RequestStays
<1>3. RowLocks'
  BY DEF IncidentsInv, RowLocks, requestVars
<1> QED
  BY <1>1, <1>2, <1>3 DEF IncidentsInv

\* The same when it neither writes a table nor inserts.
LEMMA DeliveryReads ==
    ASSUME IncidentsInv, TypeOK', NEW d \in Deliveries, DeliveryOK(d)',
           UNCHANGED <<tableVars, requestVars, job, fresh>>,
           \A x \in Deliveries \ {d} :
              pc'[x] = pc[x] /\ idx'[x] = idx[x] /\ target'[x] = target[x] /\ links'[x] = links[x]
    PROVE  IncidentsInv'
<1>1. Grows
  BY DEF Grows, tableVars
<1>2. \A x \in Deliveries \ {d} : Untouched(x)
  BY DEF Untouched, tableVars
<1>3. OneLive'
  <2>1. \A i \in Incidents : Live(i)' => Live(i) /\ key'[i] = key[i]
    BY DEF Live, tableVars, requestVars
  <2> QED
    BY <2>1, LiveStays
<1>4. FreshApart'
  BY DEF IncidentsInv, FreshApart
<1>5. TableOK'
  BY DEF IncidentsInv, TableOK, Reached, tableVars
<1>6. IncidentsHaveEvidence' /\ SuccessorAfterResolution'
  BY DEF IncidentsInv, IncidentsHaveEvidence, SuccessorAfterResolution, tableVars
<1> QED
  BY <1>1, <1>2, <1>3, <1>4, <1>5, <1>6, DeliveryMoves DEF tableVars

\* The rest of the invariant, when request r takes a step.
LEMMA RequestMoves ==
    ASSUME IncidentsInv, TypeOK', NEW r \in Requests, RequestOK(r)',
           \A q \in Requests \ {r} : Unmoved(q),
           UNCHANGED <<deliveryVars, key, evidence>>,
           \A i \in Incidents : status[i] = "none" <=> status'[i] = "none",
           history \subseteq history',
           OneLive', RowLocks', TableOK'
    PROVE  IncidentsInv'
<1>1. Grows
  BY DEF Grows
<1>2. ASSUME NEW d \in Deliveries PROVE DeliveryOK(d)'
  <2>1. \A i \in fresh[d] : i \in Incidents /\ status[i] = "none"
    BY DEF IncidentsInv, TypeOK, DeliveryOK, FreshOK
  <2>2. Untouched(d)
    BY <2>1 DEF Untouched, deliveryVars
  <2> QED
    BY <1>1, <2>2, DeliveryStays
<1>3. ASSUME NEW q \in Requests PROVE RequestOK(q)'
  BY <1>1, <1>3, RequestStays
<1>4. FreshApart'
  BY DEF IncidentsInv, FreshApart, deliveryVars
<1>5. IncidentsHaveEvidence'
  BY DEF IncidentsInv, IncidentsHaveEvidence
<1>6. SuccessorAfterResolution'
  BY DEF IncidentsInv, SuccessorAfterResolution
<1> QED
  BY <1>2, <1>3, <1>4, <1>5, <1>6 DEF IncidentsInv

\* The same when it writes nothing and does not reach its commit.
LEMMA RequestReads ==
    ASSUME IncidentsInv, TypeOK', NEW r \in Requests, RequestOK(r)',
           rpc'[r] # "commit",
           \A q \in Requests \ {r} :
              /\ rpc'[q] = rpc[q] /\ subject'[q] = subject[q] /\ from'[q] = from[q]
              /\ to'[q] = to[q] /\ wrote'[q] = wrote[q],
           UNCHANGED <<deliveryVars, tableVars>>
    PROVE  IncidentsInv'
<1>1. \A q \in Requests \ {r} : Unmoved(q)
  BY DEF Unmoved, tableVars
<1>2. OneLive'
  <2>1. \A i \in Incidents : Live(i)' => Live(i) /\ key'[i] = key[i]
    BY DEF Live, tableVars, deliveryVars
  <2> QED
    BY <2>1, LiveStays
<1>3. RowLocks'
  BY DEF IncidentsInv, RowLocks
<1>4. TableOK'
  BY DEF IncidentsInv, TableOK, Reached, tableVars
<1> QED
  BY <1>1, <1>2, <1>3, <1>4, RequestMoves DEF tableVars

-----------------------------------------------------------------------------
(* The initial states                                                      *)

\* The rows of an incident that has come as far as its age-th status.
Past(i, age) ==
    {[id |-> n, incident |-> i, from |-> LifeCycle[n], to |-> LifeCycle[n + 1]] :
        n \in 1 .. age - 1}

LEMMA InitTables ==
    ASSUME Init
    PROVE  \E age \in 0..6, e \in Events, i \in Incidents :
              /\ age > 0 => Len(KeysOf[e]) = 1
              /\ status = [j \in Incidents |-> IF age > 0 /\ j = i THEN LifeCycle[age] ELSE "none"]
              /\ key = [j \in Incidents |-> IF age > 0 /\ j = i THEN KeysOf[e][1] ELSE None]
              /\ evidence = IF age > 0 THEN {<<i, e>>} ELSE {}
              /\ history = IF age > 0 THEN Past(i, age) ELSE {}
<1>1. PICK age \in Ages, e \in Events :
        LET i == CHOOSE i \in Incidents : TRUE IN
              /\ age > 0 => Len(KeysOf[e]) = 1
              /\ status = [j \in Incidents |-> IF age > 0 /\ j = i THEN LifeCycle[age] ELSE "none"]
              /\ key = [j \in Incidents |-> IF age > 0 /\ j = i THEN KeysOf[e][1] ELSE None]
              /\ evidence = IF age > 0 THEN {<<i, e>>} ELSE {}
              /\ history = IF age > 0 THEN Past(i, age) ELSE {}
  BY DEF Init, Tables!CInit, Tables!LifeCycle, LifeCycle, Tables!PastRow, Past
<1>2. (CHOOSE i \in Incidents : TRUE) \in Incidents /\ age \in 0..6
  BY IncidentsAssumptions DEF IncidentsAssumptions
<1> QED
  BY <1>1, <1>2

LEMMA PastRows ==
    ASSUME NEW i \in Incidents, NEW age \in 1..6
    PROVE  /\ Past(i, age) \subseteq HistoryRow
           /\ \A h \in Past(i, age) :
                 /\ h.id \in 1..5 /\ h.incident = i /\ MayMove(h.from, h.to)
                 /\ h.from = "open" \/ \E g \in Past(i, age) : g.incident = i /\ g.to = h.from
           /\ LifeCycle[age] = "open" \/
                 \E g \in Past(i, age) : g.incident = i /\ g.to = LifeCycle[age]
<1> DEFINE Old(n) == [id |-> n, incident |-> i, from |-> LifeCycle[n], to |-> LifeCycle[n + 1]]
<1>1. \A n \in 1 .. age - 1 : n \in 1..5 /\ n + 1 \in 1..6 /\ n \in 1..6
  OBVIOUS
<1>2. \A n \in 1 .. age - 1 : Old(n) \in HistoryRow /\ Old(n) \in Past(i, age)
  BY <1>1, Statuses DEF HistoryRow, Past
<1>3. \A h \in Past(i, age) : \E n \in 1 .. age - 1 : h = Old(n)
  BY DEF Past
<1>4. ASSUME NEW n \in 1 .. age
      PROVE  LifeCycle[n] = "open" \/
                \E g \in Past(i, age) : g.incident = i /\ g.to = LifeCycle[n]
  <2>1. CASE n = 1
    BY <2>1, Statuses
  <2>2. CASE n # 1
    <3>1. n - 1 \in 1 .. age - 1 /\ (n - 1) + 1 = n
      BY <2>2
    <3>2. Old(n - 1) \in Past(i, age) /\ Old(n - 1).incident = i /\ Old(n - 1).to = LifeCycle[n]
      BY <1>2, <3>1
    <3> QED
      BY <3>2
  <2> QED
    BY <2>1, <2>2
<1>5. ASSUME NEW h \in Past(i, age)
      PROVE  /\ h.id \in 1..5 /\ h.incident = i /\ MayMove(h.from, h.to)
             /\ h.from = "open" \/ \E g \in Past(i, age) : g.incident = i /\ g.to = h.from
  <2>1. PICK n \in 1 .. age - 1 : h = Old(n)
    BY <1>3
  <2>2. h.id = n /\ h.incident = i /\ h.from = LifeCycle[n] /\ h.to = LifeCycle[n + 1]
    BY <2>1
  <2>3. n \in 1 .. age /\ n \in 1..5
    OBVIOUS
  <2> QED
    BY <1>4, <2>2, <2>3, NextStatus
<1>6. age \in 1 .. age
  OBVIOUS
<1> HIDE DEF Old
<1> QED
  BY <1>2, <1>3, <1>4, <1>5, <1>6

LEMMA InitEstablishes == Init => IncidentsInv
<1> SUFFICES ASSUME Init PROVE IncidentsInv
  OBVIOUS
<1>1. PICK age \in 0..6, e \in Events, i \in Incidents :
              /\ age > 0 => Len(KeysOf[e]) = 1
              /\ status = [j \in Incidents |-> IF age > 0 /\ j = i THEN LifeCycle[age] ELSE "none"]
              /\ key = [j \in Incidents |-> IF age > 0 /\ j = i THEN KeysOf[e][1] ELSE None]
              /\ evidence = IF age > 0 THEN {<<i, e>>} ELSE {}
              /\ history = IF age > 0 THEN Past(i, age) ELSE {}
  BY InitTables
<1>2. /\ pc = [d \in Deliveries |-> "idle"] /\ job \in [Deliveries -> Events]
      /\ idx = [d \in Deliveries |-> 1] /\ target = [d \in Deliveries |-> None]
      /\ fresh = [d \in Deliveries |-> {}] /\ links = [d \in Deliveries |-> {}]
      /\ rpc = [r \in Requests |-> "idle"] /\ subject = [r \in Requests |-> None]
      /\ from = [r \in Requests |-> "none"] /\ to = [r \in Requests |-> "none"]
      /\ seen = [r \in Requests |-> "none"] /\ wrote = [r \in Requests |-> "none"]
      /\ faults = 0
  BY DEF Init
<1>3. ASSUME NEW d \in Deliveries PROVE DeliveryOK(d)
  <2>1. Len(KeysOfJob(d)) \in Nat
    BY <1>2, KeysOfEvent DEF KeysOfJob
  <2> QED
    BY <1>2, <1>3, <2>1 DEF DeliveryOK, LoopOK, TargetOK, RulesDone, LinksOK, LinksDistinct,
       FreshOK, TrueOK, Open
<1>4. /\ from \in [Requests -> IncidentStatus \cup {"none"}]
      /\ to \in [Requests -> IncidentStatus \cup {"none"}]
      /\ seen \in [Requests -> IncidentStatus \cup {"none"}]
      /\ wrote \in [Requests -> IncidentStatus \cup {"none"}]
  BY <1>2
<1>5. /\ pc \in [Deliveries -> {"idle", "find", "insert", "exists", "attach", "commit",
                               "true", "false"}]
      /\ idx \in [Deliveries -> Nat] /\ target \in [Deliveries -> Incidents \cup {None}]
      /\ fresh \in [Deliveries -> SUBSET Incidents]
      /\ links \in [Deliveries -> SUBSET (Incidents \X Events)]
      /\ rpc \in [Requests -> {"idle", "select", "update", "commit", "200", "422", "500"}]
      /\ subject \in [Requests -> Incidents \cup {None}] /\ faults \in Nat
  BY <1>2
<1>6. FreshApart /\ RowLocks
  BY <1>2 DEF FreshApart, RowLocks
<1>7. \A j \in Incidents : Live(j) => Indexed(status[j])
  BY <1>2 DEF Live
<1>8. CASE age = 0
  <2>1. /\ status = [j \in Incidents |-> "none"] /\ key = [j \in Incidents |-> None]
        /\ evidence = {} /\ history = {}
    BY <1>1, <1>8
  <2>2. TypeOK
    BY <1>2, <1>4, <1>5, <2>1 DEF TypeOK
  <2>3. OneLive
    BY <1>7, <2>1 DEF OneLive, Indexed
  <2>4. TableOK /\ IncidentsHaveEvidence /\ SuccessorAfterResolution
    BY <2>1 DEF TableOK, IncidentsHaveEvidence, SuccessorAfterResolution
  <2>5. \A r \in Requests : RequestOK(r)
    BY <1>2, <2>1 DEF RequestOK
  <2> QED
    BY <1>3, <1>6, <2>2, <2>3, <2>4, <2>5 DEF IncidentsInv
<1>9. CASE age > 0
  <2>0. age \in 1..6 /\ LifeCycle[age] \in IncidentStatus
    BY <1>9, Statuses
  <2>1. /\ \A j \in Incidents : status[j] = IF j = i THEN LifeCycle[age] ELSE "none"
        /\ \A j \in Incidents : key[j] = IF j = i THEN KeysOf[e][1] ELSE None
        /\ status \in [Incidents -> IncidentStatus \cup {"none"}]
        /\ evidence = {<<i, e>>} /\ history = Past(i, age)
    BY <1>1, <1>9, <2>0
  <2>2. 1 \in DOMAIN KeysOf[e] /\ KeysOf[e][1] \in Keys /\ KeysOf[e][1] # None
    BY <1>1, <1>9, KeysOfEvent
  <2>3. history \subseteq HistoryRow
    BY <2>0, <2>1, PastRows
  <2>4. key \in [Incidents -> Keys \cup {None}]
    BY <1>1, <2>2
  <2>5. TypeOK
    BY <1>2, <1>4, <1>5, <2>1, <2>3, <2>4 DEF TypeOK
  <2>6. OneLive
    BY <1>7, <2>1 DEF OneLive, Indexed
  <2>7. TableOK
    <3>1. "none" \notin IncidentStatus
      BY Statuses
    <3> QED
      BY <2>0, <2>1, <2>2, <3>1, PastRows DEF TableOK, Reached
  <2>8. IncidentsHaveEvidence
    BY <2>1, <2>2 DEF IncidentsHaveEvidence
  <2>9. SuccessorAfterResolution
    BY <2>1 DEF SuccessorAfterResolution
  <2>10. ASSUME NEW r \in Requests PROVE RequestOK(r)
    <3>1. \A h \in history : h.id # r
      BY <2>0, <2>1, PastRows, IncidentsAssumptions DEF IncidentsAssumptions
    <3> QED
      BY <1>2, <3>1 DEF RequestOK
  <2> QED
    BY <1>3, <1>6, <2>5, <2>6, <2>7, <2>8, <2>9, <2>10 DEF IncidentsInv
<1> QED
  BY <1>8, <1>9

-----------------------------------------------------------------------------
(* The rule loop of a delivery                                             *)

LEMMA JobKeys ==
    ASSUME TypeOK, NEW d \in Deliveries
    PROVE  /\ job[d] \in Events /\ Len(KeysOfJob(d)) \in Nat
           /\ DOMAIN KeysOfJob(d) = 1 .. Len(KeysOfJob(d))
           /\ \A n \in 1 .. Len(KeysOfJob(d)) : KeysOfJob(d)[n] \in Keys /\ KeysOfJob(d)[n] # None
BY KeysOfEvent DEF TypeOK, KeysOfJob

LEMMA NextRule ==
    ASSUME TypeOK, NEW d \in Deliveries, NEW n \in 1 .. Len(KeysOfJob(d)) + 1
    PROVE  \/ RuleLoop(d, n) = "find" /\ n <= Len(KeysOfJob(d))
           \/ RuleLoop(d, n) = "commit" /\ n = Len(KeysOfJob(d)) + 1
BY JobKeys DEF RuleLoop, KeysOfJob

LEMMA StartKeeps == ASSUME IncidentsInv, NEW d \in Deliveries, Start(d) PROVE IncidentsInv'
<1>1. /\ pc[d] = "idle" /\ pc' = [pc EXCEPT ![d] = RuleLoop(d, 1)]
      /\ UNCHANGED <<tableVars, job, idx, target, fresh, links, requestVars, faults>>
  BY DEF Start
<1>2. TypeOK /\ DeliveryOK(d) /\ Len(KeysOfJob(d)) \in Nat /\ idx[d] = 1
  BY <1>1, JobKeys DEF IncidentsInv, DeliveryOK, LoopOK
<1>3. \/ RuleLoop(d, 1) = "find" /\ 1 <= Len(KeysOfJob(d))
      \/ RuleLoop(d, 1) = "commit" /\ 1 = Len(KeysOfJob(d)) + 1
  BY <1>2, NextRule
<1>4. pc'[d] = RuleLoop(d, 1) /\ \A x \in Deliveries \ {d} : pc'[x] = pc[x]
  BY <1>1, <1>2 DEF TypeOK
<1>5. TypeOK'
  BY <1>1, <1>2, <1>3 DEF TypeOK, tableVars, requestVars, HistoryRow
<1>6. fresh[d] = {} /\ links[d] = {}
  BY <1>1, <1>2 DEF DeliveryOK, LoopOK, Open
<1>7. DeliveryOK(d)'
  <2>1. LoopOK(d)'
    BY <1>1, <1>2, <1>3, <1>4 DEF LoopOK, KeysOfJob, Open
  <2>2. TargetOK(d)' /\ TrueOK(d)'
    BY <1>3, <1>4 DEF TargetOK, TrueOK
  <2>3. RulesDone(d)'
    BY <1>1, <1>2 DEF RulesDone
  <2>4. LinksOK(d)' /\ LinksDistinct(d)' /\ FreshOK(d)'
    BY <1>1, <1>6 DEF LinksOK, LinksDistinct, FreshOK
  <2> QED
    BY <2>1, <2>2, <2>3, <2>4 DEF DeliveryOK
<1> QED
  BY <1>1, <1>4, <1>5, <1>7, DeliveryReads

LEMMA FindKeeps == ASSUME IncidentsInv, NEW d \in Deliveries, Find(d) PROVE IncidentsInv'
<1>1. /\ pc[d] = "find"
      /\ UNCHANGED <<tableVars, job, idx, fresh, links, requestVars, faults>>
  BY DEF Find
<1>2. TypeOK /\ DeliveryOK(d)
  BY DEF IncidentsInv
<1>3. \/ /\ pc' = [pc EXCEPT ![d] = "exists"]
         /\ \E i \in Incidents : /\ target' = [target EXCEPT ![d] = i]
                                 /\ key[i] = KeyAt(d) /\ status[i] \in ActiveStatus
      \/ pc' = [pc EXCEPT ![d] = "insert"] /\ target' = target
  <2>1. CASE OpenWith(KeyAt(d)) # {}
    <3> DEFINE i == CHOOSE i \in OpenWith(KeyAt(d)) : TRUE
    <3>1. i \in OpenWith(KeyAt(d))
      BY <2>1
    <3>2. target' = [target EXCEPT ![d] = i] /\ pc' = [pc EXCEPT ![d] = "exists"]
      BY <2>1 DEF Find
    <3> HIDE DEF i
    <3> QED
      BY <3>1, <3>2 DEF OpenWith
  <2>2. CASE OpenWith(KeyAt(d)) = {}
    BY <2>2 DEF Find
  <2> QED
    BY <2>1, <2>2
<1>4. /\ pc'[d] \in {"exists", "insert"}
      /\ pc'[d] = "exists" => /\ target'[d] \in Incidents /\ key[target'[d]] = KeyAt(d)
                              /\ status[target'[d]] # "none"
      /\ \A x \in Deliveries \ {d} : pc'[x] = pc[x] /\ target'[x] = target[x]
  BY <1>2, <1>3 DEF TypeOK, ActiveStatus
<1>5. TypeOK'
  BY <1>1, <1>2, <1>3 DEF TypeOK, tableVars, requestVars, HistoryRow
<1>6. DeliveryOK(d)'
  <2>1. LoopOK(d)'
    BY <1>1, <1>2, <1>4 DEF DeliveryOK, LoopOK, KeysOfJob, Open
  <2>2. TargetOK(d)'
    BY <1>1, <1>4 DEF TargetOK, Visible, KeyAt, tableVars
  <2>3. RulesDone(d)' /\ TrueOK(d)'
    BY <1>1, <1>2, <1>4 DEF DeliveryOK, RulesDone, TrueOK, KeysOfJob, tableVars, Open
  <2>4. LinksOK(d)' /\ LinksDistinct(d)'
    BY <1>1, <1>2 DEF DeliveryOK, LinksOK, LinksDistinct, KeysOfJob, tableVars, Visible
  <2>5. FreshOK(d)'
    BY <1>1, <1>2 DEF DeliveryOK, FreshOK, tableVars
  <2> QED
    BY <2>1, <2>2, <2>3, <2>4, <2>5 DEF DeliveryOK
<1> QED
  BY <1>1, <1>4, <1>5, <1>6, DeliveryReads

\* An event that is evidence already is done with the rule.
\* The event is evidence of the incident of the rule, and the rule is done.
LEMMA SkipKeeps ==
    ASSUME IncidentsInv, NEW d \in Deliveries, pc[d] \in {"exists", "attach"}, Skip(d),
           faults' = faults
    PROVE  IncidentsInv'
<1>1. UNCHANGED <<tableVars, job, target, fresh, links, requestVars, faults>>
  BY DEF Skip
<1>2. TypeOK /\ DeliveryOK(d) /\ Len(KeysOfJob(d)) \in Nat /\ job[d] \in Events
  BY JobKeys DEF IncidentsInv
<1>3. idx[d] \in 1 .. Len(KeysOfJob(d)) /\ idx[d] + 1 \in 1 .. Len(KeysOfJob(d)) + 1
  BY <1>2 DEF DeliveryOK, LoopOK
<1>4. /\ target[d] \in Incidents /\ key[target[d]] = KeysOfJob(d)[idx[d]] /\ Visible(d, target[d])
  BY <1>2, <1>3 DEF DeliveryOK, TargetOK, KeyAt, KeysOfJob
<1>5. /\ <<target[d], job[d]>> \in evidence
      /\ idx' = [idx EXCEPT ![d] = @ + 1]
      /\ pc' = [pc EXCEPT ![d] = RuleLoop(d, idx[d] + 1)]
  BY DEF Skip
<1>6. \/ RuleLoop(d, idx[d] + 1) = "find" /\ idx[d] + 1 <= Len(KeysOfJob(d))
      \/ RuleLoop(d, idx[d] + 1) = "commit" /\ idx[d] + 1 = Len(KeysOfJob(d)) + 1
  BY <1>2, <1>3, NextRule
<1>7. /\ pc'[d] = RuleLoop(d, idx[d] + 1) /\ idx'[d] = idx[d] + 1
      /\ \A x \in Deliveries \ {d} : pc'[x] = pc[x] /\ idx'[x] = idx[x]
  BY <1>2, <1>5 DEF TypeOK
<1>8. idx' \in [Deliveries -> Nat]
  BY <1>2, <1>5 DEF TypeOK
<1>9. TypeOK'
  BY <1>1, <1>2, <1>5, <1>6, <1>8 DEF TypeOK, tableVars, requestVars, HistoryRow
<1>10. LoopOK(d)'
  BY <1>1, <1>2, <1>3, <1>6, <1>7 DEF DeliveryOK, LoopOK, KeysOfJob, Open
<1>11. TargetOK(d)' /\ TrueOK(d)'
  BY <1>6, <1>7 DEF TargetOK, TrueOK
<1>12. RulesDone(d)'
  <2>1. \A n \in 1 .. idx'[d] - 1 : n \in 1 .. idx[d] - 1 \/ n = idx[d]
    BY <1>3, <1>7
  <2>2. \A n \in 1 .. idx[d] - 1 : \E i \in Incidents :
           key[i] = KeysOfJob(d)[n] /\ <<i, job[d]>> \in evidence \cup links[d]
    BY <1>1, <1>2 DEF DeliveryOK, RulesDone, Open
  <2>3. \A n \in 1 .. idx'[d] - 1 : \E i \in Incidents :
           key[i] = KeysOfJob(d)[n] /\ <<i, job[d]>> \in evidence \cup links[d]
    BY <1>4, <1>5, <2>1, <2>2
  <2> QED
    BY <1>1, <2>3 DEF RulesDone, KeysOfJob, tableVars
<1>13. LinksOK(d)'
  <2>1. LinksOK(d)
    BY <1>2 DEF DeliveryOK
  <2>2. \A n \in 1 .. idx[d] - 1 : n \in 1 .. idx'[d] - 1
    BY <1>3, <1>7
  <2> QED
    BY <1>1, <2>1, <2>2 DEF LinksOK, KeysOfJob, Visible, tableVars
<1>14. LinksDistinct(d)'
  BY <1>1, <1>2 DEF DeliveryOK, LinksDistinct, tableVars
<1>15. FreshOK(d)'
  <2>1. status[target[d]] # "none"
    BY <1>2, <1>4, <1>5 DEF IncidentsInv, TableOK
  <2> QED
    BY <1>1, <1>2, <2>1 DEF DeliveryOK, FreshOK, tableVars
<1>16. DeliveryOK(d)'
  BY <1>10, <1>11, <1>12, <1>13, <1>14, <1>15 DEF DeliveryOK
<1> QED
  BY <1>1, <1>7, <1>9, <1>16, DeliveryReads

LEMMA ExistsKeeps == ASSUME IncidentsInv, NEW d \in Deliveries, Exists(d) PROVE IncidentsInv'
<1>1. /\ pc[d] = "exists"
      /\ UNCHANGED <<tableVars, job, target, fresh, links, requestVars, faults>>
  BY DEF Exists, Skip
<1>2. TypeOK /\ DeliveryOK(d) /\ Len(KeysOfJob(d)) \in Nat /\ job[d] \in Events
  BY JobKeys DEF IncidentsInv
<1>3. idx[d] \in 1 .. Len(KeysOfJob(d)) /\ idx[d] + 1 \in 1 .. Len(KeysOfJob(d)) + 1
  BY <1>1, <1>2 DEF DeliveryOK, LoopOK
<1>4. /\ target[d] \in Incidents /\ key[target[d]] = KeysOfJob(d)[idx[d]] /\ Visible(d, target[d])
  BY <1>1, <1>2 DEF DeliveryOK, TargetOK, KeyAt, KeysOfJob
<1>5. CASE Skip(d)
  BY <1>1, <1>5, SkipKeeps
<1>6. CASE pc' = [pc EXCEPT ![d] = "attach"] /\ idx' = idx
  <2>1. pc'[d] = "attach" /\ \A x \in Deliveries \ {d} : pc'[x] = pc[x]
    BY <1>2, <1>6 DEF TypeOK
  <2>2. TypeOK'
    BY <1>1, <1>2, <1>6 DEF TypeOK, tableVars, requestVars, HistoryRow
  <2>3. LoopOK(d)'
    BY <1>1, <1>2, <1>6, <2>1 DEF DeliveryOK, LoopOK, KeysOfJob, Open
  <2>4. TargetOK(d)' /\ TrueOK(d)'
    BY <1>1, <1>2, <1>6, <2>1 DEF DeliveryOK, TargetOK, TrueOK, Visible, KeyAt, tableVars
  <2>5. RulesDone(d)'
    BY <1>1, <1>2, <1>6 DEF DeliveryOK, RulesDone, KeysOfJob, tableVars, Open
  <2>6. LinksOK(d)' /\ LinksDistinct(d)'
    BY <1>1, <1>2, <1>6 DEF DeliveryOK, LinksOK, LinksDistinct, KeysOfJob, tableVars, Visible
  <2>7. FreshOK(d)'
    BY <1>1, <1>2, <2>1 DEF DeliveryOK, FreshOK, tableVars
  <2>8. DeliveryOK(d)'
    BY <2>3, <2>4, <2>5, <2>6, <2>7 DEF DeliveryOK
  <2> QED
    BY <1>1, <1>6, <2>1, <2>2, <2>8, DeliveryReads
<1> QED
  BY <1>5, <1>6 DEF Exists

-----------------------------------------------------------------------------
(* The writes of a delivery                                                *)

LEMMA FreshIsUncommitted ==
    ASSUME IncidentsInv, NEW d \in Deliveries, NEW i \in fresh[d]
    PROVE  /\ i \in Incidents /\ status[i] = "none" /\ key[i] # None
           /\ \A x \in Deliveries \ {d} : i \notin fresh[x]
BY DEF IncidentsInv, TypeOK, DeliveryOK, FreshOK, FreshApart

LEMMA LiveHasKey ==
    ASSUME IncidentsInv, NEW i \in Incidents, Live(i) PROVE key[i] # None
<1>1. ASSUME status[i] # "none" PROVE key[i] # None
  BY <1>1 DEF IncidentsInv, TableOK
<1>2. CASE Indexed(status[i])
  BY <1>1, <1>2 DEF Indexed
<1>3. CASE \E d \in Deliveries : i \in fresh[d]
  BY <1>3, FreshIsUncommitted
<1>4. CASE \E r \in Requests : rpc[r] = "commit" /\ subject[r] = i /\ Indexed(wrote[r])
  BY <1>1, <1>4 DEF IncidentsInv, RequestOK
<1> QED
  BY <1>2, <1>3, <1>4 DEF Live

LEMMA AbortKeeps ==
    ASSUME IncidentsInv, NEW d \in Deliveries, Abort(d), faults' \in Nat PROVE IncidentsInv'
<1>1. /\ pc' = [pc EXCEPT ![d] = "false"]
      /\ key' = [i \in Incidents |-> IF i \in fresh[d] THEN None ELSE key[i]]
      /\ fresh' = [fresh EXCEPT ![d] = {}] /\ links' = [links EXCEPT ![d] = {}]
      /\ UNCHANGED <<status, evidence, history, job, idx, target, requestVars>>
  BY DEF Abort
<1>2. TypeOK /\ DeliveryOK(d)
  BY DEF IncidentsInv
<1>3. /\ pc'[d] = "false" /\ fresh'[d] = {} /\ links'[d] = {}
      /\ \A x \in Deliveries \ {d} :
            pc'[x] = pc[x] /\ fresh'[x] = fresh[x] /\ links'[x] = links[x]
  BY <1>1, <1>2 DEF TypeOK
<1>4. \A i \in Incidents : i \notin fresh[d] => key'[i] = key[i]
  BY <1>1
<1>5. \A i \in Incidents : status[i] # "none" => i \notin fresh[d]
  BY FreshIsUncommitted
<1>6. key' \in [Incidents -> Keys \cup {None}]
  BY <1>1, <1>2 DEF TypeOK
<1>7. /\ fresh' \in [Deliveries -> SUBSET Incidents]
      /\ links' \in [Deliveries -> SUBSET (Incidents \X Events)]
  BY <1>1, <1>2 DEF TypeOK
<1>8. TypeOK'
  BY <1>1, <1>2, <1>6, <1>7 DEF TypeOK, requestVars, HistoryRow
<1>9. Grows
  BY <1>1, <1>4, <1>5 DEF Grows
<1>10. DeliveryOK(d)'
  <2>1. LoopOK(d)'
    BY <1>1, <1>2, <1>3 DEF DeliveryOK, LoopOK, KeysOfJob
  <2>2. TargetOK(d)' /\ RulesDone(d)' /\ TrueOK(d)'
    BY <1>3 DEF TargetOK, RulesDone, TrueOK, Open
  <2>3. LinksOK(d)' /\ LinksDistinct(d)' /\ FreshOK(d)'
    BY <1>3 DEF LinksOK, LinksDistinct, FreshOK
  <2> QED
    BY <2>1, <2>2, <2>3 DEF DeliveryOK
<1>11. ASSUME NEW x \in Deliveries \ {d} PROVE Untouched(x)
  <2>1. \A i \in fresh[x] : i \in Incidents /\ i \notin fresh[d]
    BY FreshIsUncommitted
  <2> QED
    BY <1>1, <1>3, <1>4, <2>1 DEF Untouched
<1>12. OneLive'
  <2>1. ASSUME NEW i \in Incidents, Live(i)' PROVE Live(i) /\ key'[i] = key[i]
    <3>1. CASE Indexed(status'[i])
      BY <1>1, <1>4, <1>5, <3>1 DEF Indexed, Live
    <3>2. CASE \E x \in Deliveries : i \in fresh'[x]
      <4>1. PICK x \in Deliveries \ {d} : i \in fresh[x]
        BY <1>3, <3>2
      <4>2. i \notin fresh[d]
        BY <4>1, FreshIsUncommitted
      <4> QED
        BY <1>4, <4>1, <4>2 DEF Live
    <3>3. CASE \E r \in Requests : rpc'[r] = "commit" /\ subject'[r] = i /\ Indexed(wrote'[r])
      <4>1. PICK r \in Requests : rpc[r] = "commit" /\ subject[r] = i /\ Indexed(wrote[r])
        BY <1>1, <3>3 DEF requestVars
      <4>2. status[i] # "none"
        BY <4>1 DEF IncidentsInv, RequestOK
      <4> QED
        BY <1>4, <1>5, <4>1, <4>2 DEF Live
    <3> QED
      BY <2>1, <3>1, <3>2, <3>3 DEF Live
  <2> QED
    BY <2>1, LiveStays
<1>13. FreshApart'
  BY <1>3 DEF IncidentsInv, FreshApart
<1>14. TableOK'
  BY <1>1, <1>4, <1>5 DEF IncidentsInv, TableOK, Reached
<1>15. IncidentsHaveEvidence'
  BY <1>1, <1>4, <1>5 DEF IncidentsInv, IncidentsHaveEvidence
<1>16. SuccessorAfterResolution'
  BY <1>1, <1>4, <1>5 DEF IncidentsInv, SuccessorAfterResolution
<1> QED
  BY <1>1, <1>8, <1>9, <1>10, <1>11, <1>12, <1>13, <1>14, <1>15, <1>16, DeliveryMoves

LEMMA DeliveryFaultKeeps ==
    ASSUME IncidentsInv, NEW d \in Deliveries, DeliveryFault(d) PROVE IncidentsInv'
<1>1. Abort(d) /\ faults' \in Nat
  BY DEF DeliveryFault, IncidentsInv, TypeOK
<1> QED
  BY <1>1, AbortKeeps

\* The key of the current rule is not that of a rule behind.
LEMMA NotBehind ==
    ASSUME IncidentsInv, NEW d \in Deliveries, idx[d] <= Len(KeysOfJob(d)),
           NEW n \in 1 .. idx[d] - 1
    PROVE  KeysOfJob(d)[n] # KeyAt(d)
<1>1. /\ idx[d] \in 1 .. Len(KeysOf[job[d]]) /\ n \in 1 .. Len(KeysOf[job[d]])
      /\ job[d] \in Events /\ n # idx[d]
  BY JobKeys DEF IncidentsInv, DeliveryOK, LoopOK, KeysOfJob
<1> QED
  BY <1>1, KeysApart DEF KeyAt, KeysOfJob

\* The new row has a key that no live incident has: the unique index made the
\* delivery wait for, or collide with, any other.
LEMMA InsertIsAlone ==
    ASSUME IncidentsInv, NEW d \in Deliveries, pc[d] = "insert",
           ~ HeldByDelivery(KeyAt(d), d), ~ HeldByRequest(KeyAt(d), None),
           ~ Taken(KeyAt(d), None), NEW i \in Incidents, key[i] = KeyAt(d)
    PROVE  ~ Live(i)
<1>1. None \notin Incidents /\ None \notin Requests
  BY IncidentsAssumptions DEF IncidentsAssumptions
<1>2. ~ Indexed(status[i])
  BY <1>1 DEF Taken
<1>3. \A x \in Deliveries \ {d} : i \notin fresh[x]
  BY DEF HeldByDelivery
<1>4. i \notin fresh[d]
  <2>1. SUFFICES ASSUME i \in fresh[d] PROVE FALSE
    OBVIOUS
  <2>2. <<i, job[d]>> \in links[d] /\ job[d] \in Events /\ idx[d] <= Len(KeysOfJob(d))
    BY <2>1 DEF IncidentsInv, TypeOK, DeliveryOK, FreshOK, LoopOK
  <2>3. PICK n \in 1 .. idx[d] - 1 : key[i] = KeysOfJob(d)[n]
    BY <2>2 DEF IncidentsInv, DeliveryOK, LinksOK
  <2> QED
    BY <2>2, <2>3, NotBehind
<1>5. \A r \in Requests : ~ (rpc[r] = "commit" /\ subject[r] = i /\ Indexed(wrote[r]))
  BY <1>1 DEF HeldByRequest
<1> QED
  BY <1>2, <1>3, <1>4, <1>5 DEF Live

LEMMA InsertKeeps == ASSUME IncidentsInv, NEW d \in Deliveries, Insert(d) PROVE IncidentsInv'
<1>1. /\ pc[d] = "insert" /\ faults' = faults
      /\ ~ HeldByDelivery(KeyAt(d), d) /\ ~ HeldByRequest(KeyAt(d), None)
  BY DEF Insert, DeliveryWaits
<1>2. TypeOK /\ DeliveryOK(d) /\ faults' \in Nat
  BY <1>1 DEF IncidentsInv, TypeOK
<1>3. CASE Abort(d)
  BY <1>2, <1>3, AbortKeeps
<1>4. CASE ~ Abort(d)
  <2> DEFINE new == CHOOSE i \in Unused : TRUE
  <2>1. /\ ~ Taken(KeyAt(d), None) /\ new \in Unused
        /\ key' = [key EXCEPT ![new] = KeyAt(d)]
        /\ fresh' = [fresh EXCEPT ![d] = @ \cup {new}]
        /\ target' = [target EXCEPT ![d] = new]
        /\ pc' = [pc EXCEPT ![d] = "exists"]
        /\ UNCHANGED <<status, evidence, history, job, idx, links, requestVars>>
    BY <1>4 DEF Insert
  <2> HIDE DEF new
  <2>2. new \in Incidents /\ key[new] = None
    BY <2>1 DEF Unused
  <2>3. status[new] = "none" /\ \A x \in Deliveries : new \notin fresh[x]
    BY <2>2, FreshIsUncommitted DEF IncidentsInv, TableOK
  <2>4. /\ key'[new] = KeyAt(d) /\ \A i \in Incidents \ {new} : key'[i] = key[i]
        /\ fresh'[d] = fresh[d] \cup {new} /\ target'[d] = new /\ pc'[d] = "exists"
        /\ \A x \in Deliveries \ {d} :
              pc'[x] = pc[x] /\ fresh'[x] = fresh[x] /\ target'[x] = target[x]
    BY <1>2, <2>1, <2>2 DEF TypeOK
  <2>5. /\ idx[d] \in 1 .. Len(KeysOfJob(d)) /\ KeyAt(d) \in Keys /\ KeyAt(d) # None
        /\ KeyAt(d) = KeysOfJob(d)[idx[d]] /\ job[d] \in Events
    BY <1>1, <1>2, JobKeys DEF DeliveryOK, LoopOK, KeyAt, KeysOfJob
  <2>6. /\ key' \in [Incidents -> Keys \cup {None}]
        /\ fresh' \in [Deliveries -> SUBSET Incidents]
        /\ target' \in [Deliveries -> Incidents \cup {None}]
    BY <1>2, <2>1, <2>2, <2>5 DEF TypeOK
  <2>7. TypeOK'
    BY <1>1, <1>2, <2>1, <2>6 DEF TypeOK, requestVars, HistoryRow
  <2>8. Grows
    BY <2>1, <2>3, <2>4 DEF Grows
  <2>9. DeliveryOK(d)'
    <3>1. LoopOK(d)'
      BY <1>1, <1>2, <2>1, <2>4 DEF DeliveryOK, LoopOK, KeysOfJob, Open
    <3>2. TargetOK(d)' /\ TrueOK(d)'
      BY <2>1, <2>2, <2>4 DEF TargetOK, TrueOK, Visible, KeyAt
    <3>3. ASSUME NEW i \in Incidents, <<i, job[d]>> \in evidence \cup links[d]
          PROVE  i # new
      BY <1>2, <2>3, <2>5, <3>3 DEF IncidentsInv, TableOK, DeliveryOK, LinksOK, Visible
    <3>4. RulesDone(d)'
      <4>1. \A n \in 1 .. idx[d] - 1 : \E i \in Incidents :
               key[i] = KeysOfJob(d)[n] /\ <<i, job[d]>> \in evidence \cup links[d]
        BY <1>1, <1>2 DEF DeliveryOK, RulesDone, Open
      <4> QED
        BY <2>1, <2>4, <3>3, <4>1 DEF RulesDone, KeysOfJob
    <3>5. LinksOK(d)'
      <4>1. LinksOK(d)
        BY <1>2 DEF DeliveryOK
      <4> QED
        BY <2>1, <2>4, <3>3, <4>1 DEF LinksOK, KeysOfJob, Visible
    <3>6. LinksDistinct(d)'
      <4>1. LinksDistinct(d) /\ LinksOK(d)
        BY <1>2 DEF DeliveryOK
      <4> QED
        BY <2>1, <2>4, <3>3, <4>1 DEF LinksDistinct, LinksOK
    <3>7. FreshOK(d)'
      <4>1. \A i \in fresh[d] : i \in Incidents /\ status[i] = "none" /\ key[i] # None
                                /\ <<i, job[d]>> \in links[d]
        BY <1>1, <1>2 DEF DeliveryOK, FreshOK, TypeOK
      <4> QED
        BY <2>1, <2>3, <2>4, <2>5, <4>1 DEF FreshOK
    <3> QED
      BY <3>1, <3>2, <3>4, <3>5, <3>6, <3>7 DEF DeliveryOK
  <2>10. ASSUME NEW x \in Deliveries \ {d} PROVE Untouched(x)
    BY <1>2, <2>1, <2>3, <2>4 DEF Untouched, TypeOK
  <2>11. OneLive'
    <3>1. ASSUME NEW i \in Incidents \ {new}, Live(i)' PROVE Live(i)
      BY <2>1, <2>4, <3>1 DEF Live, requestVars
    <3>2. ASSUME NEW i \in Incidents \ {new}, Live(i), key'[i] = KeyAt(d) PROVE FALSE
      BY <1>1, <2>1, <2>4, <3>2, InsertIsAlone
    <3>3. OneLive
      BY DEF IncidentsInv
    <3>4. ASSUME NEW i \in Incidents, NEW j \in Incidents, i # j, key'[i] = key'[j],
                 Live(i)', Live(j)'
          PROVE  FALSE
      <4>1. CASE i = new
        BY <2>4, <3>1, <3>2, <3>4, <4>1
      <4>2. CASE j = new
        BY <2>4, <3>1, <3>2, <3>4, <4>2
      <4>3. CASE i # new /\ j # new
        BY <2>4, <3>1, <3>3, <3>4, <4>3 DEF OneLive
      <4> QED
        BY <4>1, <4>2, <4>3
    <3> QED
      BY <3>4 DEF OneLive
  <2>12. FreshApart'
    BY <2>3, <2>4 DEF IncidentsInv, FreshApart
  <2>13. TableOK'
    BY <2>1, <2>3, <2>4 DEF IncidentsInv, TableOK, Reached
  <2>14. IncidentsHaveEvidence'
    <3>1. IncidentsHaveEvidence /\ \A i \in Incidents : status[i] # "none" => key'[i] = key[i]
      BY <2>3, <2>4 DEF IncidentsInv
    <3> QED
      BY <2>1, <3>1 DEF IncidentsHaveEvidence
  <2>15. SuccessorAfterResolution'
    BY <2>1, <2>3, <2>4 DEF IncidentsInv, SuccessorAfterResolution
  <2> QED
    BY <2>1, <2>7, <2>8, <2>9, <2>10, <2>11, <2>12, <2>13, <2>14, <2>15, DeliveryMoves
<1> QED
  BY <1>3, <1>4

\* The evidence of the current rule is new, and the rule is done.
LEMMA AttachKeeps == ASSUME IncidentsInv, NEW d \in Deliveries, Attach(d) PROVE IncidentsInv'
<1>1. pc[d] = "attach" /\ faults' = faults
  BY DEF Attach
<1>2. TypeOK /\ DeliveryOK(d) /\ faults' \in Nat
  BY <1>1 DEF IncidentsInv, TypeOK
<1>3. CASE Abort(d)
  BY <1>2, <1>3, AbortKeeps
<1>4. CASE Skip(d)
  BY <1>1, <1>4, SkipKeeps
<1>5. CASE ~ Abort(d) /\ ~ Skip(d)
  <2> DEFINE new == <<target[d], job[d]>>
  <2>1. /\ new \notin evidence
        /\ links' = [links EXCEPT ![d] = @ \cup {new}]
        /\ idx' = [idx EXCEPT ![d] = @ + 1]
        /\ pc' = [pc EXCEPT ![d] = RuleLoop(d, idx[d] + 1)]
        /\ UNCHANGED <<tableVars, job, target, fresh, requestVars>>
    BY <1>5 DEF Attach
  <2>2. /\ idx[d] \in 1 .. Len(KeysOfJob(d)) /\ idx[d] + 1 \in 1 .. Len(KeysOfJob(d)) + 1
        /\ Len(KeysOfJob(d)) \in Nat /\ job[d] \in Events
    BY <1>1, <1>2, JobKeys DEF DeliveryOK, LoopOK
  <2>3. /\ target[d] \in Incidents /\ key[target[d]] = KeysOfJob(d)[idx[d]]
        /\ Visible(d, target[d]) /\ new \in Incidents \X Events
    BY <1>1, <1>2, <2>2 DEF DeliveryOK, TargetOK, KeyAt, KeysOfJob
  <2>4. \/ RuleLoop(d, idx[d] + 1) = "find" /\ idx[d] + 1 <= Len(KeysOfJob(d))
        \/ RuleLoop(d, idx[d] + 1) = "commit" /\ idx[d] + 1 = Len(KeysOfJob(d)) + 1
    BY <1>2, <2>2, NextRule
  <2>5. /\ pc'[d] = RuleLoop(d, idx[d] + 1) /\ idx'[d] = idx[d] + 1
        /\ links'[d] = links[d] \cup {new}
        /\ \A x \in Deliveries \ {d} :
              pc'[x] = pc[x] /\ idx'[x] = idx[x] /\ links'[x] = links[x]
    BY <1>2, <2>1 DEF TypeOK
  <2>6. /\ idx' \in [Deliveries -> Nat]
        /\ links' \in [Deliveries -> SUBSET (Incidents \X Events)]
    <3>1. links[d] \cup {new} \in SUBSET (Incidents \X Events)
      BY <1>2, <2>3 DEF TypeOK
    <3> QED
      BY <1>2, <2>1, <3>1 DEF TypeOK
  <2>7. TypeOK'
    BY <1>1, <1>2, <2>1, <2>4, <2>6 DEF TypeOK, tableVars, requestVars, HistoryRow
  <2>8. LoopOK(d)'
    BY <1>1, <1>2, <2>1, <2>2, <2>4, <2>5 DEF DeliveryOK, LoopOK, KeysOfJob, Open
  <2>9. TargetOK(d)' /\ TrueOK(d)'
    BY <2>4, <2>5 DEF TargetOK, TrueOK
  <2>10. \A n \in 1 .. idx'[d] - 1 : n \in 1 .. idx[d] - 1 \/ n = idx[d]
    BY <2>2, <2>5
  <2>11. \A n \in 1 .. idx[d] : n \in 1 .. idx'[d] - 1
    BY <2>2, <2>5
  <2>12. RulesDone(d)'
    <3>1. \A n \in 1 .. idx[d] - 1 : \E i \in Incidents :
             key[i] = KeysOfJob(d)[n] /\ <<i, job[d]>> \in evidence \cup links[d]
      BY <1>1, <1>2 DEF DeliveryOK, RulesDone, Open
    <3>2. \A n \in 1 .. idx'[d] - 1 : \E i \in Incidents :
             key[i] = KeysOfJob(d)[n] /\ <<i, job[d]>> \in evidence \cup links'[d]
      BY <2>3, <2>5, <2>10, <3>1
    <3> QED
      BY <2>1, <3>2 DEF RulesDone, KeysOfJob, tableVars
  <2>13. ASSUME NEW i \in Incidents, NEW e \in Events, <<i, e>> \in links'[d]
         PROVE  \/ <<i, e>> \in links[d]
                \/ i = target[d] /\ e = job[d] /\ key[i] = KeysOfJob(d)[idx[d]]
    BY <2>3, <2>5, <2>13
  <2>14. LinksOK(d)'
    <3>1. LinksOK(d) /\ idx[d] \in 1 .. idx[d] /\ \A n \in 1 .. idx[d] - 1 : n \in 1 .. idx[d]
      BY <1>2, <2>2 DEF DeliveryOK
    <3>2. ASSUME NEW i \in Incidents, NEW e \in Events, <<i, e>> \in links'[d]
          PROVE  /\ e = job[d] /\ Visible(d, i)
                 /\ \E n \in 1 .. idx'[d] - 1 : key[i] = KeysOfJob(d)[n]
      BY <2>3, <2>11, <2>13, <3>1, <3>2 DEF LinksOK
    <3> QED
      BY <2>1, <3>2 DEF LinksOK, KeysOfJob, Visible, tableVars
  <2>15. LinksDistinct(d)'
    <3>1. ASSUME NEW i \in Incidents, NEW e \in Events, <<i, e>> \in links[d]
          PROVE  key[i] # KeysOfJob(d)[idx[d]]
      <4>1. PICK n \in 1 .. idx[d] - 1 : key[i] = KeysOfJob(d)[n]
        BY <1>2, <3>1 DEF DeliveryOK, LinksOK
      <4>2. KeysOfJob(d)[n] # KeyAt(d)
        BY <2>2, <4>1, NotBehind
      <4> QED
        BY <4>1, <4>2 DEF KeyAt, KeysOfJob
    <3>2. LinksDistinct(d)
      BY <1>2 DEF DeliveryOK
    <3>3. ASSUME NEW i \in Incidents, NEW j \in Incidents, NEW e \in Events,
                 <<i, e>> \in links'[d], <<j, e>> \in links'[d], key[i] = key[j]
          PROVE  i = j
      BY <2>13, <3>1, <3>2, <3>3 DEF LinksDistinct
    <3> QED
      BY <2>1, <3>3 DEF LinksDistinct, tableVars
  <2>16. FreshOK(d)'
    BY <1>1, <1>2, <2>1, <2>5 DEF DeliveryOK, FreshOK, tableVars
  <2>17. DeliveryOK(d)'
    BY <2>8, <2>9, <2>12, <2>14, <2>15, <2>16 DEF DeliveryOK
  <2> QED
    BY <2>1, <2>5, <2>7, <2>17, DeliveryReads
<1> QED
  BY <1>3, <1>4, <1>5

\* A committed incident that is not in the index any more was resolved.
LEMMA InactiveWasResolved ==
    ASSUME IncidentsInv, NEW i \in Incidents, status[i] # "none", ~ Indexed(status[i])
    PROVE  \E h \in history : h.incident = i /\ h.to = "resolved"
<1>1. status[i] \in {"resolved", "closed"} /\ Reached(i, status[i])
  BY DEF IncidentsInv, TableOK, Indexed
<1>2. ASSUME NEW h \in history, h.incident = i, h.to = "closed"
      PROVE  \E g \in history : g.incident = i /\ g.to = "resolved"
  <2>1. Reached(i, h.from) /\ MayMove(h.from, h.to)
    BY <1>2 DEF IncidentsInv, TableOK
  <2>2. h.from = "resolved"
    BY <1>2, <2>1, Moves
  <2> QED
    BY <2>1, <2>2 DEF Reached
<1> QED
  BY <1>1, <1>2 DEF Reached

LEMMA CommitKeeps == ASSUME IncidentsInv, NEW d \in Deliveries, Commit(d) PROVE IncidentsInv'
<1>1. /\ pc[d] = "commit"
      /\ status' = [i \in Incidents |-> IF i \in fresh[d] THEN "open" ELSE status[i]]
      /\ evidence' = evidence \cup links[d]
      /\ fresh' = [fresh EXCEPT ![d] = {}] /\ links' = [links EXCEPT ![d] = {}]
      /\ UNCHANGED <<key, history, job, idx, target, requestVars>>
  BY DEF Commit
<1>2. TypeOK /\ DeliveryOK(d)
  BY DEF IncidentsInv
<1>3. faults' \in Nat /\ \E a \in {"true", "false"} : pc' = [pc EXCEPT ![d] = a]
  BY <1>2 DEF Commit, TypeOK
<1>4. /\ pc'[d] \in {"true", "false"} /\ fresh'[d] = {} /\ links'[d] = {}
      /\ \A x \in Deliveries \ {d} :
            pc'[x] = pc[x] /\ fresh'[x] = fresh[x] /\ links'[x] = links[x]
  BY <1>1, <1>2, <1>3 DEF TypeOK
<1>5. /\ \A i \in Incidents : i \notin fresh[d] => status'[i] = status[i]
      /\ \A i \in fresh[d] : i \in Incidents /\ status'[i] = "open" /\ status[i] = "none"
  BY <1>1, FreshIsUncommitted
<1>6. /\ status' \in [Incidents -> IncidentStatus \cup {"none"}]
      /\ fresh' \in [Deliveries -> SUBSET Incidents]
      /\ links' \in [Deliveries -> SUBSET (Incidents \X Events)]
      /\ evidence' \subseteq Incidents \X Events
      /\ pc' \in [Deliveries -> {"idle", "find", "insert", "exists", "attach", "commit",
                                "true", "false"}]
  BY <1>1, <1>2, <1>3, Statuses DEF TypeOK
<1>7. TypeOK'
  BY <1>1, <1>2, <1>3, <1>6 DEF TypeOK, requestVars, HistoryRow
<1>8. Grows /\ \A i \in Incidents : status[i] # "none" => status'[i] = status[i]
  BY <1>1, <1>5 DEF Grows
<1>9. idx[d] = Len(KeysOfJob(d)) + 1 /\ idx[d] - 1 = Len(KeysOfJob(d))
  BY <1>1, <1>2, JobKeys DEF DeliveryOK, LoopOK
<1>10. DeliveryOK(d)'
  <2>1. LoopOK(d)'
    BY <1>1, <1>2, <1>4 DEF DeliveryOK, LoopOK, KeysOfJob
  <2>2. TargetOK(d)' /\ RulesDone(d)'
    BY <1>4 DEF TargetOK, RulesDone, Open
  <2>3. LinksOK(d)' /\ LinksDistinct(d)' /\ FreshOK(d)'
    BY <1>4 DEF LinksOK, LinksDistinct, FreshOK
  <2>4. TrueOK(d)'
    <3>1. \A n \in 1 .. idx[d] - 1 : \E i \in Incidents :
             key[i] = KeysOfJob(d)[n] /\ <<i, job[d]>> \in evidence \cup links[d]
      BY <1>1, <1>2 DEF DeliveryOK, RulesDone, Open
    <3>2. DOMAIN KeysOfJob(d) = 1 .. Len(KeysOfJob(d))
      BY <1>2, JobKeys
    <3> QED
      BY <1>1, <1>9, <3>1, <3>2 DEF TrueOK, KeysOfJob
  <2> QED
    BY <2>1, <2>2, <2>3, <2>4 DEF DeliveryOK
<1>11. ASSUME NEW x \in Deliveries \ {d} PROVE Untouched(x)
  <2>1. \A i \in fresh[x] : i \in Incidents /\ i \notin fresh[d]
    BY FreshIsUncommitted
  <2> QED
    BY <1>1, <1>4, <1>5, <2>1 DEF Untouched
<1>12. OneLive'
  <2>1. ASSUME NEW i \in Incidents, Live(i)' PROVE Live(i) /\ key'[i] = key[i]
    <3>1. CASE Indexed(status'[i])
      BY <1>1, <1>5, <3>1 DEF Live
    <3>2. CASE \E x \in Deliveries : i \in fresh'[x]
      BY <1>1, <1>4, <3>2 DEF Live
    <3>3. CASE \E r \in Requests : rpc'[r] = "commit" /\ subject'[r] = i /\ Indexed(wrote'[r])
      BY <1>1, <3>3 DEF Live, requestVars
    <3> QED
      BY <2>1, <3>1, <3>2, <3>3 DEF Live
  <2> QED
    BY <2>1, LiveStays
<1>13. FreshApart'
  BY <1>4 DEF IncidentsInv, FreshApart
<1>14. ASSUME NEW i \in Incidents, NEW e \in Events, <<i, e>> \in links[d]
       PROVE  Visible(d, i) /\ e = job[d]
                /\ \E n \in DOMAIN KeysOf[e] : KeysOf[e][n] = key[i]
  <2>1. e = job[d] /\ Visible(d, i) /\ \E n \in 1 .. idx[d] - 1 : key[i] = KeysOfJob(d)[n]
    BY <1>2, <1>14 DEF DeliveryOK, LinksOK
  <2>2. DOMAIN KeysOfJob(d) = 1 .. idx[d] - 1
    BY <1>2, <1>9, JobKeys
  <2> QED
    BY <2>1, <2>2 DEF KeysOfJob
<1>15. TableOK'
  <2>1. ASSUME NEW i \in Incidents, status'[i] # "none"
        PROVE  key'[i] # None /\ Reached(i, status'[i])
    BY <1>1, <1>5, <2>1, FreshIsUncommitted DEF IncidentsInv, TableOK, Reached
  <2>2. ASSUME NEW i \in Incidents, NEW e \in Events, <<i, e>> \in evidence'
        PROVE  status'[i] # "none"
    BY <1>1, <1>5, <1>14, <2>2 DEF IncidentsInv, TableOK, Visible
  <2> QED
    BY <1>1, <2>1, <2>2 DEF IncidentsInv, TableOK, Reached
<1>16. IncidentsHaveEvidence'
  <2>1. ASSUME NEW i \in fresh[d]
        PROVE  \E e \in Events : /\ <<i, e>> \in evidence'
                                /\ \E n \in DOMAIN KeysOf[e] : KeysOf[e][n] = key[i]
    <3>1. <<i, job[d]>> \in links[d] /\ job[d] \in Events /\ i \in Incidents
      BY <1>1, <1>2 DEF DeliveryOK, FreshOK, TypeOK
    <3> QED
      BY <1>1, <1>14, <3>1
  <2> QED
    BY <1>1, <1>5, <2>1 DEF IncidentsInv, IncidentsHaveEvidence
<1>17. SuccessorAfterResolution'
  <2>1. ASSUME NEW i \in fresh[d], NEW j \in Incidents, i # j, key[i] = key[j],
               status'[j] # "none"
        PROVE  \E h \in history : h.incident = j /\ h.to = "resolved"
    <3>1. Live(i) /\ i \in Incidents
      BY <1>5 DEF Live
    <3>2. ~ Live(j)
      BY <2>1, <3>1 DEF IncidentsInv, OneLive
    <3>3. j \notin fresh[d] /\ ~ Indexed(status[j])
      BY <3>2 DEF Live
    <3> QED
      BY <1>5, <2>1, <3>3, InactiveWasResolved
  <2>2. ASSUME NEW i \in Incidents, NEW j \in Incidents, i # j, key[i] = key[j],
               status'[i] # "none", status'[j] # "none"
        PROVE  \E h \in history : h.incident \in {i, j} /\ h.to = "resolved"
    <3>1. CASE i \in fresh[d]
      BY <2>1, <2>2, <3>1
    <3>2. CASE j \in fresh[d]
      BY <2>1, <2>2, <3>2
    <3>3. CASE i \notin fresh[d] /\ j \notin fresh[d]
      <4>1. SuccessorAfterResolution /\ status[i] # "none" /\ status[j] # "none"
        BY <1>5, <2>2, <3>3 DEF IncidentsInv
      <4> QED
        BY <2>2, <4>1 DEF SuccessorAfterResolution
    <3> QED
      BY <3>1, <3>2, <3>3
  <2> QED
    BY <1>1, <2>2 DEF SuccessorAfterResolution
<1> QED
  BY <1>1, <1>7, <1>8, <1>10, <1>11, <1>12, <1>13, <1>15, <1>16, <1>17, DeliveryMoves

-----------------------------------------------------------------------------
(* The steps of a request                                                  *)

\* The life cycle decides on the status read: the request goes on or is refused.
LEMMA ReadKeeps == ASSUME IncidentsInv, NEW r \in Requests, Read(r) PROVE IncidentsInv'
<1>1. rpc[r] = "idle" /\ UNCHANGED <<tableVars, deliveryVars, seen, wrote, faults>>
  BY DEF Read
<1>2. TypeOK /\ RequestOK(r)
  BY DEF IncidentsInv
<1>3. PICK i \in Incidents, s \in IncidentStatus :
         /\ status[i] # "none"
         /\ \/ /\ MayMove(status[i], s)
               /\ rpc' = [rpc EXCEPT ![r] = "select"]
               /\ subject' = [subject EXCEPT ![r] = i]
               /\ from' = [from EXCEPT ![r] = status[i]]
               /\ to' = [to EXCEPT ![r] = s]
            \/ /\ ~ MayMove(status[i], s)
               /\ rpc' = [rpc EXCEPT ![r] = "422"]
               /\ UNCHANGED <<subject, from, to>>
  BY DEF Read
<1>4. TypeOK' /\ rpc'[r] # "commit"
      /\ \A q \in Requests \ {r} : rpc'[q] = rpc[q] /\ subject'[q] = subject[q]
                                   /\ from'[q] = from[q] /\ to'[q] = to[q] /\ wrote'[q] = wrote[q]
  <2>1. status[i] \in IncidentStatus \cup {"none"}
    BY <1>2 DEF TypeOK
  <2>2. /\ rpc' \in [Requests -> {"idle", "select", "update", "commit", "200", "422", "500"}]
        /\ subject' \in [Requests -> Incidents \cup {None}]
        /\ from' \in [Requests -> IncidentStatus \cup {"none"}]
        /\ to' \in [Requests -> IncidentStatus \cup {"none"}]
        /\ rpc'[r] # "commit"
    BY <1>2, <1>3, <2>1 DEF TypeOK
  <2>3. \A q \in Requests \ {r} : rpc'[q] = rpc[q] /\ subject'[q] = subject[q]
                                  /\ from'[q] = from[q] /\ to'[q] = to[q] /\ wrote'[q] = wrote[q]
    BY <1>1, <1>2, <1>3 DEF TypeOK
  <2> QED
    BY <1>1, <1>2, <2>2, <2>3 DEF TypeOK, tableVars, deliveryVars, HistoryRow
<1>5. RequestOK(r)'
  <2>1. CASE rpc' = [rpc EXCEPT ![r] = "422"]
    BY <1>1, <1>2, <2>1 DEF RequestOK, TypeOK, tableVars
  <2>2. CASE /\ MayMove(status[i], s)
             /\ rpc' = [rpc EXCEPT ![r] = "select"]
             /\ subject' = [subject EXCEPT ![r] = i]
             /\ from' = [from EXCEPT ![r] = status[i]]
             /\ to' = [to EXCEPT ![r] = s]
    <3>1. rpc'[r] = "select" /\ subject'[r] = i /\ from'[r] = status[i] /\ to'[r] = s
      BY <1>2, <2>2 DEF TypeOK
    <3>2. Reached(i, status[i])
      BY <1>3 DEF IncidentsInv, TableOK
    <3> QED
      BY <1>1, <1>2, <1>3, <2>2, <3>1, <3>2 DEF RequestOK, Reached, tableVars
  <2> QED
    BY <1>3, <2>1, <2>2
<1> QED
  BY <1>1, <1>4, <1>5, RequestReads

LEMMA SelectKeeps == ASSUME IncidentsInv, NEW r \in Requests, Select(r) PROVE IncidentsInv'
<1>1. /\ rpc[r] = "select" /\ rpc' = [rpc EXCEPT ![r] = "update"]
      /\ seen' = [seen EXCEPT ![r] = status[subject[r]]]
      /\ UNCHANGED <<tableVars, deliveryVars, subject, from, to, wrote, faults>>
  BY DEF Select
<1>2. TypeOK /\ RequestOK(r)
  BY DEF IncidentsInv
<1>3. rpc'[r] = "update" /\ \A q \in Requests \ {r} : rpc'[q] = rpc[q]
  BY <1>1, <1>2 DEF TypeOK
<1>4. TypeOK'
  <2>1. status[subject[r]] \in IncidentStatus \cup {"none"}
    BY <1>1, <1>2 DEF RequestOK, TypeOK
  <2>2. seen' \in [Requests -> IncidentStatus \cup {"none"}]
    BY <1>1, <1>2, <2>1 DEF TypeOK
  <2>3. rpc' \in [Requests -> {"idle", "select", "update", "commit", "200", "422", "500"}]
    BY <1>1, <1>2 DEF TypeOK
  <2> QED
    BY <1>1, <1>2, <2>2, <2>3 DEF TypeOK, tableVars, deliveryVars, HistoryRow
<1>5. RequestOK(r)'
  BY <1>1, <1>2, <1>3 DEF RequestOK, Reached, tableVars
<1> QED
  BY <1>1, <1>3, <1>4, <1>5, RequestReads

\* The row is updated when no other transaction has it and, if it stays in the
\* partial index, none has or waits to have its key.
LEMMA UpdateKeeps == ASSUME IncidentsInv, NEW r \in Requests, Update(r) PROVE IncidentsInv'
<1> DEFINE i == subject[r]
<1>1. /\ rpc[r] = "update" /\ UNCHANGED <<tableVars, deliveryVars, subject, from, to, seen, faults>>
      /\ ~ \E q \in Requests : rpc[q] = "commit" /\ subject[q] = i
      /\ \/ ~ Indexed(NewStatus(r))
         \/ ~ HeldByDelivery(key[i], None) /\ ~ HeldByRequest(key[i], r)
  BY DEF Update, RequestWaits
<1>2. TypeOK /\ RequestOK(r)
  BY DEF IncidentsInv
<1>3. i \in Incidents /\ status[i] # "none" /\ MayMove(from[r], to[r]) /\ to[r] \in IncidentStatus
  BY <1>1, <1>2, Moves DEF RequestOK
<1>4. CASE rpc' = [rpc EXCEPT ![r] = "500"] /\ wrote' = wrote
  <2>1. rpc'[r] = "500" /\ \A q \in Requests \ {r} : rpc'[q] = rpc[q]
    BY <1>2, <1>4 DEF TypeOK
  <2>2. rpc' \in [Requests -> {"idle", "select", "update", "commit", "200", "422", "500"}]
    BY <1>2, <1>4 DEF TypeOK
  <2>3. TypeOK'
    BY <1>1, <1>2, <1>4, <2>2 DEF TypeOK, tableVars, deliveryVars, HistoryRow
  <2>4. RequestOK(r)'
    BY <1>1, <1>2, <2>1 DEF RequestOK, tableVars
  <2> QED
    BY <1>1, <1>4, <2>1, <2>3, <2>4, RequestReads
<1>5. CASE ~ (rpc' = [rpc EXCEPT ![r] = "500"] /\ wrote' = wrote)
  <2>1. /\ ~ (Indexed(NewStatus(r)) /\ Taken(key[i], i))
        /\ rpc' = [rpc EXCEPT ![r] = "commit"]
        /\ wrote' = [wrote EXCEPT ![r] = NewStatus(r)]
    BY <1>5 DEF Update
  <2>2. NewStatus(r) \in {to[r], status[i]} /\ NewStatus(r) \in IncidentStatus
    BY <1>2, <1>3 DEF NewStatus, TypeOK
  <2>3. /\ rpc'[r] = "commit" /\ wrote'[r] = NewStatus(r)
        /\ \A q \in Requests \ {r} : rpc'[q] = rpc[q] /\ wrote'[q] = wrote[q]
    BY <1>2, <2>1 DEF TypeOK
  <2>4. TypeOK'
    <3>1. wrote' \in [Requests -> IncidentStatus \cup {"none"}]
      BY <1>2, <2>1, <2>2 DEF TypeOK
    <3>2. rpc' \in [Requests -> {"idle", "select", "update", "commit", "200", "422", "500"}]
      BY <1>2, <2>1 DEF TypeOK
    <3> QED
      BY <1>1, <1>2, <3>1, <3>2 DEF TypeOK, tableVars, deliveryVars, HistoryRow
  <2>5. RequestOK(r)'
    BY <1>1, <1>2, <1>3, <2>2, <2>3 DEF RequestOK, Reached, tableVars
  <2>6. \A q \in Requests \ {r} : Unmoved(q)
    BY <1>1, <2>3 DEF Unmoved, tableVars
  <2>7. RowLocks'
    BY <1>1, <2>3 DEF IncidentsInv, RowLocks
  <2>8. TableOK'
    BY <1>1 DEF IncidentsInv, TableOK, Reached, tableVars
  <2>9. OneLive'
    <3>1. ASSUME NEW j \in Incidents, Live(j)'
          PROVE  Live(j) \/ (j = i /\ Indexed(NewStatus(r)))
      <4>1. CASE \E q \in Requests : rpc'[q] = "commit" /\ subject'[q] = j /\ Indexed(wrote'[q])
        BY <1>1, <2>3, <4>1 DEF Live
      <4>2. CASE Indexed(status'[j]) \/ \E d \in Deliveries : j \in fresh'[d]
        BY <1>1, <4>2 DEF Live, tableVars, deliveryVars
      <4> QED
        BY <3>1, <4>1, <4>2 DEF Live
    <3>2. ASSUME Indexed(NewStatus(r)), NEW j \in Incidents, j # i, key[j] = key[i], Live(j)
          PROVE  FALSE
      <4>1. None \notin Deliveries
        BY IncidentsAssumptions DEF IncidentsAssumptions
      <4>2. ~ Indexed(status[j])
        BY <2>1, <3>2 DEF Taken
      <4>3. \A d \in Deliveries : j \notin fresh[d]
        BY <1>1, <3>2, <4>1 DEF HeldByDelivery
      <4>4. \A q \in Requests : ~ (rpc[q] = "commit" /\ subject[q] = j /\ Indexed(wrote[q]))
        BY <1>1, <3>2 DEF HeldByRequest
      <4> QED
        BY <3>2, <4>2, <4>3, <4>4 DEF Live
    <3>3. OneLive /\ key' = key
      BY <1>1 DEF IncidentsInv, tableVars
    <3>4. ASSUME NEW j \in Incidents, NEW l \in Incidents, j # l, key[j] = key[l],
                 Live(j)', Live(l)'
          PROVE  FALSE
      <4>1. CASE Live(j) /\ Live(l)
        BY <3>3, <3>4, <4>1 DEF OneLive
      <4>2. CASE ~ Live(j)
        <5>1. j = i /\ Indexed(NewStatus(r)) /\ l # i
          BY <3>1, <3>4, <4>2
        <5> QED
          BY <3>1, <3>2, <3>4, <5>1
      <4>3. CASE ~ Live(l)
        <5>1. l = i /\ Indexed(NewStatus(r)) /\ j # i
          BY <3>1, <3>4, <4>3
        <5> QED
          BY <3>1, <3>2, <3>4, <5>1
      <4> QED
        BY <4>1, <4>2, <4>3
    <3> QED
      BY <3>3, <3>4 DEF OneLive
  <2> QED
    BY <1>1, <2>4, <2>5, <2>6, <2>7, <2>8, <2>9, RequestMoves DEF tableVars
<1> QED
  BY <1>4, <1>5

LEMMA RequestFaultKeeps ==
    ASSUME IncidentsInv, NEW r \in Requests, RequestFault(r) PROVE IncidentsInv'
<1>1. /\ rpc[r] \in {"select", "update", "commit"} /\ rpc' = [rpc EXCEPT ![r] = "500"]
      /\ faults' = faults + 1
      /\ UNCHANGED <<tableVars, deliveryVars, subject, from, to, seen, wrote>>
  BY DEF RequestFault
<1>2. TypeOK /\ RequestOK(r)
  BY DEF IncidentsInv
<1>3. rpc'[r] = "500" /\ \A q \in Requests \ {r} : rpc'[q] = rpc[q]
  BY <1>1, <1>2 DEF TypeOK
<1>4. rpc' \in [Requests -> {"idle", "select", "update", "commit", "200", "422", "500"}]
  BY <1>1, <1>2 DEF TypeOK
<1>5. TypeOK'
  BY <1>1, <1>2, <1>4 DEF TypeOK, tableVars, deliveryVars, HistoryRow
<1>6. RequestOK(r)'
  BY <1>1, <1>2, <1>3 DEF RequestOK, tableVars
<1> QED
  BY <1>1, <1>3, <1>5, <1>6, RequestReads

\* What the row now has is what the request has reserved in the partial index.
LEMMA CommitStatusKeeps ==
    ASSUME IncidentsInv, NEW r \in Requests, CommitStatus(r) PROVE IncidentsInv'
<1> DEFINE i == subject[r]
           row == [id |-> r, incident |-> i, from |-> from[r], to |-> to[r]]
           Later(j, s) == s = "open" \/ \E h \in history' : h.incident = j /\ h.to = s
<1>1. /\ rpc[r] = "commit" /\ rpc' = [rpc EXCEPT ![r] = "200"]
      /\ status' = [status EXCEPT ![i] = wrote[r]]
      /\ history' = history \cup {row}
      /\ UNCHANGED <<key, evidence, deliveryVars, subject, from, to, seen, wrote, faults>>
  BY DEF CommitStatus
<1>2. TypeOK /\ RequestOK(r) /\ RowLocks /\ TableOK
  BY DEF IncidentsInv
<1>3. /\ i \in Incidents /\ status[i] # "none" /\ MayMove(from[r], to[r])
      /\ Reached(i, from[r]) /\ wrote[r] \in {to[r], status[i]}
  BY <1>1, <1>2 DEF RequestOK
<1>4. from[r] \in IncidentStatus /\ to[r] \in IncidentStatus /\ status[i] \in IncidentStatus
  BY <1>2, <1>3, Moves DEF TypeOK
<1>5. wrote[r] # "none"
  BY <1>3, <1>4, Statuses
<1>6. /\ rpc'[r] = "200" /\ status'[i] = wrote[r]
      /\ \A q \in Requests \ {r} : rpc'[q] = rpc[q]
      /\ \A j \in Incidents \ {i} : status'[j] = status[j]
  BY <1>1, <1>2, <1>3 DEF TypeOK
<1>7. TypeOK'
  <2>1. status' \in [Incidents -> IncidentStatus \cup {"none"}]
    BY <1>1, <1>2, <1>3, <1>4 DEF TypeOK
  <2>2. row \in HistoryRow
    BY <1>3, <1>4 DEF HistoryRow
  <2>3. history' \subseteq HistoryRow
    BY <1>1, <1>2, <2>2 DEF TypeOK
  <2>4. rpc' \in [Requests -> {"idle", "select", "update", "commit", "200", "422", "500"}]
    BY <1>1, <1>2 DEF TypeOK
  <2> QED
    BY <1>1, <1>2, <2>1, <2>3, <2>4 DEF TypeOK, deliveryVars, HistoryRow
<1>8. \A j \in Incidents : status[j] = "none" <=> status'[j] = "none"
  BY <1>3, <1>5, <1>6
<1>9. ASSUME NEW j, NEW s, Reached(j, s) PROVE Later(j, s)
  BY <1>1, <1>9 DEF Reached
<1>10. Later(i, to[r])
  <2>1. row \in history' /\ row.incident = i /\ row.to = to[r]
    BY <1>1
  <2> QED
    BY <2>1
<1> HIDE DEF Later
<1>11. RequestOK(r)'
  BY <1>1, <1>3, <1>6 DEF RequestOK
<1>12. ASSUME NEW q \in Requests \ {r} PROVE Unmoved(q)
  <2>1. rpc[q] = "commit" => subject[q] # i /\ subject[q] \in Incidents
    BY <1>1, <1>2 DEF IncidentsInv, RowLocks, RequestOK
  <2> QED
    BY <1>1, <1>6, <2>1 DEF Unmoved
<1>13. OneLive'
  <2>1. ASSUME NEW j \in Incidents, Live(j)' PROVE Live(j) /\ key'[j] = key[j]
    <3>1. CASE Indexed(status'[j])
      BY <1>1, <1>6, <3>1 DEF Live
    <3>2. CASE \E d \in Deliveries : j \in fresh'[d]
      BY <1>1, <3>2 DEF Live, deliveryVars
    <3>3. CASE \E q \in Requests : rpc'[q] = "commit" /\ subject'[q] = j /\ Indexed(wrote'[q])
      BY <1>1, <1>6, <3>3 DEF Live
    <3> QED
      BY <2>1, <3>1, <3>2, <3>3 DEF Live
  <2> QED
    BY <2>1, LiveStays
<1>14. RowLocks'
  BY <1>1, <1>2, <1>6 DEF RowLocks
<1>15. TableOK'
  <2>1. ASSUME NEW j \in Incidents, status'[j] # "none"
        PROVE  key'[j] # None /\ Later(j, status'[j])
    <3>1. CASE j = i
      <4>1. key[i] # None /\ Reached(i, status[i])
        BY <1>2, <1>3 DEF TableOK
      <4> QED
        BY <1>1, <1>3, <1>6, <1>9, <1>10, <3>1, <4>1
    <3>2. CASE j # i
      <4>1. status'[j] = status[j] /\ key[j] # None /\ Reached(j, status[j])
        BY <1>2, <1>6, <2>1, <3>2 DEF TableOK
      <4> QED
        BY <1>1, <1>9, <4>1
    <3> QED
      BY <3>1, <3>2
  <2>2. ASSUME NEW h \in history' PROVE Later(h.incident, h.from) /\ MayMove(h.from, h.to)
    <3>1. CASE h \in history
      BY <1>2, <1>9, <3>1 DEF TableOK
    <3>2. CASE h = row
      <4>1. h.incident = i /\ h.from = from[r] /\ h.to = to[r]
        BY <3>2
      <4> QED
        BY <1>3, <1>9, <4>1
    <3> QED
      BY <1>1, <3>1, <3>2
  <2>3. ASSUME NEW j \in Incidents, NEW e \in Events, <<j, e>> \in evidence'
        PROVE  status'[j] # "none"
    BY <1>1, <1>2, <1>8, <2>3 DEF TableOK
  <2> QED
    BY <2>1, <2>2, <2>3 DEF TableOK, Reached, Later
<1> QED
  BY <1>1, <1>7, <1>8, <1>11, <1>12, <1>13, <1>14, <1>15, RequestMoves

-----------------------------------------------------------------------------
(* The theorems                                                            *)

LEMMA StepKeeps == IncidentsInv /\ [Next]_vars => IncidentsInv'
<1> SUFFICES ASSUME IncidentsInv, [Next]_vars PROVE IncidentsInv'
  OBVIOUS
<1>1. CASE UNCHANGED vars
  <2>1. UNCHANGED <<tableVars, deliveryVars, requestVars, faults>>
    BY <1>1 DEF vars
  <2> QED
    <3>1. TypeOK' /\ Grows
      BY <2>1 DEF IncidentsInv, TypeOK, HistoryRow, Grows, tableVars, deliveryVars, requestVars
    <3>2. \A d \in Deliveries : DeliveryOK(d)'
      BY <2>1, <3>1, DeliveryStays DEF Untouched, tableVars, deliveryVars
    <3>3. \A r \in Requests : RequestOK(r)'
      BY <2>1, <3>1, RequestStays DEF Unmoved, tableVars, requestVars
    <3>4. OneLive'
      BY <2>1 DEF IncidentsInv, OneLive, Live, tableVars, deliveryVars, requestVars
    <3>5. FreshApart' /\ RowLocks'
      BY <2>1 DEF IncidentsInv, FreshApart, RowLocks, deliveryVars, requestVars
    <3>6. TableOK' /\ IncidentsHaveEvidence' /\ SuccessorAfterResolution'
      BY <2>1 DEF IncidentsInv, TableOK, Reached, IncidentsHaveEvidence,
         SuccessorAfterResolution, tableVars
    <3> QED
      BY <3>1, <3>2, <3>3, <3>4, <3>5, <3>6 DEF IncidentsInv
<1>2. ASSUME NEW d \in Deliveries, Start(d) \/ DeliveryStep(d) \/ DeliveryFault(d)
      PROVE  IncidentsInv'
  BY <1>2, StartKeeps, FindKeeps, InsertKeeps, ExistsKeeps, AttachKeeps, CommitKeeps,
     DeliveryFaultKeeps DEF DeliveryStep
<1>3. ASSUME NEW r \in Requests, Read(r) \/ RequestStep(r) \/ RequestFault(r)
      PROVE  IncidentsInv'
  BY <1>3, ReadKeeps, SelectKeeps, UpdateKeeps, CommitStatusKeeps, RequestFaultKeeps
     DEF RequestStep
<1> QED
  BY <1>1, <1>2, <1>3 DEF Next

\* The inductive invariant holds in every behaviour of the tables, the deliveries
\* and the requests.
THEOREM IncidentsInvariant == Spec => []IncidentsInv
BY InitEstablishes, StepKeeps, PTL DEF Spec

\* Every variable keeps its type: a status is one of IncidentStatus, a history row
\* names an incident and two statuses.
THEOREM IncidentsTypes == Spec => []TypeOK
<1>1. IncidentsInv => TypeOK
  BY DEF IncidentsInv
<1> QED
  BY <1>1, IncidentsInvariant, PTL

\* ADR-005: a correlation key has at most one active incident, whoever creates
\* it and whichever stale PATCH reactivates an older one.
THEOREM OneActive == Spec => []OneActivePerKey
<1>1. IncidentsInv => OneActivePerKey
  <2>1. ASSUME IncidentsInv, NEW i \in Incidents, status[i] \in ActiveStatus PROVE Live(i)
    BY <2>1, IndexedStatus DEF IncidentsInv, TypeOK, Live
  <2> QED
    BY <2>1 DEF IncidentsInv, OneLive, OneActivePerKey
<1> QED
  BY <1>1, IncidentsInvariant, PTL

\* No incident is visible without the evidence of an event that has its key.
THEOREM EvidenceAlways == Spec => []IncidentsHaveEvidence
<1>1. IncidentsInv => IncidentsHaveEvidence
  BY DEF IncidentsInv
<1> QED
  BY <1>1, IncidentsInvariant, PTL

\* process_single_message answers True only for an event that is evidence of an
\* incident for each of its eligible rules.
THEOREM TrueIsCorrelated == Spec => []TrueMeansCorrelated
<1>1. IncidentsInv => TrueMeansCorrelated
  BY DEF IncidentsInv, DeliveryOK, TrueOK, TrueMeansCorrelated, KeysOfJob
<1> QED
  BY <1>1, IncidentsInvariant, PTL

\* A key gets a second incident only after an earlier one was brought to
\* "resolved", and the audit trail has the row of it.
THEOREM Successors == Spec => []SuccessorAfterResolution
<1>1. IncidentsInv => SuccessorAfterResolution
  BY DEF IncidentsInv
<1> QED
  BY <1>1, IncidentsInvariant, PTL

-----------------------------------------------------------------------------
(* Refinement of Correlated                                                *)

\* The keys other sessions see.
VisibleKey == [i \in Incidents |-> IF status[i] = "none" THEN None ELSE key[i]]

\* The active incidents other sessions see are unique for the keys they see.
LEMMA VisibleUnique == ASSUME IncidentsInv' PROVE Committed!Unique(VisibleKey', status')
<1>1. ASSUME NEW i \in Incidents, NEW j \in Incidents, i # j,
             VisibleKey'[i] = VisibleKey'[j],
             status'[i] \in ActiveStatus, status'[j] \in ActiveStatus
      PROVE  FALSE
  <2>1. Indexed(status'[i]) /\ Indexed(status'[j])
    BY <1>1, IndexedStatus DEF IncidentsInv, TypeOK
  <2>2. key'[i] = key'[j]
    BY <1>1, <2>1 DEF VisibleKey, Indexed
  <2> QED
    BY <1>1, <2>1, <2>2 DEF IncidentsInv, OneLive, Live
<1> QED
  BY <1>1 DEF Committed!Unique, Committed!ActiveStatus, ActiveStatus

LEMMA InitCommitted == Init => Committed!CInit
<1> SUFFICES ASSUME Init PROVE Committed!CInit
  OBVIOUS
<1> DEFINE i == CHOOSE i \in Incidents : TRUE
<1>1. PICK age \in Ages, e \in Events :
         /\ age > 0 => Len(KeysOf[e]) = 1
         /\ status = [j \in Incidents |-> IF age > 0 /\ j = i THEN LifeCycle[age] ELSE "none"]
         /\ key = [j \in Incidents |-> IF age > 0 /\ j = i THEN KeysOf[e][1] ELSE None]
         /\ evidence = IF age > 0 THEN {<<i, e>>} ELSE {}
         /\ history = IF age > 0 THEN Past(i, age) ELSE {}
  BY DEF Init, Tables!CInit, Tables!LifeCycle, LifeCycle, Tables!PastRow, Past
<1>2. age \in 0..6
  BY IncidentsAssumptions DEF IncidentsAssumptions
<1>3. age > 0 => LifeCycle[age] # "none"
  BY <1>2, Statuses
<1>4. VisibleKey = [j \in Incidents |-> IF age > 0 /\ j = i THEN KeysOf[e][1] ELSE None]
  BY <1>1, <1>3 DEF VisibleKey
<1> HIDE DEF i
<1>5. Committed!LifeCycle = LifeCycle
  BY DEF Committed!LifeCycle, LifeCycle
<1>6. VisibleKey = [j \in Incidents |-> IF status[j] = "none" THEN None ELSE key[j]]
  BY DEF VisibleKey
<1> QED
  <2>1. history = IF age > 0 THEN {Committed!PastRow(i, n) : n \in 1 .. age - 1} ELSE {}
    BY <1>1, <1>5 DEF Committed!PastRow, Past
  <2>2. status = [j \in Incidents |->
                    IF age > 0 /\ j = i THEN Committed!LifeCycle[age] ELSE "none"]
    BY <1>1, <1>5
  <2>3. /\ age > 0 => Len(KeysOf[e]) = 1
        /\ evidence = IF age > 0 THEN {<<i, e>>} ELSE {}
    BY <1>1
  <2> QED
    BY <1>4, <2>1, <2>2, <2>3, Zenon DEF Committed!CInit, VisibleKey, i

\* The commit of a delivery correlates its event: each key goes to the incident
\* the delivery has linked, or else to one that has the event already.
LEMMA CommitCorrelates ==
    ASSUME IncidentsInv, IncidentsInv', NEW d \in Deliveries, Commit(d)
    PROVE  \E e \in Events : Committed!Correlate(e)
<1>0. PICK e \in Events : e = job[d]
  BY DEF IncidentsInv, TypeOK
<1> DEFINE KS == {KeysOf[e][n] : n \in DOMAIN KeysOf[e]}
           Linked(i) == i \in Incidents /\ <<i, e>> \in links[d]
           Has(i) == i \in Incidents /\ <<i, e>> \in evidence
           goes == [k \in KS |->
                       IF \E i \in Incidents : Linked(i) /\ key[i] = k
                       THEN CHOOSE i \in Incidents : Linked(i) /\ key[i] = k
                       ELSE CHOOSE i \in Incidents : Has(i) /\ key[i] = k]
           Goal(i) == \E k \in KS : goes[k] = i
<1>1. /\ pc[d] = "commit" /\ e \in Events
      /\ status' = [i \in Incidents |-> IF i \in fresh[d] THEN "open" ELSE status[i]]
      /\ evidence' = evidence \cup links[d]
      /\ key' = key /\ history' = history
  BY <1>0 DEF Commit, IncidentsInv, TypeOK
<1>2. /\ DeliveryOK(d) /\ links[d] \subseteq Incidents \X Events
      /\ DOMAIN KeysOf[e] = 1 .. idx[d] - 1
  <2>1. DeliveryOK(d) /\ links[d] \subseteq Incidents \X Events
    BY DEF IncidentsInv, TypeOK
  <2>2. idx[d] - 1 = Len(KeysOfJob(d)) /\ DOMAIN KeysOf[e] = 1 .. Len(KeysOfJob(d))
    BY <1>0, <1>1, <2>1, JobKeys DEF DeliveryOK, LoopOK, KeysOfJob, IncidentsInv
  <2> QED
    BY <2>1, <2>2
<1>3. \A k \in KS : \E i \in Incidents : key[i] = k /\ (Linked(i) \/ Has(i))
  BY <1>0, <1>1, <1>2 DEF DeliveryOK, RulesDone, Open, KeysOfJob
<1>4. \A k \in KS : goes[k] \in Incidents /\ key[goes[k]] = k /\ (Linked(goes[k]) \/ Has(goes[k]))
  <2> SUFFICES ASSUME NEW k \in KS
               PROVE  goes[k] \in Incidents /\ key[goes[k]] = k /\ (Linked(goes[k]) \/ Has(goes[k]))
    OBVIOUS
  <2>1. CASE \E i \in Incidents : Linked(i) /\ key[i] = k
    BY <2>1
  <2>2. CASE ~ \E i \in Incidents : Linked(i) /\ key[i] = k
    BY <1>3, <2>2
  <2> QED
    BY <2>1, <2>2
<1>5. ASSUME NEW i \in Incidents, Linked(i)
      PROVE  key[i] \in KS /\ goes[key[i]] = i /\ (status[i] # "none" \/ i \in fresh[d])
  <2>1. Visible(d, i) /\ \E n \in 1 .. idx[d] - 1 : key[i] = KeysOf[e][n]
    BY <1>0, <1>1, <1>2, <1>5 DEF DeliveryOK, LinksOK, KeysOfJob
  <2>2. key[i] \in KS
    BY <1>2, <2>1
  <2>3. \A j \in Incidents : Linked(j) /\ key[j] = key[i] => j = i
    BY <1>0, <1>1, <1>2, <1>5 DEF DeliveryOK, LinksDistinct
  <2> QED
    BY <1>5, <2>1, <2>2, <2>3 DEF Visible
<1>6. \A i \in fresh[d] : Linked(i) /\ status[i] = "none"
  BY <1>0, <1>1, <1>2 DEF DeliveryOK, FreshOK, IncidentsInv, TypeOK
<1>7. \A i \in Incidents : Has(i) => status[i] # "none"
  BY <1>1 DEF IncidentsInv, TableOK
<1>8. goes \in [KS -> Incidents]
  BY <1>4
<1>9. \A k \in KS : status[goes[k]] # "none" \/ goes[k] \in fresh[d]
  BY <1>4, <1>5, <1>7
<1>10. \A i \in fresh[d] : Goal(i) /\ i \in Incidents
  BY <1>5, <1>6
<1>11. \A k, l \in KS : goes[k] = goes[l] => k = l
  BY <1>4
<1> HIDE DEF goes
<1>12. \A i \in Incidents :
          VisibleKey'[i] = IF Goal(i) THEN CHOOSE k \in KS : goes[k] = i ELSE VisibleKey[i]
  <2> SUFFICES ASSUME NEW i \in Incidents
               PROVE  VisibleKey'[i] =
                         IF Goal(i) THEN CHOOSE k \in KS : goes[k] = i ELSE VisibleKey[i]
    OBVIOUS
  <2>1. VisibleKey'[i] = IF status'[i] = "none" THEN None ELSE key[i]
    BY <1>1 DEF VisibleKey
  <2>2. CASE Goal(i)
    <3>1. PICK k \in KS : goes[k] = i
      BY <2>2
    <3>2. key[i] = k /\ \A l \in KS : goes[l] = i => l = k
      BY <1>4, <3>1
    <3>3. (CHOOSE l \in KS : goes[l] = i) = k
      BY <3>1, <3>2
    <3>4. status'[i] # "none"
      BY <1>1, <1>9, <3>1
    <3> QED
      BY <2>1, <2>2, <3>2, <3>3, <3>4
  <2>3. CASE ~ Goal(i)
    <3>1. status'[i] = status[i]
      BY <1>1, <1>10, <2>3
    <3> QED
      BY <2>1, <2>3, <3>1 DEF VisibleKey
  <2> QED
    BY <2>2, <2>3
<1>13. VisibleKey' = [i \in Incidents |->
                        IF Goal(i) THEN CHOOSE k \in KS : goes[k] = i ELSE VisibleKey[i]]
  <2>1. VisibleKey' = [i \in Incidents |-> VisibleKey'[i]]
    BY DEF VisibleKey
  <2> QED
    BY <1>12, <2>1
<1>14. status' = [i \in Incidents |->
                     IF status[i] = "none" /\ Goal(i) THEN "open" ELSE status[i]]
  <2>1. \A i \in Incidents : i \in fresh[d] <=> status[i] = "none" /\ Goal(i)
    BY <1>6, <1>9, <1>10
  <2> QED
    BY <1>1, <2>1
<1>15. evidence' = evidence \cup {<<goes[k], e>> : k \in KS}
  <2>1. ASSUME NEW p \in links[d] PROVE p \in {<<goes[k], e>> : k \in KS}
    <3>1. PICK i \in Incidents, f \in Events : p = <<i, f>>
      BY <1>2, <2>1
    <3>2. f = e
      BY <1>0, <1>2, <2>1, <3>1 DEF DeliveryOK, LinksOK
    <3>3. key[i] \in KS /\ goes[key[i]] = i
      BY <1>5, <2>1, <3>1, <3>2
    <3> QED
      BY <3>1, <3>2, <3>3
  <2>2. \A k \in KS : <<goes[k], e>> \in evidence \cup links[d]
    BY <1>4
  <2> QED
    BY <1>1, <2>1, <2>2
<1>16. \A k \in KS : status[goes[k]] # "none" => VisibleKey[goes[k]] = k
  BY <1>4 DEF VisibleKey
<1>17. Committed!Unique(VisibleKey', status')
  BY VisibleUnique
<1>18. KS = Committed!KeySet(e) /\ \A i \in Incidents : i \in Committed!Exist <=> status[i] # "none"
  BY DEF Committed!KeySet, Committed!Exist
<1>19. goes \in [Committed!KeySet(e) -> Incidents]
  BY <1>8, <1>18
<1>20. \A k \in Committed!KeySet(e) : goes[k] \in Committed!Exist => VisibleKey[goes[k]] = k
  BY <1>8, <1>16, <1>18
<1>21. \A k, l \in Committed!KeySet(e) : goes[k] = goes[l] => k = l
  BY <1>11, <1>18
<1>22. VisibleKey' = [i \in Incidents |->
                        IF \E k \in Committed!KeySet(e) : goes[k] = i
                        THEN CHOOSE k \in Committed!KeySet(e) : goes[k] = i ELSE VisibleKey[i]]
  BY <1>13, <1>18
<1>23. status' = [i \in Incidents |->
                    IF i \notin Committed!Exist /\ \E k \in Committed!KeySet(e) : goes[k] = i
                    THEN "open" ELSE status[i]]
  BY <1>14, <1>18
<1>24. evidence' = evidence \cup {<<goes[k], e>> : k \in Committed!KeySet(e)}
  BY <1>15, <1>18
<1>25. Committed!Correlate(e)
  BY <1>1, <1>17, <1>19, <1>20, <1>21, <1>22, <1>23, <1>24, Zenon
     DEF Committed!Correlate, VisibleKey
<1> QED
  BY <1>25

\* The commit of a request changes the status with the row that accounts for it.
LEMMA CommitChanges ==
    ASSUME IncidentsInv, IncidentsInv', NEW r \in Requests, CommitStatus(r)
    PROVE  Committed!Change(r, subject[r], from[r], to[r])
<1>1. /\ rpc[r] = "commit" /\ key' = key /\ evidence' = evidence
      /\ status' = [status EXCEPT ![subject[r]] = wrote[r]]
      /\ history' = history \cup
            {[id |-> r, incident |-> subject[r], from |-> from[r], to |-> to[r]]}
  BY DEF CommitStatus
<1>2. /\ subject[r] \in Incidents /\ status[subject[r]] # "none"
      /\ MayMove(from[r], to[r]) /\ Reached(subject[r], from[r])
      /\ wrote[r] \in {to[r], status[subject[r]]}
      /\ \A h \in history : h.id # r
  BY <1>1 DEF IncidentsInv, RequestOK
<1>3. subject[r] \in Committed!Exist /\ Committed!MayMove(from[r], to[r])
      /\ Committed!Reached(subject[r], from[r])
  <2>1. Committed!LifeCycle = LifeCycle
    BY DEF Committed!LifeCycle, LifeCycle
  <2> QED
    BY <1>2, <2>1 DEF Committed!Exist, Committed!MayMove, Committed!Allowed, MayMove, Allowed,
       Committed!Reached, Reached
<1>4. VisibleKey' = VisibleKey
  <2>1. \A i \in Incidents : status'[i] = "none" <=> status[i] = "none"
    <3>1. wrote[r] # "none"
      BY <1>2, Moves, Statuses
    <3> QED
      BY <1>1, <1>2, <3>1 DEF IncidentsInv, TypeOK
  <2> QED
    BY <1>1, <2>1 DEF VisibleKey
<1>5. Committed!Unique(VisibleKey, status')
  BY <1>4, VisibleUnique
<1>6. \E s \in {to[r], status[subject[r]]} : status' = [status EXCEPT ![subject[r]] = s]
  BY <1>1, <1>2
<1> QED
  BY <1>1, <1>2, <1>3, <1>4, <1>5, <1>6, Zenon DEF Committed!Change, VisibleKey

\* What other sessions see, and what a step may leave as it was.
Visibly == <<status, VisibleKey, evidence, history>>

\* Rows that are not committed come and go unseen.
LEMMA UnseenWrites ==
    ASSUME IncidentsInv, UNCHANGED <<status, evidence, history>>,
           \A i \in Incidents : status[i] # "none" => key'[i] = key[i]
    PROVE  UNCHANGED Visibly
<1>1. VisibleKey' = VisibleKey
  BY DEF VisibleKey
<1> QED
  BY <1>1 DEF Visibly

LEMMA AbortUnseen ==
    ASSUME IncidentsInv, NEW d \in Deliveries, Abort(d) PROVE UNCHANGED Visibly
<1>1. \A i \in Incidents : status[i] # "none" => key'[i] = key[i]
  BY FreshIsUncommitted DEF Abort
<1> QED
  BY <1>1, UnseenWrites DEF Abort

LEMMA InsertUnseen ==
    ASSUME IncidentsInv, NEW d \in Deliveries, Insert(d) PROVE UNCHANGED Visibly
<1>1. CASE Abort(d)
  BY <1>1, AbortUnseen
<1>2. CASE ~ Abort(d)
  <2> DEFINE new == CHOOSE i \in Unused : TRUE
  <2>1. /\ new \in Unused /\ key' = [key EXCEPT ![new] = KeyAt(d)]
        /\ UNCHANGED <<status, evidence, history>>
    BY <1>2 DEF Insert
  <2> HIDE DEF new
  <2>2. new \in Incidents /\ key[new] = None
    BY <2>1 DEF Unused
  <2>3. \A i \in Incidents : status[i] # "none" => i # new
    BY <2>2 DEF IncidentsInv, TableOK
  <2>4. \A i \in Incidents : status[i] # "none" => key'[i] = key[i]
    BY <2>1, <2>3 DEF IncidentsInv, TypeOK
  <2> QED
    BY <2>1, <2>4, UnseenWrites
<1> QED
  BY <1>1, <1>2

LEMMA StepCommitted ==
    IncidentsInv /\ IncidentsInv' /\ [Next]_vars => [Committed!CNext]_(Committed!cvars)
<1> SUFFICES ASSUME IncidentsInv, IncidentsInv', [Next]_vars
             PROVE  Committed!CNext \/ UNCHANGED Visibly
  BY DEF Committed!cvars, Visibly, VisibleKey
<1>1. ASSUME UNCHANGED tableVars PROVE UNCHANGED Visibly
  BY <1>1 DEF tableVars, Visibly, VisibleKey
<1>2. CASE UNCHANGED vars
  BY <1>1, <1>2 DEF vars
<1>3. ASSUME NEW d \in Deliveries, Commit(d) PROVE Committed!CNext
  BY <1>3, CommitCorrelates DEF Committed!CNext
<1>4. ASSUME NEW d \in Deliveries, Attach(d) PROVE UNCHANGED Visibly
  BY <1>1, <1>4, AbortUnseen DEF Attach, Skip
<1>5. ASSUME NEW d \in Deliveries, Start(d) \/ Find(d) \/ Exists(d) PROVE UNCHANGED Visibly
  BY <1>1, <1>5 DEF Start, Find, Exists, Skip
<1>6. ASSUME NEW d \in Deliveries, DeliveryFault(d) PROVE UNCHANGED Visibly
  BY <1>6, AbortUnseen DEF DeliveryFault
<1>7. ASSUME NEW r \in Requests, CommitStatus(r) PROVE Committed!CNext
  <2>1. Committed!Change(r, subject[r], from[r], to[r])
    BY <1>7, CommitChanges
  <2>2. subject[r] \in Incidents /\ from[r] \in IncidentStatus /\ to[r] \in IncidentStatus
    BY <1>7, Moves DEF IncidentsInv, RequestOK, CommitStatus
  <2>3. Committed!IncidentStatus = IncidentStatus
    <3>1. Committed!LifeCycle = LifeCycle
      BY DEF Committed!LifeCycle, LifeCycle
    <3> QED
      BY <3>1 DEF Committed!IncidentStatus, IncidentStatus
  <2> QED
    BY <2>1, <2>2, <2>3 DEF Committed!CNext
<1>8. ASSUME NEW r \in Requests, Read(r) \/ Select(r) \/ Update(r) \/ RequestFault(r)
      PROVE  UNCHANGED Visibly
  BY <1>1, <1>8 DEF Read, Select, Update, RequestFault
<1> QED
  BY <1>2, <1>3, <1>4, <1>5, <1>6, <1>7, <1>8, InsertUnseen DEF Next, DeliveryStep, RequestStep

\* Statement by statement, waiting for each other, losing races and failing
\* anywhere, deliveries and requests implement Correlated: an event is correlated
\* for all of its keys or not at all, and no status changes without its row of the
\* audit trail.
THEOREM Implementation == Spec => ImplementsCorrelated
<1>1. Init => Committed!CInit
  BY InitCommitted
<1>2. IncidentsInv /\ IncidentsInv' /\ [Next]_vars => [Committed!CNext]_(Committed!cvars)
  BY StepCommitted
<1> QED
  BY <1>1, <1>2, IncidentsInvariant, PTL DEF Spec, ImplementsCorrelated, Committed!CSpec

-----------------------------------------------------------------------------
(* Waits end.  A delivery that waits, waits for one that is further in the *)
(* rule order; no rule is after the last.                                   *)

LEMMA LeastNumber ==
    ASSUME NEW S, S \subseteq Nat, S # {}
    PROVE  \E m \in S : \A n \in S : m <= n
<1>1. \E m \in S : \A n \in S : ~ (<<n, m>> \in OpToRel(<, Nat))
  BY NatLessThanWellFounded, WFMin, Zenon
<1>2. PICK m \in S : \A n \in S : ~ (<<n, m>> \in OpToRel(<, Nat))
  BY <1>1
<1>3. ASSUME NEW n \in S PROVE m <= n
  <2>1. n \in Nat /\ m \in Nat
    BY <1>2, <1>3
  <2>2. ASSUME n < m PROVE FALSE
    <3>1. <<n, m>> \in {ss \in Nat \X Nat : ss[1] < ss[2]}
      BY <2>1, <2>2
    <3>2. <<n, m>> \in OpToRel(<, Nat)
      BY <3>1 DEF OpToRel
    <3> QED
      BY <1>2, <1>3, <3>2
  <2> QED
    BY <2>1, <2>2
<1> QED
  BY <1>2, <1>3

\* The rule a delivery in the loop is at.
RuleAt(d) == RuleOf[KeyAt(d)]

LEMMA RuleInLoop ==
    ASSUME IncidentsInv, NEW d \in Deliveries, pc[d] \in {"insert", "attach"}
    PROVE  /\ KeyAt(d) \in Keys /\ RuleAt(d) \in Nat
           /\ \A n \in 1 .. idx[d] - 1 : RuleOf[KeysOfJob(d)[n]] < RuleAt(d)
<1>1. job[d] \in Events /\ idx[d] \in 1 .. Len(KeysOfJob(d))
  <2>1. job[d] \in Events /\ LoopOK(d)
    BY DEF IncidentsInv, TypeOK, DeliveryOK
  <2> QED
    BY <2>1, KeysOfEvent DEF LoopOK, KeysOfJob
<1>2. /\ Len(KeysOf[job[d]]) \in Nat /\ DOMAIN KeysOf[job[d]] = 1 .. Len(KeysOf[job[d]])
      /\ \A n \in 1 .. Len(KeysOf[job[d]]) : KeysOf[job[d]][n] \in Keys
  BY <1>1, KeysOfEvent
<1>3. \A m, n \in DOMAIN KeysOf[job[d]] :
         m < n => RuleOf[KeysOf[job[d]][m]] < RuleOf[KeysOf[job[d]][n]]
  BY <1>1, IncidentsAssumptions DEF IncidentsAssumptions
<1>4. KeyAt(d) \in Keys
  BY <1>1, <1>2 DEF KeyAt, KeysOfJob
<1>5. RuleAt(d) \in Nat
  BY <1>4, IncidentsAssumptions DEF IncidentsAssumptions, RuleAt
<1>6. ASSUME NEW n \in 1 .. idx[d] - 1 PROVE RuleOf[KeysOfJob(d)[n]] < RuleAt(d)
  <2>1. n \in DOMAIN KeysOf[job[d]] /\ idx[d] \in DOMAIN KeysOf[job[d]] /\ n < idx[d]
    BY <1>1, <1>2, <1>6 DEF KeysOfJob
  <2> QED
    BY <1>3, <2>1 DEF KeysOfJob, RuleAt, KeyAt
<1> QED
  BY <1>4, <1>5, <1>6

\* Only an open transaction has uncommitted rows.
LEMMA HoldersAreOpen ==
    ASSUME IncidentsInv, NEW d \in Deliveries, fresh[d] # {} \/ links[d] # {}
    PROVE  pc[d] \in Open
BY DEF IncidentsInv, DeliveryOK, LoopOK

\* Nobody waits to attach evidence to a row that is not committed: only its own
\* transaction sees it.
LEMMA OwnRowIsFree ==
    ASSUME IncidentsInv, NEW d \in Deliveries, NEW i \in fresh[d],
           NEW x \in Deliveries \ {d}, NEW e \in Events
    PROVE  <<i, e>> \notin links[x]
<1>1. i \in Incidents /\ status[i] = "none"
  BY DEF IncidentsInv, TypeOK, DeliveryOK, FreshOK
<1>2. i \notin fresh[x]
  BY DEF IncidentsInv, FreshApart
<1>3. ASSUME <<i, e>> \in links[x] PROVE FALSE
  <2>1. LinksOK(x)
    BY DEF IncidentsInv, DeliveryOK
  <2>2. Visible(x, i)
    BY <1>1, <1>3, <2>1 DEF LinksOK
  <2> QED
    BY <1>1, <1>2, <2>2 DEF Visible
<1> QED
  BY <1>3

\* x has evidence of a row with the key d is at: x is further.
LEMMA LinkedIsFurther ==
    ASSUME IncidentsInv, NEW d \in Deliveries, NEW x \in Deliveries,
           {pc[d], pc[x]} \subseteq {"insert", "attach"},
           NEW i \in Incidents, NEW e \in Events,
           <<i, e>> \in links[x], key[i] = KeyAt(d)
    PROVE  RuleAt(d) < RuleAt(x)
<1>1. LinksOK(x)
  BY DEF IncidentsInv, DeliveryOK
<1>2. PICK n \in 1 .. idx[x] - 1 : key[i] = KeysOfJob(x)[n]
  BY <1>1 DEF LinksOK
<1>3. RuleOf[KeysOfJob(x)[n]] < RuleAt(x)
  BY <1>2, RuleInLoop
<1> QED
  BY <1>2, <1>3 DEF RuleAt

\* The delivery that d waits for waits for nobody, or is further than d.
LEMMA WaitsForFurther ==
    ASSUME IncidentsInv, NEW d \in Deliveries, DeliveryWaits(d),
           \A r \in Requests : rpc[r] # "commit"
    PROVE  \E x \in Deliveries :
              /\ pc[x] \in Open
              /\ DeliveryWaits(x) => RuleAt(d) < RuleAt(x)
<1>0. pc[d] \in {"insert", "attach"} /\ job \in [Deliveries -> Events]
  BY DEF DeliveryWaits, IncidentsInv, TypeOK
<1>1. CASE pc[d] = "insert"
  <2>1. ~ HeldByRequest(KeyAt(d), None)
    BY DEF HeldByRequest
  <2>2. PICK x \in Deliveries \ {d} : \E i \in fresh[x] : key[i] = KeyAt(d)
    BY <1>1, <2>1 DEF DeliveryWaits, HeldByDelivery
  <2> PICK i \in fresh[x] : key[i] = KeyAt(d)
    BY <2>2
  <2>3. pc[x] \in Open /\ i \in Incidents
    BY HoldersAreOpen DEF IncidentsInv, TypeOK
  <2>4. ASSUME DeliveryWaits(x) PROVE RuleAt(d) < RuleAt(x)
    <3>1. pc[x] \in {"insert", "attach"} /\ job[x] \in Events
      BY <1>0, <2>4 DEF DeliveryWaits
    <3>2. CASE <<i, job[x]>> \in links[x]
      BY <1>0, <2>2, <2>3, <3>1, <3>2, LinkedIsFurther
    <3>3. CASE <<i, job[x]>> \notin links[x]
      <4>1. pc[x] = "attach" /\ target[x] = i
        <5>1. FreshOK(x)
          BY DEF IncidentsInv, DeliveryOK
        <5> QED
          BY <2>2, <3>1, <3>3, <5>1 DEF FreshOK
      <4>2. \E y \in Deliveries \ {x} : <<i, job[x]>> \in links[y]
        BY <2>4, <4>1 DEF DeliveryWaits
      <4> QED
        BY <2>2, <3>1, <4>2, OwnRowIsFree
    <3> QED
      BY <3>2, <3>3
  <2> QED
    BY <2>3, <2>4
<1>2. CASE pc[d] = "attach"
  <2>1. PICK x \in Deliveries \ {d} : <<target[d], job[d]>> \in links[x]
    BY <1>2 DEF DeliveryWaits
  <2>2. pc[x] \in Open
    BY <2>1, HoldersAreOpen
  <2>3. target[d] \in Incidents /\ key[target[d]] = KeyAt(d)
    BY <1>2 DEF IncidentsInv, DeliveryOK, TargetOK
  <2>4. ASSUME DeliveryWaits(x) PROVE RuleAt(d) < RuleAt(x)
    <3>1. pc[x] \in {"insert", "attach"} /\ job[d] \in Events
      BY <1>0, <2>4 DEF DeliveryWaits
    <3> QED
      BY <1>0, <2>1, <2>3, <3>1, LinkedIsFurther
  <2> QED
    BY <2>2, <2>4
<1> QED
  BY <1>0, <1>1, <1>2

\* If every open transaction waited, one would be at a rule after the last.
LEMMA SomeDeliveryRuns ==
    ASSUME IncidentsInv, \A r \in Requests : rpc[r] # "commit",
           NEW e \in Deliveries, pc[e] \in Open
    PROVE  \E d \in Deliveries : pc[d] \in Open /\ ~ DeliveryWaits(d)
<1> SUFFICES ASSUME \A d \in Deliveries : pc[d] \in Open => DeliveryWaits(d)
             PROVE  FALSE
  OBVIOUS
<1> DEFINE W == {d \in Deliveries : pc[d] \in Open}
<1>1. ASSUME NEW d \in W
      PROVE  /\ KeyAt(d) \in Keys /\ RuleAt(d) \in Nat
             /\ \E x \in W : RuleAt(d) < RuleAt(x)
  <2>1. DeliveryWaits(d) /\ pc[d] \in {"insert", "attach"}
    BY <1>1 DEF DeliveryWaits
  <2>2. KeyAt(d) \in Keys /\ RuleAt(d) \in Nat
    BY <1>1, <2>1, RuleInLoop
  <2>3. PICK x \in Deliveries : pc[x] \in Open /\ (DeliveryWaits(x) => RuleAt(d) < RuleAt(x))
    BY <1>1, <2>1, WaitsForFurther
  <2> QED
    BY <2>2, <2>3
<1>2. KeyAt(e) \in Keys
  BY <1>1
<1>3. PICK last \in Keys : \A k \in Keys : RuleOf[k] <= RuleOf[last]
  BY <1>2, IncidentsAssumptions DEF IncidentsAssumptions
<1>4. RuleOf[last] \in Nat
  BY <1>3, IncidentsAssumptions DEF IncidentsAssumptions
<1> DEFINE Left(d) == RuleOf[last] - RuleAt(d)
<1> DEFINE S == {Left(d) : d \in W}
<1>5. \A d \in W : Left(d) \in Nat
  BY <1>1, <1>3, <1>4 DEF RuleAt
<1>6. S \subseteq Nat /\ S # {}
  BY <1>5
<1>7. PICK m \in S : \A n \in S : m <= n
  BY <1>6, LeastNumber
<1>8. PICK d \in W : m = Left(d)
  BY <1>7
<1>9. PICK x \in W : RuleAt(d) < RuleAt(x)
  BY <1>1, <1>8
<1>10. Left(x) \in S /\ RuleAt(d) \in Nat /\ RuleAt(x) \in Nat
  BY <1>1, <1>8, <1>9
<1>11. Left(x) < Left(d)
  BY <1>4, <1>9, <1>10
<1>12. Left(d) <= Left(x)
  BY <1>7, <1>8, <1>10
<1> QED
  BY <1>4, <1>10, <1>11, <1>12

\* Of the calls in flight one waits for nobody.  Waits form no cycle, because the
\* rules of every event come in one order and a request takes its row and its key
\* together.
WaitsEnd ==
    InFlight =>
        \/ \E d \in Deliveries : pc[d] \notin {"idle", "true", "false"} /\ ~ DeliveryWaits(d)
        \/ \E r \in Requests :
              rpc[r] \notin {"idle", "200", "422", "500"} /\ ~ RequestWaits(r)

LEMMA InvWaitsEnd == IncidentsInv => WaitsEnd
<1> SUFFICES ASSUME IncidentsInv, InFlight,
                    \A d \in Deliveries : pc[d] \notin {"idle", "true", "false"} => DeliveryWaits(d),
                    \A r \in Requests :
                       rpc[r] \notin {"idle", "200", "422", "500"} => RequestWaits(r)
             PROVE  FALSE
  BY DEF WaitsEnd
<1>1. \A r \in Requests : rpc[r] # "commit"
  BY DEF RequestWaits
<1>2. \A d \in Deliveries : pc[d] \in Open <=> pc[d] \notin {"idle", "true", "false"}
  BY DEF IncidentsInv, TypeOK, Open
<1>3. \E d \in Deliveries : pc[d] \in Open
  <2>1. CASE \E d \in Deliveries : pc[d] \notin {"idle", "true", "false"}
    BY <1>2, <2>1
  <2>2. CASE \E r \in Requests : rpc[r] \notin {"idle", "200", "422", "500"}
    <3>1. PICK r \in Requests : RequestWaits(r)
      BY <2>2
    <3>2. HeldByDelivery(key[subject[r]], None)
      BY <1>1, <3>1 DEF RequestWaits, HeldByRequest
    <3>3. \E d \in Deliveries : fresh[d] # {}
      BY <3>2 DEF HeldByDelivery
    <3> QED
      BY <3>3, HoldersAreOpen
  <2> QED
    BY <2>1, <2>2 DEF InFlight
<1>4. \E d \in Deliveries : pc[d] \in Open /\ ~ DeliveryWaits(d)
  BY <1>1, <1>3, SomeDeliveryRuns
<1> QED
  BY <1>2, <1>4

\* Deliveries and status changes, any number of them, never all wait for each
\* other's rows and index entries: no deadlock for PostgreSQL to break.
THEOREM NoDeadlock == Spec => []WaitsEnd
BY InvWaitsEnd, IncidentsInvariant, PTL

-----------------------------------------------------------------------------
(* Calls run forward                                                        *)

\* How far a delivery is: five places for each rule, one for the commit and one
\* for the answer.
Place(d) ==
    5 * idx[d] + CASE pc[d] = "idle" -> 0
                   [] pc[d] \in {"find", "commit"} -> 1
                   [] pc[d] = "insert" -> 2
                   [] pc[d] = "exists" -> 3
                   [] pc[d] = "attach" -> 4
                   [] pc[d] \in {"true", "false"} -> 5

\* How far a request is.
Stage(r) ==
    CASE rpc[r] = "idle" -> 0
      [] rpc[r] = "select" -> 1
      [] rpc[r] = "update" -> 2
      [] rpc[r] = "commit" -> 3
      [] rpc[r] \in {"200", "422", "500"} -> 4

\* No call repeats a place, and only a call with places left takes a step.
PlacesBounded ==
    /\ \A d \in Deliveries : Place(d) \in 5 .. 5 * Len(KeysOf[job[d]]) + 10
    /\ \A r \in Requests : Stage(r) \in 0..4

\* A step takes one call forward and leaves every other where it is.
OneCallAdvances ==
    \/ \E d \in Deliveries :
          /\ Place(d) < Place(d)' /\ \A x \in Deliveries \ {d} : Place(x)' = Place(x)
          /\ \A r \in Requests : Stage(r)' = Stage(r)
    \/ \E r \in Requests :
          /\ Stage(r) < Stage(r)' /\ \A q \in Requests \ {r} : Stage(q)' = Stage(q)
          /\ \A d \in Deliveries : Place(d)' = Place(d)

CallsRunForward == [][OneCallAdvances /\ job' = job]_vars

LEMMA InvPlaces == IncidentsInv => PlacesBounded
<1> SUFFICES ASSUME IncidentsInv PROVE PlacesBounded
  OBVIOUS
<1>1. ASSUME NEW d \in Deliveries
      PROVE  Place(d) \in 5 .. 5 * Len(KeysOf[job[d]]) + 10
  <2>1. job[d] \in Events /\ LoopOK(d)
    BY DEF IncidentsInv, TypeOK, DeliveryOK
  <2>2. idx[d] \in 1 .. Len(KeysOf[job[d]]) + 1 /\ Len(KeysOf[job[d]]) \in Nat
    BY <2>1, KeysOfEvent DEF LoopOK, KeysOfJob
  <2>3. pc[d] \in {"idle", "find", "insert", "exists", "attach", "commit", "true", "false"}
    BY DEF IncidentsInv, TypeOK
  <2> QED
    BY <2>2, <2>3 DEF Place
<1>2. ASSUME NEW r \in Requests PROVE Stage(r) \in 0..4
  <2>1. rpc[r] \in {"idle", "select", "update", "commit", "200", "422", "500"}
    BY DEF IncidentsInv, TypeOK
  <2> QED
    BY <2>1 DEF Stage
<1> QED
  BY <1>1, <1>2 DEF PlacesBounded

\* A delivery is at the place its counter and its rule say, and nowhere else.
LEMMA SamePlace ==
    ASSUME NEW d, pc'[d] = pc[d], idx'[d] = idx[d] PROVE Place(d)' = Place(d)
BY DEF Place

LEMMA SameStage == ASSUME NEW r, rpc'[r] = rpc[r] PROVE Stage(r)' = Stage(r)
BY DEF Stage

LEMMA DeliveryAdvances ==
    ASSUME TypeOK, NEW d \in Deliveries, UNCHANGED rpc,
           \A x \in Deliveries \ {d} : pc'[x] = pc[x] /\ idx'[x] = idx[x],
           Place(d) < Place(d)'
    PROVE  OneCallAdvances
BY SamePlace, SameStage DEF OneCallAdvances

LEMMA RequestAdvances ==
    ASSUME TypeOK, NEW r \in Requests, UNCHANGED <<pc, idx>>,
           \A q \in Requests \ {r} : rpc'[q] = rpc[q],
           Stage(r) < Stage(r)'
    PROVE  OneCallAdvances
BY SamePlace, SameStage DEF OneCallAdvances

\* To another place of the same rule.
LEMMA WithinRule ==
    ASSUME TypeOK, NEW d \in Deliveries, NEW s \in {"find", "insert", "exists", "attach",
                                                   "commit", "true", "false"},
           pc' = [pc EXCEPT ![d] = s], UNCHANGED <<idx, rpc>>,
           \/ pc[d] = "idle"
           \/ pc[d] = "find" /\ s \in {"insert", "exists"}
           \/ pc[d] = "insert" /\ s = "exists"
           \/ pc[d] = "exists" /\ s = "attach"
           \/ pc[d] \notin {"idle", "true", "false"} /\ s \in {"true", "false"}
    PROVE  OneCallAdvances
<1>1. /\ pc'[d] = s /\ idx'[d] = idx[d] /\ idx[d] \in Nat
      /\ \A x \in Deliveries \ {d} : pc'[x] = pc[x] /\ idx'[x] = idx[x]
      /\ pc[d] \in {"idle", "find", "insert", "exists", "attach", "commit", "true", "false"}
  BY DEF TypeOK
<1>2. Place(d) < Place(d)'
  BY <1>1 DEF Place
<1> QED
  BY <1>1, <1>2, DeliveryAdvances

\* To the next rule, or after the last one to the commit.
LEMMA ToNextRule ==
    ASSUME TypeOK, NEW d \in Deliveries, pc[d] \in {"exists", "attach"},
           pc' = [pc EXCEPT ![d] = RuleLoop(d, idx[d] + 1)],
           idx' = [idx EXCEPT ![d] = @ + 1], UNCHANGED rpc
    PROVE  OneCallAdvances
<1>1. /\ pc'[d] \in {"find", "commit"} /\ idx'[d] = idx[d] + 1 /\ idx[d] \in Nat
      /\ \A x \in Deliveries \ {d} : pc'[x] = pc[x] /\ idx'[x] = idx[x]
  BY DEF TypeOK, RuleLoop
<1>2. Place(d) < Place(d)'
  BY <1>1 DEF Place
<1> QED
  BY <1>1, <1>2, DeliveryAdvances

LEMMA StepAdvances == IncidentsInv /\ Next => OneCallAdvances /\ job' = job
<1> SUFFICES ASSUME IncidentsInv, Next PROVE OneCallAdvances /\ job' = job
  OBVIOUS
<1>1. TypeOK
  BY DEF IncidentsInv
<1>2. ASSUME NEW d \in Deliveries, Start(d) PROVE OneCallAdvances /\ job' = job
  <2>1. RuleLoop(d, 1) \in {"find", "commit"}
    BY DEF RuleLoop
  <2> QED
    BY <1>1, <1>2, <2>1, WithinRule DEF Start, requestVars
<1>3. ASSUME NEW d \in Deliveries, Find(d) PROVE OneCallAdvances /\ job' = job
  BY <1>1, <1>3, WithinRule DEF Find, requestVars
<1>4. ASSUME NEW d \in Deliveries, Abort(d), pc[d] \notin {"idle", "true", "false"}
      PROVE  OneCallAdvances /\ job' = job
  BY <1>1, <1>4, WithinRule DEF Abort, requestVars
<1>5. ASSUME NEW d \in Deliveries, Insert(d) PROVE OneCallAdvances /\ job' = job
  <2>1. pc[d] = "insert"
    BY <1>5 DEF Insert
  <2>2. \/ Abort(d)
        \/ pc' = [pc EXCEPT ![d] = "exists"] /\ UNCHANGED <<idx, job, rpc>>
    BY <1>5 DEF Insert, requestVars
  <2> QED
    BY <1>1, <1>4, <2>1, <2>2, WithinRule
<1>6. ASSUME NEW d \in Deliveries, Exists(d) PROVE OneCallAdvances /\ job' = job
  BY <1>1, <1>6, WithinRule, ToNextRule DEF Exists, Skip, requestVars
<1>7. ASSUME NEW d \in Deliveries, Attach(d) PROVE OneCallAdvances /\ job' = job
  BY <1>1, <1>4, <1>7, ToNextRule DEF Attach, Skip, requestVars
<1>8. ASSUME NEW d \in Deliveries, Commit(d) PROVE OneCallAdvances /\ job' = job
  BY <1>1, <1>8, WithinRule DEF Commit, requestVars
<1>9. ASSUME NEW d \in Deliveries, DeliveryFault(d) PROVE OneCallAdvances /\ job' = job
  BY <1>4, <1>9 DEF DeliveryFault
<1>10. ASSUME NEW r \in Requests, Read(r) \/ RequestStep(r) \/ RequestFault(r)
       PROVE  OneCallAdvances /\ job' = job
  <2>1. /\ UNCHANGED <<pc, idx, job>>
        /\ \E s \in {"select", "422", "update", "commit", "200", "500"} :
              /\ rpc' = [rpc EXCEPT ![r] = s]
              /\ \/ rpc[r] = "idle"
                 \/ rpc[r] = "select" /\ s \in {"update", "500"}
                 \/ rpc[r] = "update" /\ s \in {"commit", "500"}
                 \/ rpc[r] = "commit" /\ s \in {"200", "500"}
    BY <1>10 DEF Read, RequestStep, Select, Update, CommitStatus, RequestFault, deliveryVars
  <2>2. Stage(r) < Stage(r)' /\ \A q \in Requests \ {r} : rpc'[q] = rpc[q]
    BY <1>1, <2>1 DEF TypeOK, Stage
  <2> QED
    BY <1>1, <2>1, <2>2, RequestAdvances
<1> QED
  BY <1>2, <1>3, <1>5, <1>6, <1>7, <1>8, <1>9, <1>10 DEF Next, DeliveryStep

\* Every call has a bounded number of places ...
THEOREM CallsAreBounded == Spec => []PlacesBounded
BY InvPlaces, IncidentsInvariant, PTL

\* ... and each step takes one of them forward: no delivery and no request goes
\* back, none waits by taking steps, and with NoDeadlock every call that is run ends.
THEOREM EveryStepAdvances == Spec => CallsRunForward
<1>1. IncidentsInv /\ [Next]_vars => [OneCallAdvances /\ job' = job]_vars
  BY StepAdvances
<1> QED
  BY <1>1, IncidentsInvariant, PTL DEF Spec, CallsRunForward

-----------------------------------------------------------------------------
(* The audit trail                                                          *)

\* Whatever status an incident has, the trail has each transition that leads there
\* from "open", also when a stale request has written an earlier status over it.
TrailComplete ==
    \A i \in Incidents, n \in 1..6 :
        status[i] = LifeCycle[n] =>
            \A m \in 1 .. n - 1 : \E h \in history :
                h.incident = i /\ h.from = LifeCycle[m] /\ h.to = LifeCycle[m + 1]

\* i once moved from the m-th status to the next one.
Moved(i, m) ==
    \E h \in history : h.incident = i /\ h.from = LifeCycle[m] /\ h.to = LifeCycle[m + 1]

LEMMA ReachedByMove ==
    ASSUME IncidentsInv, NEW i \in Incidents, NEW m \in 1..5, Reached(i, LifeCycle[m + 1])
    PROVE  Moved(i, m) /\ Reached(i, LifeCycle[m])
<1>0. /\ LifeCycle[1] = "open" /\ LifeCycle[2] = "acknowledged"
      /\ LifeCycle[3] = "investigating" /\ LifeCycle[4] = "contained"
      /\ LifeCycle[5] = "resolved" /\ LifeCycle[6] = "closed"
  BY DEF LifeCycle
<1>1. m = 1 \/ m = 2 \/ m = 3 \/ m = 4 \/ m = 5
  OBVIOUS
<1>2. PICK h \in history : h.incident = i /\ h.to = LifeCycle[m + 1]
  BY <1>0, <1>1 DEF Reached
<1>3. Reached(i, h.from) /\ MayMove(h.from, h.to)
  BY <1>2 DEF IncidentsInv, TableOK
<1>4. PICK n \in 1..5 : LifeCycle[n] = h.from /\ LifeCycle[n + 1] = h.to
  BY <1>3 DEF MayMove, Allowed
<1>5. n = 1 \/ n = 2 \/ n = 3 \/ n = 4 \/ n = 5
  OBVIOUS
<1>6. n = m
  BY <1>0, <1>1, <1>2, <1>4, <1>5
<1> QED
  BY <1>2, <1>3, <1>4, <1>6 DEF Moved

LEMMA InvTrailComplete == IncidentsInv => TrailComplete
<1> SUFFICES ASSUME IncidentsInv, NEW i \in Incidents, NEW n \in 1..6, status[i] = LifeCycle[n]
             PROVE  \A m \in 1 .. n - 1 : Moved(i, m)
  BY DEF TrailComplete, Moved
<1>1. LifeCycle[n] # "none"
  BY Statuses
<1>2. Reached(i, LifeCycle[n])
  BY <1>1 DEF IncidentsInv, TableOK
<1> DEFINE R(m) == Reached(i, LifeCycle[m])
           M(m) == Moved(i, m)
<1>3. \A m \in 1..5 : R(m + 1) => M(m) /\ R(m)
  BY ReachedByMove
<1>4. R(n)
  BY <1>2
<1> HIDE DEF R, M
<1>5. /\ R(6) => M(5) /\ R(5)
      /\ R(5) => M(4) /\ R(4)
      /\ R(4) => M(3) /\ R(3)
      /\ R(3) => M(2) /\ R(2)
      /\ R(2) => M(1) /\ R(1)
  BY <1>3
<1>6. n = 1 \/ n = 2 \/ n = 3 \/ n = 4 \/ n = 5 \/ n = 6
  OBVIOUS
<1>7. \A m \in 1 .. n - 1 : M(m)
  BY <1>4, <1>5, <1>6
<1> QED
  BY <1>7 DEF M

\* The trail of an incident is complete: it accounts for its status from "open" on.
THEOREM TrailIsComplete == Spec => []TrailComplete
BY InvTrailComplete, IncidentsInvariant, PTL

-----------------------------------------------------------------------------
(* Nothing committed is taken back                                          *)

NothingTakenBack == [][Grows]_vars

LEMMA StepGrows == IncidentsInv /\ [Next]_vars => Grows
<1> SUFFICES ASSUME IncidentsInv, [Next]_vars PROVE Grows
  OBVIOUS
<1>1. ASSUME UNCHANGED tableVars PROVE Grows
  BY <1>1 DEF tableVars, Grows
<1>2. ASSUME NEW d \in Deliveries, Abort(d) PROVE Grows
  BY <1>2, FreshIsUncommitted DEF Abort, Grows
<1>3. ASSUME NEW d \in Deliveries, Insert(d) PROVE Grows
  <2>1. CASE Abort(d)
    BY <1>2, <2>1
  <2>2. CASE ~ Abort(d)
    <3> DEFINE new == CHOOSE i \in Unused : TRUE
    <3>1. /\ new \in Unused /\ key' = [key EXCEPT ![new] = KeyAt(d)]
          /\ UNCHANGED <<status, evidence, history>>
      BY <1>3, <2>2 DEF Insert
    <3> HIDE DEF new
    <3>2. \A i \in Incidents : status[i] # "none" => i # new
      BY <3>1 DEF IncidentsInv, TableOK, Unused
    <3> QED
      BY <3>1, <3>2 DEF IncidentsInv, TypeOK, Grows
  <2> QED
    BY <2>1, <2>2
<1>4. ASSUME NEW d \in Deliveries, Start(d) \/ Find(d) \/ Exists(d) PROVE Grows
  BY <1>1, <1>4 DEF Start, Find, Exists, Skip
<1>5. ASSUME NEW d \in Deliveries, Attach(d) PROVE Grows
  BY <1>1, <1>2, <1>5 DEF Attach, Skip
<1>6. ASSUME NEW d \in Deliveries, Commit(d) PROVE Grows
  BY <1>6 DEF Commit, Grows, IncidentsInv, TypeOK
<1>7. ASSUME NEW d \in Deliveries, DeliveryFault(d) PROVE Grows
  BY <1>2, <1>7 DEF DeliveryFault
<1>8. ASSUME NEW r \in Requests, Read(r) \/ Select(r) \/ Update(r) \/ RequestFault(r)
      PROVE  Grows
  BY <1>1, <1>8 DEF Read, Select, Update, RequestFault
<1>9. ASSUME NEW r \in Requests, CommitStatus(r) PROVE Grows
  <2>1. wrote[r] \in {to[r], status[subject[r]]} /\ status[subject[r]] # "none"
    BY <1>9 DEF CommitStatus, IncidentsInv, RequestOK
  <2>2. MayMove(from[r], to[r])
    BY <1>9 DEF CommitStatus, IncidentsInv, RequestOK
  <2>3. to[r] \in IncidentStatus
    BY <2>2, Moves
  <2>4. wrote[r] # "none"
    BY <2>1, <2>3, Statuses
  <2> QED
    BY <1>9, <2>4 DEF CommitStatus, Grows, IncidentsInv, TypeOK
<1> QED
  BY <1>1, <1>3, <1>4, <1>5, <1>6, <1>7, <1>8, <1>9 DEF Next, DeliveryStep, RequestStep, vars

\* A committed incident never disappears or changes its key, and no evidence and
\* no row of the trail is ever deleted or rewritten, by no call, fault or conflict.
THEOREM TablesOnlyGrow == Spec => NothingTakenBack
<1>1. IncidentsInv /\ [Next]_vars => [Grows]_vars
  BY StepGrows
<1> QED
  BY <1>1, IncidentsInvariant, PTL DEF Spec, NothingTakenBack

-----------------------------------------------------------------------------
(* One status change at a time.  A request reads the row twice and decides on *)
(* the first reading; what it does is right as long as no other request is at *)
(* the same incident in between.                                              *)

Pending == {"select", "update", "commit"}

\* No two requests in flight are at the same incident.
RequestsApart ==
    \A q, r \in Requests :
        q # r /\ {rpc[q], rpc[r]} \subseteq Pending => subject[q] # subject[r]

\* What the request decided from is what the table has.
RequestInOrder(r) ==
    /\ rpc[r] \in Pending => status[subject[r]] = from[r]
    /\ rpc[r] = "update" => seen[r] = from[r]
    /\ rpc[r] = "commit" => wrote[r] = to[r]

RequestsInOrder == \A r \in Requests : RequestInOrder(r)

LEMMA MovesOn == ASSUME NEW a, NEW b, MayMove(a, b) PROVE a # b /\ (Indexed(b) => Indexed(a))
<1>1. PICK m \in 1..5 : LifeCycle[m] = a /\ LifeCycle[m + 1] = b
  BY DEF MayMove, Allowed
<1>2. /\ LifeCycle[1] = "open" /\ LifeCycle[2] = "acknowledged"
      /\ LifeCycle[3] = "investigating" /\ LifeCycle[4] = "contained"
      /\ LifeCycle[5] = "resolved" /\ LifeCycle[6] = "closed"
  BY DEF LifeCycle
<1>3. m = 1 \/ m = 2 \/ m = 3 \/ m = 4 \/ m = 5
  OBVIOUS
<1>4. a # b
  BY <1>1, <1>2, <1>3
<1>5. Indexed(b) => Indexed(a)
  BY <1>1, <1>2, <1>3 DEF Indexed
<1> QED
  BY <1>4, <1>5

\* Only the commit of a request changes the status of a committed incident.
LEMMA OnlyRequestsChange ==
    ASSUME IncidentsInv, [Next]_vars, NEW i \in Incidents, status[i] # "none",
           status'[i] # status[i]
    PROVE  \E r \in Requests : CommitStatus(r) /\ subject[r] = i
<1>1. ASSUME NEW d \in Deliveries, Commit(d) PROVE FALSE
  BY <1>1, FreshIsUncommitted DEF Commit
<1>2. ASSUME NEW d \in Deliveries, Abort(d) PROVE FALSE
  BY <1>2 DEF Abort
<1>3. ASSUME NEW d \in Deliveries, Start(d) \/ Find(d) \/ Insert(d) \/ Exists(d) \/ Attach(d)
      PROVE  FALSE
  BY <1>2, <1>3 DEF Start, Find, Insert, Exists, Skip, Attach, tableVars
<1>4. ASSUME NEW d \in Deliveries, DeliveryFault(d) PROVE FALSE
  BY <1>2, <1>4 DEF DeliveryFault
<1>5. ASSUME NEW r \in Requests, Read(r) \/ Select(r) \/ Update(r) \/ RequestFault(r)
      PROVE  FALSE
  BY <1>5 DEF Read, Select, Update, RequestFault, tableVars
<1>6. ASSUME NEW r \in Requests, CommitStatus(r) PROVE subject[r] = i
  BY <1>6 DEF CommitStatus, IncidentsInv, TypeOK
<1>7. CASE UNCHANGED vars
  BY <1>7 DEF vars, tableVars
<1> QED
  BY <1>1, <1>3, <1>4, <1>5, <1>6, <1>7 DEF Next, DeliveryStep, RequestStep

\* Another call's step leaves the row and what the request knows of it.
LEMMA OrderStays ==
    ASSUME IncidentsInv, [Next]_vars, NEW r \in Requests, RequestInOrder(r),
           rpc'[r] = rpc[r], subject'[r] = subject[r], from'[r] = from[r], to'[r] = to[r],
           seen'[r] = seen[r], wrote'[r] = wrote[r],
           rpc[r] \in Pending =>
              ~ \E q \in Requests : CommitStatus(q) /\ subject[q] = subject[r]
    PROVE  RequestInOrder(r)'
<1>1. rpc[r] \in Pending => subject[r] \in Incidents /\ status[subject[r]] # "none"
  BY DEF IncidentsInv, RequestOK, Pending
<1>2. rpc[r] \in Pending => status'[subject[r]] = status[subject[r]]
  BY <1>1, OnlyRequestsChange
<1> QED
  BY <1>2 DEF RequestInOrder

LEMMA OrderKept ==
    IncidentsInv /\ RequestsApart /\ RequestsInOrder /\ [Next]_vars => RequestsInOrder'
<1> SUFFICES ASSUME IncidentsInv, RequestsApart, RequestsInOrder, [Next]_vars,
                    NEW r \in Requests
             PROVE  RequestInOrder(r)'
  BY DEF RequestsInOrder
<1>0. TypeOK /\ RequestInOrder(r) /\ RequestOK(r)
  BY DEF IncidentsInv, RequestsInOrder
<1>1. CASE Read(r)
  <2>1. rpc'[r] \in {"select", "422"} /\ status' = status
        /\ (rpc'[r] = "select" => from'[r] = status[subject'[r]])
    BY <1>0, <1>1 DEF Read, TypeOK, tableVars
  <2> QED
    BY <2>1 DEF RequestInOrder, Pending
<1>2. CASE Select(r)
  <2>1. rpc'[r] = "update" /\ seen'[r] = status[subject[r]] /\ rpc[r] = "select"
        /\ UNCHANGED <<status, subject, from>>
    BY <1>0, <1>2 DEF Select, TypeOK, tableVars
  <2> QED
    BY <1>0, <2>1 DEF RequestInOrder, Pending
<1>3. CASE Update(r)
  <2>1. /\ UNCHANGED <<status, subject, from, to>> /\ rpc[r] = "update"
        /\ \/ rpc'[r] = "500"
           \/ rpc'[r] = "commit" /\ wrote'[r] = NewStatus(r)
    BY <1>0, <1>3 DEF Update, TypeOK, tableVars
  <2>2. seen[r] = from[r] /\ MayMove(from[r], to[r])
    BY <1>0, <2>1 DEF RequestInOrder, RequestOK
  <2>3. NewStatus(r) = to[r]
    BY <2>2, MovesOn DEF NewStatus
  <2> QED
    BY <1>0, <2>1, <2>3 DEF RequestInOrder, Pending
<1>4. CASE CommitStatus(r) \/ RequestFault(r)
  <2>1. rpc'[r] \in {"200", "500"}
    BY <1>0, <1>4 DEF CommitStatus, RequestFault, TypeOK
  <2> QED
    BY <2>1 DEF RequestInOrder, Pending
<1>5. CASE UNCHANGED vars
  BY <1>0, <1>5 DEF RequestInOrder, vars, tableVars, requestVars
<1>6. CASE ~ (Read(r) \/ RequestStep(r) \/ RequestFault(r) \/ UNCHANGED vars)
  <2>1. \/ \E d \in Deliveries : Start(d) \/ DeliveryStep(d) \/ DeliveryFault(d)
        \/ \E q \in Requests \ {r} : Read(q) \/ RequestStep(q) \/ RequestFault(q)
    BY <1>6 DEF Next
  <2>2. /\ rpc'[r] = rpc[r] /\ subject'[r] = subject[r] /\ from'[r] = from[r]
        /\ to'[r] = to[r] /\ seen'[r] = seen[r] /\ wrote'[r] = wrote[r]
    <3>1. CASE \E d \in Deliveries : Start(d) \/ DeliveryStep(d) \/ DeliveryFault(d)
      BY <3>1 DEF Start, DeliveryStep, DeliveryFault, Find, Insert, Exists, Skip, Attach, Commit,
                  Abort, requestVars
    <3>2. CASE \E q \in Requests \ {r} : Read(q) \/ RequestStep(q) \/ RequestFault(q)
      BY <1>0, <3>2 DEF Read, RequestStep, Select, Update, CommitStatus, RequestFault, TypeOK
    <3> QED
      BY <2>1, <3>1, <3>2
  <2>3. ASSUME rpc[r] \in Pending, NEW q \in Requests, CommitStatus(q), subject[q] = subject[r]
        PROVE  FALSE
    <3>1. rpc[q] = "commit" /\ q # r
      BY <1>6, <2>3 DEF CommitStatus, RequestStep
    <3> QED
      BY <2>3, <3>1 DEF RequestsApart, Pending
  <2> QED
    BY <1>0, <2>2, <2>3, OrderStays
<1> QED
  BY <1>1, <1>2, <1>3, <1>4, <1>5, <1>6 DEF RequestStep

LEMMA OrderAtFirst == Init => RequestsInOrder
BY DEF Init, RequestsInOrder, RequestInOrder, Pending

\* As long as no two requests are at the same incident, each committed change is
\* one the life cycle allows: the lost update of StatusFollowsLifeCycle takes two.
THEOREM OneRequestFollows == Spec /\ []RequestsApart => StatusFollowsLifeCycle
<1>1. ASSUME IncidentsInv, RequestsInOrder, [Next]_vars
      PROVE  \A i \in Incidents : status[i] \notin {"none", status'[i]} =>
                status'[i] \in Allowed(status[i])
  <2> SUFFICES ASSUME NEW i \in Incidents, status[i] \notin {"none", status'[i]}
               PROVE  status'[i] \in Allowed(status[i])
    OBVIOUS
  <2>1. PICK r \in Requests : CommitStatus(r) /\ subject[r] = i
    BY <1>1, OnlyRequestsChange
  <2>2. status'[i] = wrote[r] /\ rpc[r] = "commit"
    BY <1>1, <2>1 DEF CommitStatus, IncidentsInv, TypeOK
  <2>3. wrote[r] = to[r] /\ from[r] = status[i]
    BY <1>1, <2>1, <2>2 DEF RequestsInOrder, RequestInOrder, Pending
  <2>4. MayMove(from[r], to[r])
    BY <1>1, <2>2 DEF IncidentsInv, RequestOK
  <2> QED
    BY <2>2, <2>3, <2>4 DEF MayMove
<1>2. IncidentsInv /\ RequestsInOrder /\ [Next]_vars =>
         [\A i \in Incidents : status[i] \notin {"none", status'[i]} =>
             status'[i] \in Allowed(status[i])]_vars
  BY <1>1
<1> QED
  BY <1>2, OrderAtFirst, OrderKept, IncidentsInvariant, PTL DEF Spec, StatusFollowsLifeCycle

-----------------------------------------------------------------------------
(* Deliveries apart                                                         *)

\* No two deliveries in flight have an event of the same key.
DeliveriesApart ==
    \A c, d \in Deliveries :
        c # d /\ {pc[c], pc[d]} \subseteq Open =>
            \A m \in DOMAIN KeysOfJob(c), n \in DOMAIN KeysOfJob(d) :
                KeysOfJob(c)[m] # KeysOfJob(d)[n]

\* What a rule has looked for is still not there when it writes.
NoConflict(d) ==
    /\ pc[d] = "insert" => ~ Taken(KeyAt(d), None)
    /\ pc[d] = "attach" => <<target[d], job[d]>> \notin evidence
    /\ faults = 0 => pc[d] # "false"

NoConflicts == \A d \in Deliveries : NoConflict(d)

LEMMA TakenBy ==
    ASSUME NEW k PROVE Taken(k, None) <=> \E i \in Incidents : key[i] = k /\ Indexed(status[i])
BY NoneIsNoIncident DEF Taken

\* The step is not one of d, and writes nothing the current rule of d looked for.
LEMMA ConflictStays ==
    ASSUME IncidentsInv, NEW d \in Deliveries, NoConflict(d), faults' >= faults, faults \in Nat,
           faults' \in Nat,
           pc'[d] = pc[d], job'[d] = job[d], idx'[d] = idx[d], target'[d] = target[d],
           pc[d] = "attach" => <<target[d], job[d]>> \notin evidence' \ evidence,
           pc[d] = "insert" =>
              \A i \in Incidents : key'[i] = KeyAt(d) /\ Indexed(status'[i]) =>
                 key[i] = KeyAt(d) /\ Indexed(status[i])
    PROVE  NoConflict(d)'
<1>1. KeyAt(d)' = KeyAt(d)
  BY DEF KeyAt
<1>2. pc[d] = "insert" => ~ \E i \in Incidents : key[i] = KeyAt(d) /\ Indexed(status[i])
  BY TakenBy DEF NoConflict
<1>3. ASSUME pc[d] = "insert", Taken(KeyAt(d), None)' PROVE FALSE
  <2>1. PICK i \in Incidents : key'[i] = KeyAt(d)' /\ Indexed(status[i])'
    BY <1>3 DEF Taken
  <2>2. key[i] = KeyAt(d) /\ Indexed(status[i])
    BY <1>1, <1>3, <2>1 DEF Indexed
  <2> QED
    BY <1>2, <1>3, <2>2
<1>4. pc[d] = "attach" => <<target[d], job[d]>> \notin evidence'
  BY DEF NoConflict
<1> QED
  BY <1>3, <1>4 DEF NoConflict

\* The rows and the evidence of a commit have keys of its event.
LEMMA CommittedKeys ==
    ASSUME IncidentsInv, NEW c \in Deliveries, pc[c] = "commit", NEW i \in Incidents,
           NEW e \in Events, i \in fresh[c] \/ <<i, e>> \in links[c]
    PROVE  \E n \in DOMAIN KeysOfJob(c) : key[i] = KeysOfJob(c)[n]
<1>1. job[c] \in Events /\ LinksOK(c) /\ LoopOK(c) /\ FreshOK(c)
  BY DEF IncidentsInv, DeliveryOK, TypeOK
<1>2. <<i, job[c]>> \in links[c]
  BY <1>1 DEF FreshOK, LinksOK
<1>3. PICK n \in 1 .. idx[c] - 1 : key[i] = KeysOfJob(c)[n]
  BY <1>1, <1>2 DEF LinksOK
<1>4. n \in DOMAIN KeysOf[job[c]]
  BY <1>1, KeysOfEvent DEF LoopOK, KeysOfJob
<1> QED
  BY <1>3, <1>4 DEF KeysOfJob

LEMMA CurrentKey ==
    ASSUME IncidentsInv, NEW d \in Deliveries, pc[d] \in {"insert", "attach"}
    PROVE  idx[d] \in DOMAIN KeysOfJob(d) /\ KeyAt(d) = KeysOfJob(d)[idx[d]]
<1>1. job[d] \in Events /\ LoopOK(d)
  BY DEF IncidentsInv, DeliveryOK, TypeOK
<1> QED
  BY <1>1, KeysOfEvent DEF LoopOK, KeysOfJob, KeyAt

\* The rule of d looks for no key that another delivery commits.
LEMMA CommitElsewhere ==
    ASSUME IncidentsInv, DeliveriesApart, NEW d \in Deliveries, NEW c \in Deliveries \ {d},
           pc[d] \in {"insert", "attach"}, pc[c] = "commit", NEW i \in Incidents,
           NEW e \in Events, i \in fresh[c] \/ <<i, e>> \in links[c]
    PROVE  key[i] # KeyAt(d)
<1>1. \E n \in DOMAIN KeysOfJob(c) : key[i] = KeysOfJob(c)[n]
  BY CommittedKeys
<1>2. idx[d] \in DOMAIN KeysOfJob(d) /\ KeyAt(d) = KeysOfJob(d)[idx[d]]
  BY CurrentKey
<1> QED
  BY <1>1, <1>2 DEF DeliveriesApart, Open

\* Own steps: what the rule found missing when it looked is missing now.
LEMMA ConflictOwn ==
    ASSUME IncidentsInv, NEW d \in Deliveries, NoConflict(d),
           Start(d) \/ DeliveryStep(d) \/ DeliveryFault(d)
    PROVE  NoConflict(d)'
<1>0. TypeOK /\ faults \in Nat
  BY DEF IncidentsInv, TypeOK
<1>1. ASSUME pc'[d] \notin {"insert", "attach", "false"} PROVE NoConflict(d)'
  BY <1>1 DEF NoConflict
<1>2. ASSUME pc'[d] = "false", faults' # 0 PROVE NoConflict(d)'
  BY <1>2 DEF NoConflict
<1>3. CASE Start(d)
  <2>1. pc'[d] \in {"find", "commit"}
    BY <1>0, <1>3 DEF Start, RuleLoop, TypeOK
  <2> QED
    BY <1>1, <2>1
<1>4. CASE Find(d)
  <2>1. CASE OpenWith(KeyAt(d)) # {}
    <3>1. pc'[d] = "exists"
      BY <1>0, <1>4, <2>1 DEF Find, TypeOK
    <3> QED
      BY <1>1, <3>1
  <2>2. CASE OpenWith(KeyAt(d)) = {}
    <3>1. pc'[d] = "insert" /\ UNCHANGED <<tableVars, job, idx>>
      BY <1>0, <1>4, <2>2 DEF Find, TypeOK
    <3>2. \A i \in Incidents : key[i] = KeyAt(d) => ~ Indexed(status[i])
      BY <1>0, <2>2, IndexedStatus DEF OpenWith, TypeOK
    <3>3. ~ Taken(KeyAt(d), None)
      BY <3>2, TakenBy
    <3>4. Taken(KeyAt(d), None)' <=> Taken(KeyAt(d), None)
      BY <3>1 DEF Taken, KeyAt, tableVars, Indexed
    <3> QED
      BY <3>1, <3>3, <3>4 DEF NoConflict
  <2> QED
    BY <2>1, <2>2
<1>5. CASE Insert(d)
  <2>1. ~ Taken(KeyAt(d), None)
    BY <1>5 DEF Insert, NoConflict
  <2>2. pc'[d] = "exists"
    BY <1>0, <1>5, <2>1 DEF Insert, TypeOK
  <2> QED
    BY <1>1, <2>2
<1>6. CASE Exists(d)
  <2>1. CASE <<target[d], job[d]>> \in evidence
    <3>1. pc'[d] \in {"find", "commit"}
      BY <1>0, <1>6, <2>1 DEF Exists, Skip, RuleLoop, TypeOK
    <3> QED
      BY <1>1, <3>1
  <2>2. CASE <<target[d], job[d]>> \notin evidence
    <3>1. pc'[d] = "attach" /\ UNCHANGED <<tableVars, job, target>>
      BY <1>0, <1>6, <2>2 DEF Exists, Skip, TypeOK
    <3> QED
      BY <2>2, <3>1 DEF NoConflict, tableVars
  <2> QED
    BY <2>1, <2>2
<1>7. CASE Attach(d)
  <2>1. <<target[d], job[d]>> \notin evidence
    BY <1>7 DEF Attach, Skip, NoConflict
  <2>2. pc'[d] \in {"find", "commit"}
    BY <1>0, <1>7, <2>1 DEF Attach, Skip, RuleLoop, TypeOK
  <2> QED
    BY <1>1, <2>2
<1>8. CASE Commit(d)
  <2>1. pc'[d] = "true" \/ (pc'[d] = "false" /\ faults' = faults + 1)
    BY <1>0, <1>8 DEF Commit, TypeOK
  <2> QED
    BY <1>0, <1>1, <1>2, <2>1
<1>9. CASE DeliveryFault(d)
  <2>1. pc'[d] = "false" /\ faults' = faults + 1
    BY <1>0, <1>9 DEF DeliveryFault, Abort, TypeOK
  <2> QED
    BY <1>0, <1>2, <2>1
<1> QED
  BY <1>3, <1>4, <1>5, <1>6, <1>7, <1>8, <1>9 DEF DeliveryStep

\* Steps of other deliveries.
LEMMA ConflictOther ==
    ASSUME IncidentsInv, DeliveriesApart, NEW d \in Deliveries, NoConflict(d),
           NEW c \in Deliveries \ {d}, Start(c) \/ DeliveryStep(c) \/ DeliveryFault(c)
    PROVE  NoConflict(d)'
<1>0. TypeOK /\ faults \in Nat
  BY DEF IncidentsInv, TypeOK
<1>1. /\ pc'[d] = pc[d] /\ job'[d] = job[d] /\ idx'[d] = idx[d] /\ target'[d] = target[d]
      /\ faults' \in {faults, faults + 1}
  BY <1>0 DEF Start, DeliveryStep, DeliveryFault, Find, Insert, Exists, Skip, Attach, Commit, Abort, TypeOK
<1>2. faults' \in Nat /\ faults' >= faults
  BY <1>0, <1>1
<1>3. ASSUME evidence' = evidence,
             \A i \in Incidents : Indexed(status'[i]) => status'[i] = status[i] /\ key'[i] = key[i]
      PROVE  NoConflict(d)'
  BY <1>0, <1>1, <1>2, <1>3, ConflictStays
<1>4. \A i \in Incidents : Indexed(status[i]) => status[i] # "none"
  BY DEF Indexed
<1>5. ASSUME Abort(c) PROVE NoConflict(d)'
  <2>1. \A i \in Incidents : Indexed(status'[i]) => status'[i] = status[i] /\ key'[i] = key[i]
    BY <1>4, <1>5, FreshIsUncommitted DEF Abort
  <2>2. evidence' = evidence
    BY <1>5 DEF Abort
  <2> QED
    BY <1>3, <2>1, <2>2
<1>6. CASE Start(c) \/ Find(c) \/ Exists(c)
  <2>1. UNCHANGED tableVars
    BY <1>6 DEF Start, Find, Exists, Skip
  <2> QED
    BY <1>3, <2>1 DEF tableVars
<1>7. CASE Insert(c)
  <2>1. CASE Abort(c)
    BY <1>5, <2>1
  <2>2. CASE ~ Abort(c)
    <3> DEFINE new == CHOOSE i \in Unused : TRUE
    <3>1. /\ new \in Unused /\ key' = [key EXCEPT ![new] = KeyAt(c)]
          /\ UNCHANGED <<status, evidence>>
      BY <1>7, <2>2 DEF Insert
    <3> HIDE DEF new
    <3>2. \A i \in Incidents : status[i] # "none" => i # new
      BY <3>1 DEF IncidentsInv, TableOK, Unused
    <3>3. \A i \in Incidents : Indexed(status'[i]) => status'[i] = status[i] /\ key'[i] = key[i]
      BY <1>0, <1>4, <3>1, <3>2 DEF TypeOK
    <3> QED
      BY <1>3, <3>1, <3>3
  <2> QED
    BY <2>1, <2>2
<1>8. CASE Attach(c)
  <2>1. Abort(c) \/ UNCHANGED tableVars
    BY <1>8 DEF Attach, Skip
  <2> QED
    BY <1>3, <1>5, <2>1 DEF tableVars
<1>9. CASE Commit(c)
  <2>1. /\ pc[c] = "commit" /\ key' = key /\ evidence' = evidence \cup links[c]
        /\ status' = [i \in Incidents |-> IF i \in fresh[c] THEN "open" ELSE status[i]]
    BY <1>9 DEF Commit
  <2>2. ASSUME pc[d] = "insert", NEW i \in Incidents, key'[i] = KeyAt(d), Indexed(status'[i])
        PROVE  key[i] = KeyAt(d) /\ Indexed(status[i])
    <3>1. job[d] \in Events
      BY <1>0 DEF TypeOK
    <3>2. i \notin fresh[c]
      BY <2>1, <2>2, <3>1, CommitElsewhere
    <3> QED
      BY <2>1, <2>2, <3>2
  <2>3. ASSUME pc[d] = "attach", <<target[d], job[d]>> \in links[c] PROVE FALSE
    <3>1. target[d] \in Incidents /\ key[target[d]] = KeyAt(d) /\ job[d] \in Events
      BY <2>3 DEF IncidentsInv, DeliveryOK, TargetOK, TypeOK
    <3> QED
      BY <2>1, <2>3, <3>1, CommitElsewhere
  <2> QED
    BY <1>0, <1>1, <1>2, <2>1, <2>2, <2>3, ConflictStays
<1>10. CASE DeliveryFault(c)
  BY <1>5, <1>10 DEF DeliveryFault
<1> QED
  BY <1>6, <1>7, <1>8, <1>9, <1>10 DEF DeliveryStep

\* Steps of requests: an incident that is not active is not made active again.
LEMMA ConflictRequest ==
    ASSUME IncidentsInv, RequestsInOrder, NEW d \in Deliveries, NoConflict(d),
           NEW r \in Requests, Read(r) \/ RequestStep(r) \/ RequestFault(r)
    PROVE  NoConflict(d)'
<1>0. TypeOK /\ faults \in Nat
  BY DEF IncidentsInv, TypeOK
<1>1. /\ UNCHANGED <<pc, job, idx, target, key, evidence>> /\ faults' \in {faults, faults + 1}
  BY DEF Read, RequestStep, RequestFault, Select, Update, CommitStatus, deliveryVars, tableVars
<1>2. faults' \in Nat /\ faults' >= faults
  BY <1>0, <1>1
<1>3. ASSUME NEW i \in Incidents, Indexed(status'[i]) PROVE Indexed(status[i])
  <2>1. CASE CommitStatus(r) /\ subject[r] = i
    <3>1. status'[i] = wrote[r] /\ rpc[r] = "commit"
      BY <1>0, <2>1 DEF CommitStatus, TypeOK
    <3>2. wrote[r] = to[r] /\ from[r] = status[i] /\ MayMove(from[r], to[r])
      BY <2>1, <3>1 DEF RequestsInOrder, RequestInOrder, Pending, IncidentsInv, RequestOK
    <3> QED
      BY <1>3, <3>1, <3>2, MovesOn
  <2>2. CASE ~ (CommitStatus(r) /\ subject[r] = i)
    <3>1. status'[i] = status[i]
      BY <1>0, <2>2 DEF Read, RequestStep, RequestFault, Select, Update, CommitStatus,
                        tableVars, TypeOK
    <3> QED
      BY <1>3, <3>1
  <2> QED
    BY <2>1, <2>2
<1> QED
  BY <1>0, <1>1, <1>2, <1>3, ConflictStays

LEMMA NoConflictKept ==
    IncidentsInv /\ RequestsInOrder /\ DeliveriesApart /\ NoConflicts /\ [Next]_vars
        => NoConflicts'
<1> SUFFICES ASSUME IncidentsInv, RequestsInOrder, DeliveriesApart, NoConflicts, [Next]_vars,
                    NEW d \in Deliveries
             PROVE  NoConflict(d)'
  BY DEF NoConflicts
<1>1. NoConflict(d)
  BY DEF NoConflicts
<1>2. CASE UNCHANGED vars
  BY <1>1, <1>2 DEF NoConflict, vars, tableVars, deliveryVars, Taken, Indexed, KeyAt
<1>3. CASE \E c \in Deliveries : Start(c) \/ DeliveryStep(c) \/ DeliveryFault(c)
  BY <1>1, <1>3, ConflictOwn, ConflictOther
<1>4. CASE \E r \in Requests : Read(r) \/ RequestStep(r) \/ RequestFault(r)
  BY <1>1, <1>4, ConflictRequest
<1> QED
  BY <1>2, <1>3, <1>4 DEF Next

LEMMA NoConflictAtFirst == Init => NoConflicts
BY DEF Init, NoConflicts, NoConflict

\* As long as no two deliveries in flight share a key and no two requests in flight
\* an incident, a delivery ends False only by a fault: the conflict that the
\* SAVEPOINT does not absorb takes two events of a key at the same time.
THEOREM NoConflictApart ==
    Spec /\ []RequestsApart /\ []DeliveriesApart => []ConflictAbsorbed
<1>1. NoConflicts => ConflictAbsorbed
  BY DEF NoConflicts, NoConflict, ConflictAbsorbed
<1> QED
  BY <1>1, OrderAtFirst, OrderKept, NoConflictAtFirst, NoConflictKept, IncidentsInvariant, PTL
     DEF Spec
==============================================================================
