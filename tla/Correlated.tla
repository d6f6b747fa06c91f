----------------------------- MODULE Correlated -----------------------------
(***************************************************************************)
(* What the incident tables promise, whoever writes them and whatever      *)
(* fails, without sessions, locks, statements or retries.                  *)
(*                                                                         *)
(* An event is correlated in one step, for all of its keys at once.  A new *)
(* incident appears open, with its evidence, and only where no incident of *)
(* its key is active.  A status never changes without the row of the audit *)
(* trail that records the change, and a row records a transition of the    *)
(* life cycle that starts where an earlier row, or the creation, ended;    *)
(* the incident may have moved on since that row was read.                 *)
(***************************************************************************)
EXTENDS LifeCycle

CONSTANTS
    Events,     \* stored security events
    Keys,       \* correlation keys
    KeysOf,     \* KeysOf[e]: the keys of e, in rule order
    Incidents,  \* incident identifiers
    Rows,       \* identifiers of status history rows
    Ages,       \* how far an incident of an earlier time has come: 0 if there is
                \* none, n if it is in the n-th status of its life cycle
    None

ASSUME CorrelatedAssumptions ==
    /\ Ages \subseteq 0..6
    /\ KeysOf \in [Events -> Seq(Keys)]

VARIABLES
    status,    \* status of each incident, "none" if it does not exist
    key,       \* its correlation key
    evidence,  \* pairs incident, event
    history    \* rows of the audit trail

cvars == <<status, key, evidence, history>>

Exist == {i \in Incidents : status[i] # "none"}
KeySet(e) == {KeysOf[e][n] : n \in DOMAIN KeysOf[e]}

\* No two active incidents of one key, if the tables were k and s.
Unique(k, s) ==
    \A i, j \in Incidents : i # j /\ k[i] = k[j] => ~ {s[i], s[j]} \subseteq ActiveStatus

\* i was in status s once.
Reached(i, s) == s = "open" \/ \E h \in history : h.incident = i /\ h.to = s

\* The row of the n-th transition of an incident of an earlier time.
PastRow(i, n) == [id |-> n, incident |-> i, from |-> LifeCycle[n], to |-> LifeCycle[n + 1]]

\* The tables are empty, or hold the incident of an event with a single key.
CInit ==
    \E age \in Ages, e \in Events :
        LET i == CHOOSE i \in Incidents : TRUE IN
        /\ age > 0 => Len(KeysOf[e]) = 1
        /\ status = [j \in Incidents |-> IF age > 0 /\ j = i THEN LifeCycle[age] ELSE "none"]
        /\ key = [j \in Incidents |-> IF age > 0 /\ j = i THEN KeysOf[e][1] ELSE None]
        /\ evidence = IF age > 0 THEN {<<i, e>>} ELSE {}
        /\ history = IF age > 0 THEN {PastRow(i, n) : n \in 1 .. age - 1} ELSE {}

\* The event becomes evidence of one incident for each of its keys: of one that
\* exists, or of a new one.
Correlate(e) ==
    \E goes \in [KeySet(e) -> Incidents] :
        /\ \A k \in KeySet(e) : goes[k] \in Exist => key[goes[k]] = k
        /\ \A k, l \in KeySet(e) : goes[k] = goes[l] => k = l
        /\ key' = [i \in Incidents |->
                      IF \E k \in KeySet(e) : goes[k] = i
                      THEN CHOOSE k \in KeySet(e) : goes[k] = i ELSE key[i]]
        /\ status' = [i \in Incidents |->
                      IF i \notin Exist /\ \E k \in KeySet(e) : goes[k] = i
                      THEN "open" ELSE status[i]]
        /\ evidence' = evidence \cup {<<goes[k], e>> : k \in KeySet(e)}
        /\ Unique(key', status')
        /\ UNCHANGED history

\* A status change commits with its row of the audit trail.
Change(n, i, from, to) ==
    /\ i \in Exist
    /\ Reached(i, from)
    /\ MayMove(from, to)
    /\ \A h \in history : h.id # n
    /\ \E s \in {to, status[i]} : status' = [status EXCEPT ![i] = s]
    /\ history' = history \cup {[id |-> n, incident |-> i, from |-> from, to |-> to]}
    /\ Unique(key, status')
    /\ UNCHANGED <<key, evidence>>

CNext ==
    \/ \E e \in Events : Correlate(e)
    \/ \E n \in Rows, i \in Incidents, from, to \in IncidentStatus : Change(n, i, from, to)

CSpec == CInit /\ [][CNext]_cvars
=============================================================================
