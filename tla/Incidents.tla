------------------------------ MODULE Incidents ------------------------------
(***************************************************************************)
(* The incident tables and the two components that write them at the same  *)
(* time: the correlation consumer, which turns a delivered event into      *)
(* incidents and evidence, and PATCH /incidents/{id}/status, with which an *)
(* analyst moves an incident through its life cycle.                       *)
(*                                                                         *)
(* A delivery is one call of CorrelationKafkaConsumer.process_single_-     *)
(* message; a request is one call of change_incident_status.  Both run one *)
(* PostgreSQL transaction at READ COMMITTED: a query sees committed rows   *)
(* and the rows of its own transaction, a write that meets an uncommitted  *)
(* write of another transaction on the same row or unique key waits for    *)
(* its end.                                                                *)
(***************************************************************************)
EXTENDS LifeCycle, FiniteSets

CONSTANTS
    Events,      \* stored security events
    Keys,        \* correlation keys: tenant, rule, version, asset, time bucket
    KeysOf,      \* KeysOf[e]: the keys the eligible rules build for e, in rule order
    RuleOf,      \* RuleOf[k]: position of the rule of k in AVAILABLE_RULES
    Incidents,   \* incident identifiers (uuid4)
    Deliveries,  \* calls of process_single_message
    Requests,    \* calls of change_incident_status
    None,
    Ages,        \* how far an incident of an earlier time has come: see Correlated
    MaxFaults    \* bound on the faults of a behaviour (model checking only)

ASSUME IncidentsAssumptions ==
    /\ KeysOf \in [Events -> Seq(Keys)]
    /\ RuleOf \in [Keys -> Nat]
    /\ \A e \in Events : \A m, n \in DOMAIN KeysOf[e] :
          m < n => RuleOf[KeysOf[e][m]] < RuleOf[KeysOf[e][n]]
    /\ Keys = {} \/ \E last \in Keys : \A k \in Keys : RuleOf[k] <= RuleOf[last]
    /\ None \notin Keys \cup Incidents \cup Events \cup Deliveries \cup Requests
    /\ Incidents # {} /\ Ages \subseteq 0..6
    /\ Requests \cap 1..5 = {}   \* rows of an earlier time have those identifiers
    /\ MaxFaults \in Nat

VARIABLES
    status,    \* committed status of each incident
    key,       \* its correlation key
    evidence,  \* committed incident_evidences: pairs incident, event
    history,   \* committed incident_status_history rows
    pc, job, idx, target, fresh, links,  \* each delivery
    rpc, subject, from, to, seen, wrote, \* each request
    faults     \* faults so far

tableVars == <<status, key, evidence, history>>
deliveryVars == <<pc, job, idx, target, fresh, links>>
requestVars == <<rpc, subject, from, to, seen, wrote>>
vars == <<tableVars, deliveryVars, requestVars, faults>>

-----------------------------------------------------------------------------
(* The partial unique index on the correlation key of active incidents      *)

\* Faulty variant of Indexed: only incidents nobody acknowledged are unique.
IndexedOpen(s) == s = "open"

\* Predicate of idx_incidents_active_corrkey_unique.
Indexed(s) == s \notin {"none", "resolved", "closed"}

\* A committed incident takes the place of key k in the partial index.
Taken(k, except) ==
    \E i \in Incidents \ {except} : key[i] = k /\ Indexed(status[i])

\* An open transaction, other than except, has an uncommitted entry for k.
HeldByDelivery(k, except) ==
    \E d \in Deliveries \ {except} : \E i \in fresh[d] : key[i] = k
HeldByRequest(k, except) ==
    \E r \in Requests \ {except} :
        /\ rpc[r] = "commit"
        /\ key[subject[r]] = k
        /\ Indexed(status[subject[r]]) \/ Indexed(wrote[r])

\* The abstract tables, as these variables hold them.
Tables == INSTANCE Correlated WITH Rows <- Requests

Init ==
    /\ Tables!CInit
    /\ pc = [d \in Deliveries |-> "idle"]
    /\ job \in [Deliveries -> Events]
    /\ idx = [d \in Deliveries |-> 1]
    /\ target = [d \in Deliveries |-> None]
    /\ fresh = [d \in Deliveries |-> {}]
    /\ links = [d \in Deliveries |-> {}]
    /\ rpc = [r \in Requests |-> "idle"]
    /\ subject = [r \in Requests |-> None]
    /\ from = [r \in Requests |-> "none"]
    /\ to = [r \in Requests |-> "none"]
    /\ seen = [r \in Requests |-> "none"]
    /\ wrote = [r \in Requests |-> "none"]
    /\ faults = 0

-----------------------------------------------------------------------------
(* Correlation: process_single_message, CorrelateSecurityEventHandler      *)

KeyAt(d) == KeysOf[job[d]][idx[d]]

\* The step of the rule loop after n rules.
RuleLoop(d, n) == IF n <= Len(KeysOf[job[d]]) THEN "find" ELSE "commit"

\* Load the event, select its eligible rules.
Start(d) ==
    /\ pc[d] = "idle"
    /\ pc' = [pc EXCEPT ![d] = RuleLoop(d, 1)]
    /\ UNCHANGED <<tableVars, job, idx, target, fresh, links, requestVars, faults>>

\* find_open_by_correlation_key
OpenWith(k) == {i \in Incidents : key[i] = k /\ status[i] \in ActiveStatus}

\* The rule joins the active incident of its key, or goes on to create one.
Find(d) ==
    /\ pc[d] = "find"
    /\ \/ /\ OpenWith(KeyAt(d)) # {}
          /\ target' = [target EXCEPT ![d] = CHOOSE i \in OpenWith(KeyAt(d)) : TRUE]
          /\ pc' = [pc EXCEPT ![d] = "exists"]
       \/ /\ OpenWith(KeyAt(d)) = {}
          /\ pc' = [pc EXCEPT ![d] = "insert"]
          /\ UNCHANGED target
    /\ UNCHANGED <<tableVars, job, idx, fresh, links, requestVars, faults>>

\* Faulty variants of Abort: the exception is swallowed ...
AbortAnswersTrue(d) ==
    /\ pc' = [pc EXCEPT ![d] = "true"]
    /\ key' = [i \in Incidents |-> IF i \in fresh[d] THEN None ELSE key[i]]
    /\ fresh' = [fresh EXCEPT ![d] = {}]
    /\ links' = [links EXCEPT ![d] = {}]
    /\ UNCHANGED <<status, evidence, history, job, idx, target, requestVars>>

\* ... save() has committed the incident on its own ...
AbortKeepsIncident(d) ==
    /\ pc' = [pc EXCEPT ![d] = "false"]
    /\ status' = [i \in Incidents |-> IF i \in fresh[d] THEN "open" ELSE status[i]]
    /\ fresh' = [fresh EXCEPT ![d] = {}]
    /\ links' = [links EXCEPT ![d] = {}]
    /\ UNCHANGED <<key, evidence, history, job, idx, target, requestVars>>

\* ... or the session is left open, with its locks.
AbortWithoutRollback(d) ==
    /\ pc' = [pc EXCEPT ![d] = "false"]
    /\ UNCHANGED <<tableVars, job, idx, target, fresh, links, requestVars>>

\* The transaction of d is rolled back and process_single_message is False.
Abort(d) ==
    /\ pc' = [pc EXCEPT ![d] = "false"]
    /\ key' = [i \in Incidents |-> IF i \in fresh[d] THEN None ELSE key[i]]
    /\ fresh' = [fresh EXCEPT ![d] = {}]
    /\ links' = [links EXCEPT ![d] = {}]
    /\ UNCHANGED <<status, evidence, history, job, idx, target, requestVars>>

\* Identifiers no incident has; which of them uuid4 gives makes no difference.
Unused == {i \in Incidents : key[i] = None}

\* The statement of d meets an uncommitted write of another transaction.
DeliveryWaits(d) ==
    \/ /\ pc[d] = "insert"
       /\ HeldByDelivery(KeyAt(d), d) \/ HeldByRequest(KeyAt(d), None)
    \/ /\ pc[d] = "attach"
       /\ \E x \in Deliveries \ {d} : <<target[d], job[d]>> \in links[x]

\* Incident save: the INSERT is flushed by begin_nested() before the SAVEPOINT
\* exists, so a conflict rolls the whole transaction back, and the query of the
\* except branch raises.
Insert(d) ==
    /\ pc[d] = "insert" /\ ~ DeliveryWaits(d)
    /\ \/ Taken(KeyAt(d), None) /\ Abort(d)
       \/ /\ ~ Taken(KeyAt(d), None)
          /\ Unused # {}
          /\ LET i == CHOOSE i \in Unused : TRUE IN
                /\ key' = [key EXCEPT ![i] = KeyAt(d)]
                /\ fresh' = [fresh EXCEPT ![d] = @ \cup {i}]
                /\ target' = [target EXCEPT ![d] = i]
          /\ pc' = [pc EXCEPT ![d] = "exists"]
          /\ UNCHANGED <<status, evidence, history, job, idx, links, requestVars>>
    /\ UNCHANGED faults

\* The event is evidence of the incident already: on to the next rule.
Skip(d) ==
    /\ <<target[d], job[d]>> \in evidence
    /\ idx' = [idx EXCEPT ![d] = @ + 1]
    /\ pc' = [pc EXCEPT ![d] = RuleLoop(d, idx[d] + 1)]
    /\ UNCHANGED <<tableVars, job, target, fresh, links, requestVars>>

\* evidences.exists, which only decides whether the event will be counted as new
\* evidence: save() asks again.
Exists(d) ==
    /\ pc[d] = "exists"
    /\ \/ Skip(d)
       \/ /\ <<target[d], job[d]>> \notin evidence
          /\ pc' = [pc EXCEPT ![d] = "attach"]
          /\ UNCHANGED <<tableVars, job, idx, target, fresh, links, requestVars>>
    /\ UNCHANGED faults

\* Evidence save: returns the row another delivery has committed meanwhile; else
\* the INSERT waits for an uncommitted row of the same pair, and one committed
\* after the second look aborts the transaction, as for the incident.
Attach(d) ==
    /\ pc[d] = "attach" /\ ~ DeliveryWaits(d)
    /\ \/ Skip(d)
       \/ <<target[d], job[d]>> \in evidence /\ Abort(d)
       \/ /\ <<target[d], job[d]>> \notin evidence
          /\ links' = [links EXCEPT ![d] = @ \cup {<<target[d], job[d]>>}]
          /\ idx' = [idx EXCEPT ![d] = @ + 1]
          /\ pc' = [pc EXCEPT ![d] = RuleLoop(d, idx[d] + 1)]
          /\ UNCHANGED <<tableVars, job, target, fresh, requestVars>>
    /\ UNCHANGED faults

\* Faulty variant of Commit: the row has a status the domain does not know.
CommitUnknownStatus(d) ==
    /\ pc[d] = "commit"
    /\ status' = [i \in Incidents |-> IF i \in fresh[d] THEN "new" ELSE status[i]]
    /\ evidence' = evidence \cup links[d]
    /\ fresh' = [fresh EXCEPT ![d] = {}]
    /\ links' = [links EXCEPT ![d] = {}]
    /\ pc' = [pc EXCEPT ![d] = "true"]
    /\ UNCHANGED <<key, history, job, idx, target, requestVars, faults>>

\* uow.commit(): incidents and evidence become visible together.  The process
\* may die before it returns True.
Commit(d) ==
    /\ pc[d] = "commit"
    /\ status' = [i \in Incidents |-> IF i \in fresh[d] THEN "open" ELSE status[i]]
    /\ evidence' = evidence \cup links[d]
    /\ fresh' = [fresh EXCEPT ![d] = {}]
    /\ links' = [links EXCEPT ![d] = {}]
    /\ \/ pc' = [pc EXCEPT ![d] = "true"] /\ UNCHANGED faults
       \/ /\ faults < MaxFaults
          /\ faults' = faults + 1
          /\ pc' = [pc EXCEPT ![d] = "false"]
    /\ UNCHANGED <<key, history, job, idx, target, requestVars>>

\* A statement fails, or the process dies, before the commit.
DeliveryFault(d) ==
    /\ pc[d] \notin {"idle", "true", "false"}
    /\ faults < MaxFaults
    /\ faults' = faults + 1
    /\ Abort(d)

DeliveryStep(d) == Find(d) \/ Insert(d) \/ Exists(d) \/ Attach(d) \/ Commit(d)

-----------------------------------------------------------------------------
(* change_incident_status                                                  *)

\* get_by_id and Incident.transition_to.  A transition the life cycle does not
\* allow is answered 422 and writes nothing.
Read(r) ==
    /\ rpc[r] = "idle"
    /\ \E i \in Incidents, s \in IncidentStatus :
          /\ status[i] # "none"
          /\ \/ /\ MayMove(status[i], s)
                /\ rpc' = [rpc EXCEPT ![r] = "select"]
                /\ subject' = [subject EXCEPT ![r] = i]
                /\ from' = [from EXCEPT ![r] = status[i]]
                /\ to' = [to EXCEPT ![r] = s]
             \/ /\ ~ MayMove(status[i], s)
                /\ rpc' = [rpc EXCEPT ![r] = "422"]
                /\ UNCHANGED <<subject, from, to>>
    /\ UNCHANGED <<tableVars, deliveryVars, seen, wrote, faults>>

\* save() selects the row again.
Select(r) ==
    /\ rpc[r] = "select"
    /\ seen' = [seen EXCEPT ![r] = status[subject[r]]]
    /\ rpc' = [rpc EXCEPT ![r] = "update"]
    /\ UNCHANGED <<tableVars, deliveryVars, subject, from, to, wrote, faults>>

\* The status the UPDATE leaves: the column is written when it differs from
\* the row selected, not from the row updated.
NewStatus(r) == IF seen[r] = to[r] THEN status[subject[r]] ELSE to[r]

\* The UPDATE waits for the row lock, then for open entries of its key in the
\* partial index.
RequestWaits(r) ==
    /\ rpc[r] = "update"
    /\ \/ \E q \in Requests : rpc[q] = "commit" /\ subject[q] = subject[r]
       \/ /\ Indexed(NewStatus(r))
          /\ HeldByDelivery(key[subject[r]], None) \/ HeldByRequest(key[subject[r]], r)

\* UPDATE incidents: a second active incident of the key is an error.
Update(r) ==
    LET i == subject[r] IN
    /\ rpc[r] = "update" /\ ~ RequestWaits(r)
    /\ IF Indexed(NewStatus(r)) /\ Taken(key[i], i)
       THEN rpc' = [rpc EXCEPT ![r] = "500"] /\ UNCHANGED wrote
       ELSE /\ rpc' = [rpc EXCEPT ![r] = "commit"]
            /\ wrote' = [wrote EXCEPT ![r] = NewStatus(r)]
    /\ UNCHANGED <<tableVars, deliveryVars, subject, from, to, seen, faults>>

\* Faulty variant of CommitStatus: the history row is not in the transaction.
CommitStatusOnly(r) ==
    /\ rpc[r] = "commit"
    /\ status' = [status EXCEPT ![subject[r]] = wrote[r]]
    /\ rpc' = [rpc EXCEPT ![r] = "200"]
    /\ UNCHANGED <<key, evidence, history, deliveryVars, subject, from, to, seen, wrote,
                   faults>>

\* History row and status are committed together.
CommitStatus(r) ==
    /\ rpc[r] = "commit"
    /\ status' = [status EXCEPT ![subject[r]] = wrote[r]]
    /\ history' = history \cup
          {[id |-> r, incident |-> subject[r], from |-> from[r], to |-> to[r]]}
    /\ rpc' = [rpc EXCEPT ![r] = "200"]
    /\ UNCHANGED <<key, evidence, deliveryVars, subject, from, to, seen, wrote, faults>>

\* The request fails before its commit.
RequestFault(r) ==
    /\ rpc[r] \in {"select", "update", "commit"}
    /\ faults < MaxFaults
    /\ faults' = faults + 1
    /\ rpc' = [rpc EXCEPT ![r] = "500"]
    /\ UNCHANGED <<tableVars, deliveryVars, subject, from, to, seen, wrote>>

RequestStep(r) == Select(r) \/ Update(r) \/ CommitStatus(r)

-----------------------------------------------------------------------------
Next ==
    \/ \E d \in Deliveries : Start(d) \/ DeliveryStep(d) \/ DeliveryFault(d)
    \/ \E r \in Requests : Read(r) \/ RequestStep(r) \/ RequestFault(r)

Spec == Init /\ [][Next]_vars

\* As long as a started call can take a step, some call takes one.
Progress == (\E d \in Deliveries : DeliveryStep(d)) \/ (\E r \in Requests : RequestStep(r))

FairSpec == Spec /\ WF_vars(Progress)

-----------------------------------------------------------------------------
(* Properties                                                              *)

HistoryRow == [id : Requests \cup 1..5, incident : Incidents, from : IncidentStatus, to : IncidentStatus]

TypeOK ==
    /\ status \in [Incidents -> IncidentStatus \cup {"none"}]
    /\ key \in [Incidents -> Keys \cup {None}]
    /\ evidence \subseteq Incidents \X Events
    /\ history \subseteq HistoryRow
    /\ pc \in [Deliveries -> {"idle", "find", "insert", "exists", "attach", "commit",
                             "true", "false"}]
    /\ job \in [Deliveries -> Events]
    /\ idx \in [Deliveries -> Nat]
    /\ target \in [Deliveries -> Incidents \cup {None}]
    /\ fresh \in [Deliveries -> SUBSET Incidents]
    /\ links \in [Deliveries -> SUBSET (Incidents \X Events)]
    /\ rpc \in [Requests -> {"idle", "select", "update", "commit", "200", "422", "500"}]
    /\ subject \in [Requests -> Incidents \cup {None}]
    /\ {from, to, seen, wrote} \subseteq [Requests -> IncidentStatus \cup {"none"}]
    /\ faults \in Nat

\* ADR-005: a correlation key has at most one active incident, whoever creates
\* it and whichever stale PATCH reactivates an older one.
OneActivePerKey ==
    \A i, j \in Incidents :
        i # j /\ key[i] = key[j] => ~ {status[i], status[j]} \subseteq ActiveStatus

\* An incident is never visible without the evidence of an event that has its
\* key: the rule loop is atomic, whichever of its statements fails.
IncidentsHaveEvidence ==
    \A i \in Incidents : status[i] # "none" =>
        \E e \in Events : /\ <<i, e>> \in evidence
                         /\ \E n \in DOMAIN KeysOf[e] : KeysOf[e][n] = key[i]

\* process_single_message answers True, and so lets the offset be committed,
\* only when the event is evidence of an incident for each eligible rule.
TrueMeansCorrelated ==
    \A d \in Deliveries : pc[d] = "true" =>
        \A n \in DOMAIN KeysOf[job[d]] :
            \E i \in Incidents : key[i] = KeysOf[job[d]][n] /\ <<i, job[d]>> \in evidence

\* A second incident for a key exists only after the life cycle brought an
\* earlier one to "resolved".
SuccessorAfterResolution ==
    \A i, j \in Incidents :
        /\ i # j /\ key[i] = key[j]
        /\ "none" \notin {status[i], status[j]}
        => \E h \in history : h.incident \in {i, j} /\ h.to = "resolved"

\* What other sessions see of the tables: an incident that is not committed has
\* no key yet.
Committed == INSTANCE Correlated WITH
    Rows <- Requests,
    key <- [i \in Incidents |-> IF status[i] = "none" THEN None ELSE key[i]]

\* Deliveries and requests, statement by statement, waiting for each other,
\* losing races and failing anywhere, keep the promise of Correlated: an event
\* is correlated for all of its keys or not at all, and no status changes
\* without the row of the audit trail that accounts for it.
ImplementsCorrelated == Committed!CSpec

InFlight ==
    \/ \E d \in Deliveries : pc[d] \notin {"idle", "true", "false"}
    \/ \E r \in Requests : rpc[r] \notin {"idle", "200", "422", "500"}

\* Deliveries and requests wait for each other's rows and keys, but never all
\* of them at once: while calls are in flight one of them can go on, without a
\* fault.  No call repeats a step, so every call that is run ends.
SomebodyProceeds ==
    InFlight => ENABLED Progress

\* The integration test of concurrent executions has the SAVEPOINT absorb the
\* conflict: with nothing failing, every delivery ends True.
ConflictAbsorbed ==
    \A d \in Deliveries : faults = 0 => pc[d] # "false"

\* ADR-005: an incident strictly obeys the allowed transitions.
StatusFollowsLifeCycle ==
    [][\A i \in Incidents : status[i] \notin {"none", status'[i]} =>
          status'[i] \in Allowed(status[i])]_vars
=============================================================================
