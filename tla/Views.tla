-------------------------------- MODULE Views --------------------------------
(***************************************************************************)
(* What readers see of the incident tables while they are written: the     *)
(* four read routes of incident_routers.py, a client that walks through    *)
(* the pages of the list, GET /metrics, and the counters and the gauge     *)
(* that PATCH, the correlation consumer and the start of the API keep.     *)
(*                                                                         *)
(* Every query of a route is a statement of its own and sees the rows      *)
(* committed when it runs (READ COMMITTED), so a step of a reader is one   *)
(* query.  The writers are those of Correlated, which Incidents implements:*)
(* a correlation and a status change become visible in one step.           *)
(***************************************************************************)
EXTENDS Correlated, FiniteSets

CONSTANTS
    Severities,  \* SecurityEventSeverity
    SeverityOf,  \* SeverityOf[e]: the severity of e, and of an incident e creates
    Readers,     \* calls of the read routes
    Scrapes,     \* calls of metrics_endpoint_handler
    Limit,       \* page size
    MaxCalls,    \* bound on the calls of read routes and /metrics (model checking only):
                 \* they change nothing the others read, so one at a time is enough
    MaxFaults    \* bound on the failures of a behaviour (model checking only)

ASSUME ViewsAssumptions ==
    /\ SeverityOf \in [Events -> Severities]
    /\ Limit \in Nat \ {0}
    /\ {MaxCalls, MaxFaults} \subseteq Nat
    /\ None \notin Severities
    /\ IsFiniteSet(Incidents)   \* identifiers are UUIDs

VARIABLES
    rank,      \* position of each incident in the order of (created_at, incident_id)
    severity,  \* severity of each incident
    work,      \* the message a process of the correlation consumer handles
    linked,    \* how often its govsec_incident_evidences_total counted each row
    counted,   \* rows counted by govsec_incident_status_transitions_total of the API
    gauge,     \* govsec_open_incidents, None for a severity without a series
    patch,     \* calls of change_incident_status
    scrape,    \* calls of metrics_endpoint_handler
    reader,    \* calls of the read routes
    truths,    \* counts that were true at some moment of each scrape
    faults     \* failures so far

consumerVars == <<cvars, rank, severity, work, linked>>
apiVars == <<counted, gauge, patch, scrape, reader>>
vars == <<consumerVars, apiVars, truths, faults>>

EvidenceOf(i) == {x \in evidence : x[1] = i}
HistoryOf(i) == {h \in history : h.incident = i}

\* Faulty variant: a severity without open incidents is missing from the counts.
OpenBySeverityPresent ==
    LET Open(v) == {i \in Exist : status[i] \in ActiveStatus /\ severity[i] = v}
    IN  [v \in Severities |-> IF Open(v) = {} THEN None ELSE Cardinality(Open(v))]

\* count_open_by_severity: every severity has a number.
OpenBySeverity ==
    [v \in Severities |-> Cardinality({i \in Exist : status[i] \in ActiveStatus /\ severity[i] = v})]

NoSeries == [v \in Severities |-> None]
NoCounts == [v \in Severities |-> 0]

\* The calls of clients that only read.
Calls == {r \in Readers : reader[r].pc # "idle"} \cup {s \in Scrapes : scrape[s].pc # "idle"}
MayCall == Cardinality(Calls) < MaxCalls

Fails == faults < MaxFaults /\ faults' = faults + 1

-----------------------------------------------------------------------------
(* The correlation consumer: one process with its counter, and all others  *)

\* seen: the evidence of the event when the process began; new: the items of its
\* answer with is_new_evidence, to be counted after the commit.
Free == [pc |-> "idle", event |-> None, seen |-> {}, new |-> {}]
Uncounted == [x \in Incidents \X Events |-> 0]

\* The transaction of a delivery commits.  created_at was read from the clock
\* some statements earlier, so the incident may take any place in the order.
Store(e) ==
    /\ Correlate(e)
    /\ LET new == {i \in Incidents : status[i] = "none" /\ status'[i] # "none"} IN
          /\ severity' = [i \in Incidents |-> IF i \in new THEN SeverityOf[e] ELSE severity[i]]
          /\ rank' \in [Incidents -> 0 .. Cardinality(Incidents)]
          /\ \A i \in Incidents \ new : rank'[i] = rank[i]
          /\ \A i, j \in Incidents : i \in new /\ i # j => rank'[i] \notin {0, rank'[j]}

\* Another process does so: after a rebalance perhaps with the same message.
ConsumeElsewhere(e) ==
    /\ Store(e)
    /\ UNCHANGED <<work, linked, apiVars, faults>>

\* process_single_message begins.
Take(e) ==
    /\ work.pc = "idle"
    /\ work' = [Free EXCEPT !.pc = "handle", !.event = e, !.seen = {x \in evidence : x[2] = e}]
    /\ UNCHANGED <<cvars, rank, severity, linked, apiVars, faults>>

\* Faulty variant of TakenForNew: every item counts.
TakenAlways == {{x \in evidence' : x[2] = work.event}}

\* is_new_evidence of the items: handle() asks whether the row exists before it
\* calls save(), which asks again and silently returns a row that has come in
\* between.  So the rows of this commit are new, and those that others committed
\* since the process began may be.
TakenForNew ==
    {N \in SUBSET {x \in Incidents \X {work.event} : x \in evidence' \ work.seen} :
        /\ evidence' \ evidence \subseteq N
        /\ \A x, y \in N : key'[x[1]] = key'[y[1]] => x = y}

Consume ==
    /\ work.pc = "handle"
    /\ Store(work.event)
    /\ \E N \in TakenForNew : work' = [Free EXCEPT !.pc = "committed", !.new = N]
    /\ UNCHANGED <<linked, apiVars, faults>>

\* The transaction is rolled back, or found nothing to correlate.
Drop ==
    /\ work.pc = "handle"
    /\ work' = Free
    /\ UNCHANGED <<cvars, rank, severity, linked, apiVars, faults>>

\* After the commit: safe_record_incident_evidence_added for each new evidence.
CountEvidence ==
    /\ work.pc = "committed"
    /\ linked' = [x \in Incidents \X Events |-> linked[x] + IF x \in work.new THEN 1 ELSE 0]
    /\ work' = Free
    /\ UNCHANGED <<cvars, rank, severity, apiVars, faults>>

\* The process dies; its counters start again from nothing.
ConsumerCrash ==
    /\ Fails
    /\ linked' = Uncounted
    /\ work' = Free
    /\ UNCHANGED <<cvars, rank, severity, apiVars>>

-----------------------------------------------------------------------------
(* change_incident_status, from its commit on                              *)

Idle == [pc |-> "idle", row |-> None, evidence |-> 0, counts |-> NoCounts]

Patching(p, step) == patch' = [patch EXCEPT ![p] = step]

\* Faulty variant of Patch: the transition is counted, then the commit fails or not.
PatchCountsFirst(p) ==
    /\ patch[p].pc = "idle"
    /\ \E i \in Incidents, from, to \in IncidentStatus :
          LET row == [id |-> p, incident |-> i, from |-> from, to |-> to] IN
          /\ counted' = counted \cup {row}
          /\ \/ /\ Change(p, i, from, to)
                /\ Patching(p, [patch[p] EXCEPT !.pc = "committed", !.row = row])
             \/ /\ i \in Exist /\ from = status[i] /\ MayMove(from, to)
                /\ Patching(p, [patch[p] EXCEPT !.pc = "500"])
                /\ UNCHANGED cvars
    /\ UNCHANGED <<rank, severity, work, linked, gauge, scrape, reader, faults>>

Patch(p) ==
    /\ patch[p].pc = "idle"
    /\ \E i \in Incidents, from, to \in IncidentStatus :
          /\ Change(p, i, from, to)
          /\ Patching(p, [patch[p] EXCEPT !.pc = "committed",
                !.row = [id |-> p, incident |-> i, from |-> from, to |-> to]])
    /\ UNCHANGED <<rank, severity, work, linked, counted, gauge, scrape, reader, faults>>

\* The evidence is counted for the answer, then the transition is counted by
\* safe_record_incident_status_transition, which swallows its failures.
PatchRecords(p) ==
    /\ patch[p].pc = "committed"
    /\ Patching(p, [patch[p] EXCEPT !.pc = "recorded",
                       !.evidence = Cardinality(EvidenceOf(patch[p].row.incident))])
    /\ \/ counted' = counted \cup {patch[p].row} /\ UNCHANGED faults
       \/ UNCHANGED counted /\ Fails
    /\ UNCHANGED <<consumerVars, gauge, scrape, reader>>

\* The query fails: the change is committed but answered as an error.
PatchFails(p) ==
    /\ patch[p].pc = "committed"
    /\ Fails
    /\ Patching(p, [patch[p] EXCEPT !.pc = "500"])
    /\ UNCHANGED <<consumerVars, counted, gauge, scrape, reader>>

\* safe_sync_open_incidents_gauge_from_db: the query ...
PatchReads(p) ==
    /\ patch[p].pc = "recorded"
    /\ Patching(p, [patch[p] EXCEPT !.pc = "read", !.counts = OpenBySeverity])
    /\ UNCHANGED <<consumerVars, counted, gauge, scrape, reader, faults>>

\* ... whose failure leaves the gauge as it was ...
PatchReadFails(p) ==
    /\ patch[p].pc = "recorded"
    /\ Fails
    /\ Patching(p, [patch[p] EXCEPT !.pc = "200"])
    /\ UNCHANGED <<consumerVars, counted, gauge, scrape, reader>>

\* ... and the gauge, set from counts that others may have overtaken.
PatchSets(p) ==
    /\ patch[p].pc = "read"
    /\ gauge' = patch[p].counts
    /\ Patching(p, [patch[p] EXCEPT !.pc = "200", !.counts = NoCounts])
    /\ UNCHANGED <<consumerVars, counted, scrape, reader, faults>>

PatchStep(p) ==
    PatchRecords(p) \/ PatchFails(p) \/ PatchReads(p) \/ PatchReadFails(p) \/ PatchSets(p)

-----------------------------------------------------------------------------
(* metrics_endpoint_handler                                                *)

\* body: the gauge as the answer shows it.
Quiet == [pc |-> "idle", counts |-> NoCounts, body |-> NoSeries]

Scraping(s, step) == scrape' = [scrape EXCEPT ![s] = step]

ScrapeStarts(s) ==
    /\ scrape[s].pc = "idle" /\ MayCall
    /\ Scraping(s, [scrape[s] EXCEPT !.pc = "query"])
    /\ UNCHANGED <<consumerVars, counted, gauge, patch, reader, faults>>

ScrapeReads(s) ==
    /\ scrape[s].pc = "query"
    /\ Scraping(s, [scrape[s] EXCEPT !.pc = "read", !.counts = OpenBySeverity])
    /\ UNCHANGED <<consumerVars, counted, gauge, patch, reader, faults>>

\* Faulty variant of ScrapeFails: the handler as it was before ADR-006, with the
\* adapter that swallows the failure.
ScrapeFailsQuietly(s) ==
    /\ scrape[s].pc = "query"
    /\ Fails
    /\ Scraping(s, [scrape[s] EXCEPT !.pc = "200", !.body = gauge])
    /\ UNCHANGED <<consumerVars, counted, gauge, patch, reader>>

ScrapeFails(s) ==
    /\ scrape[s].pc = "query"
    /\ Fails
    /\ Scraping(s, [scrape[s] EXCEPT !.pc = "500"])
    /\ UNCHANGED <<consumerVars, counted, gauge, patch, reader>>

\* No await between the gauge and generate_latest: one step.
ScrapeAnswers(s) ==
    /\ scrape[s].pc = "read"
    /\ gauge' = scrape[s].counts
    /\ Scraping(s, [scrape[s] EXCEPT !.pc = "200", !.body = gauge', !.counts = NoCounts])
    /\ UNCHANGED <<consumerVars, counted, patch, reader, faults>>

ScrapeStep(s) == ScrapeStarts(s) \/ ScrapeReads(s) \/ ScrapeFails(s) \/ ScrapeAnswers(s)

-----------------------------------------------------------------------------
(* list_incidents, get_incident, list_incident_evidences,                  *)
(* list_incident_history                                                   *)

\* sort: a column that changes, "status", puts the rows in an order of the moment;
\* only: the filter on the status (those on severity and created_at select by
\* columns that never change: the other rows might as well not be there);
\* subject: incident_id;
\* known and found: what a walk should and does find (for WalkMissesNothing).
Silent == [pc |-> "idle", route |-> "list", sort |-> "created_at", order |-> "desc",
           only |-> None, subject |-> None, skip |-> 0, total |-> 0,
           items |-> {}, size |-> 0, links |-> {}, known |-> {}, found |-> {}]

Reading(r, step) ==
    /\ reader' = [reader EXCEPT ![r] = step]
    /\ UNCHANGED <<consumerVars, counted, gauge, patch, scrape, faults>>

\* The rows the WHERE clause of q selects.
Matching(q) == {i \in Exist : q.only \in {None, status[i]}}

AskList(r) ==
    /\ reader[r].pc = "idle" /\ MayCall
    /\ \E sort \in {"created_at", "status"}, order \in {"asc", "desc"},
          only \in {None, "open"} :
          /\ sort = "status" => order = "desc"
          /\ Reading(r, [reader[r] EXCEPT !.pc = "count", !.sort = sort, !.order = order,
                !.only = only, !.known = IF only = None THEN Exist ELSE {}])

AskOne(r) ==
    /\ reader[r].pc = "idle" /\ MayCall
    /\ \E route \in {"detail", "evidences", "history"}, i \in Incidents, skip \in {0, Limit} :
          /\ route = "detail" => skip = 0
          /\ Reading(r, [reader[r] EXCEPT !.pc = "find", !.route = route, !.subject = i,
                                          !.skip = skip])

\* get_by_id
Find(r) ==
    /\ reader[r].pc = "find"
    /\ Reading(r, [reader[r] EXCEPT !.pc = IF reader[r].subject \in Exist THEN "count" ELSE "404"])

\* The rows of the answer's list: incidents, evidence or history.
RowsOf(q) ==
    CASE q.route = "list" -> Matching(q)
      [] q.route = "history" -> HistoryOf(q.subject)
      [] OTHER -> EvidenceOf(q.subject)

\* count, count_by_incident
Count(r) ==
    /\ reader[r].pc = "count"
    /\ Reading(r, [reader[r] EXCEPT !.total = Cardinality(RowsOf(reader[r])),
                                    !.pc = IF reader[r].route = "detail" THEN "200" ELSE "page"])

\* OFFSET and LIMIT leave this many of n rows.
PageSize(n, skip) == IF n <= skip THEN 0 ELSE IF n - skip < Limit THEN n - skip ELSE Limit

\* Faulty variant of Position: the order is that of a column that changes.
PositionByStatus(i, S, order) ==
    LET Active(j) == status[j] \in ActiveStatus
        Before(j) == \/ Active(j) /\ ~ Active(i)
                     \/ Active(i) = Active(j) /\ rank[j] <= rank[i]
    IN  Cardinality({j \in S : IF order = "asc" THEN Before(j) ELSE ~ Before(j) \/ i = j})

\* The position of i among the rows S, by created_at and then incident_id.
Position(i, S, order) ==
    Cardinality({j \in S : IF order = "asc" THEN rank[j] <= rank[i] ELSE rank[j] >= rank[i]})

\* Faulty variant of Pages: the query of the page forgets resolved incidents.
PagesOfActive(q) ==
    LET S == {i \in Matching(q) : status[i] \in ActiveStatus}
    IN  {T \in SUBSET S : /\ Cardinality(T) = PageSize(Cardinality(S), q.skip)
                          /\ q.sort = "created_at" =>
                                \A i \in T : Position(i, S, q.order) \in q.skip + 1 .. q.skip + Limit}

\* The pages list() may return.  A column that changes puts the rows in an order
\* of the moment; created_at puts them in that of rank.
Pages(q) ==
    LET S == Matching(q)
    IN  {T \in SUBSET S : /\ Cardinality(T) = PageSize(Cardinality(S), q.skip)
                          /\ q.sort = "created_at" =>
                                \A i \in T : Position(i, S, q.order) \in q.skip + 1 .. q.skip + Limit}

\* list
Page(r) ==
    /\ reader[r].pc = "page" /\ reader[r].route = "list"
    /\ \E T \in Pages(reader[r]) :
          Reading(r, [reader[r] EXCEPT !.items = T, !.size = Cardinality(T), !.found = @ \cup T,
                                       !.links = {}, !.pc = IF T = {} THEN "200" ELSE "links"])

\* get_evidence_counts_batch: the numbers of evidence of the items.
Links(r) ==
    /\ reader[r].pc = "links"
    /\ Reading(r, [reader[r] EXCEPT !.links = {Cardinality(EvidenceOf(i)) : i \in reader[r].items},
                                    !.pc = "200"])

\* list_by_incident
PageOfOne(r) ==
    /\ reader[r].pc = "page" /\ reader[r].route # "list"
    /\ Reading(r, [reader[r] EXCEPT !.pc = "200",
            !.size = PageSize(Cardinality(RowsOf(reader[r])), reader[r].skip)])

\* The client asks for the next page as long as pages are full.
NextPage(r) ==
    /\ reader[r].pc = "200" /\ reader[r].route = "list" /\ reader[r].size = Limit
    /\ Reading(r, [reader[r] EXCEPT !.skip = @ + Limit, !.pc = "count"])

ReaderStep(r) ==
    AskList(r) \/ AskOne(r) \/ Find(r) \/ Count(r) \/ Page(r) \/ Links(r) \/ PageOfOne(r) \/ NextPage(r)

-----------------------------------------------------------------------------
\* The API dies with its requests.  When it starts, lifespan sets the gauge from
\* the database before the first request; a failure leaves it without series.
Restart ==
    /\ Fails
    /\ counted' = {}
    /\ gauge' \in {OpenBySeverity, NoSeries}
    /\ patch' = [p \in Rows |-> IF patch[p].pc = "idle" THEN patch[p] ELSE [Idle EXCEPT !.pc = "lost"]]
    /\ scrape' = [s \in Scrapes |-> IF scrape[s].pc = "idle" THEN scrape[s] ELSE [Quiet EXCEPT !.pc = "lost"]]
    /\ reader' = [r \in Readers |-> IF reader[r].pc = "idle" THEN reader[r] ELSE [Silent EXCEPT !.pc = "lost"]]
    /\ UNCHANGED consumerVars

Init ==
    /\ CInit
    /\ rank = [i \in Incidents |-> IF i \in Exist THEN 1 ELSE 0]
    /\ severity = [i \in Incidents |->
                      IF i \in Exist THEN SeverityOf[(CHOOSE x \in EvidenceOf(i) : TRUE)[2]] ELSE None]
    /\ work = Free
    /\ linked = Uncounted
    /\ counted = {}
    /\ gauge = OpenBySeverity
    /\ patch = [p \in Rows |-> Idle]
    /\ scrape = [s \in Scrapes |-> Quiet]
    /\ reader = [r \in Readers |-> Silent]
    /\ truths = [s \in Scrapes |-> {}]
    /\ faults = 0

Step ==
    \/ \E e \in Events : ConsumeElsewhere(e) \/ Take(e)
    \/ Consume
    \/ Drop
    \/ CountEvidence
    \/ ConsumerCrash
    \/ \E p \in Rows : Patch(p) \/ PatchStep(p)
    \/ \E s \in Scrapes : ScrapeStep(s)
    \/ \E r \in Readers : ReaderStep(r)
    \/ Restart

\* The truths of a scrape: for ScrapeFresh only.
Remember ==
    truths' = [s \in Scrapes |->
                  IF scrape'[s].pc \in {"query", "read"} THEN truths[s] \cup {OpenBySeverity'}
                  ELSE truths[s]]

Next == Step /\ Remember

Spec == Init /\ [][Next]_vars

-----------------------------------------------------------------------------
(* Properties                                                              *)

Counts == [Severities -> Nat]
Series == [Severities -> Nat \cup {None}]
Row == [id : Rows \cup 1..5, incident : Incidents, from : IncidentStatus, to : IncidentStatus]

TypeOK ==
    /\ status \in [Incidents -> IncidentStatus \cup {"none"}]
    /\ rank \in [Incidents -> Nat]
    /\ severity \in [Incidents -> Severities \cup {None}]
    /\ work.pc \in {"idle", "handle", "committed"}
    /\ work.event \in Events \cup {None}
    /\ work.new \subseteq Incidents \X Events
    /\ linked \in [Incidents \X Events -> Nat]
    /\ counted \subseteq Row
    /\ gauge \in Series
    /\ \A p \in Rows :
          /\ patch[p].pc \in {"idle", "committed", "recorded", "read", "200", "500", "lost"}
          /\ patch[p].row \in Row \cup {None}
          /\ patch[p].counts \in Counts
    /\ \A s \in Scrapes :
          /\ scrape[s].pc \in {"idle", "query", "read", "200", "500", "lost"}
          /\ scrape[s].counts \in Counts
          /\ scrape[s].body \in Series
    /\ \A r \in Readers :
          /\ reader[r].pc \in {"idle", "find", "count", "page", "links", "200", "404", "lost"}
          /\ reader[r].items \subseteq Incidents
    /\ faults \in Nat

\* The queries of a read route run one after the other while others write, yet
\* its answer holds together: the page is never shorter than the total counted
\* before it says, and every incident shown has evidence.  With a filter on the
\* status rows may leave between count and page, so nothing is claimed there.
ReadsAgree ==
    /\ \A r \in Readers :
          LET q == reader[r] IN
          /\ q.pc = "200" /\ q.only = None /\ q.route # "detail"
                => q.size >= PageSize(q.total, q.skip)
          /\ q.pc = "200" /\ q.route = "detail" => q.total > 0
          /\ 0 \notin q.links
    /\ \A p \in Rows : patch[p].pc \in {"recorded", "read", "200"} => patch[p].evidence > 0

\* A client that asks for page after page in the order of created_at, until one
\* is not full, has seen every incident that existed when it began, whatever is
\* created, with whatever created_at, and changes status in between.
WalkMissesNothing ==
    \A r \in Readers :
        LET q == reader[r] IN
        q.pc = "200" /\ q.route = "list" /\ q.sort = "created_at" /\ q.only = None /\ q.size < Limit
            => q.known \subseteq q.found

\* ADR-006: a scrape answered 200 shows, for every severity, the number of active
\* incidents of one moment of the scrape, although status changes set the same
\* gauge from older counts and a failed query leaves it stale.
ScrapeFresh ==
    \A s \in Scrapes : scrape[s].pc = "200" => scrape[s].body \in truths[s]

\* Counters are written after the commit and die with their process, so those of
\* one process never run ahead of the tables: what it counted is there, and it
\* counted no row twice, although messages come again, other processes write the
\* row meanwhile, and is_new_evidence is decided before save() looks again.  (Two
\* processes may both count one row, so nothing is claimed of their sum.)
CountersNotAhead ==
    /\ counted \subseteq history
    /\ \A x \in Incidents \X Events : linked[x] <= IF x \in evidence THEN 1 ELSE 0
=============================================================================
