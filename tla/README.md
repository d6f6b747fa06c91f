# GovSec: TLA+ models, checks and proofs

This directory models the parts of the GovSec platform (`src/src/`, Python,
FastAPI, SQLAlchemy on PostgreSQL, aiokafka) whose correctness depends on the
order of concurrent steps: how a security event gets into the database, from
there onto Kafka, from Kafka into an incident, how an analyst moves that
incident, what readers and scrapes see meanwhile, how the REST commands behave
when the database or the broker fails under them, and who may call them with
which token until when. Paths below are relative to `src/src/core/` unless they start
with `src/`.

## 1. Inventory

### The pipeline

    client -> IngestSecurityEventHandler -> PostgreSQL (event, audit, outbox row: one transaction)
                                                |
                        outbox_worker: claim, publish, mark, commit   (several processes)
                                                |
                                       Kafka topic govsec.events
                                                |
                        correlation_worker: getmany, DB transaction, commit offset
                                                |
                                incidents, evidence, history  <---- PATCH /incidents/{id}/status

                                                ^
                  GET /incidents, GET /metrics  |  (readers, statement by statement)

    client -> middleware (token, revocation store) -> routers.py (role, tenant)
           -> CommandBus (policy, retry, DLQ) -> handler -> session, EventBus

### Components

| Component | State it keeps | Operations | Talks to | What is hard | What makes it correct |
|---|---|---|---|---|---|
| Event ingestion (`application/handlers.py`, `IngestSecurityEventHandler`) | `security_events`, `audit_logs`, `outbox_events` | `handle`: resolve asset, save event in a SAVEPOINT, audit, outbox row, commit, or suppress a duplicate | database (one session per call) | two calls with one identity, failure between four statements, waiting on two unique indexes | all rows or none; the answer is true; every call is answered |
| Outbox dispatcher (`application/outbox_dispatcher.py`, `cli/outbox_worker.py`, `domain/outbox.py`) | row status, retry counter, next retry | claim a batch (`SKIP LOCKED`), publish each row, mark published or failed, one commit per batch | database, Kafka | several workers, crash between publication and commit, broker that stores and does not answer, retry bound | no row dispatched twice at once; nothing on the topic that is not stored; copies accounted for; every row settles |
| Correlation engine (`application/correlation_handler.py`, `infrastructure/correlation/rules.py`) | `incidents`, `incident_evidences` | for each eligible rule: find the active incident of the key, create it, attach the event | database | concurrent creation of one key, failure at the second rule, redelivery | one active incident per key; no incident without evidence; True only when correlated |
| Incident life cycle (`domain/incidents.py`, `interfaces/rest/incident_routers.py`) | `incidents.status`, `incident_status_history` | `change_incident_status`: read, check transition, save, commit | database | status read before it is written, reactivation of a resolved incident | the trail accounts for the status; a successor only after resolution |
| Correlation consumer (`messaging/correlation_consumer.py`) | fetch position, committed offset, batch | `start`, `run`, `process_single_message`, `stop` | Kafka group, database | crash between the two commits, rebalance inside a batch, a failed message in a batch | offset after database; nothing skipped; everything handled |
| Command bus, DLQ, circuit breaker (`messaging/command_bus.py`, `dlq.py`) | attempts, dead letters, breaker state | `send`: policy, up to `max_retries` attempts, dead letter | handlers, policy engine | a handler that is not idempotent run again in the session of the failed attempt | announced at most once; accepted means announced; dead letters are the failures |
| Tenant, log and alert handlers (`application/handlers.py`) | `tenants`, `audit_logs`, `alert_acknowledgements` | create, update, delete, ingest log, acknowledge | session, `EventBus` | publication before any commit | what was answered is durable |
| Event bus (`messaging/event_bus.py`, `kafka_event_bus.py`) | producer, set of processed identifiers | `publish`, `is_duplicate` | Kafka | a bus that was never started, a send stored but not acknowledged | no command is answered as accepted whose event was refused |
| Rules (`infrastructure/correlation/rules.py`, the key functions of `correlation_handler.py`) | `correlation_rule_versions` | which rules are active, eligibility, window, correlation key | database | edge of a window, keywords inside keywords, an event without asset | events of an incident belong together |
| JWT and revocation (`infrastructure/security/jwt.py`, `revocation.py`, `auth_routers.py`) | Redis keys with a lifetime | login, dev tokens, refresh, logout, check | Redis | lifetime truncated to seconds, Redis unavailable, an answer that is awaited | a token that was logged out is refused until it expires |
| RBAC, tenant authorization (`security/rbac.py`, `kernel.py`, `domain/tenant_auth.py`, `src/src/api/middleware/auth.py`) | none | role and tenant of one request | routes | claims that are days old | nobody works on another tenant but a system_admin |
| Read routes of incidents (`incident_routers.py`) | none | count, page, evidence counts, detail, evidence, history | database | several statements with writers between them, walks over many pages | an answer holds together; a walk misses nothing |
| Metrics (`src/src/shared/observability/metrics.py`) | gauge of open incidents, counters | sync from a count, at PATCH, at a scrape and at start-up | database | count and write of two refreshes interleave, crash after a commit | a scrape shows one moment of the tables; counters never run ahead |
| Scanners, scope, OPA client, configuration, migrations, dashboard, deployment | none that interleaves | reads, formatting, wiring | - | - | - |

`PROJECT.json` lists all of them with their status, and under `hazards` every
place of this code that is hard to test, with the property that guards it or
the reason why none does.

## 2. The modules

| Module | What it is | Lines of the code |
|---|---|---|
| `Outbox` | ingestion and dispatch, statement by statement | handlers.py 232-427, repositories.py 501-541 and 788-882, outbox_dispatcher.py, outbox_worker.py, models.py |
| `Delivery` | the abstract promise of the outbox, refined by `Outbox`, used by `Pipeline` | domain/repositories.py, application/interfaces |
| `OutboxProofs` | theorems about `Outbox` for every value of its constants | - |
| `LifeCycle` | the statuses of an incident and their transitions | incidents.py |
| `Incidents` | correlation transaction and status change on the incident tables | correlation_handler.py, incident_routers.py 387-464, repositories.py 1075-1172 and 1314-1374, incidents.py |
| `IncidentsProofs` | theorems about `Incidents`, and its refinement of `Correlated`, for every value of the constants | - |
| `Correlated` | the abstract promise of the incident tables, refined by `Incidents`, used by `Views` and `Pipeline` | models.py, correlation_handler.py |
| `Views` | read routes, walks through pages, scrapes, gauge and counters over the tables of `Correlated` | incident_routers.py, metrics.py, the queries of repositories.py, main.py |
| `ViewsProofs` | theorems about `Views` for every value of its constants | - |
| `Rules` | active rules, eligibility, window and correlation key of an event | rules.py, correlation_handler.py 47-90, correlation_consumer.py 189-206 |
| `RulesProofs` | theorems about the keys and windows of `Rules` | - |
| `Consumer` | the consume loop, the offsets and the consumer group | correlation_consumer.py |
| `ConsumerProofs` | theorems about `Consumer` for every value of its constants | - |
| `Pipeline` | `Delivery`, the topic, `Consumer`, `Rules` and `Correlated` from end to end | the places where they call each other |
| `PipelineProofs` | theorems about `Pipeline` for every value of its constants, from those of `Consumer` and `Rules` | - |
| `Commands` | the REST command path | command_bus.py, handlers.py 40-214, dependencies.py, unit_of_work.py, event_bus.py, dlq.py |
| `CommandsProofs` | theorems about `Commands` for every value of its constants | - |
| `Access` | tokens, revocation store, roles and tenants | jwt.py, revocation.py, auth_routers.py, auth.py, rbac.py, kernel.py, tenant_auth.py, routers.py |
| `AccessProofs` | theorems about `Access` for every value of its constants | - |
| `MCOutbox`, `MCIncidents`, `MCViews`, `MCConsumer`, `MCPipeline`, `MCCommands`, `MCAccess` | instances for TLC: model values, definitions of function constants, symmetry | - |

How they compose: `Outbox` implements `Delivery` and `Incidents`
implements `Correlated`; both are checked and proved. `Pipeline` puts the two abstract
specifications at both ends of `Consumer`, which it extends, and takes its keys
from `Rules`. A step of `Pipeline` therefore stands for a whole transaction of a
detailed module, and what the detailed modules show is what allows it to.
`Views` reads the tables of `Correlated` in the same way.

### Conventions

*Transactions.* PostgreSQL runs the application at READ COMMITTED. Committed
rows are variables of their own (`stored`, `outbox`, `status`, `tenants` ...);
uncommitted rows live in variables of the session that wrote them (`draft`,
`fresh`, `links`, `wrote`, `rows`). A query sees committed rows and those of its
own session. A write that meets an uncommitted entry of the same unique key or
row is not enabled: it waits. A commit makes all of a session's rows visible in
one step, a rollback removes them in one step.

*Grain.* One action is what happens between two points at which another process
can be observed: a statement that reads, a statement that writes and may wait, a
publication, a commit. Pure computation belongs to the action that follows it.

*Faults.* A fault is a failed statement, a lost connection or a killed process
(in `Commands` and `Consumer` also a broker, in `Access` a Redis, that does not
answer). Their number is bounded by `MaxFaults`, `MaxCrashes`, `MaxFailures`; these
bounds exist for model checking only and every property holds for, or is
conditioned on, any number.

*Data.* An event is its idempotency identity; payloads, titles and hashes are left
out, severities and keywords appear in `Rules` and `Views` where code looks at them.
Times appear only where code compares them: `next_retry_at` is NULL, in the
future, or past; `created_at` is a number, or a rank; `occurred_at` and the clock of
`Access` are counted in ticks, several to a second, because the code truncates.

*Faulty variants.* Some modules define, next to an action or operator, a variant
with a plausible bug. No specification uses them; they show that a property can
fail.

### Outbox: state and actions

`pc[c]` follows one call of `handle`: `Receive` (validation), `Check` (the
SELECT of `save`), `Insert` (the INSERT in its SAVEPOINT, which waits for an
uncommitted row of the same identity and finds the committed row on conflict),
`Record` (audit rows and outbox row; the outbox key may conflict), `Commit`, or
`Suppress` for a duplicate, and `IngestFault`. `batch`, `todo` and `draft` are
one worker's open transaction: `Claim` locks up to `BatchSize` eligible and
unlocked rows, oldest first; `NextRow`, `PublishOk` and `PublishFail` walk over
them; `CommitBatch` makes the drafts visible; `WorkerFault` rolls them back, the
copies already on the topic staying there. `RetryDue` is time passing the
`next_retry_at` of a row. The lease columns are written and committed with the
outcome of the batch, so no committed row is ever "processing"; this is part of
`RetryBudget`.

### Incidents: state and actions

`pc[d]` follows one call of `process_single_message`: `Start`, then for each key
of the event, in rule order, `Find`, `Insert`, `Exists`, `Attach`, then `Commit`;
`Abort` is the rollback and the answer False. `Attach` looks for the row a second
time, as `save` does, and skips the INSERT (`Skip`) if another delivery has committed
it since `Exists`. `KeysOf[e]` stands for what
`Rules` computes for `e`. `rpc[r]` follows one
PATCH: `Read` (get_by_id and transition_to, 422 if the life cycle does not allow
it; `OpenWith` and `MayMove`), `Select` (the SELECT of `save`), `Update` (row lock,
partial index), then `CommitStatus`. `DeliveryWaits` and `RequestWaits` say when a
statement meets another transaction's uncommitted row, lock or index entry; the
actions that write have them as guards. `NewStatus` models that SQLAlchemy writes a column only when it
differs from the value the session loaded.

`PostgresIncidentRepository.save` calls `session.add` before `begin_nested()`,
and `begin_nested()` flushes pending objects before the SAVEPOINT is sent. The
INSERT runs in the outer transaction; a unique violation therefore loses all of
it, and the query in the `except` branch raises. `Insert` and `Attach` model this.

### Consumer: state and actions

`position` is the fetch position of the owner of a partition, moved by `Poll`
and reset to `committed` by `Rebalance` only. `next`, `stop` and `current` are the
batch and the place of the two `for` loops in it. `HandleOk` and `HandleFails` are
the two answers of `process_single_message`; `CommitOffset`, `CommitRefused` and
`CommitFails` the three outcomes of `commit()`. A rebalance does not interrupt the
loop. `Crash` is the death of the process (one that `stop()` ends leaves the group no
differently), `Restart` is `start()`.

### Correlated and Views: state and actions

`Correlated` has the committed tables only: an event is correlated in one step
for all of its keys, a status changes in one step together with its row in the
audit trail. A history row need not start from the status the incident has now:
its writer may have read an older one (see the disagreements). The refinement maps
the uncommitted rows of `Incidents` away.

`Views` adds what looks at these tables. `patch[p]` is what PATCH does after its
commit: count the evidence, count the transition, query the open incidents, set
the gauge, each of which may fail with another outcome. `scrape[s]` is
`metrics_endpoint_handler`; between its query and its answer nothing is awaited, so
`ScrapeAnswers` sets the gauge and answers in one step. `reader[r]` is a call of a read route, one
query per step, and for the list a client that goes on from page to page;
`Position` is where a row stands in the order the query asks for. `Restart` loses the
counters of the API.

The evidence counter lives in the processes of the correlation consumer. `Views`
follows one of them (`work`, and `linked`, how often it counted each row): `Take`
begins a message, `Consume` is its commit, `Drop` its rollback, `CountEvidence` the
increments after the commit, `ConsumerCrash` the death of the process with its
counter. All other processes are `ConsumeElsewhere`, which may store the very message
the first one has in hand, as it happens after a rebalance. What the process will
count is decided before the row is saved: `handle` asks whether it exists, and `save`
asks again and silently returns a row that has come in between. `TakenForNew` has
all answers that leaves: the rows of this commit, and perhaps some that others
committed since `Take`. Routes only read and share nothing, so
one call at a time (`MaxCalls`) shows all that several would.

### Rules and Pipeline: state and actions

`Rules` is pure: `ActiveRules` (positions in `RuleIds`, with the default rules back
when no version is active), `Eligible`, `Bucket` (`int()` truncates before the
division), `AssetKey`, `KeyFor`, and `KeysFor`, which takes the eligible positions in order (`Nth`). An
`occurred_at` is any number of ticks, before the epoch too: nothing validates it.
`Pipeline` has `Ingest` (an event is accepted), `Send` (a copy
reaches the partition of its tenant; the copy of an event may be repeated),
`Settle` (the outbox resolves an event as published or abandoned), `Handle` (a
message is correlated, or skipped with True because its event is unknown, and its
offset may be committed), and `Run`, `Revive`, `Fail`, `Assign` for the remaining
steps of `Consumer`.

### Commands: state and actions

Each request has a session and a bus of its own. `Send` is the policy check;
`Read`/`Prepare`, `Save`, `PublishOk`/`PublishFail` the statements of the five
handlers; `Return` and `Raise` what the bus does with the outcome, `Raise`
choosing between another attempt in the same session and the dead letter.
`Abort` leaves the session unusable, so `Unusable` makes every further statement
raise. `Refused` is the one validation that can fail between the query and the save: a
slug derived from a name may be too short or too long for `Tenant` (`BadSlugs`). The
statuses and timestamps a handler converts come through patterns and types of their
DTOs (dto.py), so those conversions never raise. `Close` ends the request and rolls its session back, since nothing
commits it. `CliCreate` is the only writer that commits tenants. `bus` is the one
event bus of the process: "memory" (development; nothing subscribes to it),
"unstarted" (Kafka demanded, `start()` never called: every publication raises,
which is what staging and production get at this commit) and "started" (what
`start()` would give).

### Access: state and actions

`token` holds the claims, type, expiry and parent of each token signed; `entry`
when its revocation entry ends. A request that carries a token is `Arrive`d
(decoded), waits for the store (`Check`, `CheckFails`), and then is a `Call` of a
route, a `Mint` of a new access token, or a logout: a logout verifies its token
once more (`Again`), computes the lifetime of the entry and writes it later
(`Revoke`, `RevokeFails`); the token may expire between any two of these. `Tick`
is time. `mode` is the environment: "closed" (staging, production: 503 without
Redis), "open" (dev, test: the token passes), "memory" (the in-memory store, lost
at a restart). The routes that sign tokens for development may answer 403 in every
mode, because the environment "test" refuses them although it shares the modes of
"dev". `Call` decides role and tenant for every route and argument.

## 3. The runs

All runs but `views` set `CHECK_DEADLOCK FALSE`: clients make finitely many calls,
so a behaviour in which all of them are answered and nothing is left to dispatch
stops, rightly. That nobody waits for ever is what the liveness properties say. In
`views` a message may always be delivered again, so nothing ever stops.

| Run | Instance | Shows |
|---|---|---|
| `outbox` | 3 events, two with one outbox key, one with no active asset; 3 calls: of the two that share a key, or of all three; up to 2 outbox rows, 2 workers, 2 attempts, batches of 2, 1 fault | `TypeOK`, `IngestAtomic`, `AnswersHold`, `PersistBeforePublish`, `RetryBudget`, `ExclusiveDispatch`, `CopiesAccounted`, `ImplementsDelivery`, `EveryCallAnswered`, `EveryRowSettles` |
| `outbox_key_scope` | 2 events of two sources with one client key | violation of `DistinctEventsAccepted` |
| `incidents` | 2 deliveries of events with one and two keys, 3 requests, 2 faults, tables that are empty or hold an incident under investigation | `TypeOK`, `OneActivePerKey`, `IncidentsHaveEvidence`, `TrueMeansCorrelated`, `SuccessorAfterResolution`, `SomebodyProceeds`, `ImplementsCorrelated` |
| `incidents_conflict` | 2 deliveries, no fault | violation of `ConflictAbsorbed` |
| `incidents_lost_update` | 3 requests on one incident | violation of `StatusFollowsLifeCycle` |
| `views` | 2 events of two keys, one contained incident, a consumer process beside all others, 1 status change, 1 scrape, 1 reader with pages of one, 1 failure or restart | `TypeOK`, `ReadsAgree`, `WalkMissesNothing`, `ScrapeFresh`, `CountersNotAhead` |
| `consumer` | 1 partition of 3 messages, 2 consumers, batches of 2, 3 rebalances, 1 crash, 2 failures | `TypeOK`, `OffsetAfterDatabase`, `CrashesSkipNothing`, `HandledOncePerAssignment`, `EveryMessageHandled` |
| `consumer_skip` | 1 partition of 2 messages, 1 failure | violation of `NothingSkipped` |
| `pipeline` | 2 events on both sides of the edge of a window, eligible for two rules and for one, 3 messages (one is a repetition), 1 crash, 1 failure, a catalogue of two rules switched off | `CommittedIsCorrelated`, `EvidenceCoherent`, `EveryEventCorrelated` |
| `commands_requests` | 2 requests of any two commands, 2 names, one of them a slug that `Tenant` refuses, 3 attempts, 3 failures, the CLI, every mode of the event bus | `TypeOK`, `DeadLettersAreFailures`, `AnnouncedOnce`, `AcceptedIsAnnounced`, `AcceptedIsWritten`, `EveryRequestEnds` |
| `commands_persist` | the same with valid slugs and 1 failure | violation of `CreatedTenantsPersist` |
| `access` | 3 requests over 3 tokens, tokens that live 2 and 3 seconds of 2 ticks, 1 failure of Redis or restart, every environment | `TypeOK`, `TenantIsolation`, `LogoutHolds` |

### Why the bounds are enough

*Outbox.* The two mixes of calls (`Mixes`) let two calls race for one identity while
the third has another with the same outbox key, which puts three calls in the queue
for a key; or give two identities that share a key beside one with a key of its own,
which makes two rows. With two rows and batches of two, one commit covers a published
and a failed row, a batch is cut short between its two publications, and two workers
share the rows between them, older ones first; `LIMIT` itself, which would take a
third row, never cuts, and the proofs cover it. Two attempts give both outcomes of
`mark_failed`; one fault loses a batch or a call. A failed publication is no fault and
happens as often as the attempts allow. The proofs remove these bounds for everything but
liveness.

*Incidents.* Two deliveries and two keys let one transaction wait for, or lose to,
another between its two rules. An incident needs two transitions from
"investigating" to "resolved", the third request holds a stale read of it, and a
delivery creates the successor it then collides with (`Ages` starts behaviours
with that incident, so that the first two transitions need no requests of their
own). Events that meet the tables empty are the other half of the initial states.
The proofs remove these bounds for everything but `SomebodyProceeds`, and for the
part of it that is about locks (theorem `NoDeadlock`).

*Views.* A page of one over two incidents is the smallest walk in which a row can
be created, or change its place, behind or ahead of the reader. One scrape and one
status change are two writers of the gauge; the start of the API is the third. One
consumer process is followed and any number of others may write around it; the claim
about its counter is one about each process. Incidents, and the two events with their
keys and severities, are interchangeable (`Symmetry`). The proofs remove these bounds.

*Consumer.* A batch of two in a log of three leaves a message behind a batch and
one in front of it; three rebalances (the first gives the partition its owner) and
a crash let the partition leave a consumer in the middle of its batch and come
back; two failures drop two messages, or a message and a commit. The proofs
remove these bounds, and the single partition, for the safety properties.

*Pipeline.* Two events that differ by one tick and lie in two windows, of which
one is eligible for both rules and the other for one of them, give three keys. A
third message is the repetition at-least-once delivery allows. Identifiers of
incidents are given out in order, which breaks their symmetry by hand. The proofs
remove the bounds, and the catalogue, for the safety properties.

*Access.* A login takes two tokens and a refresh the third. Three requests are
what a logout needs to race a refresh and to be followed by a call. A second of
two ticks tells truncation from its absence. Lifetimes of two and three seconds
stand for 28800 and 604800; `MinTtl` of two for 60: what matters is whether one
ends before the other.

*Commands.* Requests touch each other only through the uncommitted row of one
slug or tenant, pairwise; a second name is one that is refused. Three attempts and three failures let every attempt
fail in a different place. The proofs remove these bounds for the safety
properties.

### Fairness

- `Outbox`: weak fairness of each step of a started call and of each worker (the
  event loop runs what is ready; `run_outbox_worker_loop` polls for ever and
  survives exceptions), and of time passing `next_retry_at`. Strong fairness of
  `PublishOk`: a broker that is tried for ever answers some day. Nothing is
  assumed of `Receive`, of faults or of failed publications.
- `Commands`: weak fairness of the steps of a started call. Starting one, faults,
  and requests sent by a client are not fair.
- `Incidents`: no fairness is needed to say that nobody waits for ever. No call
  repeats a step, so it is enough that in every reachable state with calls in
  flight one of them can go on without a fault: the invariant `SomebodyProceeds`.
  Both halves of this argument are proved, `EveryStepAdvances` and, for the waiting,
  `NoDeadlock`.
  `FairSpec` (weak fairness of these steps) is there for the counterexample of
  `incidents_lost_update`.
- `Pipeline`: the fairness of `Consumer`, and of the outbox that each accepted
  event is resolved in the end, which is `EveryRowSettles` of `Outbox`.
- `Consumer`: weak fairness of the loop, of `Restart` (the compose file restarts
  the worker) and of the group coordinator assigning partitions without an owner.

### Disagreements between the code and what is said of it

1. *Outbox key without the source* (`outbox_key_scope`, handlers.py:405). An
   event is identified by tenant, source and idempotency key, its outbox row by
   tenant and key only. The second source to use a key gets an error and its
   event is lost.
2. *The SAVEPOINT that absorbs nothing* (`incidents_conflict`,
   repositories.py:1102). See the model above: the loser of a race ends False with
   its whole transaction gone. With item 4 its event may never be correlated.
3. *Lost update of a status* (`incidents_lost_update`, incident_routers.py:405).
   No lock and no comparison between the read and the UPDATE: an incident goes
   from "investigating" back to "acknowledged".
4. *A failed message is skipped* (`consumer_skip`, correlation_consumer.py:281).
   The loop goes on after a False, and the next message's offset covers it.
5. *Commands are never committed* (`commands_persist`, unit_of_work.py:28). A
   tenant answered 201, and announced, is rolled back with the session.

Further observations, which the models contain and no run singles out:

- A row whose attempts fell into a broker outage is never published although the
  broker comes back (`EveryRowSettles` and `EveryEventCorrelated` say "or given up"
  for this reason, while outbox_dispatcher.py:22 says at-least-once).
- An event delivered again after its incident was resolved opens a second
  incident (correlation_handler.py:21 says a replay duplicates nothing).
- A command whose publication failed is run again over its own uncommitted row: an
  acknowledgement succeeds without an event (ADR-002), a creation is answered
  "already registered".
- Nothing calls `start()` of the API's event bus, so with Kafka every publication
  of a command raises; the readiness probe builds a bus of its own that is never
  started either, and reports "fallback_in_memory" as not ready in staging and
  production.
- Each request builds its own circuit breaker, which therefore never opens; were it
  shared, it would store the time read before the handler ran (command_bus.py:56),
  so a failure slower than `recovery_time` would not open it.
- Switching off the last rule version enables the default rules again
  (correlation_consumer.py:195), because only active versions are read.
- In its last second a token that was logged out may pass: the lifetime of its
  entry is truncated (revocation.py:195). `LogoutHolds` leaves that second out.
- A list filtered by status may show fewer rows than its total, and a walk that
  sorts by status may miss rows: `ReadsAgree` and `WalkMissesNothing` are stated for
  the order of `created_at` without that filter.
- Two consumer processes may both count one row of evidence: the one that finds
  the row already there when it saves has decided `is_new_evidence` before
  (correlation_handler.py:205, repositories.py:1320). A dashboard that sums
  `govsec_incident_evidences_total` over processes may then show more rows than there
  are; `CountersNotAhead` speaks of the counter of one process.
- ADR-005 names the scrape as what sets the gauge; PATCH and the start of the
  API set it too, from counts that may be old. `ScrapeFresh` holds because the
  scrape awaits nothing between its own count and its answer.
- `int()` rounds towards zero, so before 1970 windows are blurred by a second, and
  the one that holds the epoch's first second is that much longer. `occurred_at` is
  not validated, so `EvidenceCoherent` states windows for events from the epoch on
  and the distance of less than a window and a second for all.

## 4. What is proved

`OutboxProofs` proves, for any finite or infinite sets of events, calls and
workers, any outbox keys and creation times, any `MaxRetries` and `BatchSize`
above zero and any number of faults:

| Theorem | States |
|---|---|
| `TypeCorrect` | `Spec => []TypeOK` |
| `InvariantCorrect` | `Spec => []OutboxInv` |
| `IngestAtomicity` | `Spec => []IngestAtomic` |
| `AnswersTrue` | `Spec => []AnswersHold` |
| `PersistedFirst` | `Spec => []PersistBeforePublish` |
| `RetriesBounded` | `Spec => []RetryBudget` |
| `DispatchExclusive` | `Spec => []ExclusiveDispatch` |
| `CopiesBounded` | `Spec => []CopiesAccounted` |
| `Refinement` | `Spec => ImplementsDelivery` |
| `ApartAccepted` | `KeysApart` implies `Spec => []DistinctEventsAccepted` |
| `CallsNeverAllWait` | `Spec => []CallsWaitsEnd` |
| `CallsAdvance` | `Spec => CallsRunForward` |
| `RowsAreBounded`, `RowsOnlyAdvance` | `Spec => []RowsBounded`, `Spec => RowsAdvance` |
| `DispatchGoesOn` | `Spec => []HoldersGoOn` |

The only assumptions are those of the module (`OutboxAssumptions`), which TLC
evaluates in every run of it.

*Argument.* None of the properties is inductive alone. `OutboxInv` is, and has
five parts. `TypeOK`. `IngestInv`: at most one open call holds the uncommitted row
of an identity, and only while none is committed, and answers and audit rows
follow from the stored call; without it two calls in `Record` could both commit.
`RowInv`: how status, retry counter and retry time of a committed row determine
each other, and that a row exists exactly for a stored event; without it the
retry bound does not follow, because a row's next counter depends on whether it
can be selected at all. `LockInv`: a locked row is still eligible, belongs to one
worker, and its draft is what claiming and then publishing made of the committed
row; without it `CommitBatch` could overwrite a newer state. `CopiesAccounted`
itself. One lemma per action shows that it preserves the invariant, part by part.

`Refinement` maps the database to the abstract promise: accepted events are the
stored ones, settled the published ones, abandoned the failed ones without a
retry time. `Commit` is `Accept`, a publication that reaches the topic is
`Deliver`, `CommitBatch` is `Resolve` of the published and of the exhausted rows
of the batch, and every other step stutters.

`ApartAccepted` says how far the first disagreement of section 3 reaches: if outbox
keys told identities apart (`KeysApart`), no undisturbed call would be refused. The
remaining theorems are the safety half of `EveryCallAnswered` and `EveryRowSettles`.
Calls run through at most five places, each step forward, and of those in a
transaction one does not wait: whoever waits for an event row waits for a call in
`Record` or `Commit`, whoever waits in `Record` waits for one in `Commit`, and a call in
`Commit` waits for nobody. A committed row has at most `5 * MaxRetries + 4` versions, the
last of them final, and a worker with locked rows has a row to publish or a batch to
commit.

`CommandsProofs` proves, for any sets of requests and keys, any `MaxRetries`
above zero and any number of faults, from `CommandsAssumptions` alone:

| Theorem | States |
|---|---|
| `CommandsInvariant` | `Spec => []CommandsInv` |
| `CommandsTypes` | `Spec => []TypeOK` |
| `DeadLetters` | `Spec => []DeadLettersAreFailures` |
| `RetriesAnnounceOnce` | `Spec => []AnnouncedOnce` |
| `AcceptedAreAnnounced` | `Spec => []AcceptedIsAnnounced` |
| `AcceptedAreWritten` | `Spec => []AcceptedIsWritten` |
| `RequestsAreBounded`, `RequestsAdvance` | `Spec => []PlacesBounded`, `Spec => RequestsRunForward` |
| `RowsAreExclusive` | `Spec => []RowsExclusive` |
| `RequestWaitsEnd` | `Spec => []WaitsEnd` |

*Argument.* `AnnouncedOnce` is not inductive: nothing in it says why an attempt
after an unacknowledged publication does not publish again. `SessionInv` does.
The handler flushes before it publishes, so the session still holds the row when
the bus retries, and either the next query finds it (the creation raises, the
acknowledgement returns) or a failed statement has made the session unusable for
good. `TriesInv` counts: each attempt flushes one row and publishes one event at
most, so `MaxRetries` bounds both. The invariant speaks of each request alone
(`InvIsLocal`), and an action of one request leaves the others as they are
(`OneRequest`); so the lemma of an action looks at one request, and only at what
the bus makes of the outcome of its attempt (`RaiseLocal`, `ReturnLocal`,
`MoveLocal`).

Behind `EveryRequestEnds` stand three more theorems. A request has at most
`4 * MaxRetries + 5` places and each step takes it forward, retries included.
`RowsExclusive` is about pairs of requests, which `CommandsInv` is not: the holder of an
uncommitted slug or tenant has no rival for it and has the row of its attempt already,
so it is past the only statement that may wait, and `RequestWaitsEnd` follows.
`WaitsEnd` is defined in `CommandsProofs`; `IncidentsProofs` has one of its own.

`ConsumerProofs` proves, for any sets of partitions and workers, any log, batch
size and number of rebalances, crashes and failures, from `ConsumerAssumptions`
alone:

| Theorem | States |
|---|---|
| `ConsumerInvariant` | `Spec => []ConsumerInv` |
| `ConsumerTypes` | `Spec => []TypeOK` |
| `OffsetsFollowDatabase` | `Spec => []OffsetAfterDatabase` |
| `NothingLeftBehind` | `Spec => []CrashesSkipNothing` |
| `HandledOnce` | `Spec => []HandledOncePerAssignment` |
| `FailuresAreBounded` | `Spec => FailuresCostABatch` |
| `SkippedWasAtStake` | nothing is at stake at first, and what is skipped was |

*Argument.* Committing over a gap is the hazard, and a gap may come from a stale
batch, so the invariant has to say where gaps can be. `NoGap`, for behaviours
without failures: everything is handled below the committed offset, below the
place of any batch (also of a consumer that lost the partition), and below the
position of an owner except inside its own batch. That last clause is what a
batch given up early would break: after a refused commit the consumer polls from
a position beyond messages it dropped. It does not, because of the fourth clause:
a consumer either owns every partition of its batch or is back at positions below
which all is handled, since a rebalance sets all positions to the committed
offsets. `CommitRefused` happens only in the second case. `LoopInv` ties `current`
to the batch and says that in front of a commit its message was handled, which
gives `OffsetAfterDatabase` with failures too. Five actions give up a batch;
`DroppedBatch`, `DroppedLoop` and `DroppedNoGap` treat what they have in common.

`HandledOnce` counts instead. An assignment of the partitions gives a message one
handling, which is in one of three places: it took place, some batch carries the
message unhandled, or the position of the partition is not beyond it. `Budget` says
that the three together are no more than the assignments so far; `Poll` moves one from
the third place to the second, `HandleOk` from the second to the first, giving up a
batch loses some, and only `Rebalance`, which sets the position back, adds one.

`FailuresAreBounded` says what the fourth disagreement of section 3 costs. `AtStake` has
the unhandled messages that the group may never read again: below the committed offset,
behind a batch, or behind the owner's position and not in its batch. A batch of which a
rebalance took a partition does not count, for it may be abandoned at its next
commit; with that, no crash, rebalance, commit or poll adds to the set, a message that
fails adds itself, and a failed commit the rest of its batch. As getmany gives at
most `MaxRecords` messages, no failure skips more. TLC checked the same formula on the
instance of `consumer` before it was proved.

`AccessProofs` proves, for any sets of tokens, requests, tenants and claims, any
lifetimes, any number of ticks to a second, any number of failures and restarts,
from `AccessAssumptions` alone:

| Theorem | States |
|---|---|
| `AccessInvariant` | `Spec => []AccessInv` |
| `AccessTypes` | `Spec => []TypeOK` |
| `TenantsIsolated` | `Spec => []TenantIsolation` |
| `LogoutsHold` | `Spec => LogoutHolds` |

*Argument.* `LogoutHolds` compares a moment with one long past: the lifetime of the
entry was computed before the entry was written, and both before the token is
checked. `AccessInv` carries the fact along. `RequestOK`: a request about to write
has a lifetime that ends in the last second of its token, or later, or none
because its token is gone already. `StoreOK`: an entry ends less than a second
before its token, and what was logged out is gone (the store has an entry, or the
token has expired), unless a failure outside staging and production made the store
guess. `LifetimeIsEnough` is where the truncation counts: dropping the minimum of
a minute, or dividing the wrong way, breaks it. `GoneStays` says why time undoes
none of this. For `TenantIsolation`, `TokenOK` says that a minted token has the
claims of a refresh token, which itself came from a login, so the root of a token
has its claims, and `ScopesStay` that no route grants more than these.

`IncidentsProofs` proves, for any sets of events, keys, incidents, deliveries and
requests, any keys of an event and any number of faults, from
`IncidentsAssumptions` alone:

| Theorem | States |
|---|---|
| `IncidentsInvariant` | `Spec => []IncidentsInv` |
| `IncidentsTypes` | `Spec => []TypeOK` |
| `OneActive` | `Spec => []OneActivePerKey` |
| `EvidenceAlways` | `Spec => []IncidentsHaveEvidence` |
| `TrueIsCorrelated` | `Spec => []TrueMeansCorrelated` |
| `Successors` | `Spec => []SuccessorAfterResolution` |
| `Implementation` | `Spec => ImplementsCorrelated` |
| `NoDeadlock` | `Spec => []WaitsEnd`, where `WaitsEnd` is defined in the same module |
| `CallsAreBounded`, `EveryStepAdvances` | `Spec => []PlacesBounded`, `Spec => CallsRunForward` |
| `TrailIsComplete` | `Spec => []TrailComplete` |
| `TablesOnlyGrow` | `Spec => NothingTakenBack` |
| `OneRequestFollows` | `Spec /\ []RequestsApart => StatusFollowsLifeCycle` |
| `NoConflictApart` | `Spec /\ []RequestsApart /\ []DeliveriesApart => []ConflictAbsorbed` |

*Argument.* `OneActivePerKey` speaks of committed rows, and what threatens it is not
committed yet: an incident a delivery has inserted, and a status a PATCH has written
into a locked row, which may bring a resolved incident back. `Live` counts both with
the committed active incidents, and `OneLive` says that one key has one live incident
at most; the partial index keeps it. `RequestOK` says what a PATCH can have written:
its new status, or the present one, when SQLAlchemy finds nothing to write. `DeliveryOK` follows the rule loop: the rules behind have their
evidence, in the tables or in the transaction; an uncommitted incident has its
evidence unless the current rule just inserted it; a transaction links one incident
to an event for each key. From it follow `TrueMeansCorrelated` and, at a commit,
`IncidentsHaveEvidence`. `SuccessorAfterResolution` needs that the trail leads to the
status of an incident (`TableOK`) and that no transition of a stale read skips
"resolved" on its way out of the active statuses (`Moves`).

`Implementation` forgets the sessions: the abstract tables are the committed ones. A
`Commit` of a delivery is `Correlate` (the incidents its links lead to are the choice
`goes`, which the lemmas show to be a function on the keys that is one to one),
`CommitStatus` is `Change`, and every other step, rollbacks included, stutters.

`NoDeadlock` goes by the order of the rules. A delivery that waits does so at the key of
a rule, for another delivery, for a request about to commit, or both. A request about to
commit waits for nobody, since its UPDATE takes row and index entry in one statement.
The delivery waited for has written at that key and is at a later one, or at a later
statement of the same one (`WaitsForFurther`): nobody is at two keys, and the events of
all deliveries go through the rules in one order. So of the waiting deliveries the
furthest one (`LeastNumber`, on the distance to the last rule) waits for one that does
not wait. Exchange the order of two rules for one event and the proof fails where the
deadlock is. `EveryStepAdvances` adds that no call ever goes back, so nobody waits for a
call that runs in circles.

`TrailIsComplete` and `TablesOnlyGrow` say what a rollback or a lost update cannot do:
a status may be set back, but the trail keeps all transitions that lead to it, and what
is committed stays.

The last two theorems bound the disagreements of section 3. Both properties are
violated by the code, and the theorems say by what only: two requests in flight at one
incident, and two deliveries in flight of one key. `RequestsInOrder` says that a request
that is alone still has, at each of its statements, the status it decided from;
`NoConflicts` that a delivery alone finds at its INSERT what its SELECT found. Calls
made one after the other satisfy the hypotheses, and so do concurrent ones on
incidents and keys of their own.

`ViewsProofs` proves, for any page size, any rows, readers, scrapes and calls and any
number of failures, from `ViewsAssumptions` (the incidents are finitely many, since
every query counts them) and those of `Correlated`:

| Theorem | States |
|---|---|
| `ViewsInvariant` | `Spec => []ViewsInv` |
| `ViewsTypes` | `Spec => []TypeOK` |
| `CountersBehind` | `Spec => []CountersNotAhead` |
| `ScrapesFresh` | `Spec => []ScrapeFresh` |
| `ReadersAgree` | `Spec => []ReadsAgree` |
| `WalksMissNothing` | `Spec => []WalkMissesNothing` |
| `TablesCorrelated` | `Spec => CSpec` |

*Argument.* The queries of a route are steps of their own, and others write in
between; the invariant says what survives. Rows are never deleted, so the `Exist` of a
count is part of that of a later page: a total is at most the number of rows now, and
a page no shorter than the total calls for (`AnswerOK`, by `CountGrows`). For walks,
the position of a row in the order of `created_at` only grows: `created_at` is
taken before the commit, so a new incident may come anywhere in the order, but it
moves the rows after it back and none forward (`PositionGrows`). So
what a walk has still to find is behind what it has seen (`WalkOK`), whatever is
created meanwhile. That a page takes every position between its first and its last is
a counting argument on finite sets. `ScrapeOK` holds because a scrape sets the gauge
and answers in one step. `CountersNotAhead` needs to know why a process that mistakes
another's row for a new one does not count it twice itself: `WorkOK` says that what it
counted of the event in hand it saw when it began, so what it finds new it has not
counted, and nothing else counts before it has finished with the message.

`RulesProofs` proves what the other modules take from `Rules`, for any catalogue,
window, resolution of the clock and event:

| Theorem | States |
|---|---|
| `KeysAreOfRules` | an event has a key of an active rule exactly when it is eligible for it |
| `KeysInRuleOrder` | its keys are of distinct rules, in the order of `RuleIds` |
| `BucketsAreWindows` | equal buckets mean one window from the epoch on, and less than a window and a second apart in any case |

`KeysInRuleOrder` is what `IncidentsAssumptions` takes of `KeysOf` and `RuleOf`.
`BucketsAreWindows` composes two divisions (`Quotient`): ticks to seconds, cut off
towards zero, and seconds to windows, rounded down.

`PipelineProofs` proves, for any events, tenants, partitions, catalogue and workers,
any number of crashes, rebalances and failures, from the assumptions of `Pipeline`,
`Consumer` and `Rules`:

| Theorem | States |
|---|---|
| `PipelineInvariant` | `PSpec => []PipelineInv` |
| `CommittedAreCorrelated` | `PSpec => []CommittedIsCorrelated` |
| `EvidenceBelongsTogether` | `PSpec => []EvidenceCoherent` |
| `PipelineConsumes` | `PSpec => Spec`, the specification of `Consumer` |
| `PipelineDelivers` | `PSpec => Outbox!DSpec`, that of `Delivery` |
| `PipelineCorrelates` | `PSpec => Tables!CSpec`, that of `Correlated` |
| `EvidenceIsFromTopic` | `PSpec => []FromTopic` |

*Argument.* `PipelineInv` joins `ConsumerInv` to the topic and the tables. `LogOK`: a
partition holds stored events, one for each offset below its end. `WithinLog`: nobody
reads or commits beyond the end, which is why a message that is handled exists, and
its event is stored, so that the branch for an unknown event is never taken.
`HandledAreCorrelated`: the event of a message handled with True has an incident for
each of its keys, and keeps it (`CorrelateEffect`), since correlating another event
takes evidence and key from none. With `OffsetAfterDatabase` and `NoGap` of
`ConsumerInv` this is `CommittedIsCorrelated`. `EvidenceOK` says that each event of an
incident builds its key; two events with one key have, field by field, one tenant,
rule, asset key and bucket (`KeysAreOfRules`, `SameKey`), and `BucketsAreWindows`
gives `EvidenceCoherent`. `PipelineConsumes`, `PipelineDelivers` and `PipelineCorrelates`
are the composition: at either end the pipeline takes only steps that the detailed
modules are proved to implement. `FromTopic` is the converse of `HandledAreCorrelated`:
where there is evidence there was a message of the event, in the partition of its
tenant, and a worker handled it.

*Not proved, only checked.* Liveness under fairness (`EveryCallAnswered`,
`EveryRowSettles`, `EveryMessageHandled`, `EveryEventCorrelated`,
`EveryRequestEnds`) and anything about `ENABLED` (`SomebodyProceeds`) are out of the
prover's reach and stay with TLC. What is proved of them is their safety half: nobody
goes back, nobody makes more than a bounded number of steps, and of the calls in
flight one waits for nobody. `EveryMessageHandled` has no such half, since a worker
that crashes or loses its partition does start again. Every other property of a
passing run is a theorem. The properties of the runs that expect a violation are
false of the code; three of them are proved under the hypothesis that names what
violates them, and of `NothingSkipped` the loss is bounded (`FailuresAreBounded`). Induction over data (what a recursive definition computes for every
input) is out of reach too; the modules need none.

*Changes the proofs asked for.* A proof attempt showed that `EvidenceCoherent` did not
hold for times before the epoch, which the code accepts; it now says what holds of
them. Facts that TLC's instances met tacitly are assumptions now: `None` is no key,
event, incident, delivery or request, rows of an earlier time have identifiers of
their own, the incidents of `Views` are finitely many, Kafka's choice for a tenant is
a partition. The deadlock argument of `Incidents` needs that some key belongs to a last
rule: `AVAILABLE_RULES` (rules.py) is a fixed list. It also had the conditions under which a
statement waits named, where each action spelled them out before. `Rules` picks the eligible rules by position, since the library's filter
of sequences is recursive.

## 5. What is not modelled

- Field validation (but for the slug of a tenant, see `Refused`), payload masking,
  evidence hashes, DTOs, logging, metrics labels: pure functions of one request.
- The deduplication set of `KafkaEventBus`: the dispatcher makes a new identifier
  for every attempt, so no identifier reaches it twice.
- The circuit breaker: each request builds its own bus, so it never opens.
- The in-memory repositories: test doubles without transactions.
- The readiness file of the worker, health probes, error mapping, request and
  system metrics.
- Scanners, scope, configuration, migrations, dashboard: no interleaving state (see
  the components of `PROJECT.json`).

Assumptions about what is outside: Redis keeps the keys it acknowledged and its
clock agrees with the API's; signatures of tokens cannot be forged; the OIDC
provider of the repository, `DefaultOIDCAuthenticationProvider`, is never
available, and one put in its place returns claims of the checked form; Kafka keeps
what it acknowledged, in order, within a partition; PostgreSQL is at READ COMMITTED.

## 6. Plan

Written in this order, most important behaviour first: `Outbox` with `Delivery`
and its proofs; `Incidents`; `Consumer`; `Commands` with its proofs; `Access`;
`Correlated` and the refinement by `Incidents`; `Views`; `Rules` and `Pipeline`;
`ConsumerProofs`; `AccessProofs`; `IncidentsProofs`; `ViewsProofs`; `RulesProofs`;
`PipelineProofs`; then the theorems about waiting and progress, those that bound the
disagreements, the cost of a failure, and the origin of evidence. What could still be said, in order of use:

1. Liveness from the progress theorems: `CallsAreBounded`, `EveryStepAdvances` and
   `NoDeadlock` make every run of calls end under weak fairness, which takes a prover
   for `ENABLED`.
2. What a walk sorted or filtered by status may miss, which `WalkMissesNothing` leaves out.

## Running

    tlc -workers 2 -config Outbox.cfg MCOutbox
    tlapm OutboxProofs.tla
    tlapm CommandsProofs.tla
    tlapm ConsumerProofs.tla
    tlapm AccessProofs.tla
    tlapm IncidentsProofs.tla
    tlapm ViewsProofs.tla
    tlapm RulesProofs.tla
    tlapm PipelineProofs.tla
