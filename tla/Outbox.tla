------------------------------- MODULE Outbox -------------------------------
(***************************************************************************)
(* Ingestion of security events and their dispatch through the             *)
(* transactional outbox.                                                   *)
(*                                                                         *)
(* A call of IngestSecurityEventHandler.handle stores a SecurityEvent, its *)
(* audit rows and one outbox row in a single PostgreSQL transaction.  The  *)
(* outbox workers claim rows with FOR UPDATE SKIP LOCKED, publish each one *)
(* to Kafka, and commit the new row states once per batch.                 *)
(*                                                                         *)
(* An event is its idempotency identity (tenant, source, idempotency_key). *)
(* Transactions run at READ COMMITTED: other sessions see committed rows   *)
(* only, and an INSERT waits for an uncommitted row with the same unique   *)
(* key.  A fault is a lost connection, a failed statement or a killed      *)
(* process: the open transaction is rolled back.                           *)
(***************************************************************************)
EXTENDS Naturals, FiniteSets

CONSTANTS
    Events,      \* idempotency identities submitted by the clients
    Unresolved,  \* the events for which no active asset is found
    Calls,       \* invocations of IngestSecurityEventHandler.handle
    Workers,     \* outbox worker processes
    None,        \* no call
    OutboxKey,   \* OutboxKey[e]: the outbox idempotency key derived from e
    CreatedAt,   \* CreatedAt[e]: created_at of the outbox row of e
    MaxRetries,  \* max_retries of the dispatcher
    BatchSize,   \* batch_size of the worker
    MaxFaults    \* bound on the faults of a behaviour (model checking only)

ASSUME OutboxAssumptions ==
    /\ Unresolved \subseteq Events
    /\ None \notin Calls
    /\ DOMAIN OutboxKey = Events
    /\ CreatedAt \in [Events -> Nat]
    /\ MaxRetries \in Nat \ {0}
    /\ BatchSize \in Nat \ {0}
    /\ MaxFaults \in Nat

VARIABLES
    stored,  \* committed security_events: the call whose row is stored, or None
    outbox,  \* committed outbox_events: the row of each event
    audit,   \* committed audit_logs written by the ingestion handler
    pc,      \* control point of each ingestion call
    req,     \* the event each call was given
    batch,   \* rows each worker holds locked in its open transaction
    todo,    \* rows of the batch the worker has still to publish
    draft,   \* uncommitted versions of the locked outbox rows
    sent,    \* number of messages of each event on the Kafka topic
    faults   \* faults so far

ingestVars == <<stored, audit, pc, req>>
workerVars == <<batch, todo, draft, sent>>
vars == <<stored, outbox, audit, pc, req, batch, todo, draft, sent, faults>>

(***************************************************************************)
(* Rows.  retryAt abstracts next_retry_at: NULL, in the future, or past.   *)
(***************************************************************************)
Statuses == {"none", "pending", "processing", "published", "failed"}
RetryTimes == {"null", "later", "due"}
Row == [status : Statuses, retries : Nat, retryAt : RetryTimes,
        by : Calls \cup {None}]

NoRow == [status |-> "none", retries |-> 0, retryAt |-> "null", by |-> None]

\* The row IngestSecurityEventHandler adds: pending, never tried.
NewRow(c) == [status |-> "pending", retries |-> 0, retryAt |-> "null", by |-> c]

AuditKinds == {"persisted", "unresolved", "suppressed"}
Answers == {"created", "duplicate", "error"}
InTransaction == {"check", "insert", "record", "commit", "suppress"}

Init ==
    /\ stored = [e \in Events |-> None]
    /\ outbox = [e \in Events |-> NoRow]
    /\ audit = {}
    /\ pc = [c \in Calls |-> "idle"]
    /\ req \in [Calls -> Events]
    /\ batch = [w \in Workers |-> {}]
    /\ todo = [w \in Workers |-> {}]
    /\ draft = [e \in Events |-> NoRow]
    /\ sent = [e \in Events |-> 0]
    /\ faults = 0

-----------------------------------------------------------------------------
(* Ingestion: IngestSecurityEventHandler.handle                            *)

\* An uncommitted security_events row of e is held by an open transaction.
EventRowHeld(e) == \E c \in Calls : req[c] = e /\ pc[c] \in {"record", "commit"}

\* An uncommitted outbox row with the key of e is held by an open transaction.
OutboxKeyHeld(e) ==
    \E c \in Calls : pc[c] = "commit" /\ OutboxKey[req[c]] = OutboxKey[e]

\* uq_outbox_events_idempotency: a committed row has the key of e.
OutboxKeyTaken(e) ==
    \E f \in Events : outbox[f].status # "none" /\ OutboxKey[f] = OutboxKey[e]

\* The client's request reaches the handler and passes its validation.
Receive(c) ==
    /\ pc[c] = "idle"
    /\ pc' = [pc EXCEPT ![c] = "check"]
    /\ UNCHANGED <<stored, outbox, audit, req, workerVars, faults>>

\* SecurityEvent save, first read: a committed row means a replay.
Check(c) ==
    /\ pc[c] = "check"
    /\ pc' = [pc EXCEPT ![c] = IF stored[req[c]] = None THEN "insert" ELSE "suppress"]
    /\ UNCHANGED <<stored, outbox, audit, req, workerVars, faults>>

\* Faulty variant of Insert: ON CONFLICT DO NOTHING, an uncommitted row of
\* another call already counts as a duplicate.
InsertDoNothing(c) ==
    /\ pc[c] = "insert"
    /\ pc' = [pc EXCEPT ![c] = IF stored[req[c]] = None /\ ~ EventRowHeld(req[c])
                               THEN "record" ELSE "suppress"]
    /\ UNCHANGED <<stored, outbox, audit, req, workerVars, faults>>

\* SecurityEvent save, INSERT inside a SAVEPOINT: waits for an uncommitted row
\* of the same identity; on IntegrityError the committed row is read again.
Insert(c) ==
    /\ pc[c] = "insert"
    /\ ~ EventRowHeld(req[c])
    /\ pc' = [pc EXCEPT ![c] = IF stored[req[c]] = None THEN "record" ELSE "suppress"]
    /\ UNCHANGED <<stored, outbox, audit, req, workerVars, faults>>

\* Faulty variants of Record: the outbox row goes through a session of its own,
\* committed at once ...
RecordAutocommitted(c) ==
    /\ pc[c] = "record"
    /\ ~ OutboxKeyHeld(req[c])
    /\ ~ OutboxKeyTaken(req[c])
    /\ pc' = [pc EXCEPT ![c] = "commit"]
    /\ outbox' = [outbox EXCEPT ![req[c]] = NewRow(c)]
    /\ UNCHANGED <<stored, audit, req, workerVars, faults>>

\* ... or waiting there for the row this call has not committed yet.
RecordOnOtherSession(c) ==
    /\ pc[c] = "record"
    /\ ~ EventRowHeld(req[c])
    /\ pc' = [pc EXCEPT ![c] = "commit"]
    /\ UNCHANGED <<stored, outbox, audit, req, workerVars, faults>>

\* INSERT of the outbox row, with no SAVEPOINT: a taken key rolls the whole
\* transaction back and the call raises.
Record(c) ==
    /\ pc[c] = "record"
    /\ ~ OutboxKeyHeld(req[c])
    /\ pc' = [pc EXCEPT ![c] = IF OutboxKeyTaken(req[c]) THEN "error" ELSE "commit"]
    /\ UNCHANGED <<stored, outbox, audit, req, workerVars, faults>>

\* COMMIT of event, audit and outbox row.  The answer may be lost after it.
Commit(c) ==
    /\ pc[c] = "commit"
    /\ stored' = [stored EXCEPT ![req[c]] = c]
    /\ outbox' = [outbox EXCEPT ![req[c]] = NewRow(c)]
    /\ audit' = audit \cup {<<c, "persisted">>}
                      \cup {<<c, "unresolved">> : e \in Unresolved \cap {req[c]}}
    /\ \/ pc' = [pc EXCEPT ![c] = "created"] /\ UNCHANGED faults
       \/ /\ faults < MaxFaults
          /\ faults' = faults + 1
          /\ pc' = [pc EXCEPT ![c] = "error"]
    /\ UNCHANGED <<req, workerVars>>

\* A replay commits only the audit row of the suppression.  Here too the answer
\* may be lost after the commit.
Suppress(c) ==
    /\ pc[c] = "suppress"
    /\ audit' = audit \cup {<<c, "suppressed">>}
    /\ \/ pc' = [pc EXCEPT ![c] = "duplicate"] /\ UNCHANGED faults
       \/ /\ faults < MaxFaults
          /\ faults' = faults + 1
          /\ pc' = [pc EXCEPT ![c] = "error"]
    /\ UNCHANGED <<stored, outbox, req, workerVars>>

\* Faulty variant of IngestFault: save commits the event row on its own.
IngestFaultKeepsEvent(c) ==
    /\ pc[c] \in {"record", "commit"}
    /\ faults < MaxFaults
    /\ faults' = faults + 1
    /\ pc' = [pc EXCEPT ![c] = "error"]
    /\ stored' = [stored EXCEPT ![req[c]] = c]
    /\ UNCHANGED <<outbox, audit, req, workerVars>>

\* The call fails before its commit: UnitOfWork.__aexit__ rolls back.
IngestFault(c) ==
    /\ pc[c] \in InTransaction
    /\ faults < MaxFaults
    /\ faults' = faults + 1
    /\ pc' = [pc EXCEPT ![c] = "error"]
    /\ UNCHANGED <<stored, outbox, audit, req, workerVars>>

IngestStep(c) == Check(c) \/ Insert(c) \/ Record(c) \/ Commit(c) \/ Suppress(c)

-----------------------------------------------------------------------------
(* Dispatch: OutboxDispatcher.process_outbox_batch                         *)

\* Faulty variant of Locked: FOR UPDATE SKIP LOCKED left out of the query.
NothingLocked == {}

\* Rows locked by an open claim.
Locked == UNION {batch[w] : w \in Workers}

\* Faulty variants of Eligible: failed rows are not selected ...
EligiblePendingOnly(e) == outbox[e].status = "pending"

\* ... or every row but a waiting one is.
EligibleUnlessWaiting(e) ==
    \/ outbox[e].status \in {"pending", "processing", "published"}
    \/ outbox[e].status = "failed" /\ outbox[e].retryAt = "due"

\* WHERE of fetch_pending_and_claim.  A committed "processing" row is taken
\* to be past its lease.
Eligible(e) ==
    \/ outbox[e].status = "pending"
    \/ outbox[e].status = "failed" /\ outbox[e].retryAt = "due"
    \/ outbox[e].status = "processing"

\* ORDER BY created_at LIMIT n over S.
Oldest(B, S) ==
    /\ B \subseteq S
    /\ Cardinality(B) = BatchSize \/ B = S
    /\ Cardinality(B) <= BatchSize
    /\ \A b \in B, s \in S \ B : CreatedAt[b] <= CreatedAt[s]

Claimed(row) ==
    [row EXCEPT !.status = "processing",
                !.retries = IF row.status = "processing" THEN @ + 1 ELSE @]

\* Faulty variant of MarkedPublished: a status the domain does not know.
MarkedSent(row) == [row EXCEPT !.status = "sent"]

\* mark_published
MarkedPublished(row) == [row EXCEPT !.status = "published"]

\* Faulty variant of MarkedFailed: one attempt too many.
MarkedFailedLate(row) ==
    [row EXCEPT !.status = "failed",
                !.retries = @ + 1,
                !.retryAt = IF row.retries + 1 > MaxRetries THEN "null" ELSE "later"]

\* mark_failed: after max_retries failures the row keeps no retry time.
MarkedFailed(row) ==
    [row EXCEPT !.status = "failed",
                !.retries = @ + 1,
                !.retryAt = IF row.retries + 1 >= MaxRetries THEN "null" ELSE "later"]

\* Claim a batch: locked rows are skipped, the claim is flushed, not committed.
Claim(w) ==
    /\ batch[w] = {}
    /\ \E B \in SUBSET Events :
          /\ B # {}
          /\ Oldest(B, {e \in Events : Eligible(e)} \ Locked)
          /\ batch' = [batch EXCEPT ![w] = B]
          /\ todo' = [todo EXCEPT ![w] = B]
          /\ draft' = [e \in Events |-> IF e \in B THEN Claimed(outbox[e]) ELSE draft[e]]
    /\ UNCHANGED <<ingestVars, outbox, sent, faults>>

\* The next row of the batch, in the order of the claim.
NextRow(w, e) == e \in todo[w] /\ \A f \in todo[w] : CreatedAt[e] <= CreatedAt[f]

\* send_and_wait is acknowledged.
PublishOk(w) ==
    \E e \in Events :
        /\ NextRow(w, e)
        /\ sent' = [sent EXCEPT ![e] = @ + 1]
        /\ draft' = [draft EXCEPT ![e] = MarkedPublished(@)]
        /\ todo' = [todo EXCEPT ![w] = @ \ {e}]
        /\ UNCHANGED <<ingestVars, outbox, batch, faults>>

\* Faulty variant of PublishFail: the failure of the broker is swallowed.
PublishFailSwallowed(w) ==
    \E e \in Events :
        /\ NextRow(w, e)
        /\ draft' = [draft EXCEPT ![e] = MarkedPublished(@)]
        /\ todo' = [todo EXCEPT ![w] = @ \ {e}]
        /\ UNCHANGED <<ingestVars, outbox, batch, sent, faults>>

\* send_and_wait raises: the broker may have stored the message all the same.
PublishFail(w) ==
    \E e \in Events :
        /\ NextRow(w, e)
        /\ sent' = sent \/ sent' = [sent EXCEPT ![e] = @ + 1]
        /\ draft' = [draft EXCEPT ![e] = MarkedFailed(@)]
        /\ todo' = [todo EXCEPT ![w] = @ \ {e}]
        /\ UNCHANGED <<ingestVars, outbox, batch, faults>>

\* The single COMMIT at the end of the batch releases the row locks.
CommitBatch(w) ==
    /\ batch[w] # {}
    /\ todo[w] = {}
    /\ outbox' = [e \in Events |-> IF e \in batch[w] THEN draft[e] ELSE outbox[e]]
    /\ draft' = [e \in Events |-> IF e \in batch[w] THEN NoRow ELSE draft[e]]
    /\ batch' = [batch EXCEPT ![w] = {}]
    /\ UNCHANGED <<ingestVars, todo, sent, faults>>

\* The worker dies or its transaction fails: the claim and every row state of
\* the batch are rolled back, the messages already sent are not.
WorkerFault(w) ==
    /\ batch[w] # {}
    /\ faults < MaxFaults
    /\ faults' = faults + 1
    /\ draft' = [e \in Events |-> IF e \in batch[w] THEN NoRow ELSE draft[e]]
    /\ batch' = [batch EXCEPT ![w] = {}]
    /\ todo' = [todo EXCEPT ![w] = {}]
    /\ UNCHANGED <<ingestVars, outbox, sent>>

\* The backoff of a failed row runs out.
RetryDue(e) ==
    /\ outbox[e].retryAt = "later"
    /\ outbox' = [outbox EXCEPT ![e].retryAt = "due"]
    /\ UNCHANGED <<ingestVars, workerVars, faults>>

WorkerStep(w) == Claim(w) \/ PublishOk(w) \/ PublishFail(w) \/ CommitBatch(w)

-----------------------------------------------------------------------------
Next ==
    \/ \E c \in Calls : Receive(c) \/ IngestStep(c) \/ IngestFault(c)
    \/ \E w \in Workers : WorkerStep(w) \/ WorkerFault(w)
    \/ \E e \in Events : RetryDue(e)

Spec == Init /\ [][Next]_vars

\* The event loop runs every started call, the workers poll for ever, and time
\* passes.  SF on PublishOk: a broker tried for ever answers in the end.
Fairness ==
    /\ \A c \in Calls : WF_vars(IngestStep(c))
    /\ \A w \in Workers : WF_vars(WorkerStep(w)) /\ SF_vars(PublishOk(w))
    /\ \A e \in Events : WF_vars(RetryDue(e))

FairSpec == Spec /\ Fairness

-----------------------------------------------------------------------------
(* Properties                                                              *)

TypeOK ==
    /\ stored \in [Events -> Calls \cup {None}]
    /\ outbox \in [Events -> Row]
    /\ audit \subseteq Calls \X AuditKinds
    /\ pc \in [Calls -> {"idle"} \cup InTransaction \cup Answers]
    /\ req \in [Calls -> Events]
    /\ batch \in [Workers -> SUBSET Events]
    /\ todo \in [Workers -> SUBSET Events]
    /\ draft \in [Events -> Row]
    /\ sent \in [Events -> Nat]
    /\ faults \in Nat

\* Event, outbox row and audit trail of an identity are the work of one call,
\* or none of them exists: however calls of the same identity interleave, and
\* whatever fails, handle() leaves no half of its transaction behind.
IngestAtomic ==
    \A e \in Events :
        /\ outbox[e].status = "none" <=> stored[e] = None
        /\ stored[e] # None => outbox[e].by = stored[e]
        /\ \A c \in Calls : req[c] = e =>
              (<<c, "persisted">> \in audit <=> stored[e] = c)
        /\ \A c \in Calls : req[c] = e =>
              (<<c, "unresolved">> \in audit <=> stored[e] = c /\ e \in Unresolved)

\* The answer handle() returns can be trusted: "created" means this call's rows
\* are durable, is_duplicate_suppressed that another call's are, and that the
\* suppression is audited.
AnswersHold ==
    \A c \in Calls :
        /\ pc[c] = "created" => stored[req[c]] = c
        /\ pc[c] = "duplicate" => /\ stored[req[c]] \notin {None, c}
                                 /\ <<c, "suppressed">> \in audit

\* Persistence before publication: no message is on the topic for an event
\* that PostgreSQL does not hold.
PersistBeforePublish ==
    \A e \in Events : sent[e] > 0 => stored[e] # None

\* A row is retried while it has attempts left, keeps a retry time until then
\* and none after; no other session ever sees it "processing".
RetryBudget ==
    \A e \in Events :
        /\ outbox[e].retries <= MaxRetries
        /\ outbox[e].status = "failed" =>
              (outbox[e].retryAt = "null" <=> outbox[e].retries = MaxRetries)
        /\ outbox[e].status # "processing"

\* SKIP LOCKED: two workers never dispatch the same row at the same time.
ExclusiveDispatch ==
    \A v, w \in Workers : v # w => batch[v] \cap batch[w] = {}

\* Every copy on the topic is accounted for: by a committed attempt, by the
\* attempt of the open batch, or by a batch that a fault rolled back.
CopiesAccounted ==
    \A e \in Events :
        sent[e] <= faults + outbox[e].retries
                   + IF outbox[e].status = "published"
                        \/ \E w \in Workers : e \in batch[w] \ todo[w]
                     THEN 1 ELSE 0

\* An outbox row the dispatcher will never select again without a copy due.
Dead(e) == outbox[e].status = "failed" /\ outbox[e].retryAt = "null"

(***************************************************************************)
(* The inductive invariant behind the safety properties.                   *)
(***************************************************************************)
Holding == {"record", "commit"}

\* At most one open call holds the row of an identity, and only while none is
\* committed; answers, audit rows and the stored call agree.
IngestInv ==
    /\ \A e \in Events, c \in Calls : stored[e] = c => req[c] = e
    /\ \A c \in Calls :
        /\ pc[c] \in Holding => stored[req[c]] = None
        /\ \A d \in Calls :
              pc[c] \in Holding /\ pc[d] \in Holding /\ req[c] = req[d] => c = d
        /\ pc[c] \in {"suppress", "duplicate"} => stored[req[c]] \notin {None, c}
        /\ pc[c] = "created" => stored[req[c]] = c
        /\ stored[req[c]] = c => pc[c] \in {"created", "error"}
        /\ pc[c] = "duplicate" => <<c, "suppressed">> \in audit
        /\ <<c, "suppressed">> \in audit => pc[c] \in {"duplicate", "error"}
        /\ <<c, "persisted">> \in audit <=> stored[req[c]] = c
        /\ <<c, "unresolved">> \in audit <=>
              stored[req[c]] = c /\ req[c] \in Unresolved

\* The committed row of an event, against the event and its copies.
RowInv ==
    \A e \in Events :
        /\ outbox[e].status = "none" <=> stored[e] = None
        /\ stored[e] # None => outbox[e].by = stored[e]
        /\ sent[e] > 0 => stored[e] # None
        /\ outbox[e].status # "processing"
        /\ outbox[e].status \in {"none", "pending"} =>
              outbox[e].retries = 0 /\ outbox[e].retryAt = "null"
        /\ outbox[e].status = "failed" =>
              /\ outbox[e].retries \in 1..MaxRetries
              /\ outbox[e].retryAt = "null" <=> outbox[e].retries = MaxRetries
        /\ outbox[e].status = "published" =>
              /\ sent[e] > 0
              /\ outbox[e].retryAt # "later"
              /\ outbox[e].retries < MaxRetries

\* A locked row is still selectable, belongs to one worker, and its draft is
\* what claiming, then publishing it made of the committed row.
LockInv ==
    /\ \A v, w \in Workers : v # w => batch[v] \cap batch[w] = {}
    /\ \A w \in Workers : todo[w] \subseteq batch[w]
    /\ \A w \in Workers : \A e \in batch[w] :
        /\ Eligible(e)
        /\ e \in todo[w] => draft[e] = Claimed(outbox[e])
        /\ e \notin todo[w] =>
              \/ draft[e] = MarkedPublished(Claimed(outbox[e])) /\ sent[e] > 0
              \/ draft[e] = MarkedFailed(Claimed(outbox[e]))

OutboxInv == TypeOK /\ IngestInv /\ RowInv /\ LockInv /\ CopiesAccounted

\* Every call that was received is answered: calls waiting for each other's
\* unique keys never wait for ever.
EveryCallAnswered ==
    \A c \in Calls : pc[c] \in InTransaction ~> pc[c] \in Answers

\* Every stored event is in the end published, or out of attempts.
EveryRowSettles ==
    \A e \in Events :
        stored[e] # None ~> outbox[e].status = "published" \/ Dead(e)

\* The sessions, rows and locks implement the abstract promise.
D == INSTANCE Delivery WITH
        accepted <- {e \in Events : stored[e] # None},
        copies <- sent,
        settled <- {e \in Events : outbox[e].status = "published"},
        abandoned <- {e \in Events : Dead(e)}
ImplementsDelivery == D!DSpec

\* The repository contract suppresses an event only for a duplicate (tenant,
\* source, idempotency_key): with nothing failing, no call ends in an error.
DistinctEventsAccepted ==
    \A c \in Calls : faults = 0 => pc[c] # "error"
=============================================================================
