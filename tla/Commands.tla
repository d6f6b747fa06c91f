------------------------------ MODULE Commands ------------------------------
(***************************************************************************)
(* The command routes of the REST API: POST, PUT and DELETE /tenants, POST *)
(* /logs and POST /alerts/acknowledge, from CommandBus.send down to the    *)
(* statements of their handlers.                                           *)
(*                                                                         *)
(* get_command_bus gives each request a session and a CommandBus of its    *)
(* own.  The bus runs the handler up to max_retries times in that one      *)
(* session, records the command as a dead letter when every attempt raised *)
(* and raises the last exception.  Nothing commits the session:            *)
(* get_db_session closes it when the request ends, which rolls it back.    *)
(* The circuit breaker of a bus that serves one command never opens.       *)
(*                                                                         *)
(* The event bus is one instance for all requests.  In development it      *)
(* hands events to the listeners of the process; elsewhere it must use     *)
(* Kafka, and then publishes only if its start() was called, which the API *)
(* of this commit never does.                                              *)
(*                                                                         *)
(* Transactions run at READ COMMITTED; the only writer that commits        *)
(* tenants is the administration CLI.                                      *)
(***************************************************************************)
EXTENDS Naturals

CONSTANTS
    Requests,    \* HTTP requests
    Keys,        \* what a command is about: tenant slug, alert fingerprint
    BadSlugs,    \* slugs that come out of a name and that Tenant does not accept
    MaxRetries,  \* max_retries of the bus
    MaxFaults    \* bound on the database and broker failures (model checking only)

ASSUME CommandsAssumptions ==
    /\ BadSlugs \subseteq Keys
    /\ MaxRetries \in Nat \ {0}
    /\ MaxFaults \in Nat

Kinds == {"create", "update", "delete", "log", "acknowledge"}

\* use_kafka is off, on without a producer, or on with one.
BusModes == {"memory", "unstarted", "started"}

VARIABLES
    bus,      \* the event bus of the process
    tenants,  \* slugs of the committed tenants
    kind,     \* the command of each request
    key,      \* and what it is about
    pc,       \* control point of each request
    tries,    \* attempts of its handler that raised
    rows,     \* rows its session has flushed and not committed
    session,  \* "new" (no connection), "open", or "aborted" by a failed statement
    answer,   \* what it was answered
    topic,    \* domain events of the request given to Kafka, or to the listeners
    dlq,      \* dead letters of the request
    faults    \* faults so far

inputVars == <<bus, kind, key>>
sessionVars == <<rows, session>>
busVars == <<pc, tries, answer, dlq>>
vars == <<tenants, inputVars, sessionVars, busVars, topic, faults>>

Init ==
    /\ bus \in BusModes
    /\ tenants \in SUBSET (Keys \ BadSlugs)
    /\ kind \in [Requests -> Kinds]
    /\ key \in [Requests -> Keys]
    /\ pc = [r \in Requests |-> "idle"]
    /\ tries = [r \in Requests |-> 0]
    /\ rows = [r \in Requests |-> 0]
    /\ session = [r \in Requests |-> "new"]
    /\ answer = [r \in Requests |-> "none"]
    /\ topic = [r \in Requests |-> 0]
    /\ dlq = [r \in Requests |-> 0]
    /\ faults = 0

-----------------------------------------------------------------------------
(* The bus                                                                 *)

Answer(r, a) ==
    /\ pc' = [pc EXCEPT ![r] = "answered"]
    /\ answer' = [answer EXCEPT ![r] = a]

\* The policy engine denies the command, or lets it through to its handler.
Send(r) ==
    /\ pc[r] = "idle"
    /\ \/ Answer(r, "denied")
       \/ pc' = [pc EXCEPT ![r] = "attempt"] /\ UNCHANGED answer
    /\ UNCHANGED <<tenants, inputVars, sessionVars, tries, topic, dlq, faults>>

\* The handler returns.
Return(r) == Answer(r, "ok") /\ UNCHANGED <<tries, dlq>>

\* Faulty variants of Raise: one attempt too many ...
RaiseOneMore(r, why) ==
    /\ tries' = [tries EXCEPT ![r] = @ + 1]
    /\ \/ /\ tries[r] < MaxRetries
          /\ pc' = [pc EXCEPT ![r] = "attempt"]
          /\ UNCHANGED <<answer, dlq>>
       \/ /\ tries[r] >= MaxRetries
          /\ Answer(r, why)
          /\ dlq' = [dlq EXCEPT ![r] = @ + 1]

\* ... or every failed attempt is a dead letter.
RaiseToQueue(r, why) ==
    /\ tries' = [tries EXCEPT ![r] = @ + 1]
    /\ dlq' = [dlq EXCEPT ![r] = @ + 1]
    /\ \/ /\ tries[r] + 1 < MaxRetries
          /\ pc' = [pc EXCEPT ![r] = "attempt"]
          /\ UNCHANGED answer
       \/ tries[r] + 1 >= MaxRetries /\ Answer(r, why)

\* The handler raises: another attempt, or the dead letter queue.
Raise(r, why) ==
    /\ tries' = [tries EXCEPT ![r] = @ + 1]
    /\ \/ /\ tries[r] + 1 < MaxRetries
          /\ pc' = [pc EXCEPT ![r] = "attempt"]
          /\ UNCHANGED <<answer, dlq>>
       \/ /\ tries[r] + 1 >= MaxRetries
          /\ Answer(r, why)
          /\ dlq' = [dlq EXCEPT ![r] = @ + 1]

-----------------------------------------------------------------------------
(* The handlers                                                            *)

\* Another session has flushed, and not rolled back, a row the unique index on
\* slug, or the row lock of an UPDATE, makes r wait for.
SlugHeld(r) == \E q \in Requests \ {r} :
    kind[q] = "create" /\ key[q] = key[r] /\ rows[q] > 0
TenantLocked(r) == \E q \in Requests \ {r} :
    kind[q] \in {"update", "delete"} /\ key[q] = key[r] /\ rows[q] > 0

\* Faulty variant of Found: rows of the session itself are not seen.
FoundCommitted(r) == kind[r] \notin {"log", "acknowledge"} /\ key[r] \in tenants

\* What the handler's first query finds: committed rows and its own.
Found(r) == \/ kind[r] \notin {"log", "acknowledge"} /\ key[r] \in tenants
            \/ rows[r] > 0

\* A second acknowledgement of a fingerprint is answered with the first one's
\* row, and announces nothing.
AlreadyAcknowledged(r) == kind[r] = "acknowledge" /\ Found(r) /\ Return(r)

\* Tenant(slug = ...) raises.  The other entities take what the DTOs let through.
Refused(r) == kind[r] = "create" /\ key[r] \in BadSlugs

\* get_by_slug, get_by_id, get_by_fingerprint, and the entity to be saved.
Read(r) ==
    /\ pc[r] = "attempt"
    /\ kind[r] # "log"
    /\ session[r] # "aborted"
    /\ session' = [session EXCEPT ![r] = "open"]
    /\ \/ kind[r] = "create" /\ Found(r) /\ Raise(r, "exists")
       \/ kind[r] \in {"update", "delete"} /\ ~ Found(r) /\ Raise(r, "missing")
       \/ AlreadyAcknowledged(r)
       \/ ~ Found(r) /\ Refused(r) /\ Raise(r, "error")
       \/ /\ Found(r) <=> kind[r] \in {"update", "delete"}
          /\ ~ Refused(r)
          /\ pc' = [pc EXCEPT ![r] = "save"]
          /\ UNCHANGED <<tries, answer, dlq>>
    /\ UNCHANGED <<tenants, inputVars, rows, topic, faults>>

\* IngestLogHandler reads nothing.
Prepare(r) ==
    /\ pc[r] = "attempt"
    /\ kind[r] = "log"
    /\ pc' = [pc EXCEPT ![r] = "save"]
    /\ UNCHANGED <<tenants, inputVars, sessionVars, tries, answer, dlq, topic, faults>>

\* A session whose transaction was aborted raises at its next statement.
Unusable(r) ==
    /\ session[r] = "aborted"
    /\ pc[r] = "save" \/ (pc[r] = "attempt" /\ kind[r] # "log")
    /\ Raise(r, "error")
    /\ UNCHANGED <<tenants, inputVars, sessionVars, topic, faults>>

\* Repository save() or delete(): the flush writes one more row.
Save(r) ==
    /\ pc[r] = "save"
    /\ session[r] # "aborted"
    /\ kind[r] = "create" => ~ SlugHeld(r) /\ key[r] \notin tenants
    /\ kind[r] \in {"update", "delete"} => ~ TenantLocked(r)
    /\ rows' = [rows EXCEPT ![r] = @ + 1]
    /\ session' = [session EXCEPT ![r] = "open"]
    /\ \/ kind[r] \in {"update", "delete"} /\ Return(r)
       \/ /\ kind[r] \notin {"update", "delete"}
          /\ pc' = [pc EXCEPT ![r] = "publish"]
          /\ UNCHANGED <<tries, answer, dlq>>
    /\ UNCHANGED <<tenants, inputVars, topic, faults>>

\* A statement fails, and its transaction with it.
Abort(r) ==
    /\ session' = [session EXCEPT ![r] = "aborted"]
    /\ rows' = [rows EXCEPT ![r] = 0]
    /\ Raise(r, "error")
    /\ UNCHANGED <<tenants, inputVars, topic>>

\* The CLI committed the slug after the handler looked for it.
SaveConflict(r) ==
    /\ pc[r] = "save"
    /\ kind[r] = "create"
    /\ key[r] \in tenants
    /\ session[r] # "aborted"
    /\ Abort(r)
    /\ UNCHANGED faults

\* Faulty variant of DatabaseFault: the repository logs the exception and the
\* handler goes on to its answer.
DatabaseFaultSwallowed(r) ==
    /\ pc[r] = "save"
    /\ session[r] # "aborted"
    /\ faults < MaxFaults
    /\ faults' = faults + 1
    /\ session' = [session EXCEPT ![r] = "aborted"]
    /\ rows' = [rows EXCEPT ![r] = 0]
    /\ Return(r)
    /\ UNCHANGED <<tenants, inputVars, topic>>

\* A statement fails, or the connection is lost.
DatabaseFault(r) ==
    /\ pc[r] = "save" \/ (pc[r] = "attempt" /\ kind[r] # "log")
    /\ session[r] # "aborted"
    /\ faults < MaxFaults
    /\ faults' = faults + 1
    /\ Abort(r)

\* No connection can be had for the first query: the session stays usable.
ConnectFault(r) ==
    /\ pc[r] = "attempt"
    /\ kind[r] # "log"
    /\ session[r] = "new"
    /\ faults < MaxFaults
    /\ faults' = faults + 1
    /\ Raise(r, "error")
    /\ UNCHANGED <<tenants, inputVars, sessionVars, topic>>

\* EventBus.publish is acknowledged, or handed the event to the listeners.
PublishOk(r) ==
    /\ pc[r] = "publish"
    /\ bus # "unstarted"
    /\ topic' = [topic EXCEPT ![r] = @ + 1]
    /\ Return(r)
    /\ UNCHANGED <<tenants, inputVars, sessionVars, faults>>

\* Faulty variant of PublishFail: the exception is logged only.
PublishFailSwallowed(r) ==
    /\ pc[r] = "publish"
    /\ bus = "started"
    /\ faults < MaxFaults
    /\ faults' = faults + 1
    /\ Return(r)
    /\ UNCHANGED <<tenants, inputVars, sessionVars, topic>>

\* A bus without a producer raises.
PublishRefused(r) ==
    /\ pc[r] = "publish"
    /\ bus = "unstarted"
    /\ Raise(r, "error")
    /\ UNCHANGED <<tenants, inputVars, sessionVars, topic, faults>>

\* The broker fails: it may have stored the event all the same.
PublishFail(r) ==
    /\ pc[r] = "publish"
    /\ bus = "started"
    /\ faults < MaxFaults
    /\ faults' = faults + 1
    /\ \/ UNCHANGED topic
       \/ topic' = [topic EXCEPT ![r] = @ + 1]
    /\ Raise(r, "error")
    /\ UNCHANGED <<tenants, inputVars, sessionVars>>

-----------------------------------------------------------------------------
\* Faulty variant of Close: the session goes back to the pool as it is.
CloseLeaks(r) ==
    /\ pc[r] = "answered"
    /\ pc' = [pc EXCEPT ![r] = "closed"]
    /\ UNCHANGED <<tenants, inputVars, sessionVars, tries, answer, dlq, topic, faults>>

\* get_db_session: the session is closed, its transaction rolled back.
Close(r) ==
    /\ pc[r] = "answered"
    /\ pc' = [pc EXCEPT ![r] = "closed"]
    /\ rows' = [rows EXCEPT ![r] = 0]
    /\ session' = [session EXCEPT ![r] = "new"]
    /\ UNCHANGED <<tenants, inputVars, tries, answer, dlq, topic, faults>>

\* govsec tenant create: waits for the sessions that hold the slug.
CliCreate(k) ==
    /\ k \notin tenants \cup BadSlugs
    /\ ~ \E q \in Requests : kind[q] = "create" /\ key[q] = k /\ rows[q] > 0
    /\ tenants' = tenants \cup {k}
    /\ UNCHANGED <<inputVars, sessionVars, busVars, topic, faults>>

HandlerStep(r) ==
    Read(r) \/ Prepare(r) \/ Unusable(r) \/ Save(r) \/ SaveConflict(r) \/ PublishOk(r)
        \/ PublishRefused(r) \/ Close(r)

Next ==
    \/ \E r \in Requests :
          Send(r) \/ HandlerStep(r) \/ DatabaseFault(r) \/ ConnectFault(r) \/ PublishFail(r)
    \/ \E k \in Keys : CliCreate(k)

Spec == Init /\ [][Next]_vars

\* The event loop runs every request it has accepted.
FairSpec == Spec /\ \A r \in Requests : WF_vars(HandlerStep(r))

-----------------------------------------------------------------------------
(* Properties                                                              *)

Announcing == {"create", "log", "acknowledge"}
Failures == {"exists", "missing", "error"}

TypeOK ==
    /\ bus \in BusModes
    /\ tenants \subseteq Keys
    /\ kind \in [Requests -> Kinds]
    /\ key \in [Requests -> Keys]
    /\ pc \in [Requests -> {"idle", "attempt", "save", "publish", "answered", "closed"}]
    /\ tries \in [Requests -> 0 .. MaxRetries]
    /\ rows \in [Requests -> 0 .. MaxRetries]
    /\ session \in [Requests -> {"new", "open", "aborted"}]
    /\ answer \in [Requests -> {"none", "ok", "denied"} \cup Failures]
    /\ topic \in [Requests -> 0 .. MaxRetries]
    /\ dlq \in [Requests -> Nat]
    /\ faults \in Nat

\* A command is a dead letter once if it failed, and never if an attempt of it
\* succeeded or the policy denied it.
DeadLettersAreFailures ==
    \A r \in Requests : dlq[r] = IF answer[r] \in Failures THEN 1 ELSE 0

\* Retries never announce a tenant or an acknowledgement twice, also when the
\* broker stores an event and fails to say so: the next attempt finds the row
\* its session still holds, or a session that is no use any more.
AnnouncedOnce ==
    \A r \in Requests : kind[r] \in {"create", "acknowledge"} => topic[r] <= 1

\* A tenant or a log that was answered as accepted has been announced, whichever
\* attempt it took.
AcceptedIsAnnounced ==
    \A r \in Requests :
        kind[r] \in {"create", "log"} /\ answer[r] = "ok" => topic[r] > 0

\* What a request was told is done is written in its session, which is usable,
\* when the answer is given: no attempt that lost its rows, or met the row of an
\* earlier one, answers for rows that are not there.
AcceptedIsWritten ==
    \A r \in Requests :
        pc[r] = "answered" /\ answer[r] = "ok" => rows[r] > 0 /\ session[r] = "open"

\* Requests that wait for each other's slug or row never wait for ever.
EveryRequestEnds ==
    \A r \in Requests : pc[r] # "idle" ~> pc[r] = "closed"

(***************************************************************************)
(* The inductive invariant behind the safety properties.                   *)
(***************************************************************************)
Working == {"attempt", "save", "publish"}

\* Attempts, rows and events of a request: each attempt writes at most one row
\* and publishes at most one event.
TriesInv ==
    \A r \in Requests :
        /\ pc[r] = "idle" => tries[r] = 0
        /\ pc[r] \in {"idle"} \cup Working => answer[r] = "none" /\ tries[r] < MaxRetries
        /\ pc[r] \in {"idle", "attempt", "save"} => rows[r] <= tries[r]
        /\ pc[r] = "publish" => rows[r] <= tries[r] + 1
        /\ pc[r] \in {"idle"} \cup Working => topic[r] <= tries[r]

\* A handler that flushes before it publishes holds its row until the session
\* is aborted; a creation or acknowledgement that may be on the topic can
\* therefore only find that row, or fail.
SessionInv ==
    \A r \in Requests :
        /\ rows[r] > 0 => session[r] = "open"
        /\ pc[r] = "publish" => rows[r] > 0
        /\ kind[r] \in {"create", "acknowledge"} /\ pc[r] \in Working /\ topic[r] > 0
              => session[r] = "aborted" \/ (pc[r] = "attempt" /\ rows[r] > 0)
        /\ kind[r] \in {"update", "delete"} /\ pc[r] \in Working => rows[r] = 0

CommandsInv ==
    /\ TypeOK /\ TriesInv /\ SessionInv
    /\ DeadLettersAreFailures /\ AnnouncedOnce /\ AcceptedIsAnnounced /\ AcceptedIsWritten

\* The API test reads back, from another request, the tenant a request created.
CreatedTenantsPersist ==
    \A r \in Requests :
        kind[r] = "create" /\ pc[r] = "closed" /\ answer[r] = "ok" => key[r] \in tenants
=============================================================================
