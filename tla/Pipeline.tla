------------------------------ MODULE Pipeline ------------------------------
(***************************************************************************)
(* The way of a security event from its ingestion to an incident: the      *)
(* outbox, which puts it on the topic at least once or gives it up         *)
(* (Delivery), the topic, whose partition is chosen by the tenant, the     *)
(* consumer with its offsets (Consumer), and the incident tables, which    *)
(* take an event for all of its keys or not at all (Correlated), the keys  *)
(* being those the rules build (Rules).                                    *)
(*                                                                         *)
(* Outbox implements Delivery and Incidents implements Correlated, so a    *)
(* step here stands for a transaction of theirs.  Status changes are left  *)
(* to Incidents and Views.                                                 *)
(***************************************************************************)
EXTENDS Consumer, Rules

CONSTANTS
    Events,       \* security events
    MaxIncidents, \* bound on the incidents (model checking only)
    EventOf,      \* EventOf[e]: the record of e, as Rules reads it
    PartitionOf   \* PartitionOf[t]: the partition Kafka chooses for the key t, a tenant

ASSUME PipelineAssumptions ==
    /\ MaxIncidents \in Nat
    /\ \A e \in Events :
          /\ EventOf[e].tenant \in DOMAIN PartitionOf
          /\ PartitionOf[EventOf[e].tenant] \in Partitions
          /\ EventOf[e].at \in Int

VARIABLES
    accepted, copies, settled, abandoned,  \* see Delivery
    log,                                   \* the messages of each partition: event identifiers
    status, key, evidence, history         \* see Correlated

outboxVars == <<accepted, copies, settled, abandoned>>
tableVars == <<status, key, evidence, history>>
pvars == <<vars, outboxVars, log, tableVars>>

\* Identifiers are random; the model gives them out in order.
Incidents == 1 .. MaxIncidents

KeysOf == [e \in Events |-> KeysFor(EventOf[e])]
AllKeys == UNION {{KeysOf[e][n] : n \in DOMAIN KeysOf[e]} : e \in Events}

Outbox == INSTANCE Delivery
Tables == INSTANCE Correlated WITH Keys <- AllKeys, Rows <- {}, Ages <- {0}

PInit ==
    /\ Init
    /\ Outbox!DInit
    /\ log = [p \in Partitions |-> <<>>]
    /\ Tables!CInit

-----------------------------------------------------------------------------
\* IngestSecurityEventHandler commits.
Ingest(e) ==
    /\ Outbox!Accept(e)
    /\ UNCHANGED <<vars, log, tableVars>>

\* The outbox worker sends the message of e, with the tenant as its key.
Send(e) ==
    LET p == PartitionOf[EventOf[e].tenant] IN
    /\ Outbox!Deliver(e)
    /\ Publish(p)
    /\ log' = [log EXCEPT ![p] = Append(@, e)]
    /\ UNCHANGED tableVars

\* The outbox worker commits a row: published, or out of attempts.
Settle(e) ==
    /\ Outbox!Resolve({e}, {}) \/ Outbox!Resolve({}, {e})
    /\ UNCHANGED <<vars, log, tableVars>>

\* get_by_id finds the event of a message.
Known(e) == e \in accepted

\* process_single_message answers True: the event was correlated, or the
\* database does not have it.
Handle(c) ==
    /\ HandleOk(c)
    /\ LET p == current'[c]
           e == log[p][next[c][p] + 1]
       IN  IF Known(e) THEN Tables!Correlate(e) ELSE UNCHANGED tableVars
    /\ \A i \in Tables!Exist' : 1 .. i \subseteq Tables!Exist'
    /\ UNCHANGED <<outboxVars, log>>

\* The other steps of the loop, and what happens to it.
Run(c) ==
    /\ Poll(c) \/ CommitOffset(c) \/ CommitRefused(c) \/ NextPoll(c)
    /\ UNCHANGED <<outboxVars, log, tableVars>>

Revive(c) == Restart(c) /\ UNCHANGED <<outboxVars, log, tableVars>>

Fail(c) ==
    /\ HandleFails(c) \/ CommitFails(c) \/ Crash(c)
    /\ UNCHANGED <<outboxVars, log, tableVars>>

Assign == Rebalance /\ UNCHANGED <<outboxVars, log, tableVars>>

PNext ==
    \/ \E e \in Events : Ingest(e) \/ Send(e) \/ Settle(e)
    \/ \E c \in Consumers : Handle(c) \/ Run(c) \/ Revive(c) \/ Fail(c)
    \/ Assign

PSpec == PInit /\ [][PNext]_pvars

\* That of Consumer, and what the outbox promises: EveryRowSettles.
PFairness ==
    /\ \A c \in Consumers : WF_pvars(Handle(c) \/ Run(c)) /\ WF_pvars(Revive(c))
    /\ WF_pvars(Unassigned /\ Assign)
    /\ \A e \in Events : WF_pvars(Settle(e))

PFairSpec == PSpec /\ PFairness

-----------------------------------------------------------------------------
(* Properties                                                              *)

\* e is evidence of an incident for each of its keys.
IsCorrelated(e) ==
    \A n \in DOMAIN KeysOf[e] :
        \E i \in Incidents : key[i] = KeysOf[e][n] /\ <<i, e>> \in evidence

\* correlation_consumer.py: the offset is committed only after the database.  The
\* event of the last message below the committed offset is in its incidents, and
\* so is every earlier one unless the database or the broker failed, whoever
\* commits and however late.
CommittedIsCorrelated ==
    \A p \in Partitions : \A o \in 1 .. committed[p] :
        o = committed[p] \/ failures = 0 => IsCorrelated(log[p][o])

\* The events of an incident belong together: they are stored, of one tenant,
\* have one asset key (an asset, or a source and type), are eligible for one rule,
\* and lie in the same window of Window seconds counted from the epoch.  Before
\* the epoch, towards which seconds are rounded, windows are blurred by a second.
EvidenceCoherent ==
    \A i \in Incidents :
        LET events == {x[2] : x \in {y \in evidence : y[1] = i}} IN
        /\ events \subseteq accepted
        /\ \A e, f \in {EventOf[g] : g \in events} :
              /\ e.tenant = f.tenant
              /\ AssetKey(e) = AssetKey(f)
              /\ \E rule \in {RuleIds[n] : n \in DOMAIN RuleIds} : Eligible(rule, e) /\ Eligible(rule, f)
              /\ e.at >= 0 /\ f.at >= 0 => \E w \in 0 .. e.at :
                    /\ w * Window * TicksPerSecond <= e.at /\ e.at < (w + 1) * Window * TicksPerSecond
                    /\ w * Window * TicksPerSecond <= f.at /\ f.at < (w + 1) * Window * TicksPerSecond
              /\ e.at - f.at < (Window + 1) * TicksPerSecond

\* From end to end: an event whose ingestion was answered is in the end in the
\* incidents of its rules, unless the outbox gave it up or the consumer's
\* database or broker failed.
EveryEventCorrelated ==
    \A e \in Events :
        e \in accepted ~> IsCorrelated(e) \/ e \in abandoned \/ failures > 0
=============================================================================
