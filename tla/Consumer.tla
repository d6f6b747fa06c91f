------------------------------ MODULE Consumer ------------------------------
(***************************************************************************)
(* The Kafka side of the correlation consumer: the run() loop of           *)
(* CorrelationKafkaConsumer, its consumer group, and the offsets it        *)
(* commits by hand (enable_auto_commit=False).                             *)
(*                                                                         *)
(* A message is a partition and an offset of govsec.events.  Handling one  *)
(* (process_single_message) is a step that either commits its database     *)
(* transaction and answers True, or rolls it back and answers False; the   *)
(* transaction itself is the subject of module Incidents.                  *)
(*                                                                         *)
(* aiokafka fetches from a position of its own, which moves with getmany() *)
(* and goes back to the committed offset only when partitions are assigned *)
(* again.  A rebalance does not interrupt the loop: a batch fetched before *)
(* it is worked on after it, and committing an offset of a partition that  *)
(* moved away raises.                                                      *)
(***************************************************************************)
EXTENDS Naturals, FiniteSetsExt

CONSTANTS
    Partitions,    \* partitions of the topic
    Consumers,     \* correlation worker processes of the group
    None,
    MaxRecords,    \* max_records of getmany
    MaxLog,        \* bound on the messages of a partition (model checking only)
    MaxRebalances, \* bound on the rebalances no consumer's death calls for
    MaxCrashes,    \* bound on the crashes (model checking only)
    MaxFailures    \* bound on the database and broker failures (model checking only)

ASSUME ConsumerAssumptions ==
    /\ None \notin Consumers \cup Partitions
    /\ MaxRecords \in Nat \ {0}
    /\ {MaxLog, MaxRebalances, MaxCrashes, MaxFailures} \subseteq Nat

VARIABLES
    end,        \* log end offset of each partition
    committed,  \* committed offset of the group
    owner,      \* consumer each partition is assigned to
    position,   \* next offset its owner fetches
    phase,      \* each consumer's place in run()
    next,       \* next offset of each partition in the consumer's batch
    stop,       \* end of the batch in each partition
    current,    \* partition whose messages the inner loop is at
    times,      \* times each message was handled with True
    rebalances, crashes, failures

brokerVars == <<end, committed>>
groupVars == <<owner, position, rebalances>>
loopVars == <<phase, next, stop, current>>
vars == <<brokerVars, groupVars, loopVars, times, crashes, failures>>

Offsets == 0 .. MaxLog - 1
Phases == {"poll", "work", "commit", "dead"}

Init ==
    /\ end = [p \in Partitions |-> 0]
    /\ committed = [p \in Partitions |-> 0]
    /\ owner = [p \in Partitions |-> None]
    /\ position = [p \in Partitions |-> 0]
    /\ phase = [c \in Consumers |-> "poll"]
    /\ next = [c \in Consumers |-> [p \in Partitions |-> 0]]
    /\ stop = [c \in Consumers |-> [p \in Partitions |-> 0]]
    /\ current = [c \in Consumers |-> None]
    /\ times = [p \in Partitions |-> [o \in Offsets |-> 0]]
    /\ rebalances = 0
    /\ crashes = 0
    /\ failures = 0

-----------------------------------------------------------------------------
(* Broker and group                                                        *)

\* The outbox worker publishes a message.
Publish(p) ==
    /\ end[p] < MaxLog
    /\ end' = [end EXCEPT ![p] = @ + 1]
    /\ UNCHANGED <<committed, groupVars, loopVars, times, crashes, failures>>

Alive == {c \in Consumers : phase[c] # "dead"}

\* A partition has no owner: no consumer joined yet, or its owner left.
Unassigned == \E p \in Partitions : owner[p] = None

\* The partitions are assigned again, for a consumer that joined, left or was
\* slow: every owner restarts from the committed offset.
Rebalance ==
    /\ Alive # {}
    /\ Unassigned \/ rebalances < MaxRebalances
    /\ rebalances' = rebalances + 1
    /\ owner' \in [Partitions -> Alive]
    /\ position' = committed
    /\ UNCHANGED <<brokerVars, loopVars, times, crashes, failures>>

-----------------------------------------------------------------------------
(* CorrelationKafkaConsumer.run                                            *)

Remaining(c, p) == next[c][p] < stop[c][p]

\* The local variables of the loop are gone.
Drop(c) ==
    /\ next' = [next EXCEPT ![c] = [p \in Partitions |-> 0]]
    /\ stop' = [stop EXCEPT ![c] = [p \in Partitions |-> 0]]
    /\ current' = [current EXCEPT ![c] = None]

\* getmany(): up to max_records messages of the assigned partitions.
Poll(c) ==
    /\ phase[c] = "poll"
    /\ \E upTo \in [Partitions -> 0 .. MaxLog] :
          /\ \A p \in Partitions :
                IF owner[p] = c THEN position[p] <= upTo[p] /\ upTo[p] <= end[p]
                                ELSE upTo[p] = position[p]
          /\ upTo # position
          /\ MapThenSumSet(LAMBDA p : upTo[p] - position[p], Partitions) <= MaxRecords
          /\ next' = [next EXCEPT ![c] = position]
          /\ stop' = [stop EXCEPT ![c] = upTo]
          /\ position' = upTo
    /\ phase' = [phase EXCEPT ![c] = "work"]
    /\ current' = [current EXCEPT ![c] = None]
    /\ UNCHANGED <<brokerVars, owner, rebalances, times, crashes, failures>>

\* The inner loops: partition after partition, in the order of the batch.
AtPartition(c, p) ==
    /\ Remaining(c, p)
    /\ \A q \in Partitions \ {p} : current[c] = q => ~ Remaining(c, q)

\* process_single_message answers True: its transaction is committed.
HandleOk(c) ==
    /\ phase[c] = "work"
    /\ \E p \in Partitions :
          /\ AtPartition(c, p)
          /\ times' = [times EXCEPT ![p][next[c][p]] = @ + 1]
          /\ current' = [current EXCEPT ![c] = p]
    /\ phase' = [phase EXCEPT ![c] = "commit"]
    /\ UNCHANGED <<brokerVars, groupVars, next, stop, crashes, failures>>

\* The loop goes to the message after the one of partition p.
Advance(c, p) == next' = [next EXCEPT ![c][p] = @ + 1]

\* Faulty variant of HandleFails: the answer is not looked at.
HandleFailsCommits(c) ==
    /\ phase[c] = "work"
    /\ failures < MaxFailures
    /\ failures' = failures + 1
    /\ \E p \in Partitions : AtPartition(c, p) /\ current' = [current EXCEPT ![c] = p]
    /\ phase' = [phase EXCEPT ![c] = "commit"]
    /\ UNCHANGED <<brokerVars, groupVars, next, stop, times, crashes>>

\* It answers False: the loop goes on with the next message of the batch.
HandleFails(c) ==
    /\ phase[c] = "work"
    /\ failures < MaxFailures
    /\ failures' = failures + 1
    /\ \E p \in Partitions :
          /\ AtPartition(c, p)
          /\ Advance(c, p)
          /\ current' = [current EXCEPT ![c] = p]
    /\ UNCHANGED <<brokerVars, groupVars, phase, stop, times, crashes>>

\* Faulty variants of CommitOffset: one too far ...
CommitOneTooFar(c) ==
    LET p == current[c] IN
    /\ phase[c] = "commit"
    /\ owner[p] = c
    /\ committed' = [committed EXCEPT ![p] = next[c][p] + 2]
    /\ Advance(c, p)
    /\ phase' = [phase EXCEPT ![c] = "work"]
    /\ UNCHANGED <<end, groupVars, stop, current, times, crashes, failures>>

\* ... or the position, as consumer.commit() without arguments does.
CommitPosition(c) ==
    LET p == current[c] IN
    /\ phase[c] = "commit"
    /\ owner[p] = c
    /\ committed' = [committed EXCEPT ![p] = position[p]]
    /\ Advance(c, p)
    /\ phase' = [phase EXCEPT ![c] = "work"]
    /\ UNCHANGED <<end, groupVars, stop, current, times, crashes, failures>>

\* consumer.commit({tp: offset + 1})
CommitOffset(c) ==
    LET p == current[c] IN
    /\ phase[c] = "commit"
    /\ owner[p] = c
    /\ committed' = [committed EXCEPT ![p] = next[c][p] + 1]
    /\ Advance(c, p)
    /\ phase' = [phase EXCEPT ![c] = "work"]
    /\ UNCHANGED <<end, groupVars, stop, current, times, crashes, failures>>

\* Faulty variant of CommitRefused: the message is tried again.
CommitRefusedRetries(c) ==
    /\ phase[c] = "commit"
    /\ owner[current[c]] # c
    /\ phase' = [phase EXCEPT ![c] = "work"]
    /\ UNCHANGED <<brokerVars, groupVars, next, stop, current, times, crashes, failures>>

\* The partition has moved: commit() raises, and the rest of the batch is
\* abandoned with the iteration of the loop.
CommitRefused(c) ==
    /\ phase[c] = "commit"
    /\ owner[current[c]] # c
    /\ Drop(c)
    /\ phase' = [phase EXCEPT ![c] = "poll"]
    /\ UNCHANGED <<brokerVars, groupVars, times, crashes, failures>>

\* commit() raises a KafkaError, with the offset stored or not: the rest of the
\* batch is abandoned in the same way.
CommitFails(c) ==
    LET p == current[c] IN
    /\ phase[c] = "commit"
    /\ owner[p] = c
    /\ failures < MaxFailures
    /\ failures' = failures + 1
    /\ committed' \in {committed, [committed EXCEPT ![p] = next[c][p] + 1]}
    /\ Drop(c)
    /\ phase' = [phase EXCEPT ![c] = "poll"]
    /\ UNCHANGED <<end, groupVars, times, crashes>>

\* The batch is done.
NextPoll(c) ==
    /\ phase[c] = "work"
    /\ \A p \in Partitions : ~ Remaining(c, p)
    /\ Drop(c)
    /\ phase' = [phase EXCEPT ![c] = "poll"]
    /\ UNCHANGED <<brokerVars, groupVars, times, crashes, failures>>

\* The process dies and leaves the group; one that stop() ends does no more than that.
Crash(c) ==
    /\ phase[c] # "dead"
    /\ crashes < MaxCrashes
    /\ crashes' = crashes + 1
    /\ phase' = [phase EXCEPT ![c] = "dead"]
    /\ Drop(c)
    /\ owner' = [p \in Partitions |-> IF owner[p] = c THEN None ELSE owner[p]]
    /\ UNCHANGED <<brokerVars, position, rebalances, times, failures>>

\* start(): the orchestrator restarts the worker.
Restart(c) ==
    /\ phase[c] = "dead"
    /\ phase' = [phase EXCEPT ![c] = "poll"]
    /\ UNCHANGED <<brokerVars, groupVars, next, stop, current, times, crashes, failures>>

LoopStep(c) == Poll(c) \/ HandleOk(c) \/ CommitOffset(c) \/ CommitRefused(c) \/ NextPoll(c)

-----------------------------------------------------------------------------
Next ==
    \/ \E p \in Partitions : Publish(p)
    \/ Rebalance
    \/ \E c \in Consumers :
          LoopStep(c) \/ HandleFails(c) \/ CommitFails(c) \/ Crash(c) \/ Restart(c)

Spec == Init /\ [][Next]_vars

\* The loops run, the orchestrator restarts dead workers, and the group
\* coordinator assigns the partitions that have no owner.
Fairness ==
    /\ \A c \in Consumers : WF_vars(LoopStep(c)) /\ WF_vars(Restart(c))
    /\ WF_vars(Unassigned /\ Rebalance)

FairSpec == Spec /\ Fairness

-----------------------------------------------------------------------------
(* Properties                                                              *)

TypeOK ==
    /\ end \in [Partitions -> 0 .. MaxLog]
    /\ committed \in [Partitions -> 0 .. MaxLog]
    /\ owner \in [Partitions -> Consumers \cup {None}]
    /\ position \in [Partitions -> 0 .. MaxLog]
    /\ phase \in [Consumers -> Phases]
    /\ next \in [Consumers -> [Partitions -> 0 .. MaxLog]]
    /\ stop \in [Consumers -> [Partitions -> 0 .. MaxLog]]
    /\ current \in [Consumers -> Partitions \cup {None}]
    /\ times \in [Partitions -> [Offsets -> Nat]]
    /\ {rebalances, crashes, failures} \subseteq Nat

\* An offset is committed only after the database transaction of its message,
\* also by a consumer that lost the partition, or its batch, in between.
OffsetAfterDatabase ==
    \A p \in Partitions : committed[p] > 0 => times[p][committed[p] - 1] > 0

\* Everything below the committed offset has been handled: no message is
\* skipped.  correlation_consumer.py promises it for a failed database commit:
\* its offset is not confirmed and Kafka delivers the message again.
NothingSkipped ==
    \A p \in Partitions, o \in Offsets : o < committed[p] => times[p][o] > 0

\* Crashes and rebalances alone skip nothing, whatever stale batches the
\* consumers still work on.
CrashesSkipNothing == failures = 0 => NothingSkipped

\* A message is handled at most once for each time its partition was assigned:
\* duplicates come from rebalances only, never from the loop itself.
HandledOncePerAssignment ==
    \A p \in Partitions, o \in Offsets : times[p][o] <= rebalances

\* Unless the database or the broker fails, every published message is handled,
\* across crashes, restarts and rebalances.
EveryMessageHandled ==
    \A p \in Partitions, o \in Offsets : o < end[p] ~> times[p][o] > 0 \/ failures > 0
=============================================================================
