---------------------------- MODULE PipelineProofs ----------------------------
(***************************************************************************)
(* The safety of the way from ingestion to incident, for every set of      *)
(* events, tenants, partitions and workers, any rule catalogue and any     *)
(* number of crashes, rebalances and failures.                             *)
(***************************************************************************)
EXTENDS Pipeline, ConsumerProofs, RulesProofs

-----------------------------------------------------------------------------
(* The inductive invariant                                                 *)

\* The topic holds stored events, one for each offset.
LogOK ==
    /\ DOMAIN log = Partitions
    /\ \A p \in Partitions :
          /\ log[p] \in Seq(Events) /\ Len(log[p]) = end[p]
          /\ \A o \in 1 .. end[p] : log[p][o] \in accepted

\* Nobody reads, or commits, beyond the end of the log.
WithinLog ==
    \A p \in Partitions :
        /\ committed[p] <= end[p] /\ position[p] <= end[p]
        /\ \A c \in Consumers : stop[c][p] <= end[p]

\* A message handled with True is in its incidents, and stays there.
HandledAreCorrelated ==
    \A p \in Partitions, o \in Offsets :
        times[p][o] > 0 => o < end[p] /\ IsCorrelated(log[p][o + 1])

\* Evidence is of stored events, each of which builds the key of its incident.
EvidenceOK ==
    \A x \in evidence :
        /\ x \in Incidents \X Events /\ status[x[1]] # "none" /\ x[2] \in accepted
        /\ key[x[1]] \in Tables!KeySet(x[2])

PipelineInv ==
    /\ ConsumerInv
    /\ accepted \subseteq Events
    /\ DOMAIN status = Incidents /\ DOMAIN key = Incidents
    /\ LogOK /\ WithinLog /\ HandledAreCorrelated /\ EvidenceOK

-----------------------------------------------------------------------------
(* The incident tables                                                     *)

\* Correlating a stored event gives it an incident for each of its keys, and takes
\* none from the others.
LEMMA CorrelateEffect ==
    ASSUME PipelineInv, NEW e \in Events, e \in accepted, Tables!Correlate(e),
           UNCHANGED accepted
    PROVE  /\ DOMAIN status' = Incidents /\ DOMAIN key' = Incidents
           /\ EvidenceOK' /\ IsCorrelated(e)'
           /\ \A f : IsCorrelated(f) => IsCorrelated(f)'
<1> DEFINE K == Tables!KeySet(e)
<1>1. PICK goes \in [K -> Incidents] :
        /\ \A k \in K : goes[k] \in Tables!Exist => key[goes[k]] = k
        /\ \A k, l \in K : goes[k] = goes[l] => k = l
        /\ key' = [i \in Incidents |->
                      IF \E k \in K : goes[k] = i THEN CHOOSE k \in K : goes[k] = i ELSE key[i]]
        /\ status' = [i \in Incidents |->
                      IF i \notin Tables!Exist /\ \E k \in K : goes[k] = i
                      THEN "open" ELSE status[i]]
        /\ evidence' = evidence \cup {<<goes[k], e>> : k \in K}
  BY DEF Tables!Correlate
<1> HIDE DEF K
<1>2. EvidenceOK /\ Tables!Exist = {i \in Incidents : status[i] # "none"}
  BY DEF PipelineInv, Tables!Exist
<1>3. ASSUME NEW k \in K PROVE key'[goes[k]] = k /\ status'[goes[k]] # "none"
  <2>1. goes[k] \in Incidents
    BY <1>1
  <2>2. (CHOOSE l \in K : goes[l] = goes[k]) = k
    BY <1>1
  <2>3. key'[goes[k]] = k
    BY <1>1, <2>1, <2>2
  <2>4. status'[goes[k]] # "none"
    BY <1>1, <1>2, <2>1
  <2> QED
    BY <2>3, <2>4
<1>4. ASSUME NEW i \in Incidents, status[i] # "none"
      PROVE  key'[i] = key[i] /\ status'[i] # "none"
  <2>1. CASE \E k \in K : goes[k] = i
    <3>1. PICK k \in K : goes[k] = i
      BY <2>1
    <3>2. key[i] = k
      BY <1>1, <1>2, <1>4, <3>1
    <3> QED
      BY <1>3, <3>1, <3>2
  <2>2. CASE ~ \E k \in K : goes[k] = i
    BY <1>1, <1>4, <2>2
  <2> QED
    BY <2>1, <2>2
<1>5. ASSUME NEW x \in evidence'
      PROVE  /\ x \in Incidents \X Events /\ status'[x[1]] # "none" /\ x[2] \in accepted
             /\ key'[x[1]] \in Tables!KeySet(x[2])
  <2>1. CASE x \in evidence
    BY <1>2, <1>4, <2>1 DEF EvidenceOK
  <2>2. CASE x \notin evidence
    <3>1. PICK k \in K : x = <<goes[k], e>>
      BY <1>1, <2>2
    <3>2. x[1] = goes[k] /\ x[2] = e /\ goes[k] \in Incidents /\ x \in Incidents \X Events
      BY <1>1, <3>1
    <3>3. key'[x[1]] = k /\ status'[x[1]] # "none"
      BY <1>3, <3>2
    <3> QED
      BY <3>2, <3>3 DEF K
  <2> QED
    BY <2>1, <2>2
<1>6. \A f : Tables!KeySet(f)' = Tables!KeySet(f)
  BY DEF Tables!KeySet
<1>7. EvidenceOK'
  BY <1>5, <1>6 DEF EvidenceOK
<1>8. ASSUME NEW f, IsCorrelated(f) PROVE IsCorrelated(f)'
  <2>1. ASSUME NEW n \in DOMAIN KeysOf[f]
        PROVE  \E i \in Incidents : key'[i] = KeysOf[f][n] /\ <<i, f>> \in evidence'
    <3>1. PICK i \in Incidents : key[i] = KeysOf[f][n] /\ <<i, f>> \in evidence
      BY <1>8 DEF IsCorrelated
    <3>2. status[i] # "none"
      <4>1. <<i, f>>[1] = i
        OBVIOUS
      <4> QED
        BY <1>2, <3>1, <4>1 DEF EvidenceOK
    <3>3. key'[i] = KeysOf[f][n] /\ <<i, f>> \in evidence'
      BY <1>1, <1>4, <3>1, <3>2
    <3> QED
      BY <3>3
  <2> QED
    BY <2>1 DEF IsCorrelated
<1>9. IsCorrelated(e)'
  <2>1. ASSUME NEW n \in DOMAIN KeysOf[e]
        PROVE  \E i \in Incidents : key'[i] = KeysOf[e][n] /\ <<i, e>> \in evidence'
    <3>1. KeysOf[e][n] \in K
      BY DEF K, Tables!KeySet
    <3>2. goes[KeysOf[e][n]] \in Incidents /\ key'[goes[KeysOf[e][n]]] = KeysOf[e][n]
      BY <1>1, <1>3, <3>1
    <3>3. <<goes[KeysOf[e][n]], e>> \in evidence'
      BY <1>1, <3>1
    <3> QED
      BY <3>2, <3>3
  <2> QED
    BY <2>1 DEF IsCorrelated
<1>10. DOMAIN status' = Incidents /\ DOMAIN key' = Incidents
  BY <1>1
<1> QED
  BY <1>7, <1>8, <1>9, <1>10

-----------------------------------------------------------------------------
(* The consumer in the pipeline                                            *)

\* Every step is one of Consumer, or leaves it alone.
LEMMA StepOfConsumer == [PNext]_pvars => [Next]_vars
<1> SUFFICES ASSUME [PNext]_pvars PROVE [Next]_vars
  OBVIOUS
<1>1. ASSUME NEW e \in Events, Ingest(e) \/ Settle(e) PROVE UNCHANGED vars
  BY <1>1 DEF Ingest, Settle
<1>2. ASSUME NEW e \in Events, Send(e) PROVE Next
  <2>1. PartitionOf[EventOf[e].tenant] \in Partitions
    BY PipelineAssumptions DEF PipelineAssumptions
  <2>2. Publish(PartitionOf[EventOf[e].tenant])
    BY <1>2 DEF Send
  <2> QED
    BY <2>1, <2>2 DEF Next
<1>3. ASSUME NEW c \in Consumers, Handle(c) PROVE Next
  BY <1>3 DEF Handle, Next, LoopStep
<1>4. ASSUME NEW c \in Consumers, Run(c) PROVE Next
  BY <1>4 DEF Run, Next, LoopStep
<1>5. ASSUME NEW c \in Consumers, Revive(c) \/ Fail(c) PROVE Next
  BY <1>5 DEF Revive, Fail, Next
<1>6. CASE Assign
  BY <1>6 DEF Assign, Next
<1>7. UNCHANGED pvars => UNCHANGED vars
  BY DEF pvars
<1> QED
  BY <1>1, <1>2, <1>3, <1>4, <1>5, <1>6, <1>7 DEF PNext

\* What a step of the loop or the group may do to offsets and batches.
LEMMA OffsetsMove ==
    ASSUME PipelineInv, NEW c \in Consumers,
           \/ Poll(c) \/ CommitOffset(c) \/ CommitRefused(c) \/ NextPoll(c) \/ Restart(c)
           \/ HandleFails(c) \/ CommitFails(c) \/ Crash(c)
    PROVE  WithinLog' /\ UNCHANGED <<end, times>>
<1>1. /\ WithinLog /\ LoopInv /\ TypeOK
      /\ \A d \in Consumers, p \in Partitions :
            next[d][p] \in Nat /\ stop[d][p] \in Nat /\ end[p] \in Nat
  <2>1. WithinLog /\ LoopInv /\ TypeOK
    BY DEF PipelineInv, ConsumerInv
  <2>2. 0 .. MaxLog \subseteq Nat
    BY MaxLogIsNat
  <2> QED
    BY <2>1, <2>2 DEF TypeOK
<1>2. CASE Poll(c)
  <2>1. PICK upTo \in [Partitions -> 0 .. MaxLog] :
         /\ \A p \in Partitions :
               IF owner[p] = c THEN position[p] <= upTo[p] /\ upTo[p] <= end[p]
                               ELSE upTo[p] = position[p]
         /\ stop' = [stop EXCEPT ![c] = upTo]
         /\ position' = upTo
    BY <1>2, Zenon DEF Poll
  <2>2. UNCHANGED <<end, committed, times>>
    BY <1>2, Zenon DEF Poll, brokerVars
  <2>3. \A p \in Partitions : upTo[p] <= end[p]
    BY <1>1, <2>1 DEF WithinLog
  <2> QED
    BY <1>1, <2>1, <2>2, <2>3 DEF WithinLog, TypeOK
<1>3. ASSUME phase[c] = "commit", owner[current[c]] = c,
             committed' \in {committed, [committed EXCEPT ![current[c]] = next[c][current[c]] + 1]}
      PROVE  \A p \in Partitions : committed'[p] <= end[p]
  <2>1. current[c] \in Partitions /\ next[c][current[c]] < stop[c][current[c]]
    BY <1>1, <1>3 DEF LoopInv, Remaining
  <2>2. next[c][current[c]] + 1 <= end[current[c]]
    BY <1>1, <2>1 DEF WithinLog
  <2> QED
    BY <1>1, <1>3, <2>2 DEF WithinLog, TypeOK
<1>4. CASE CommitOffset(c)
  <2>1. /\ phase[c] = "commit" /\ owner[current[c]] = c
        /\ committed' = [committed EXCEPT ![current[c]] = next[c][current[c]] + 1]
        /\ UNCHANGED <<end, position, stop, times>>
    BY <1>4 DEF CommitOffset, groupVars
  <2>2. \A p \in Partitions : committed'[p] <= end[p]
    BY <1>3, <2>1
  <2> QED
    BY <1>1, <2>1, <2>2 DEF WithinLog
<1>5. ASSUME stop' = [stop EXCEPT ![c] = [p \in Partitions |-> 0]]
      PROVE  \A d \in Consumers, p \in Partitions : stop'[d][p] <= end[p]
  BY <1>1, <1>5 DEF WithinLog, TypeOK
<1>6. CASE CommitRefused(c) \/ NextPoll(c) \/ Crash(c)
  <2>1. /\ stop' = [stop EXCEPT ![c] = [p \in Partitions |-> 0]]
        /\ UNCHANGED <<end, committed, position, times>>
    BY <1>6 DEF CommitRefused, NextPoll, Crash, Drop, brokerVars, groupVars
  <2> QED
    BY <1>1, <1>5, <2>1 DEF WithinLog
<1>7. CASE CommitFails(c)
  <2>1. /\ phase[c] = "commit" /\ owner[current[c]] = c
        /\ committed' \in {committed, [committed EXCEPT ![current[c]] = next[c][current[c]] + 1]}
        /\ stop' = [stop EXCEPT ![c] = [p \in Partitions |-> 0]]
        /\ UNCHANGED <<end, position, times>>
    BY <1>7 DEF CommitFails, Drop, groupVars
  <2>2. \A p \in Partitions : committed'[p] <= end[p]
    BY <1>3, <2>1
  <2> QED
    BY <1>1, <1>5, <2>1, <2>2 DEF WithinLog
<1>8. CASE Restart(c) \/ HandleFails(c)
  <2>1. UNCHANGED <<end, committed, position, stop, times>>
    BY <1>8 DEF Restart, HandleFails, brokerVars, groupVars
  <2> QED
    BY <1>1, <2>1 DEF WithinLog
<1> QED
  BY <1>2, <1>4, <1>6, <1>7, <1>8

-----------------------------------------------------------------------------
(* The steps                                                               *)

\* A step that handles no message and writes no table.
LEMMA TablesStay ==
    ASSUME PipelineInv, ConsumerInv', WithinLog', accepted' \subseteq Events,
           accepted \subseteq accepted', UNCHANGED <<end, times, log, tableVars>>
    PROVE  PipelineInv'
<1>1. LogOK'
  BY DEF PipelineInv, LogOK
<1>2. \A f : IsCorrelated(f)' <=> IsCorrelated(f)
  BY DEF IsCorrelated, tableVars
<1>3. HandledAreCorrelated'
  BY <1>2 DEF PipelineInv, HandledAreCorrelated
<1>4. EvidenceOK'
  BY DEF PipelineInv, EvidenceOK, tableVars, Tables!KeySet
<1> QED
  BY <1>1, <1>3, <1>4 DEF PipelineInv, tableVars

LEMMA OutboxKeeps ==
    ASSUME PipelineInv, NEW e \in Events, Ingest(e) \/ Settle(e) PROVE PipelineInv'
<1>1. /\ UNCHANGED <<vars, log, tableVars>>
      /\ accepted' = accepted \cup {e} \/ accepted' = accepted
  BY DEF Ingest, Settle, Outbox!Accept, Outbox!Resolve
<1>2. ConsumerInv'
  BY <1>1, StepKeeps DEF PipelineInv
<1>3. WithinLog'
  BY <1>1 DEF PipelineInv, WithinLog, vars, brokerVars, groupVars, loopVars
<1> QED
  BY <1>1, <1>2, <1>3, TablesStay DEF PipelineInv, vars, brokerVars

LEMMA LoopKeeps ==
    ASSUME PipelineInv, NEW c \in Consumers, Run(c) \/ Revive(c) \/ Fail(c) PROVE PipelineInv'
<1>1. UNCHANGED <<outboxVars, log, tableVars>>
  BY DEF Run, Revive, Fail
<1>2. \/ Poll(c) \/ CommitOffset(c) \/ CommitRefused(c) \/ NextPoll(c) \/ Restart(c)
      \/ HandleFails(c) \/ CommitFails(c) \/ Crash(c)
  BY DEF Run, Revive, Fail
<1>3. WithinLog' /\ UNCHANGED <<end, times>>
  BY <1>2, OffsetsMove
<1>4. ConsumerInv'
  BY <1>2, StepKeeps DEF PipelineInv, Next, LoopStep
<1> QED
  BY <1>1, <1>3, <1>4, TablesStay DEF PipelineInv, outboxVars

LEMMA AssignKeeps == ASSUME PipelineInv, Assign PROVE PipelineInv'
<1>1. Rebalance /\ UNCHANGED <<outboxVars, log, tableVars>>
  BY DEF Assign
<1>2. ConsumerInv'
  BY <1>1, StepKeeps DEF PipelineInv, Next
<1>3. position' = committed /\ UNCHANGED <<end, committed, stop, times>>
  BY <1>1 DEF Rebalance, brokerVars, loopVars
<1>4. WithinLog'
  BY <1>3 DEF PipelineInv, WithinLog
<1> QED
  BY <1>1, <1>2, <1>3, <1>4, TablesStay DEF PipelineInv, outboxVars

LEMMA SendKeeps == ASSUME PipelineInv, NEW e \in Events, Send(e) PROVE PipelineInv'
<1> DEFINE q == PartitionOf[EventOf[e].tenant]
<1>1. /\ q \in Partitions /\ e \in accepted /\ accepted' = accepted
      /\ Publish(q) /\ log' = [log EXCEPT ![q] = Append(@, e)]
      /\ UNCHANGED tableVars
  BY PipelineAssumptions DEF PipelineAssumptions, Send, Outbox!Deliver
<1> HIDE DEF q
<1>2. ConsumerInv'
  BY <1>1, StepKeeps DEF PipelineInv, Next
<1>3. /\ end' = [end EXCEPT ![q] = @ + 1]
      /\ UNCHANGED <<committed, position, stop, times>>
  BY <1>1 DEF Publish, groupVars, loopVars
<1>4. /\ LogOK /\ WithinLog /\ HandledAreCorrelated /\ EvidenceOK /\ TypeOK /\ TypeOK'
      /\ accepted \subseteq Events
  BY <1>2 DEF PipelineInv, ConsumerInv
<1>5. \A p \in Partitions : end[p] \in Nat /\ committed[p] \in Nat /\ position[p] \in Nat
      /\ \A c \in Consumers : stop[c][p] \in Nat
  <2>1. 0 .. MaxLog \subseteq Nat
    BY MaxLogIsNat
  <2> QED
    BY <1>4, <2>1 DEF TypeOK
<1>6. \A p \in Partitions : p # q => end'[p] = end[p]
  BY <1>3, <1>4 DEF TypeOK
<1>7. end'[q] = end[q] + 1
  BY <1>1, <1>3, <1>4 DEF TypeOK
<1>8. WithinLog'
  <2>1. \A p \in Partitions : end[p] <= end'[p] /\ end'[p] \in Nat
    BY <1>5, <1>6, <1>7
  <2> QED
    BY <1>3, <1>4, <1>5, <2>1 DEF WithinLog
<1>9. /\ DOMAIN log' = Partitions /\ log'[q] = Append(log[q], e)
      /\ \A p \in Partitions : p # q => log'[p] = log[p]
  BY <1>1, <1>4 DEF LogOK
<1>10. /\ log[q] \in Seq(Events) /\ Len(log[q]) = end[q]
       /\ \A o \in 1 .. end[q] : log[q][o] \in accepted
  BY <1>1, <1>4 DEF LogOK
<1>11. /\ Append(log[q], e) \in Seq(Events) /\ Len(Append(log[q], e)) = end[q] + 1
       /\ \A o \in 1 .. end[q] : Append(log[q], e)[o] = log[q][o]
       /\ Append(log[q], e)[end[q] + 1] = e
  BY <1>10
<1>12. LogOK'
  <2>1. ASSUME NEW p \in Partitions
        PROVE  /\ log'[p] \in Seq(Events) /\ Len(log'[p]) = end'[p]
               /\ \A o \in 1 .. end'[p] : log'[p][o] \in accepted'
    <3>1. CASE p = q
      <4>1. \A o \in 1 .. end[q] + 1 : o \in 1 .. end[q] \/ o = end[q] + 1
        BY <1>1, <1>5
      <4> QED
        BY <1>1, <1>7, <1>9, <1>10, <1>11, <3>1, <4>1
    <3>2. CASE p # q
      BY <1>1, <1>4, <1>6, <1>9, <3>2 DEF LogOK
    <3> QED
      BY <3>1, <3>2
  <2> QED
    BY <1>9, <2>1 DEF LogOK
<1>13. \A f : IsCorrelated(f)' <=> IsCorrelated(f)
  BY <1>1 DEF IsCorrelated, tableVars
<1>14. HandledAreCorrelated'
  <2>1. ASSUME NEW p \in Partitions, NEW o \in Offsets, times[p][o] > 0
        PROVE  o < end'[p] /\ IsCorrelated(log[p][o + 1])'
    <3>1. o < end[p] /\ IsCorrelated(log[p][o + 1]) /\ o \in Nat
      BY <1>4, <2>1 DEF HandledAreCorrelated, Offsets
    <3>2. log'[p][o + 1] = log[p][o + 1] /\ end[p] <= end'[p] /\ end'[p] \in Nat
      <4>1. CASE p = q
        <5>1. o + 1 \in 1 .. end[q]
          BY <1>5, <3>1, <4>1
        <5> QED
          BY <1>5, <1>7, <1>9, <1>11, <4>1, <5>1
      <4>2. CASE p # q
        BY <1>5, <1>6, <1>9, <4>2
      <4> QED
        BY <4>1, <4>2
    <3>3. PICK f : f = log[p][o + 1]
      OBVIOUS
    <3>4. IsCorrelated(f)'
      BY <1>13, <3>1, <3>3 DEF IsCorrelated
    <3>5. f = log'[p][o + 1]
      BY <3>2, <3>3
    <3>6. IsCorrelated(log[p][o + 1])'
      BY <3>4, <3>5 DEF IsCorrelated
    <3> QED
      BY <1>5, <3>1, <3>2, <3>6
  <2> QED
    BY <1>3, <2>1 DEF HandledAreCorrelated, Offsets
<1>15. EvidenceOK'
  BY <1>1, <1>4 DEF EvidenceOK, tableVars, Tables!KeySet
<1> QED
  BY <1>1, <1>2, <1>4, <1>8, <1>12, <1>14, <1>15 DEF PipelineInv, tableVars

LEMMA HandleKeeps == ASSUME PipelineInv, NEW c \in Consumers, Handle(c) PROVE PipelineInv'
<1>1. PICK p \in Partitions :
         /\ Remaining(c, p)
         /\ times' = [times EXCEPT ![p][next[c][p]] = @ + 1]
         /\ current' = [current EXCEPT ![c] = p]
  BY DEF Handle, HandleOk, AtPartition
<1>2. /\ UNCHANGED <<end, committed, position, next, stop, outboxVars, log>>
      /\ LET e == log[current'[c]][next[c][current'[c]] + 1]
         IN  IF Known(e) THEN Tables!Correlate(e) ELSE UNCHANGED tableVars
  BY DEF Handle, HandleOk, brokerVars, groupVars
<1>3. /\ ConsumerInv /\ TypeOK /\ LogOK /\ WithinLog /\ HandledAreCorrelated /\ EvidenceOK
      /\ accepted \subseteq Events /\ accepted' = accepted
  BY <1>2 DEF PipelineInv, ConsumerInv, outboxVars
<1>4. ConsumerInv'
  <2>1. HandleOk(c)
    BY DEF Handle
  <2> QED
    BY <1>3, <2>1, StepKeeps DEF Next, LoopStep
<1>5. PICK o \in Offsets : o = next[c][p] /\ o \in Nat /\ o + 1 \in 1 .. end[p] /\ o < end[p]
  <2>1. /\ next[c][p] \in 0 .. MaxLog /\ stop[c][p] \in 0 .. MaxLog /\ end[p] \in 0 .. MaxLog
        /\ next[c][p] < stop[c][p] /\ stop[c][p] <= end[p] /\ MaxLog \in Nat
    BY <1>1, <1>3, MaxLogIsNat DEF TypeOK, WithinLog, Remaining
  <2> QED
    BY <2>1 DEF Offsets
<1>6. PICK e \in Events : e = log[p][o + 1] /\ e \in accepted
  BY <1>3, <1>5 DEF LogOK
<1>7. current'[c] = p
  BY <1>1, <1>3 DEF TypeOK
<1>8. Tables!Correlate(e)
  BY <1>2, <1>5, <1>6, <1>7 DEF Known
<1>9. /\ DOMAIN status' = Incidents /\ DOMAIN key' = Incidents /\ EvidenceOK'
      /\ IsCorrelated(e)' /\ \A f : IsCorrelated(f) => IsCorrelated(f)'
  BY <1>3, <1>6, <1>8, CorrelateEffect
<1>10. LogOK' /\ WithinLog'
  BY <1>2, <1>3 DEF LogOK, WithinLog
<1>11. HandledAreCorrelated'
  <2>1. ASSUME NEW r \in Partitions, NEW n \in Offsets, times'[r][n] > 0
        PROVE  n < end[r] /\ IsCorrelated(log[r][n + 1])'
    <3>1. CASE r = p /\ n = o
      <4>1. e = log'[r][n + 1]
        BY <1>2, <1>6, <3>1
      <4>2. IsCorrelated(log[r][n + 1])'
        BY <1>9, <4>1 DEF IsCorrelated
      <4> QED
        BY <1>5, <3>1, <4>2
    <3>2. CASE ~ (r = p /\ n = o)
      <4>1. times[r][n] > 0
        BY <1>1, <1>3, <1>5, <2>1, <3>2 DEF TypeOK
      <4>2. n < end[r] /\ IsCorrelated(log[r][n + 1])
        BY <1>3, <4>1 DEF HandledAreCorrelated
      <4>3. PICK f : f = log[r][n + 1]
        OBVIOUS
      <4>4. IsCorrelated(f)'
        BY <1>9, <4>2, <4>3 DEF IsCorrelated
      <4>5. f = log'[r][n + 1]
        BY <1>2, <4>3
      <4>6. IsCorrelated(log[r][n + 1])'
        BY <4>4, <4>5 DEF IsCorrelated
      <4> QED
        BY <4>2, <4>6
    <3> QED
      BY <3>1, <3>2
  <2> QED
    BY <1>2, <2>1 DEF HandledAreCorrelated, Offsets
<1> QED
  BY <1>3, <1>4, <1>9, <1>10, <1>11 DEF PipelineInv

-----------------------------------------------------------------------------
(* The theorems                                                            *)

LEMMA PipelineStarts == PInit => PipelineInv
<1> SUFFICES ASSUME PInit PROVE PipelineInv
  OBVIOUS
<1>1. Init /\ Outbox!DInit /\ log = [p \in Partitions |-> <<>>] /\ Tables!CInit
  BY DEF PInit
<1>2. ConsumerInv
  BY <1>1, InitEstablishes
<1>3. /\ end = [p \in Partitions |-> 0] /\ committed = [p \in Partitions |-> 0]
      /\ position = [p \in Partitions |-> 0]
      /\ stop = [c \in Consumers |-> [p \in Partitions |-> 0]]
      /\ times = [p \in Partitions |-> [o \in Offsets |-> 0]]
  BY <1>1 DEF Init
<1>4. accepted \subseteq Events
  BY <1>1 DEF Outbox!DInit
<1>5. DOMAIN status = Incidents /\ DOMAIN key = Incidents /\ evidence = {}
  BY <1>1 DEF Tables!CInit
<1>6. LogOK
  <2>1. ASSUME NEW p \in Partitions
        PROVE  /\ log[p] \in Seq(Events) /\ Len(log[p]) = end[p]
               /\ \A o \in 1 .. end[p] : log[p][o] \in accepted
    <3>1. log[p] = <<>> /\ end[p] = 0
      BY <1>1, <1>3
    <3> QED
      BY <3>1
  <2> QED
    BY <1>1, <2>1 DEF LogOK
<1>7. WithinLog
  BY <1>3 DEF WithinLog
<1>8. HandledAreCorrelated
  BY <1>3 DEF HandledAreCorrelated
<1>9. EvidenceOK
  BY <1>5 DEF EvidenceOK
<1> QED
  BY <1>2, <1>4, <1>5, <1>6, <1>7, <1>8, <1>9 DEF PipelineInv

LEMMA PipelineStep == PipelineInv /\ [PNext]_pvars => PipelineInv'
<1> SUFFICES ASSUME PipelineInv, [PNext]_pvars PROVE PipelineInv'
  OBVIOUS
<1>1. ASSUME NEW e \in Events, Ingest(e) \/ Settle(e) PROVE PipelineInv'
  BY <1>1, OutboxKeeps
<1>2. ASSUME NEW e \in Events, Send(e) PROVE PipelineInv'
  BY <1>2, SendKeeps
<1>3. ASSUME NEW c \in Consumers, Handle(c) PROVE PipelineInv'
  BY <1>3, HandleKeeps
<1>4. ASSUME NEW c \in Consumers, Run(c) \/ Revive(c) \/ Fail(c) PROVE PipelineInv'
  BY <1>4, LoopKeeps
<1>5. CASE Assign
  BY <1>5, AssignKeeps
<1>6. CASE UNCHANGED pvars
  <2>1. UNCHANGED <<vars, outboxVars, log, tableVars>>
    BY <1>6 DEF pvars
  <2>2. ConsumerInv'
    BY <2>1, StepKeeps DEF PipelineInv
  <2>3. WithinLog'
    BY <2>1 DEF PipelineInv, WithinLog, vars, brokerVars, groupVars, loopVars
  <2> QED
    BY <2>1, <2>2, <2>3, TablesStay DEF PipelineInv, vars, brokerVars, outboxVars
<1> QED
  BY <1>1, <1>2, <1>3, <1>4, <1>5, <1>6 DEF PNext

\* The topic, the offsets, the handled messages and the incident tables agree at
\* every step from ingestion to incident.
THEOREM PipelineInvariant == PSpec => []PipelineInv
<1>1. PInit => PipelineInv
  BY PipelineStarts
<1>2. PipelineInv /\ [PNext]_pvars => PipelineInv'
  BY PipelineStep
<1> QED
  BY <1>1, <1>2, PTL DEF PSpec

\* The offset is committed only after the database: the event of the last message
\* below it is in its incidents, and, without failures, so is every earlier one.
THEOREM CommittedAreCorrelated == PSpec => []CommittedIsCorrelated
<1>1. ASSUME PipelineInv PROVE CommittedIsCorrelated
  <2> SUFFICES ASSUME NEW p \in Partitions, NEW o \in 1 .. committed[p],
                      o = committed[p] \/ failures = 0
               PROVE  IsCorrelated(log[p][o])
    BY DEF CommittedIsCorrelated
  <2>1. TypeOK /\ OffsetAfterDatabase /\ NoGap /\ HandledAreCorrelated
    BY <1>1 DEF PipelineInv, ConsumerInv
  <2>2. /\ committed[p] \in 0 .. MaxLog /\ MaxLog \in Nat /\ o \in Nat
        /\ o - 1 \in Offsets /\ o - 1 < committed[p] /\ committed[p] > 0 /\ (o - 1) + 1 = o
    <3>1. committed[p] \in 0 .. MaxLog /\ MaxLog \in Nat
      BY <2>1, MaxLogIsNat DEF TypeOK
    <3> QED
      BY <3>1 DEF Offsets
  <2>3. times[p][o - 1] > 0
    <3>1. CASE o = committed[p]
      BY <2>1, <2>2, <3>1 DEF OffsetAfterDatabase
    <3>2. CASE failures = 0
      BY <2>1, <2>2, <3>2 DEF NoGap, HandledBelow
    <3> QED
      BY <3>1, <3>2
  <2>4. IsCorrelated(log[p][(o - 1) + 1])
    BY <2>1, <2>2, <2>3 DEF HandledAreCorrelated
  <2> QED
    BY <2>2, <2>4
<1> QED
  BY <1>1, PipelineInvariant, PTL

\* The events of one incident build the same key, by the same rule.
LEMMA SameKey ==
    ASSUME PipelineInv, NEW i, NEW g \in Events, NEW h \in Events,
           <<i, g>> \in evidence, <<i, h>> \in evidence
    PROVE  \E a, b \in ActiveRules :
              /\ Eligible(RuleIds[a], EventOf[g]) /\ Eligible(RuleIds[b], EventOf[h])
              /\ KeyFor(RuleIds[a], EventOf[g]) = KeyFor(RuleIds[b], EventOf[h])
<1>1. ASSUME NEW f \in Events, <<i, f>> \in evidence
      PROVE  \E a \in ActiveRules :
                Eligible(RuleIds[a], EventOf[f]) /\ key[i] = KeyFor(RuleIds[a], EventOf[f])
  <2>1. key[i] \in Tables!KeySet(f)
    <3>1. <<i, f>>[1] = i /\ <<i, f>>[2] = f
      OBVIOUS
    <3> QED
      BY <1>1, <3>1 DEF PipelineInv, EvidenceOK
  <2>2. PICK n \in DOMAIN KeysFor(EventOf[f]) : key[i] = KeysFor(EventOf[f])[n]
    BY <2>1 DEF Tables!KeySet, KeysOf
  <2>3. \E a \in RulesFor(EventOf[f]) :
           KeysFor(EventOf[f])[n] = KeyFor(RuleIds[a], EventOf[f])
    BY KeysAreOfRules
  <2> QED
    BY <2>2, <2>3 DEF RulesFor
<1> QED
  BY <1>1

\* The events of an incident belong together: tenant, asset, rule and window.
THEOREM EvidenceBelongsTogether == PSpec => []EvidenceCoherent
<1>1. ASSUME PipelineInv PROVE EvidenceCoherent
  <2> SUFFICES ASSUME NEW i \in Incidents
               PROVE  LET events == {x[2] : x \in {y \in evidence : y[1] = i}} IN
                      /\ events \subseteq accepted
                      /\ \A e, f \in {EventOf[g] : g \in events} :
                           /\ e.tenant = f.tenant
                           /\ AssetKey(e) = AssetKey(f)
                           /\ \E rule \in {RuleIds[n] : n \in DOMAIN RuleIds} :
                                 Eligible(rule, e) /\ Eligible(rule, f)
                           /\ e.at >= 0 /\ f.at >= 0 => \E w \in 0 .. e.at :
                                 /\ w * Window * TicksPerSecond <= e.at
                                 /\ e.at < (w + 1) * Window * TicksPerSecond
                                 /\ w * Window * TicksPerSecond <= f.at
                                 /\ f.at < (w + 1) * Window * TicksPerSecond
                           /\ e.at - f.at < (Window + 1) * TicksPerSecond
    BY DEF EvidenceCoherent
  <2> DEFINE events == {x[2] : x \in {y \in evidence : y[1] = i}}
  <2>1. \A g \in events : g \in accepted /\ g \in Events /\ <<i, g>> \in evidence
    BY <1>1 DEF PipelineInv, EvidenceOK
  <2> HIDE DEF events
  <2>2. ASSUME NEW g \in events, NEW h \in events, NEW e, NEW f,
               e = EventOf[g], f = EventOf[h]
        PROVE  /\ e.tenant = f.tenant
               /\ AssetKey(e) = AssetKey(f)
               /\ \E rule \in {RuleIds[n] : n \in DOMAIN RuleIds} :
                     Eligible(rule, e) /\ Eligible(rule, f)
               /\ e.at \in Int /\ f.at \in Int /\ Bucket(e.at) = Bucket(f.at)
    <3>1. PICK a \in ActiveRules, b \in ActiveRules :
             /\ Eligible(RuleIds[a], e) /\ Eligible(RuleIds[b], f)
             /\ KeyFor(RuleIds[a], e) = KeyFor(RuleIds[b], f)
      BY <1>1, <2>1, <2>2, SameKey
    <3>2. /\ e.tenant = f.tenant /\ RuleIds[a] = RuleIds[b]
          /\ AssetKey(e) = AssetKey(f) /\ Bucket(e.at) = Bucket(f.at)
      <4>1. KeyFor(RuleIds[a], e).tenant = e.tenant /\ KeyFor(RuleIds[a], e).rule = RuleIds[a]
            /\ KeyFor(RuleIds[a], e).asset = AssetKey(e)
            /\ KeyFor(RuleIds[a], e).window = Bucket(e.at)
        BY DEF KeyFor
      <4>2. KeyFor(RuleIds[b], f).tenant = f.tenant /\ KeyFor(RuleIds[b], f).rule = RuleIds[b]
            /\ KeyFor(RuleIds[b], f).asset = AssetKey(f)
            /\ KeyFor(RuleIds[b], f).window = Bucket(f.at)
        BY DEF KeyFor
      <4> QED
        BY <3>1, <4>1, <4>2
    <3>3. a \in DOMAIN RuleIds
      BY DEF ActiveRules
    <3>4. e.at \in Int /\ f.at \in Int
      BY <2>1, <2>2, PipelineAssumptions DEF PipelineAssumptions
    <3> QED
      BY <3>1, <3>2, <3>3, <3>4
  <2>3. ASSUME NEW e \in {EventOf[g] : g \in events}, NEW f \in {EventOf[g] : g \in events}
        PROVE  /\ e.tenant = f.tenant
               /\ AssetKey(e) = AssetKey(f)
               /\ \E rule \in {RuleIds[n] : n \in DOMAIN RuleIds} :
                     Eligible(rule, e) /\ Eligible(rule, f)
               /\ e.at >= 0 /\ f.at >= 0 => \E w \in 0 .. e.at :
                     /\ w * Window * TicksPerSecond <= e.at
                     /\ e.at < (w + 1) * Window * TicksPerSecond
                     /\ w * Window * TicksPerSecond <= f.at
                     /\ f.at < (w + 1) * Window * TicksPerSecond
               /\ e.at - f.at < (Window + 1) * TicksPerSecond
    <3>1. PICK g \in events, h \in events : e = EventOf[g] /\ f = EventOf[h]
      OBVIOUS
    <3>2. /\ e.tenant = f.tenant /\ AssetKey(e) = AssetKey(f)
          /\ \E rule \in {RuleIds[n] : n \in DOMAIN RuleIds} :
                Eligible(rule, e) /\ Eligible(rule, f)
          /\ e.at \in Int /\ f.at \in Int /\ Bucket(e.at) = Bucket(f.at)
      BY <2>2, <3>1
    <3>3. PICK x \in Int, y \in Int : x = e.at /\ y = f.at
      BY <3>2
    <3>4. /\ x >= 0 /\ y >= 0 => \E w \in 0 .. x :
               /\ w * Window * TicksPerSecond <= x /\ x < (w + 1) * Window * TicksPerSecond
               /\ w * Window * TicksPerSecond <= y /\ y < (w + 1) * Window * TicksPerSecond
          /\ x - y < (Window + 1) * TicksPerSecond
      BY <3>2, <3>3, BucketsAreWindows
    <3> QED
      BY <3>2, <3>3, <3>4
  <2>4. events \subseteq accepted
    BY <2>1
  <2> QED
    BY <2>3, <2>4 DEF events
<1> QED
  BY <1>1, PipelineInvariant, PTL

\* The way of an event runs the consumer of Consumer, so everything proved of it
\* holds here.
THEOREM PipelineConsumes == PSpec => Spec
<1>1. PInit => Init
  BY DEF PInit
<1>2. [PNext]_pvars => [Next]_vars
  BY StepOfConsumer
<1> QED
  BY <1>1, <1>2, PTL DEF PSpec, Spec

\* Seen from the outbox, the pipeline is what Delivery promises, which the outbox
\* implements (ImplementsDelivery).
THEOREM PipelineDelivers == PSpec => Outbox!DSpec
<1>1. PInit => Outbox!DInit
  BY DEF PInit
<1>2. [PNext]_pvars => [Outbox!DNext]_(Outbox!dvars)
  <2> SUFFICES ASSUME [PNext]_pvars PROVE [Outbox!DNext]_(Outbox!dvars)
    OBVIOUS
  <2>1. ASSUME NEW e \in Events, Ingest(e) PROVE Outbox!DNext
    BY <2>1 DEF Ingest, Outbox!DNext
  <2>2. ASSUME NEW e \in Events, Send(e) PROVE Outbox!DNext
    BY <2>2 DEF Send, Outbox!DNext
  <2>3. ASSUME NEW e \in Events, Settle(e) PROVE Outbox!DNext
    <3>1. Outbox!Resolve({e}, {}) \/ Outbox!Resolve({}, {e})
      BY <2>3 DEF Settle
    <3> QED
      BY <3>1 DEF Outbox!DNext
  <2>4. ASSUME UNCHANGED outboxVars PROVE UNCHANGED Outbox!dvars
    BY <2>4 DEF outboxVars, Outbox!dvars
  <2>5. ASSUME NEW c \in Consumers, Handle(c) \/ Run(c) \/ Revive(c) \/ Fail(c)
        PROVE  UNCHANGED outboxVars
    BY <2>5 DEF Handle, Run, Revive, Fail
  <2>6. ASSUME Assign \/ UNCHANGED pvars PROVE UNCHANGED outboxVars
    BY <2>6 DEF Assign, pvars
  <2> QED
    BY <2>1, <2>2, <2>3, <2>4, <2>5, <2>6 DEF PNext
<1> QED
  BY <1>1, <1>2, PTL DEF PSpec, Outbox!DSpec

\* Seen from the incident tables, it is what Correlated promises, which Incidents
\* implements (ImplementsCorrelated).
THEOREM PipelineCorrelates == PSpec => Tables!CSpec
<1>1. PInit => Tables!CInit
  BY DEF PInit
<1>2. PipelineInv /\ [PNext]_pvars => [Tables!CNext]_(Tables!cvars)
  <2> SUFFICES ASSUME PipelineInv, [PNext]_pvars PROVE [Tables!CNext]_(Tables!cvars)
    OBVIOUS
  <2>1. ASSUME UNCHANGED tableVars PROVE UNCHANGED Tables!cvars
    BY <2>1 DEF tableVars, Tables!cvars
  <2>2. ASSUME NEW e \in Events, Ingest(e) \/ Send(e) \/ Settle(e) PROVE UNCHANGED tableVars
    BY <2>2 DEF Ingest, Send, Settle
  <2>3. ASSUME NEW c \in Consumers, Run(c) \/ Revive(c) \/ Fail(c) PROVE UNCHANGED tableVars
    BY <2>3 DEF Run, Revive, Fail
  <2>4. ASSUME Assign \/ UNCHANGED pvars PROVE UNCHANGED tableVars
    BY <2>4 DEF Assign, pvars
  <2>5. ASSUME NEW c \in Consumers, Handle(c) PROVE Tables!CNext \/ UNCHANGED tableVars
    <3>1. PICK e : IF Known(e) THEN Tables!Correlate(e) ELSE UNCHANGED tableVars
      BY <2>5 DEF Handle
    <3>2. Known(e) => e \in Events
      BY DEF Known, PipelineInv
    <3> QED
      BY <3>1, <3>2 DEF Tables!CNext
  <2> QED
    BY <2>1, <2>2, <2>3, <2>4, <2>5 DEF PNext
<1> QED
  BY <1>1, <1>2, PipelineInvariant, PTL DEF PSpec, Tables!CSpec

-----------------------------------------------------------------------------
(* Where evidence comes from                                               *)

\* A message is in the partition of its tenant, and an event that is evidence was
\* taken from a message there, which some worker handled.
FromTopic ==
    /\ \A p \in Partitions : \A o \in 1 .. end[p] : PartitionOf[EventOf[log[p][o]].tenant] = p
    /\ \A x \in evidence : \E o \in Offsets :
          /\ times[PartitionOf[EventOf[x[2]].tenant]][o] > 0
          /\ log[PartitionOf[EventOf[x[2]].tenant]][o + 1] = x[2]

\* A step that leaves the topic and the tables alone.
LEMMA TopicStays ==
    ASSUME FromTopic, UNCHANGED <<end, times, log, evidence>> PROVE FromTopic'
  BY DEF FromTopic

\* A message more.
LEMMA SendGrowsTopic ==
    ASSUME PipelineInv, FromTopic, NEW e \in Events, Send(e) PROVE FromTopic'
<1> DEFINE q == PartitionOf[EventOf[e].tenant]
<1>1. /\ q \in Partitions /\ Publish(q) /\ log' = [log EXCEPT ![q] = Append(@, e)]
      /\ UNCHANGED evidence
  BY PipelineAssumptions DEF PipelineAssumptions, Send, tableVars
<1>2. PartitionOf[EventOf[e].tenant] = q
  OBVIOUS
<1> HIDE DEF q
<1>3. end' = [end EXCEPT ![q] = @ + 1] /\ UNCHANGED times
  BY <1>1 DEF Publish
<1>4. LogOK /\ HandledAreCorrelated /\ EvidenceOK /\ TypeOK
  BY DEF PipelineInv, ConsumerInv
<1>5. ASSUME NEW p \in Partitions
      PROVE  /\ end[p] \in Nat /\ log[p] \in Seq(Events) /\ Len(log[p]) = end[p]
             /\ end'[p] = IF p = q THEN end[p] + 1 ELSE end[p]
             /\ log'[p] = IF p = q THEN Append(log[p], e) ELSE log[p]
  <2>1. log[p] \in Seq(Events) /\ Len(log[p]) = end[p] /\ DOMAIN log = Partitions
    BY <1>4 DEF LogOK
  <2>2. DOMAIN end = Partitions
    BY <1>4 DEF TypeOK
  <2>3. end[p] \in Nat
    BY <2>1
  <2>4. end'[p] = IF p = q THEN end[p] + 1 ELSE end[p]
    BY <1>1, <1>3, <2>2
  <2>5. log'[p] = IF p = q THEN Append(log[p], e) ELSE log[p]
    BY <1>1, <2>1
  <2> QED
    BY <2>1, <2>3, <2>4, <2>5
<1>6. ASSUME NEW p \in Partitions, NEW o \in 1 .. end[p] PROVE log'[p][o] = log[p][o]
  <2>1. log[p] \in Seq(Events) /\ Len(log[p]) = end[p] /\ end[p] \in Nat
    BY <1>5
  <2>2. Append(log[p], e)[o] = log[p][o]
    BY <2>1
  <2> QED
    BY <1>5, <2>2
<1>7. ASSUME NEW p \in Partitions, NEW o \in 1 .. end'[p]
      PROVE  PartitionOf[EventOf[log'[p][o]].tenant] = p
  <2>1. CASE o \in 1 .. end[p]
    BY <1>4, <1>6, <2>1 DEF FromTopic
  <2>2. CASE o \notin 1 .. end[p]
    <3>1. p = q /\ o = end[p] + 1
      BY <1>5, <2>2
    <3>2. log[p] \in Seq(Events) /\ Len(log[p]) = end[p] /\ log'[p] = Append(log[p], e)
      BY <1>5, <3>1
    <3>3. Append(log[p], e)[Len(log[p]) + 1] = e
      BY <3>2
    <3>4. log'[p][o] = e
      BY <3>1, <3>2, <3>3
    <3> QED
      BY <1>2, <3>1, <3>4
  <2> QED
    BY <2>1, <2>2
<1>8. ASSUME NEW x \in evidence
      PROVE  \E o \in Offsets : /\ times[PartitionOf[EventOf[x[2]].tenant]][o] > 0
                                /\ log'[PartitionOf[EventOf[x[2]].tenant]][o + 1] = x[2]
  <2>1. PICK o \in Offsets : /\ times[PartitionOf[EventOf[x[2]].tenant]][o] > 0
                             /\ log[PartitionOf[EventOf[x[2]].tenant]][o + 1] = x[2]
    BY DEF FromTopic
  <2>2. PartitionOf[EventOf[x[2]].tenant] \in Partitions
    BY <1>4, PipelineAssumptions DEF PipelineAssumptions, EvidenceOK
  <2>3. PICK p \in Partitions : p = PartitionOf[EventOf[x[2]].tenant]
    BY <2>2
  <2>4. o \in Nat /\ o < end[p]
    BY <1>4, <2>1, <2>3 DEF HandledAreCorrelated, Offsets
  <2>5. log'[p][o + 1] = log[p][o + 1]
    BY <1>5, <1>6, <2>4
  <2> QED
    BY <2>1, <2>3, <2>5
<1> QED
  BY <1>1, <1>3, <1>7, <1>8 DEF FromTopic, Offsets

\* A message handled: only its event becomes evidence.
LEMMA HandleTakesFromTopic ==
    ASSUME PipelineInv, FromTopic, NEW c \in Consumers, Handle(c) PROVE FromTopic'
<1>1. PICK p \in Partitions :
         /\ Remaining(c, p)
         /\ times' = [times EXCEPT ![p][next[c][p]] = @ + 1]
         /\ current' = [current EXCEPT ![c] = p]
  BY DEF Handle, HandleOk, AtPartition
<1>2. /\ UNCHANGED <<end, log>>
      /\ LET e == log[current'[c]][next[c][current'[c]] + 1]
         IN  IF Known(e) THEN Tables!Correlate(e) ELSE UNCHANGED tableVars
  BY DEF Handle, HandleOk, brokerVars
<1>3. TypeOK /\ LogOK /\ WithinLog
  BY DEF PipelineInv, ConsumerInv
<1>4. PICK o \in Offsets : o = next[c][p] /\ o + 1 \in 1 .. end[p]
  <2>1. /\ next[c][p] \in 0 .. MaxLog /\ stop[c][p] \in 0 .. MaxLog /\ end[p] \in 0 .. MaxLog
        /\ next[c][p] < stop[c][p] /\ stop[c][p] <= end[p] /\ MaxLog \in Nat
    BY <1>1, <1>3, MaxLogIsNat DEF TypeOK, WithinLog, Remaining
  <2> QED
    BY <2>1 DEF Offsets
<1>5. PICK e : e = log[p][o + 1]
  OBVIOUS
<1>6. current'[c] = p
  BY <1>1, <1>3 DEF TypeOK
<1>7. /\ \A r \in Partitions, n \in Offsets : times[r][n] > 0 => times'[r][n] > 0
      /\ times'[p][o] > 0
  <2>1. times \in [Partitions -> [Offsets -> Nat]]
    BY <1>3 DEF TypeOK
  <2>2. \A r \in Partitions, n \in Offsets :
           times'[r][n] = IF r = p /\ n = o THEN times[r][n] + 1 ELSE times[r][n]
    BY <1>1, <1>4, <2>1
  <2>3. \A r \in Partitions, n \in Offsets : times[r][n] \in Nat
    BY <2>1
  <2> QED
    BY <2>2, <2>3
<1>8. PartitionOf[EventOf[e].tenant] = p
  BY <1>4, <1>5 DEF FromTopic
<1>9. ASSUME NEW x \in evidence' PROVE x \in evidence \/ x[2] = e
  <2>1. CASE Known(e)
    <3>1. Tables!Correlate(e)
      BY <1>2, <1>4, <1>5, <1>6, <2>1
    <3>2. PICK goes : evidence' = evidence \cup {<<goes[k], e>> : k \in Tables!KeySet(e)}
      BY <3>1 DEF Tables!Correlate
    <3> QED
      BY <3>2
  <2>2. CASE ~ Known(e)
    BY <1>2, <1>4, <1>5, <1>6, <2>2 DEF tableVars
  <2> QED
    BY <2>1, <2>2
<1>10. ASSUME NEW x \in evidence'
       PROVE  \E n \in Offsets : /\ times'[PartitionOf[EventOf[x[2]].tenant]][n] > 0
                                 /\ log[PartitionOf[EventOf[x[2]].tenant]][n + 1] = x[2]
  <2>1. CASE x[2] = e
    BY <1>4, <1>5, <1>7, <1>8, <2>1
  <2>2. CASE x[2] # e
    <3>1. x \in evidence
      BY <1>9, <2>2
    <3>2. PartitionOf[EventOf[x[2]].tenant] \in Partitions
      BY <3>1, PipelineAssumptions DEF PipelineAssumptions, PipelineInv, EvidenceOK
    <3> QED
      BY <1>7, <3>1, <3>2 DEF FromTopic
  <2> QED
    BY <2>1, <2>2
<1> QED
  BY <1>2, <1>10 DEF FromTopic, Offsets

\* No step of the loop, the group or the outbox touches it otherwise.
LEMMA FromTopicStep == PipelineInv /\ FromTopic /\ [PNext]_pvars => FromTopic'
<1> SUFFICES ASSUME PipelineInv, FromTopic, [PNext]_pvars PROVE FromTopic'
  OBVIOUS
<1>1. ASSUME NEW e \in Events, Ingest(e) \/ Settle(e) PROVE FromTopic'
  BY <1>1, TopicStays DEF Ingest, Settle, vars, brokerVars, groupVars, loopVars, tableVars
<1>2. ASSUME NEW e \in Events, Send(e) PROVE FromTopic'
  BY <1>2, SendGrowsTopic
<1>3. ASSUME NEW c \in Consumers, Handle(c) PROVE FromTopic'
  BY <1>3, HandleTakesFromTopic
<1>4. ASSUME NEW c \in Consumers, Run(c) \/ Revive(c) \/ Fail(c) PROVE FromTopic'
  <2>1. UNCHANGED <<log, evidence>>
    BY <1>4 DEF Run, Revive, Fail, tableVars
  <2>2. \/ Poll(c) \/ CommitOffset(c) \/ CommitRefused(c) \/ NextPoll(c) \/ Restart(c)
        \/ HandleFails(c) \/ CommitFails(c) \/ Crash(c)
    BY <1>4 DEF Run, Revive, Fail
  <2>3. UNCHANGED <<end, times>>
    BY <2>2, OffsetsMove
  <2> QED
    BY <2>1, <2>3, TopicStays
<1>5. CASE Assign
  BY <1>5, TopicStays DEF Assign, Rebalance, brokerVars, loopVars, tableVars
<1>6. CASE UNCHANGED pvars
  BY <1>6, TopicStays DEF pvars, vars, brokerVars, groupVars, loopVars, tableVars
<1> QED
  BY <1>1, <1>2, <1>3, <1>4, <1>5, <1>6 DEF PNext

\* No incident has evidence from nowhere: whatever crashes and is read again, each
\* pair was made from a message that a worker handled, in the one partition of the
\* event's tenant.
THEOREM EvidenceIsFromTopic == PSpec => []FromTopic
<1>1. PInit => FromTopic
  <2> SUFFICES ASSUME PInit PROVE FromTopic
    OBVIOUS
  <2>1. evidence = {} /\ \A p \in Partitions : end[p] = 0
    BY DEF PInit, Init, Tables!CInit
  <2> QED
    BY <2>1 DEF FromTopic
<1>2. PipelineInv /\ FromTopic /\ [PNext]_pvars => FromTopic'
  BY FromTopicStep
<1> QED
  BY <1>1, <1>2, PipelineInvariant, PTL DEF PSpec
==============================================================================
