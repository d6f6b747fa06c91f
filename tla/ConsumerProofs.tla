--------------------------- MODULE ConsumerProofs ---------------------------
(***************************************************************************)
(* The safety of Consumer for every set of partitions and workers, every   *)
(* batch size and every value of the bounds.                               *)
(***************************************************************************)
EXTENDS Consumer, FiniteSetTheorems, TLAPS

USE ConsumerAssumptions

LEMMA MaxLogIsNat == MaxLog \in Nat
BY ConsumerAssumptions DEF ConsumerAssumptions

\* Of every partition, the messages below n were handled.
HandledBelow(p, n) == \A o \in Offsets : o < n => times[p][o] > 0

\* A batch is there only while it is worked on; in front of a commit, the
\* message of the batch it is for was handled.
LoopInv ==
    \A c \in Consumers :
        /\ phase[c] \in {"poll", "dead"} => \A p \in Partitions : ~ Remaining(c, p)
        /\ phase[c] = "commit" =>
              /\ current[c] \in Partitions
              /\ Remaining(c, current[c])
              /\ times[current[c]][next[c][current[c]]] > 0

\* Without failures the loop and the group never leave a message behind: not
\* below a committed offset, not below the place of a batch that is worked on,
\* not below the position of an owner except in its batch.  A batch that a
\* rebalance took a partition from can be dropped, because the rebalance set
\* the positions of all partitions back.
Synchronous(c) == \A p \in Partitions : Remaining(c, p) => owner[p] = c
GoneBack(c) == \A p \in Partitions : owner[p] = c => HandledBelow(p, position[p])
Behind(c, p) ==
    \A o \in Offsets : o < position[p] =>
        times[p][o] > 0 \/ (next[c][p] <= o /\ o < stop[c][p])

NoGap ==
    failures = 0 =>
        /\ \A p \in Partitions : HandledBelow(p, committed[p])
        /\ \A c \in Consumers, p \in Partitions :
              Remaining(c, p) => HandledBelow(p, next[c][p])
        /\ \A c \in Consumers, p \in Partitions : owner[p] = c => Behind(c, p)
        /\ \A c \in Consumers : Synchronous(c) \/ GoneBack(c)

ConsumerInv == TypeOK /\ LoopInv /\ OffsetAfterDatabase /\ NoGap

-----------------------------------------------------------------------------
(* Initial states, and steps of broker and group                           *)

LEMMA InitEstablishes == Init => ConsumerInv
<1> SUFFICES ASSUME Init PROVE ConsumerInv
  OBVIOUS
<1>1. TypeOK
  BY DEF Init, TypeOK, Phases, Offsets
<1>2. LoopInv
  BY DEF Init, LoopInv, Remaining
<1>3. OffsetAfterDatabase
  BY DEF Init, OffsetAfterDatabase
<1>4. NoGap
  BY DEF Init, NoGap, HandledBelow, Behind, Synchronous, Remaining, Offsets
<1> QED
  BY <1>1, <1>2, <1>3, <1>4 DEF ConsumerInv

LEMMA PublishKeeps ==
    ASSUME ConsumerInv, NEW p \in Partitions, Publish(p) PROVE ConsumerInv'
<1> USE DEF Publish, brokerVars, groupVars, loopVars
<1>1. TypeOK'
  BY DEF ConsumerInv, TypeOK
<1>2. LoopInv'
  BY DEF ConsumerInv, LoopInv, Remaining
<1>3. OffsetAfterDatabase'
  BY DEF ConsumerInv, OffsetAfterDatabase
<1>4. NoGap'
  BY DEF ConsumerInv, NoGap, HandledBelow, Behind, Synchronous, GoneBack, Remaining
<1> QED
  BY <1>1, <1>2, <1>3, <1>4 DEF ConsumerInv

\* Every owner goes back to the committed offset, below which all is handled.
LEMMA RebalanceKeeps == ASSUME ConsumerInv, Rebalance PROVE ConsumerInv'
<1> USE DEF Rebalance, brokerVars, loopVars
<1>1. TypeOK'
  BY DEF ConsumerInv, TypeOK, Alive
<1>2. LoopInv'
  BY DEF ConsumerInv, LoopInv, Remaining
<1>3. OffsetAfterDatabase'
  BY DEF ConsumerInv, OffsetAfterDatabase
<1>4. NoGap'
  <2>1. failures = 0 => \A p \in Partitions : HandledBelow(p, position[p])'
    BY DEF ConsumerInv, NoGap, HandledBelow
  <2>2. (\A p \in Partitions : HandledBelow(p, position[p])')
          => \A c \in Consumers : GoneBack(c)' /\ \A p \in Partitions : Behind(c, p)'
    BY DEF GoneBack, Behind, HandledBelow
  <2>3. failures = 0 => /\ \A p \in Partitions : HandledBelow(p, committed[p])'
                        /\ \A c \in Consumers, p \in Partitions :
                              Remaining(c, p)' => HandledBelow(p, next[c][p])'
    BY DEF ConsumerInv, NoGap, HandledBelow, Remaining
  <2> QED
    BY <2>1, <2>2, <2>3 DEF NoGap
<1> QED
  BY <1>1, <1>2, <1>3, <1>4 DEF ConsumerInv
-----------------------------------------------------------------------------
(* Steps of the loop                                                       *)

\* What a poll does to positions and batch.
Polled(c) ==
    /\ phase[c] = "poll" /\ phase' = [phase EXCEPT ![c] = "work"]
    /\ position' \in [Partitions -> 0 .. MaxLog]
    /\ next' = [next EXCEPT ![c] = position]
    /\ stop' = [stop EXCEPT ![c] = position']
    /\ current' = [current EXCEPT ![c] = None]
    /\ \A p \in Partitions : owner[p] # c => position'[p] = position[p]
    /\ \A p \in Partitions : owner[p] = c => position[p] <= position'[p]
    /\ UNCHANGED <<end, committed, owner, rebalances, times, crashes, failures>>

LEMMA PollEffect == ASSUME NEW c \in Consumers, Poll(c) PROVE Polled(c)
<1>1. PICK upTo \in [Partitions -> 0 .. MaxLog] :
         /\ \A p \in Partitions :
               IF owner[p] = c THEN position[p] <= upTo[p] /\ upTo[p] <= end[p]
                               ELSE upTo[p] = position[p]
         /\ next' = [next EXCEPT ![c] = position]
         /\ stop' = [stop EXCEPT ![c] = upTo]
         /\ position' = upTo
  BY Zenon DEF Poll
<1>2. /\ phase[c] = "poll" /\ phase' = [phase EXCEPT ![c] = "work"]
      /\ current' = [current EXCEPT ![c] = None]
      /\ UNCHANGED <<end, committed, owner, rebalances, times, crashes, failures>>
  BY Zenon DEF Poll, brokerVars
<1> QED
  BY <1>1, <1>2 DEF Polled

LEMMA PollKeeps == ASSUME ConsumerInv, NEW c \in Consumers, Poll(c) PROVE ConsumerInv'
<1>0. Polled(c)
  BY PollEffect
<1> USE <1>0 DEF Polled
<1>1. TypeOK'
  BY DEF ConsumerInv, TypeOK, Phases
<1>2. LoopInv'
  BY DEF ConsumerInv, TypeOK, LoopInv, Remaining
<1>3. OffsetAfterDatabase'
  BY DEF ConsumerInv, OffsetAfterDatabase
<1>4. ASSUME failures = 0, NEW p \in Partitions, owner[p] = c
      PROVE  HandledBelow(p, position[p])
  BY <1>4 DEF ConsumerInv, TypeOK, LoopInv, NoGap, Behind, HandledBelow, Remaining, Offsets
<1>5. ASSUME failures = 0 PROVE NoGap'
  <2> USE <1>5
  <2>1. \A p \in Partitions : HandledBelow(p, committed[p])'
    BY DEF ConsumerInv, NoGap, HandledBelow
  <2>2. ASSUME NEW d \in Consumers, NEW p \in Partitions, Remaining(d, p)'
        PROVE  HandledBelow(p, next[d][p])'
    <3>1. CASE d = c
      <4>1. owner[p] = c /\ next'[c][p] = position[p]
        BY <2>2, <3>1 DEF ConsumerInv, TypeOK, Remaining
      <4> QED
        BY <1>4, <3>1, <4>1 DEF HandledBelow
    <3>2. CASE d # c
      <4>1. next'[d] = next[d] /\ stop'[d] = stop[d]
        BY <3>2 DEF ConsumerInv, TypeOK
      <4>2. HandledBelow(p, next[d][p])
        BY <2>2, <4>1 DEF ConsumerInv, NoGap, Remaining
      <4> QED
        BY <4>1, <4>2 DEF HandledBelow
    <3> QED
      BY <3>1, <3>2
  <2>3. ASSUME NEW d \in Consumers, NEW p \in Partitions, owner'[p] = d
        PROVE  Behind(d, p)'
    <3>1. CASE d = c
      <4>1. /\ owner[p] = c /\ next'[c][p] = position[p] /\ stop'[c][p] = position'[p]
            /\ {position[p], position'[p]} \subseteq Nat
        BY <2>3, <3>1 DEF ConsumerInv, TypeOK
      <4>2. ASSUME NEW o \in Offsets, o < position'[p], ~ o < position[p]
            PROVE  next'[c][p] <= o /\ o < stop'[c][p]
        BY <4>1, <4>2 DEF Offsets
      <4> QED
        BY <1>4, <3>1, <4>1, <4>2 DEF HandledBelow, Behind
    <3>2. CASE d # c
      BY <2>3, <3>2 DEF ConsumerInv, TypeOK, NoGap, Behind
    <3> QED
      BY <3>1, <3>2
  <2>4. ASSUME NEW d \in Consumers PROVE (Synchronous(d) \/ GoneBack(d))'
    <3>1. CASE d = c
      BY <3>1 DEF ConsumerInv, TypeOK, Synchronous, Remaining
    <3>2. CASE d # c
      <4>1. next'[d] = next[d] /\ stop'[d] = stop[d]
        BY <3>2 DEF ConsumerInv, TypeOK
      <4>2. Synchronous(d) \/ GoneBack(d)
        BY DEF ConsumerInv, NoGap
      <4>3. CASE Synchronous(d)
        BY <4>1, <4>3 DEF Synchronous, Remaining
      <4>4. CASE GoneBack(d)
        BY <3>2, <4>4 DEF GoneBack, HandledBelow
      <4> QED
        BY <4>2, <4>3, <4>4
    <3> QED
      BY <3>1, <3>2
  <2> QED
    BY <2>1, <2>2, <2>3, <2>4 DEF NoGap
<1>6. NoGap'
  BY <1>5 DEF NoGap
<1> QED
  BY <1>1, <1>2, <1>3, <1>6 DEF ConsumerInv

\* A message handled: nothing is handled less than before.
LEMMA HandleOkKeeps == ASSUME ConsumerInv, NEW c \in Consumers, HandleOk(c) PROVE ConsumerInv'
<1>1. PICK p \in Partitions :
         /\ Remaining(c, p)
         /\ times' = [times EXCEPT ![p][next[c][p]] = @ + 1]
         /\ current' = [current EXCEPT ![c] = p]
  BY DEF HandleOk, AtPartition
<1>2. /\ phase[c] = "work" /\ phase' = [phase EXCEPT ![c] = "commit"]
      /\ UNCHANGED <<end, committed, owner, position, rebalances, next, stop, crashes, failures>>
  BY DEF HandleOk, brokerVars, groupVars
<1>3. next[c][p] \in Offsets
  BY <1>1 DEF ConsumerInv, TypeOK, Remaining, Offsets
<1>4. /\ times' \in [Partitions -> [Offsets -> Nat]]
      /\ times'[p][next[c][p]] > 0
      /\ \A q \in Partitions, o \in Offsets : times[q][o] > 0 => times'[q][o] > 0
  BY <1>1, <1>3 DEF ConsumerInv, TypeOK
<1> HIDE DEF Offsets
<1>5. TypeOK'
  BY <1>1, <1>2, <1>4 DEF ConsumerInv, TypeOK, Phases
<1>6. LoopInv'
  <2>1. ASSUME NEW d \in Consumers, phase'[d] = "commit"
        PROVE  /\ current'[d] \in Partitions
               /\ Remaining(d, current[d])'
               /\ times'[current'[d]][next'[d][current'[d]]] > 0
    <3>1. CASE d = c
      BY <1>1, <1>2, <1>4, <3>1 DEF ConsumerInv, TypeOK, Remaining
    <3>2. CASE d # c
      <4>1. /\ current'[d] = current[d] /\ current[d] \in Partitions /\ Remaining(d, current[d])
            /\ times[current[d]][next[d][current[d]]] > 0
        BY <1>1, <1>2, <2>1, <3>2 DEF ConsumerInv, TypeOK, LoopInv
      <4>2. next[d][current[d]] \in Offsets
        <5>1. {next[d][current[d]], stop[d][current[d]]} \subseteq 0 .. MaxLog
          BY <4>1 DEF ConsumerInv, TypeOK
        <5> QED
          BY <4>1, <5>1, MaxLogIsNat DEF Remaining, Offsets
      <4> QED
        BY <1>2, <1>4, <4>1, <4>2 DEF Remaining
    <3> QED
      BY <3>1, <3>2
  <2>2. ASSUME NEW d \in Consumers, phase'[d] \in {"poll", "dead"}, NEW q \in Partitions
        PROVE  ~ Remaining(d, q)'
    BY <1>2, <2>2 DEF ConsumerInv, TypeOK, LoopInv, Remaining
  <2> QED
    BY <2>1, <2>2 DEF LoopInv
<1>7. OffsetAfterDatabase'
  <2>1. ASSUME NEW q \in Partitions, committed[q] > 0
        PROVE  times'[q][committed[q] - 1] > 0
    <3>1. times[q][committed[q] - 1] > 0
      BY <2>1 DEF ConsumerInv, OffsetAfterDatabase
    <3>2. committed[q] \in 0 .. MaxLog
      BY DEF ConsumerInv, TypeOK
    <3>3. committed[q] - 1 \in Offsets
      BY <2>1, <3>2, MaxLogIsNat DEF Offsets
    <3> QED
      BY <1>4, <3>1, <3>3
  <2> QED
    BY <1>2, <2>1 DEF OffsetAfterDatabase
<1>8. NoGap'
  BY <1>2, <1>4
     DEF ConsumerInv, NoGap, HandledBelow, Behind, Synchronous, GoneBack, Remaining
<1> QED
  BY <1>5, <1>6, <1>7, <1>8 DEF ConsumerInv

\* A message given up: a failure, after which NoGap claims nothing.
LEMMA HandleFailsKeeps ==
    ASSUME ConsumerInv, NEW c \in Consumers, HandleFails(c) PROVE ConsumerInv'
<1>1. PICK p \in Partitions :
         /\ Remaining(c, p)
         /\ next' = [next EXCEPT ![c][p] = @ + 1]
         /\ current' = [current EXCEPT ![c] = p]
  BY DEF HandleFails, AtPartition, Advance
<1>2. /\ phase[c] = "work" /\ failures' = failures + 1
      /\ UNCHANGED <<end, committed, owner, position, rebalances, phase, stop, times, crashes>>
  BY DEF HandleFails, brokerVars, groupVars
<1>3. next[c][p] + 1 \in 0 .. MaxLog
  <2>1. {next[c][p], stop[c][p]} \subseteq 0 .. MaxLog
    BY DEF ConsumerInv, TypeOK
  <2> QED
    BY <1>1, <2>1, MaxLogIsNat DEF Remaining
<1>4. TypeOK'
  BY <1>1, <1>2, <1>3 DEF ConsumerInv, TypeOK
<1>5. ASSUME NEW d \in Consumers, phase[d] # "work"
      PROVE  d # c /\ next'[d] = next[d] /\ current'[d] = current[d]
  BY <1>1, <1>2, <1>5 DEF ConsumerInv, TypeOK
<1>6. LoopInv'
  BY <1>2, <1>5 DEF ConsumerInv, LoopInv, Remaining
<1>7. OffsetAfterDatabase'
  BY <1>2 DEF ConsumerInv, OffsetAfterDatabase
<1>8. NoGap'
  BY <1>2 DEF ConsumerInv, TypeOK, NoGap
<1> QED
  BY <1>4, <1>6, <1>7, <1>8 DEF ConsumerInv

\* The offset in front of which everything is handled moves over one message
\* that is handled.
LEMMA CommitOffsetKeeps ==
    ASSUME ConsumerInv, NEW c \in Consumers, CommitOffset(c) PROVE ConsumerInv'
<1> DEFINE p == current[c]
           o1 == next[c][p]
<1>1. /\ phase[c] = "commit" /\ phase' = [phase EXCEPT ![c] = "work"]
      /\ committed' = [committed EXCEPT ![p] = o1 + 1]
      /\ next' = [next EXCEPT ![c][p] = @ + 1]
      /\ UNCHANGED <<end, owner, position, rebalances, stop, current, times, crashes, failures>>
  BY DEF CommitOffset, Advance, groupVars
<1>2. p \in Partitions /\ Remaining(c, p) /\ times[p][o1] > 0
  BY <1>1 DEF ConsumerInv, LoopInv
<1>3. o1 \in Nat /\ o1 + 1 \in 0 .. MaxLog
  <2>1. {o1, stop[c][p]} \subseteq 0 .. MaxLog
    BY <1>2 DEF ConsumerInv, TypeOK
  <2> QED
    BY <1>2, <2>1, MaxLogIsNat DEF Remaining
<1>4. /\ next'[c][p] = o1 + 1 /\ committed'[p] = o1 + 1
      /\ \A q \in Partitions : q # p => next'[c][q] = next[c][q] /\ committed'[q] = committed[q]
      /\ \A d \in Consumers : d # c => next'[d] = next[d]
  BY <1>1, <1>2 DEF ConsumerInv, TypeOK
<1>5. TypeOK'
  BY <1>1, <1>2, <1>3 DEF ConsumerInv, TypeOK, Phases
<1> HIDE DEF p, o1
<1>6. LoopInv'
  <2>1. ASSUME NEW d \in Consumers, phase'[d] # "work"
        PROVE  d # c /\ phase'[d] = phase[d]
    BY <1>1, <2>1 DEF ConsumerInv, TypeOK
  <2> QED
    BY <1>1, <1>4, <2>1 DEF ConsumerInv, LoopInv, Remaining
<1>7. OffsetAfterDatabase'
  <2>1. ASSUME NEW q \in Partitions, committed'[q] > 0 PROVE times[q][committed'[q] - 1] > 0
    <3>1. CASE q = p
      BY <1>2, <1>3, <1>4, <3>1
    <3>2. CASE q # p
      BY <1>4, <2>1, <3>2 DEF ConsumerInv, OffsetAfterDatabase
    <3> QED
      BY <3>1, <3>2
  <2> QED
    BY <1>1, <2>1 DEF OffsetAfterDatabase
<1>8. ASSUME failures = 0 PROVE NoGap'
  <2> USE <1>8
  <2>1. HandledBelow(p, o1 + 1)
    <3>1. HandledBelow(p, o1)
      BY <1>2 DEF ConsumerInv, NoGap, o1
    <3>2. ASSUME NEW o \in Offsets, o < o1 + 1 PROVE times[p][o] > 0
      <4>1. o < o1 \/ o = o1
        BY <1>3, <3>2 DEF Offsets
      <4> QED
        BY <1>2, <3>1, <4>1 DEF HandledBelow
    <3> QED
      BY <3>2 DEF HandledBelow
  <2>2. ASSUME NEW q \in Partitions PROVE HandledBelow(q, committed'[q])
    BY <1>4, <2>1 DEF ConsumerInv, NoGap
  <2>3. ASSUME NEW d \in Consumers, NEW q \in Partitions, Remaining(d, q)'
        PROVE  Remaining(d, q) /\ HandledBelow(q, next'[d][q])
    <3>1. CASE d = c /\ q = p
      BY <1>2, <1>4, <2>1, <3>1
    <3>2. CASE ~ (d = c /\ q = p)
      <4>1. next'[d][q] = next[d][q]
        BY <1>4, <3>2
      <4> QED
        BY <1>1, <2>3, <4>1 DEF ConsumerInv, NoGap, Remaining
    <3> QED
      BY <3>1, <3>2
  <2>4. ASSUME NEW d \in Consumers, NEW q \in Partitions, owner[q] = d, NEW o \in Offsets,
               o < position[q]
        PROVE  times[q][o] > 0 \/ (next'[d][q] <= o /\ o < stop[d][q])
    <3>1. times[q][o] > 0 \/ (next[d][q] <= o /\ o < stop[d][q])
      BY <2>4 DEF ConsumerInv, NoGap, Behind
    <3>2. CASE d = c /\ q = p
      <4>1. next[d][q] = o1 /\ next'[d][q] = o1 + 1
        BY <1>4, <3>2 DEF p, o1
      <4>2. ~ o1 <= o \/ o = o1 \/ o1 + 1 <= o
        BY <1>3 DEF Offsets
      <4> QED
        BY <1>2, <3>1, <3>2, <4>1, <4>2
    <3>3. CASE ~ (d = c /\ q = p)
      BY <1>4, <3>1, <3>3
    <3> QED
      BY <3>2, <3>3
  <2>5. ASSUME NEW d \in Consumers
        PROVE  \/ \A q \in Partitions : Remaining(d, q)' => owner[q] = d
               \/ GoneBack(d)
    BY <2>3 DEF ConsumerInv, NoGap, Synchronous
  <2> QED
    BY <1>1, <2>2, <2>3, <2>4, <2>5
       DEF NoGap, HandledBelow, Behind, Synchronous, GoneBack
<1>9. NoGap'
  BY <1>1, <1>8 DEF NoGap
<1> QED
  BY <1>5, <1>6, <1>7, <1>9 DEF ConsumerInv

-----------------------------------------------------------------------------
(* Steps that give up the batch                                            *)

\* What every such step leaves alone, and where its consumer is afterwards.
Dropped(c) ==
    /\ Drop(c)
    /\ \E place \in {"poll", "dead"} : phase' = [phase EXCEPT ![c] = place]
    /\ \A p \in Partitions : owner'[p] = owner[p] \/ (owner[p] = c /\ owner'[p] = None)
    /\ owner' \in [Partitions -> Consumers \cup {None}]
    /\ UNCHANGED <<end, position, rebalances, times>>

LEMMA DroppedBatch ==
    ASSUME ConsumerInv, NEW c \in Consumers, Dropped(c)
    PROVE  /\ \A p \in Partitions : ~ Remaining(c, p)'
           /\ \A d \in Consumers \ {c} :
                 /\ next'[d] = next[d] /\ stop'[d] = stop[d]
                 /\ current'[d] = current[d] /\ phase'[d] = phase[d]
           /\ next' \in [Consumers -> [Partitions -> 0 .. MaxLog]]
           /\ stop' \in [Consumers -> [Partitions -> 0 .. MaxLog]]
           /\ current' \in [Consumers -> Partitions \cup {None}]
           /\ phase' \in [Consumers -> Phases]
           /\ phase'[c] \in {"poll", "dead"}
<1>1. /\ next' = [next EXCEPT ![c] = [p \in Partitions |-> 0]]
      /\ stop' = [stop EXCEPT ![c] = [p \in Partitions |-> 0]]
      /\ current' = [current EXCEPT ![c] = None]
  BY DEF Dropped, Drop
<1>2. [p \in Partitions |-> 0] \in [Partitions -> 0 .. MaxLog]
  BY MaxLogIsNat
<1>3. \A p \in Partitions : ~ Remaining(c, p)'
  BY <1>1 DEF ConsumerInv, TypeOK, Remaining
<1>4. /\ next' \in [Consumers -> [Partitions -> 0 .. MaxLog]]
      /\ stop' \in [Consumers -> [Partitions -> 0 .. MaxLog]]
  BY <1>1, <1>2 DEF ConsumerInv, TypeOK
<1>5. /\ current' \in [Consumers -> Partitions \cup {None}]
      /\ phase' \in [Consumers -> Phases]
      /\ phase'[c] \in {"poll", "dead"}
  BY <1>1 DEF ConsumerInv, TypeOK, Dropped, Phases
<1>6. \A d \in Consumers \ {c} :
         /\ next'[d] = next[d] /\ stop'[d] = stop[d]
         /\ current'[d] = current[d] /\ phase'[d] = phase[d]
  BY <1>1 DEF ConsumerInv, TypeOK, Dropped
<1> QED
  BY <1>3, <1>4, <1>5, <1>6

LEMMA DroppedLoop ==
    ASSUME ConsumerInv, NEW c \in Consumers, Dropped(c) PROVE LoopInv'
<1>1. ASSUME NEW d \in Consumers, phase'[d] \in {"poll", "dead"}, NEW p \in Partitions
      PROVE  ~ Remaining(d, p)'
  <2>1. CASE d = c
    BY <2>1, DroppedBatch
  <2>2. CASE d # c
    BY <1>1, <2>2, DroppedBatch DEF ConsumerInv, LoopInv, Remaining
  <2> QED
    BY <2>1, <2>2
<1>2. ASSUME NEW d \in Consumers, phase'[d] = "commit"
      PROVE  /\ current'[d] \in Partitions
             /\ Remaining(d, current[d])'
             /\ times'[current'[d]][next'[d][current'[d]]] > 0
  <2>1. d # c
    BY <1>2, DroppedBatch
  <2>2. times' = times
    BY DEF Dropped
  <2> QED
    BY <1>2, <2>1, <2>2, DroppedBatch DEF ConsumerInv, LoopInv, Remaining
<1> QED
  BY <1>1, <1>2 DEF LoopInv

\* Nothing is left behind, if what the consumer still owns was handled up to
\* its position.
LEMMA DroppedNoGap ==
    ASSUME ConsumerInv, NEW c \in Consumers, Dropped(c),
           UNCHANGED <<committed, failures>>,
           failures = 0 =>
               \A p \in Partitions : owner'[p] = c => HandledBelow(p, position[p])
    PROVE  NoGap'
<1> SUFFICES ASSUME failures = 0 PROVE NoGap'
  BY DEF NoGap
<1>1. /\ \A p \in Partitions : owner'[p] = owner[p] \/ (owner[p] = c /\ owner'[p] = None)
      /\ UNCHANGED <<position, times>>
  BY DEF Dropped
<1>2. \A d \in Consumers, p \in Partitions : owner'[p] = d => owner[p] = d
  BY <1>1 DEF ConsumerAssumptions
<1>3. \A p \in Partitions : HandledBelow(p, committed[p])'
  BY <1>1 DEF ConsumerInv, NoGap, HandledBelow
<1>4. ASSUME NEW d \in Consumers, NEW p \in Partitions, Remaining(d, p)'
      PROVE  HandledBelow(p, next[d][p])'
  <2>1. d # c
    BY <1>4, DroppedBatch
  <2> QED
    BY <1>1, <1>4, <2>1, DroppedBatch DEF ConsumerInv, NoGap, HandledBelow, Remaining
<1>5. ASSUME NEW d \in Consumers, NEW p \in Partitions, owner'[p] = d
      PROVE  Behind(d, p)'
  <2>1. CASE d = c
    BY <1>1, <1>5, <2>1 DEF HandledBelow, Behind
  <2>2. CASE d # c
    BY <1>1, <1>2, <1>5, <2>2, DroppedBatch DEF ConsumerInv, NoGap, Behind
  <2> QED
    BY <2>1, <2>2
<1>6. ASSUME NEW d \in Consumers PROVE (Synchronous(d) \/ GoneBack(d))'
  <2>1. CASE d = c
    BY <2>1, DroppedBatch DEF Synchronous
  <2>2. ASSUME d # c, GoneBack(d) PROVE GoneBack(d)'
    BY <1>1, <1>2, <2>2 DEF GoneBack, HandledBelow
  <2>3. ASSUME d # c, Synchronous(d) PROVE Synchronous(d)'
    BY <1>1, <2>3, DroppedBatch DEF Synchronous, Remaining
  <2> QED
    BY <2>1, <2>2, <2>3 DEF ConsumerInv, NoGap
<1> QED
  BY <1>3, <1>4, <1>5, <1>6 DEF NoGap

\* The partition has moved: the batch was not synchronous any more, so the
\* consumer went back and everything in front of its positions is handled.
LEMMA CommitRefusedKeeps ==
    ASSUME ConsumerInv, NEW c \in Consumers, CommitRefused(c) PROVE ConsumerInv'
<1>1. /\ phase[c] = "commit" /\ owner[current[c]] # c
      /\ UNCHANGED <<end, committed, owner, position, rebalances, times, crashes, failures>>
  BY DEF CommitRefused, brokerVars, groupVars
<1>2. Dropped(c)
  BY <1>1 DEF CommitRefused, Dropped, ConsumerInv, TypeOK
<1>3. TypeOK'
  BY <1>1, <1>2, DroppedBatch DEF ConsumerInv, TypeOK
<1>4. OffsetAfterDatabase'
  BY <1>1 DEF ConsumerInv, OffsetAfterDatabase
<1>5. ~ Synchronous(c)
  BY <1>1 DEF ConsumerInv, LoopInv, Synchronous
<1>6. failures = 0 => GoneBack(c)
  BY <1>5 DEF ConsumerInv, NoGap
<1>7. NoGap'
  BY <1>1, <1>2, <1>6, DroppedNoGap DEF GoneBack
<1> QED
  BY <1>2, <1>3, <1>4, <1>7, DroppedLoop DEF ConsumerInv

LEMMA CommitFailsKeeps ==
    ASSUME ConsumerInv, NEW c \in Consumers, CommitFails(c) PROVE ConsumerInv'
<1> DEFINE p == current[c]
           o1 == next[c][p]
<1>1. /\ phase[c] = "commit" /\ failures' = failures + 1
      /\ committed' = committed \/ committed' = [committed EXCEPT ![p] = o1 + 1]
      /\ UNCHANGED <<end, owner, position, rebalances, times, crashes>>
  BY DEF CommitFails, groupVars
<1>2. Dropped(c)
  BY <1>1 DEF CommitFails, Dropped, ConsumerInv, TypeOK
<1>3. p \in Partitions /\ Remaining(c, p) /\ times[p][o1] > 0
  BY <1>1 DEF ConsumerInv, LoopInv
<1>4. o1 \in Nat /\ o1 + 1 \in 0 .. MaxLog
  <2>1. {o1, stop[c][p]} \subseteq 0 .. MaxLog
    BY <1>3 DEF ConsumerInv, TypeOK
  <2> QED
    BY <1>3, <2>1, MaxLogIsNat DEF Remaining
<1>5. \A q \in Partitions : committed'[q] = committed[q] \/ (q = p /\ committed'[q] = o1 + 1)
  BY <1>1, <1>3 DEF ConsumerInv, TypeOK
<1>6. committed' \in [Partitions -> 0 .. MaxLog]
  BY <1>1, <1>3, <1>4 DEF ConsumerInv, TypeOK
<1> HIDE DEF p, o1
<1>7. TypeOK'
  BY <1>1, <1>2, <1>6, DroppedBatch DEF ConsumerInv, TypeOK
<1>8. OffsetAfterDatabase'
  <2>1. ASSUME NEW q \in Partitions, committed'[q] > 0 PROVE times[q][committed'[q] - 1] > 0
    <3>1. CASE q = p /\ committed'[q] = o1 + 1
      BY <1>3, <1>4, <3>1
    <3>2. CASE committed'[q] = committed[q]
      BY <2>1, <3>2 DEF ConsumerInv, OffsetAfterDatabase
    <3> QED
      BY <1>5, <3>1, <3>2
  <2> QED
    BY <1>1, <2>1 DEF OffsetAfterDatabase
<1>9. NoGap'
  BY <1>1 DEF ConsumerInv, TypeOK, NoGap
<1> QED
  BY <1>2, <1>7, <1>8, <1>9, DroppedLoop DEF ConsumerInv

LEMMA NextPollKeeps ==
    ASSUME ConsumerInv, NEW c \in Consumers, NextPoll(c) PROVE ConsumerInv'
<1>1. /\ phase[c] = "work" /\ \A p \in Partitions : ~ Remaining(c, p)
      /\ UNCHANGED <<end, committed, owner, position, rebalances, times, crashes, failures>>
  BY DEF NextPoll, brokerVars, groupVars
<1>2. Dropped(c)
  BY <1>1 DEF NextPoll, Dropped, ConsumerInv, TypeOK
<1>3. TypeOK'
  BY <1>1, <1>2, DroppedBatch DEF ConsumerInv, TypeOK
<1>4. OffsetAfterDatabase'
  BY <1>1 DEF ConsumerInv, OffsetAfterDatabase
<1>5. ASSUME failures = 0, NEW p \in Partitions, owner[p] = c
      PROVE  HandledBelow(p, position[p])
  <2>1. {next[c][p], stop[c][p]} \subseteq 0 .. MaxLog /\ ~ next[c][p] < stop[c][p]
    BY <1>1 DEF ConsumerInv, TypeOK, Remaining
  <2>2. Behind(c, p)
    BY <1>5 DEF ConsumerInv, NoGap
  <2> QED
    BY <2>1, <2>2, MaxLogIsNat DEF Behind, HandledBelow, Offsets
<1>6. NoGap'
  BY <1>1, <1>2, <1>5, DroppedNoGap
<1> QED
  BY <1>2, <1>3, <1>4, <1>6, DroppedLoop DEF ConsumerInv

LEMMA CrashKeeps == ASSUME ConsumerInv, NEW c \in Consumers, Crash(c) PROVE ConsumerInv'
<1>1. /\ crashes' = crashes + 1
      /\ owner' = [p \in Partitions |-> IF owner[p] = c THEN None ELSE owner[p]]
      /\ UNCHANGED <<end, committed, position, rebalances, times, failures>>
  BY DEF Crash, brokerVars
<1>2. Dropped(c)
  BY <1>1 DEF Crash, Dropped, ConsumerInv, TypeOK
<1>3. TypeOK'
  <2>1. owner' \in [Partitions -> Consumers \cup {None}]
    BY <1>2 DEF Dropped
  <2>2. {rebalances, crashes, failures}' \subseteq Nat
    BY <1>1 DEF ConsumerInv, TypeOK
  <2> QED
    BY <1>1, <1>2, <2>1, <2>2, DroppedBatch DEF ConsumerInv, TypeOK
<1>4. OffsetAfterDatabase'
  BY <1>1 DEF ConsumerInv, OffsetAfterDatabase
<1>5. \A p \in Partitions : owner'[p] # c
  BY <1>1 DEF ConsumerAssumptions
<1>6. NoGap'
  BY <1>1, <1>2, <1>5, DroppedNoGap
<1> QED
  BY <1>2, <1>3, <1>4, <1>6, DroppedLoop DEF ConsumerInv

LEMMA RestartKeeps == ASSUME ConsumerInv, NEW c \in Consumers, Restart(c) PROVE ConsumerInv'
<1>1. /\ phase[c] = "dead" /\ phase' = [phase EXCEPT ![c] = "poll"]
      /\ UNCHANGED <<end, committed, owner, position, rebalances, next, stop, current, times,
                     crashes, failures>>
  BY DEF Restart, brokerVars, groupVars
<1>2. TypeOK'
  BY <1>1 DEF ConsumerInv, TypeOK, Phases
<1>3. LoopInv'
  BY <1>1 DEF ConsumerInv, TypeOK, LoopInv, Remaining
<1>4. OffsetAfterDatabase'
  BY <1>1 DEF ConsumerInv, OffsetAfterDatabase
<1>5. NoGap'
  BY <1>1 DEF ConsumerInv, NoGap, HandledBelow, Behind, Synchronous, GoneBack, Remaining
<1> QED
  BY <1>2, <1>3, <1>4, <1>5 DEF ConsumerInv

-----------------------------------------------------------------------------
(* The number of times a message is handled                                *)

\* A message c has in its batch and has not handled.
Pending(c, p, o) ==
    /\ next[c][p] <= o /\ o < stop[c][p]
    /\ ~ (phase[c] = "commit" /\ current[c] = p /\ next[c][p] = o)

Carriers(p, o) == {c \in Consumers : Pending(c, p, o)}

\* The owner of p is still to fetch o.
Ahead(p, o) == IF rebalances > 0 /\ position[p] <= o THEN 1 ELSE 0

\* Each assignment of the partitions allows one handling of a message: one that
\* took place, one that a batch is for, or one of a message to be fetched.
Budget(p, o) ==
    /\ IsFiniteSet(Carriers(p, o))
    /\ times[p][o] + Cardinality(Carriers(p, o)) + Ahead(p, o) <= rebalances

BudgetInv ==
    /\ rebalances = 0 => \A p \in Partitions : owner[p] = None
    /\ \A p \in Partitions, o \in Offsets : Budget(p, o)

LEMMA InitBudget == Init => BudgetInv
<1> SUFFICES ASSUME Init PROVE BudgetInv
  OBVIOUS
<1>1. ASSUME NEW p \in Partitions, NEW o \in Offsets PROVE Budget(p, o)
  <2>1. \A c \in Consumers : ~ Pending(c, p, o)
    BY DEF Init, Pending, Offsets
  <2>2. Carriers(p, o) = {}
    BY <2>1 DEF Carriers
  <2>3. times[p][o] = 0 /\ rebalances = 0
    BY DEF Init
  <2> QED
    BY <2>2, <2>3, FS_EmptySet DEF Budget, Ahead
<1>2. \A p \in Partitions : owner[p] = None
  BY DEF Init
<1> QED
  BY <1>1, <1>2 DEF BudgetInv

\* A message stays within its budget when no batch and no position takes it up.
LEMMA BudgetStays ==
    ASSUME ConsumerInv, NEW p \in Partitions, NEW o \in Offsets, Budget(p, o),
           \A c \in Consumers : Pending(c, p, o)' => Pending(c, p, o),
           times'[p][o] = times[p][o], position'[p] = position[p], rebalances' = rebalances
    PROVE  Budget(p, o)'
<1> DEFINE C1 == Carriers(p, o)
           C2 == Carriers(p, o)'
<1>1. C2 \subseteq C1 /\ IsFiniteSet(C1)
  BY DEF Carriers, Budget
<1>2. /\ IsFiniteSet(C2) /\ Cardinality(C2) <= Cardinality(C1)
      /\ Cardinality(C1) \in Nat /\ Cardinality(C2) \in Nat
  BY <1>1, FS_Subset, FS_CardinalityType
<1>3. times[p][o] \in Nat /\ rebalances \in Nat /\ Ahead(p, o) \in Nat
  BY DEF ConsumerInv, TypeOK, Ahead
<1>4. Ahead(p, o)' = Ahead(p, o)
  BY DEF Ahead
<1>5. times[p][o] + Cardinality(C1) + Ahead(p, o) <= rebalances
  BY DEF Budget
<1> HIDE DEF C1, C2
<1>6. times[p][o] + Cardinality(C2) + Ahead(p, o) <= rebalances
  BY <1>2, <1>3, <1>5
<1> QED
  BY <1>2, <1>4, <1>6 DEF Budget, C2

\* A step that takes no message up leaves every one within its budget.
LEMMA NothingTaken ==
    ASSUME ConsumerInv, BudgetInv, UNCHANGED <<position, times, rebalances>>,
           \A p \in Partitions : owner[p] = None => owner'[p] = None,
           \A c \in Consumers, p \in Partitions, o \in Offsets :
              Pending(c, p, o)' => Pending(c, p, o)
    PROVE  BudgetInv'
<1>1. ASSUME NEW p \in Partitions, NEW o \in Offsets PROVE Budget(p, o)'
  BY <1>1, BudgetStays DEF BudgetInv
<1> QED
  BY <1>1 DEF BudgetInv

LEMMA DropsBudget ==
    ASSUME ConsumerInv, BudgetInv, NEW c \in Consumers, Dropped(c) PROVE BudgetInv'
<1>1. ASSUME NEW d \in Consumers, NEW p \in Partitions, NEW o \in Offsets, Pending(d, p, o)'
      PROVE  Pending(d, p, o)
  <2>1. CASE d = c
    <3>1. next'[c][p] \in Nat /\ stop'[c][p] \in Nat /\ o \in Nat
      BY DroppedBatch DEF Offsets
    <3>2. ~ next'[c][p] < stop'[c][p]
      BY DroppedBatch DEF Remaining
    <3> QED
      BY <1>1, <2>1, <3>1, <3>2 DEF Pending
  <2>2. CASE d # c
    BY <1>1, <2>2, DroppedBatch DEF Pending
  <2> QED
    BY <2>1, <2>2
<1> QED
  BY <1>1, NothingTaken DEF Dropped

\* Every position goes back: the next assignment of the message begins.
LEMMA RebalanceBudget == ASSUME ConsumerInv, BudgetInv, Rebalance PROVE BudgetInv'
<1>1. UNCHANGED <<phase, next, stop, current, times>> /\ rebalances' = rebalances + 1
  BY DEF Rebalance, loopVars
<1>2. rebalances \in Nat /\ rebalances' # 0
  BY <1>1 DEF ConsumerInv, TypeOK
<1>3. ASSUME NEW p \in Partitions, NEW o \in Offsets PROVE Budget(p, o)'
  <2>1. Budget(p, o) /\ times[p][o] \in Nat /\ times' = times
    BY <1>1 DEF BudgetInv, ConsumerInv, TypeOK
  <2>2. Carriers(p, o)' = Carriers(p, o)
    BY <1>1 DEF Carriers, Pending
  <2>3. Cardinality(Carriers(p, o)) \in Nat
    BY <2>1, FS_CardinalityType DEF Budget
  <2>4. Ahead(p, o) \in 0..1 /\ Ahead(p, o)' \in 0..1
    BY DEF Ahead
  <2>5. times[p][o] + Cardinality(Carriers(p, o)) + Ahead(p, o)' <= rebalances + 1
    BY <1>2, <2>1, <2>3, <2>4 DEF Budget
  <2> QED
    BY <1>1, <2>1, <2>2, <2>5 DEF Budget
<1> QED
  BY <1>2, <1>3 DEF BudgetInv

\* The messages fetched are carried, and no longer ahead of the position.
LEMMA PollBudget ==
    ASSUME ConsumerInv, BudgetInv, NEW c \in Consumers, Poll(c) PROVE BudgetInv'
<1>0. Polled(c)
  BY PollEffect
<1>1. ASSUME NEW d \in Consumers \ {c}, NEW p \in Partitions, NEW o \in Offsets
      PROVE  Pending(d, p, o)' <=> Pending(d, p, o)
  BY <1>0 DEF Polled, ConsumerInv, TypeOK, Pending
<1>2. ASSUME NEW p \in Partitions, NEW o \in Offsets
      PROVE  /\ ~ Pending(c, p, o)
             /\ Pending(c, p, o)' <=> position[p] <= o /\ o < position'[p]
  <2>1. /\ next[c][p] \in Nat /\ stop[c][p] \in Nat /\ o \in Nat
        /\ phase[c] = "poll" /\ ~ next[c][p] < stop[c][p]
    BY <1>0 DEF Polled, ConsumerInv, TypeOK, LoopInv, Remaining, Offsets
  <2>2. phase'[c] = "work" /\ next'[c] = position /\ stop'[c] = position'
    BY <1>0 DEF Polled, ConsumerInv, TypeOK
  <2> QED
    BY <2>1, <2>2 DEF Pending
<1>3. /\ times' = times /\ rebalances' = rebalances /\ owner' = owner
      /\ \A p \in Partitions : position[p] \in Nat /\ position'[p] \in Nat
      /\ \A p \in Partitions : position'[p] # position[p] => owner[p] = c
      /\ \A p \in Partitions : position[p] <= position'[p]
  <2>1. \A p \in Partitions : position[p] \in 0 .. MaxLog /\ position'[p] \in 0 .. MaxLog
    BY <1>0 DEF Polled, ConsumerInv, TypeOK
  <2> QED
    BY <1>0, <2>1 DEF Polled
<1>4. ASSUME NEW p \in Partitions, NEW o \in Offsets PROVE Budget(p, o)'
  <2>1. Budget(p, o) /\ o \in Nat /\ times[p][o] \in Nat /\ rebalances \in Nat
    BY DEF BudgetInv, ConsumerInv, TypeOK, Offsets
  <2>2. CASE ~ (position[p] <= o /\ o < position'[p])
    <3>1. Carriers(p, o)' = Carriers(p, o)
      BY <1>1, <1>2, <2>2 DEF Carriers
    <3>2. Ahead(p, o)' = Ahead(p, o)
      BY <1>3, <2>1, <2>2 DEF Ahead
    <3> QED
      BY <1>3, <2>1, <3>1, <3>2 DEF Budget
  <2>3. CASE position[p] <= o /\ o < position'[p]
    <3>1. Carriers(p, o)' = Carriers(p, o) \cup {c} /\ c \notin Carriers(p, o)
      BY <1>1, <1>2, <2>3 DEF Carriers
    <3>2. /\ IsFiniteSet(Carriers(p, o)')
          /\ Cardinality(Carriers(p, o)') = Cardinality(Carriers(p, o)) + 1
      BY <2>1, <3>1, FS_AddElement DEF Budget
    <3>3. owner[p] = c /\ c # None
      BY <1>3, <2>1, <2>3 DEF ConsumerAssumptions
    <3>4. Ahead(p, o) = 1 /\ Ahead(p, o)' = 0
      BY <1>3, <2>1, <2>3, <3>3 DEF Ahead, BudgetInv
    <3>5. Cardinality(Carriers(p, o)) \in Nat
      BY <2>1, FS_CardinalityType DEF Budget
    <3> QED
      BY <1>3, <2>1, <3>2, <3>4, <3>5 DEF Budget
  <2> QED
    BY <2>2, <2>3
<1> QED
  BY <1>3, <1>4 DEF BudgetInv

\* The message handled was carried, and is no longer pending in its batch.
LEMMA HandleOkBudget ==
    ASSUME ConsumerInv, BudgetInv, NEW c \in Consumers, HandleOk(c) PROVE BudgetInv'
<1>1. PICK p \in Partitions :
         /\ Remaining(c, p)
         /\ times' = [times EXCEPT ![p][next[c][p]] = @ + 1]
         /\ current' = [current EXCEPT ![c] = p]
  BY DEF HandleOk, AtPartition
<1>2. /\ phase[c] = "work" /\ phase' = [phase EXCEPT ![c] = "commit"]
      /\ UNCHANGED <<owner, position, rebalances, next, stop>>
  BY DEF HandleOk, groupVars
<1> DEFINE n == next[c][p]
<1>3. n \in Offsets /\ n < stop[c][p]
  BY <1>1 DEF ConsumerInv, TypeOK, Remaining, Offsets
<1>4. ASSUME NEW d \in Consumers, NEW q \in Partitions, NEW o \in Offsets
      PROVE  Pending(d, q, o)' <=> Pending(d, q, o) /\ ~ (d = c /\ q = p /\ o = n)
  <2>1. CASE d = c
    BY <1>1, <1>2, <2>1 DEF ConsumerInv, TypeOK, Pending
  <2>2. CASE d # c
    BY <1>1, <1>2, <2>2 DEF ConsumerInv, TypeOK, Pending
  <2> QED
    BY <2>1, <2>2
<1>5. Pending(c, p, n)
  <2>1. n <= n
    BY <1>3 DEF Offsets
  <2> QED
    BY <1>2, <1>3, <2>1 DEF Pending
<1>6. ASSUME NEW q \in Partitions, NEW o \in Offsets PROVE Budget(q, o)'
  <2>1. Budget(q, o) /\ times[q][o] \in Nat /\ rebalances \in Nat
    BY DEF BudgetInv, ConsumerInv, TypeOK
  <2>2. CASE q = p /\ o = n
    <3>1. Carriers(q, o)' = Carriers(q, o) \ {c} /\ c \in Carriers(q, o)
      BY <1>4, <1>5, <2>2 DEF Carriers
    <3>2. /\ IsFiniteSet(Carriers(q, o)') /\ Cardinality(Carriers(q, o)) \in Nat
          /\ Cardinality(Carriers(q, o)') = Cardinality(Carriers(q, o)) - 1
      BY <2>1, <3>1, FS_RemoveElement, FS_CardinalityType DEF Budget
    <3>3. times'[q][o] = times[q][o] + 1
      BY <1>1, <1>3, <2>2 DEF ConsumerInv, TypeOK
    <3>4. Ahead(q, o)' = Ahead(q, o) /\ Ahead(q, o) \in Nat /\ rebalances' = rebalances
      BY <1>2 DEF Ahead
    <3> QED
      BY <2>1, <3>2, <3>3, <3>4 DEF Budget
  <2>3. CASE ~ (q = p /\ o = n)
    <3>1. times'[q][o] = times[q][o]
      BY <1>1, <1>3, <2>3 DEF ConsumerInv, TypeOK
    <3> QED
      BY <1>2, <1>4, <2>1, <3>1, BudgetStays
  <2> QED
    BY <2>2, <2>3
<1> QED
  BY <1>2, <1>6 DEF BudgetInv

\* The loop moves past a message that it gave up or that was not pending any more.
LEMMA AdvanceBudget ==
    ASSUME ConsumerInv, BudgetInv, NEW c \in Consumers, HandleFails(c) \/ CommitOffset(c)
    PROVE  BudgetInv'
<1>1. PICK p \in Partitions : /\ Remaining(c, p)
                              /\ next' = [next EXCEPT ![c][p] = @ + 1]
                              /\ phase[c] = "commit" => current[c] = p
  <2>1. CASE HandleFails(c)
    BY <2>1 DEF HandleFails, AtPartition, Advance
  <2>2. CASE CommitOffset(c)
    BY <2>2 DEF CommitOffset, Advance, ConsumerInv, LoopInv
  <2> QED
    BY <2>1, <2>2
<1>2. /\ UNCHANGED <<owner, position, rebalances, stop, times>>
      /\ phase'[c] = "work"
      /\ \A d \in Consumers \ {c} : phase'[d] = phase[d] /\ current'[d] = current[d]
  BY DEF HandleFails, CommitOffset, groupVars, ConsumerInv, TypeOK
<1>3. /\ next[c][p] \in Nat /\ next'[c][p] = next[c][p] + 1
      /\ \A q \in Partitions \ {p} : next'[c][q] = next[c][q]
      /\ \A d \in Consumers \ {c} : next'[d] = next[d]
  BY <1>1 DEF ConsumerInv, TypeOK
<1>4. ASSUME NEW d \in Consumers, NEW q \in Partitions, NEW o \in Offsets, Pending(d, q, o)'
      PROVE  Pending(d, q, o)
  <2>1. CASE d # c
    BY <1>2, <1>3, <1>4, <2>1 DEF Pending
  <2>2. CASE d = c /\ q = p
    BY <1>2, <1>3, <1>4, <2>2 DEF Pending, Offsets
  <2>3. CASE d = c /\ q # p
    BY <1>1, <1>2, <1>3, <1>4, <2>3 DEF Pending
  <2> QED
    BY <2>1, <2>2, <2>3
<1> QED
  BY <1>2, <1>4, NothingTaken

LEMMA BudgetStep == ConsumerInv /\ BudgetInv /\ [Next]_vars => BudgetInv'
<1> SUFFICES ASSUME ConsumerInv, BudgetInv, [Next]_vars PROVE BudgetInv'
  OBVIOUS
<1>1. CASE UNCHANGED vars
  BY <1>1, NothingTaken DEF vars, brokerVars, groupVars, loopVars, Pending
<1>2. ASSUME NEW p \in Partitions, Publish(p) PROVE BudgetInv'
  BY <1>2, NothingTaken DEF Publish, groupVars, loopVars, Pending
<1>3. ASSUME NEW c \in Consumers, CommitRefused(c) \/ CommitFails(c) \/ NextPoll(c) \/ Crash(c)
      PROVE  BudgetInv'
  <2>1. CASE CommitRefused(c)
    BY <2>1, DropsBudget DEF CommitRefused, Dropped, brokerVars, groupVars, ConsumerInv, TypeOK
  <2>2. CASE CommitFails(c)
    BY <2>2, DropsBudget DEF CommitFails, Dropped, groupVars, ConsumerInv, TypeOK
  <2>3. CASE NextPoll(c)
    BY <2>3, DropsBudget DEF NextPoll, Dropped, brokerVars, groupVars, ConsumerInv, TypeOK
  <2>4. CASE Crash(c)
    BY <2>4, DropsBudget DEF Crash, Dropped, brokerVars, ConsumerInv, TypeOK
  <2> QED
    BY <1>3, <2>1, <2>2, <2>3, <2>4
<1>4. ASSUME NEW c \in Consumers, Restart(c) PROVE BudgetInv'
  <2>1. UNCHANGED <<owner, position, rebalances, next, stop, current, times>>
        /\ phase[c] = "dead" /\ phase' = [phase EXCEPT ![c] = "poll"]
    BY <1>4 DEF Restart, groupVars
  <2>2. \A d \in Consumers : phase[d] = "commit" => phase'[d] = "commit"
    BY <2>1 DEF ConsumerInv, TypeOK
  <2> QED
    BY <2>1, <2>2, NothingTaken DEF Pending
<1> QED
  BY <1>1, <1>2, <1>3, <1>4, RebalanceBudget, PollBudget, HandleOkBudget, AdvanceBudget
     DEF Next, LoopStep

-----------------------------------------------------------------------------
(* The theorems                                                            *)

LEMMA StepKeeps == ConsumerInv /\ [Next]_vars => ConsumerInv'
<1> SUFFICES ASSUME ConsumerInv, [Next]_vars PROVE ConsumerInv'
  OBVIOUS
<1>1. CASE UNCHANGED vars
  BY <1>1 DEF vars, brokerVars, groupVars, loopVars, ConsumerInv, TypeOK, LoopInv,
     OffsetAfterDatabase, NoGap, HandledBelow, Behind, Synchronous, GoneBack, Remaining
<1>2. ASSUME NEW p \in Partitions, Publish(p) PROVE ConsumerInv'
  BY <1>2, PublishKeeps
<1>3. CASE Rebalance
  BY <1>3, RebalanceKeeps
<1>4. ASSUME NEW c \in Consumers, LoopStep(c) PROVE ConsumerInv'
  BY <1>4, PollKeeps, HandleOkKeeps, CommitOffsetKeeps, CommitRefusedKeeps, NextPollKeeps
     DEF LoopStep
<1>5. ASSUME NEW c \in Consumers,
             HandleFails(c) \/ CommitFails(c) \/ Crash(c) \/ Restart(c)
      PROVE  ConsumerInv'
  BY <1>5, HandleFailsKeeps, CommitFailsKeeps, CrashKeeps, RestartKeeps
<1> QED
  BY <1>1, <1>2, <1>3, <1>4, <1>5 DEF Next

\* In every reachable state of run(), of the group and of the broker, whatever
\* fails, the offsets follow the database and, as long as nothing failed, no
\* message was left behind.
THEOREM ConsumerInvariant == Spec => []ConsumerInv
<1>1. Init => ConsumerInv
  BY InitEstablishes
<1>2. ConsumerInv /\ [Next]_vars => ConsumerInv'
  BY StepKeeps
<1> QED
  BY <1>1, <1>2, PTL DEF Spec

\* The offsets, batches and positions of run() stay inside the log.
THEOREM ConsumerTypes == Spec => []TypeOK
<1>1. ConsumerInv => TypeOK
  BY DEF ConsumerInv
<1> QED
  BY <1>1, ConsumerInvariant, PTL

\* commit() follows the database transaction of its message, for every number
\* of workers, rebalances, crashes and failures.
THEOREM OffsetsFollowDatabase == Spec => []OffsetAfterDatabase
<1>1. ConsumerInv => OffsetAfterDatabase
  BY DEF ConsumerInv
<1> QED
  BY <1>1, ConsumerInvariant, PTL

\* Crashes and rebalances alone never make the group skip a message: the
\* batches of consumers that lost their partitions do no harm.
THEOREM NothingLeftBehind == Spec => []CrashesSkipNothing
<1>1. ConsumerInv => CrashesSkipNothing
  BY DEF ConsumerInv, NoGap, HandledBelow, CrashesSkipNothing, NothingSkipped
<1> QED
  BY <1>1, ConsumerInvariant, PTL

\* A message is handled at most once for each assignment of the partitions, however
\* many consumers still carry it in a stale batch.
THEOREM HandledOnce == Spec => []HandledOncePerAssignment
<1>1. Init => ConsumerInv /\ BudgetInv
  BY InitEstablishes, InitBudget
<1>2. ConsumerInv /\ BudgetInv /\ [Next]_vars => ConsumerInv' /\ BudgetInv'
  BY StepKeeps, BudgetStep
<1>3. ConsumerInv /\ BudgetInv => HandledOncePerAssignment
  <2> SUFFICES ASSUME ConsumerInv, BudgetInv, NEW p \in Partitions, NEW o \in Offsets
               PROVE  times[p][o] <= rebalances
    BY DEF HandledOncePerAssignment
  <2>1. Budget(p, o) /\ times[p][o] \in Nat /\ rebalances \in Nat /\ Ahead(p, o) \in Nat
    BY DEF BudgetInv, ConsumerInv, TypeOK, Ahead
  <2>2. Cardinality(Carriers(p, o)) \in Nat
    BY <2>1, FS_CardinalityType DEF Budget
  <2> QED
    BY <2>1, <2>2 DEF Budget
<1> QED
  BY <1>1, <1>2, <1>3, PTL DEF Spec

-----------------------------------------------------------------------------
(* What a failure costs                                                    *)

Carries(c, p, o) == next[c][p] <= o /\ o < stop[c][p]
BatchOf(c) == {x \in Partitions \X Offsets : Carries(c, x[1], x[2])}

\* The group may go on without ever reading o again: its offset is committed, or a
\* batch is past it, or the owner's position is, and it is not in the owner's batch.
\* A batch that a rebalance took a partition from does not count, as it may be
\* abandoned at its next commit.
Passed(p, o) ==
    \/ o < committed[p]
    \/ \E c \in Consumers : Remaining(c, p) /\ o < next[c][p]
    \/ \E c \in Consumers :
          owner[p] = c /\ o < position[p] /\ ~ (Synchronous(c) /\ Carries(c, p, o))

Stake(p, o) == times[p][o] = 0 /\ Passed(p, o)

\* The messages that may be skipped, those NothingSkipped speaks of among them.
AtStake == {x \in Partitions \X Offsets : Stake(x[1], x[2])}

\* Only a failure puts messages at stake, and only messages of the batch it struck.
FailuresCostABatch ==
    [][\/ AtStake' \subseteq AtStake
       \/ /\ failures' = failures + 1
          /\ \E c \in Consumers : AtStake' \ AtStake \subseteq BatchOf(c)]_vars

LEMMA NothingMoreAtStake ==
    ASSUME \A p \in Partitions, o \in Offsets : Stake(p, o)' => Stake(p, o)
    PROVE  AtStake' \subseteq AtStake
BY DEF AtStake, Offsets

LEMMA OnlyBatchAtStake ==
    ASSUME NEW c \in Consumers,
           \A p \in Partitions, o \in Offsets : Stake(p, o)' => Stake(p, o) \/ Carries(c, p, o)
    PROVE  AtStake' \ AtStake \subseteq BatchOf(c)
<1>1. Offsets' = Offsets
  BY DEF Offsets
<1>2. ASSUME NEW x \in AtStake', x \notin AtStake PROVE x \in BatchOf(c)
  <2>1. /\ x \in Partitions \X Offsets /\ Stake(x[1], x[2])' /\ ~ Stake(x[1], x[2])
        /\ x[1] \in Partitions /\ x[2] \in Offsets
    BY <1>1, <1>2 DEF AtStake
  <2>2. Carries(c, x[1], x[2])
    BY <2>1
  <2> QED
    BY <2>1, <2>2 DEF BatchOf
<1> QED
  BY <1>2

\* A batch given up: what may be skipped now is what was, and, if its consumer
\* still owns it, the batch.
LEMMA DroppedStake ==
    ASSUME ConsumerInv, NEW c \in Consumers, Dropped(c),
           NEW p \in Partitions, NEW o \in Offsets, Stake(p, o)',
           o < committed'[p] => Stake(p, o)
    PROVE  Stake(p, o) \/ (owner'[p] = c /\ Synchronous(c) /\ Carries(c, p, o))
<1>1. /\ \A q \in Partitions : owner'[q] = owner[q] \/ (owner[q] = c /\ owner'[q] = None)
      /\ UNCHANGED <<position, times>>
  BY DEF Dropped
<1>2. times[p][o] = 0 /\ Passed(p, o)'
  BY <1>1 DEF Stake
<1>3. None \notin Consumers
  BY DEF ConsumerAssumptions
<1>4. CASE o < committed'[p]
  BY <1>4
<1>5. ASSUME NEW d \in Consumers, Remaining(d, p)', o < next'[d][p] PROVE Stake(p, o)
  <2>1. d # c
    BY <1>5, DroppedBatch
  <2>2. Remaining(d, p) /\ o < next[d][p]
    BY <1>5, <2>1, DroppedBatch DEF Remaining
  <2> QED
    BY <1>2, <2>2 DEF Stake, Passed
<1>6. ASSUME NEW d \in Consumers, owner'[p] = d, o < position[p],
             ~ (Synchronous(d)' /\ Carries(d, p, o)')
      PROVE  Stake(p, o) \/ (owner'[p] = c /\ Synchronous(c) /\ Carries(c, p, o))
  <2>1. owner[p] = d
    BY <1>1, <1>3, <1>6
  <2>2. CASE d = c
    BY <1>2, <1>6, <2>1, <2>2 DEF Stake, Passed
  <2>3. CASE d # c
    <3>1. Carries(d, p, o)' <=> Carries(d, p, o)
      BY <2>3, DroppedBatch DEF Carries
    <3>2. Synchronous(d) => Synchronous(d)'
      BY <1>1, <2>3, DroppedBatch DEF Synchronous, Remaining
    <3> QED
      BY <1>2, <1>6, <2>1, <3>1, <3>2 DEF Stake, Passed
  <2> QED
    BY <2>2, <2>3
<1> QED
  BY <1>1, <1>2, <1>4, <1>5, <1>6 DEF Passed

\* The loop goes on: what may be skipped now is what was, and the message it goes
\* over.
LEMMA AdvanceStake ==
    ASSUME ConsumerInv, NEW c \in Consumers, NEW q \in Partitions, Remaining(c, q),
           Advance(c, q), UNCHANGED <<owner, position, stop, times>>,
           NEW p \in Partitions, NEW o \in Offsets, Stake(p, o)',
           o < committed'[p] => Stake(p, o) \/ (p = q /\ o = next[c][q])
    PROVE  Stake(p, o) \/ (p = q /\ o = next[c][q])
<1>1. SUFFICES ASSUME ~ (p = q /\ o = next[c][q]), ~ o < committed'[p] PROVE Stake(p, o)
  OBVIOUS
<1>2. /\ \A d \in Consumers, r \in Partitions :
            /\ next[d][r] \in Nat /\ stop[d][r] \in Nat
            /\ next'[d][r] = IF d = c /\ r = q THEN next[d][r] + 1 ELSE next[d][r]
      /\ o \in Nat
  <2>1. next \in [Consumers -> [Partitions -> 0 .. MaxLog]]
        /\ stop \in [Consumers -> [Partitions -> 0 .. MaxLog]]
    BY DEF ConsumerInv, TypeOK
  <2>2. next' = [next EXCEPT ![c][q] = @ + 1]
    BY DEF Advance
  <2>3. \A d \in Consumers, r \in Partitions :
           next'[d][r] = IF d = c /\ r = q THEN next[d][r] + 1 ELSE next[d][r]
    BY <2>1, <2>2
  <2>4. \A d \in Consumers, r \in Partitions : next[d][r] \in 0 .. MaxLog /\ stop[d][r] \in 0 .. MaxLog
    BY <2>1
  <2> QED
    BY <2>3, <2>4, MaxLogIsNat DEF Offsets
<1>3. times[p][o] = 0 /\ Passed(p, o)'
  BY DEF Stake
<1>4. \A d \in Consumers, r \in Partitions : Remaining(d, r)' => Remaining(d, r)
  BY <1>2 DEF Remaining
<1>5. ASSUME NEW d \in Consumers, Remaining(d, p)', o < next'[d][p] PROVE Stake(p, o)
  <2>1. Remaining(d, p)
    BY <1>4, <1>5
  <2>2. o < next[d][p]
    BY <1>1, <1>2, <1>5
  <2> QED
    BY <1>3, <2>1, <2>2 DEF Stake, Passed
<1>6. ASSUME NEW d \in Consumers, owner[p] = d, o < position[p],
             ~ (Synchronous(d)' /\ Carries(d, p, o)')
      PROVE  Stake(p, o)
  <2>1. Synchronous(d) => Synchronous(d)'
    BY <1>4 DEF Synchronous
  <2>2. Carries(d, p, o) => Carries(d, p, o)'
    BY <1>1, <1>2 DEF Carries
  <2> QED
    BY <1>3, <1>6, <2>1, <2>2 DEF Stake, Passed
<1> QED
  BY <1>1, <1>3, <1>5, <1>6 DEF Passed

\* Every partition goes back to its committed offset.
LEMMA RebalanceStake ==
    ASSUME ConsumerInv, Rebalance, NEW p \in Partitions, NEW o \in Offsets, Stake(p, o)'
    PROVE  Stake(p, o)
<1>1. /\ position' = committed /\ UNCHANGED <<committed, next, stop, times>>
  BY DEF Rebalance, brokerVars, loopVars
<1>2. o < committed[p] \/ \E c \in Consumers : Remaining(c, p) /\ o < next[c][p]
  BY <1>1 DEF Stake, Passed, Remaining
<1> QED
  BY <1>1, <1>2 DEF Stake, Passed

\* A batch is fetched: what is before it was before the position.
LEMMA PollStake ==
    ASSUME ConsumerInv, NEW c \in Consumers, Poll(c),
           NEW p \in Partitions, NEW o \in Offsets, Stake(p, o)'
    PROVE  Stake(p, o)
<1>0. Polled(c)
  BY PollEffect
<1>1. /\ UNCHANGED <<committed, owner, times>>
      /\ next'[c] = position /\ stop'[c] = position' /\ phase[c] = "poll"
      /\ \A d \in Consumers : d # c => next'[d] = next[d] /\ stop'[d] = stop[d]
      /\ \A q \in Partitions : owner[q] # c => position'[q] = position[q]
  BY <1>0 DEF Polled, ConsumerInv, TypeOK
<1>2. /\ \A q \in Partitions : position[q] \in Nat /\ position'[q] \in Nat
      /\ \A q \in Partitions : ~ Remaining(c, q)
      /\ next[c][p] \in Nat /\ stop[c][p] \in Nat /\ o \in Nat
  <2>1. \A q \in Partitions : ~ Remaining(c, q)
    BY <1>1 DEF ConsumerInv, LoopInv
  <2>2. \A q \in Partitions : position[q] \in 0 .. MaxLog /\ position'[q] \in 0 .. MaxLog
    BY <1>0 DEF Polled, ConsumerInv, TypeOK
  <2>3. next[c][p] \in 0 .. MaxLog /\ stop[c][p] \in 0 .. MaxLog
    BY DEF ConsumerInv, TypeOK
  <2> QED
    BY <2>1, <2>2, <2>3, MaxLogIsNat DEF Offsets
<1>3. times[p][o] = 0 /\ Passed(p, o)'
  BY <1>1 DEF Stake
<1>4. ~ Carries(c, p, o)
  BY <1>2 DEF Carries, Remaining
<1>5. \A q \in Partitions : Remaining(c, q)' => owner[q] = c
  BY <1>1, <1>2 DEF Remaining
<1>6. CASE o < committed[p]
  BY <1>3, <1>6 DEF Stake, Passed
<1>7. ASSUME NEW d \in Consumers, Remaining(d, p)', o < next'[d][p] PROVE Stake(p, o)
  <2>1. CASE d = c
    <3>1. owner[p] = c /\ o < position[p]
      BY <1>1, <1>5, <1>7, <2>1
    <3> QED
      BY <1>3, <1>4, <3>1 DEF Stake, Passed
  <2>2. CASE d # c
    BY <1>1, <1>3, <1>7, <2>2 DEF Stake, Passed, Remaining
  <2> QED
    BY <2>1, <2>2
<1>8. ASSUME NEW d \in Consumers, owner[p] = d, o < position'[p],
             ~ (Synchronous(d)' /\ Carries(d, p, o)')
      PROVE  Stake(p, o)
  <2>1. CASE d = c
    <3>1. Synchronous(c)'
      BY <1>1, <1>5 DEF Synchronous
    <3>2. o < position[p]
      BY <1>1, <1>2, <1>8, <2>1, <3>1 DEF Carries
    <3> QED
      BY <1>3, <1>4, <1>8, <2>1, <3>2 DEF Stake, Passed
  <2>2. CASE d # c
    <3>1. Synchronous(d) => Synchronous(d)'
      BY <1>1, <2>2 DEF Synchronous, Remaining
    <3>2. Carries(d, p, o) => Carries(d, p, o)'
      BY <1>1, <2>2 DEF Carries
    <3>3. position'[p] = position[p]
      BY <1>1, <1>8, <2>2
    <3> QED
      BY <1>3, <1>8, <3>1, <3>2, <3>3 DEF Stake, Passed
  <2> QED
    BY <2>1, <2>2
<1> QED
  BY <1>1, <1>3, <1>6, <1>7, <1>8 DEF Passed

\* A message is handled, a consumer starts again, a message is published: what
\* may be skipped is no more.
LEMMA OthersStake ==
    ASSUME ConsumerInv, NEW p \in Partitions, NEW o \in Offsets, Stake(p, o)',
           \/ \E c \in Consumers : HandleOk(c) \/ Restart(c)
           \/ \E q \in Partitions : Publish(q)
           \/ UNCHANGED vars
    PROVE  Stake(p, o)
<1>1. UNCHANGED <<committed, owner, position, next, stop>>
  BY DEF HandleOk, Restart, Publish, vars, brokerVars, groupVars, loopVars
<1>2. Passed(p, o)' => Passed(p, o)
  BY <1>1 DEF Passed, Remaining, Synchronous, Carries
<1>3. times'[p][o] = 0 => times[p][o] = 0
  <2>1. CASE UNCHANGED times
    BY <2>1
  <2>2. ASSUME NEW c \in Consumers, HandleOk(c) PROVE times'[p][o] = 0 => times[p][o] = 0
    <3>1. PICK q \in Partitions : times' = [times EXCEPT ![q][next[c][q]] = @ + 1]
      BY <2>2 DEF HandleOk
    <3>2. times[p][o] \in Nat /\ times \in [Partitions -> [Offsets -> Nat]]
      BY DEF ConsumerInv, TypeOK
    <3>3. times'[p][o] = times[p][o] \/ times'[p][o] = times[p][o] + 1
      BY <3>1, <3>2
    <3> QED
      BY <3>2, <3>3
  <2> QED
    BY <2>1, <2>2 DEF Restart, Publish, vars
<1> QED
  BY <1>2, <1>3 DEF Stake

\* The offset in front of a commit was handled, and those before it were passed.
LEMMA CommitStake ==
    ASSUME ConsumerInv, NEW c \in Consumers, phase[c] = "commit", UNCHANGED times,
           committed' \in {committed, [committed EXCEPT ![current[c]] = next[c][current[c]] + 1]},
           NEW p \in Partitions, NEW o \in Offsets, Stake(p, o)'
    PROVE  /\ current[c] \in Partitions /\ Remaining(c, current[c])
           /\ ~ (p = current[c] /\ o = next[c][current[c]])
           /\ o < committed'[p] => Stake(p, o)
<1>1. /\ current[c] \in Partitions /\ Remaining(c, current[c])
      /\ times[current[c]][next[c][current[c]]] > 0 /\ times[p][o] = 0
  BY DEF ConsumerInv, LoopInv, Stake
<1>2. ~ (p = current[c] /\ o = next[c][current[c]])
  BY <1>1
<1>3. ASSUME o < committed'[p] PROVE Stake(p, o)
  <2>1. CASE o < committed[p]
    BY <1>1, <2>1 DEF Stake, Passed
  <2>2. CASE ~ o < committed[p]
    <3>1. p = current[c] /\ committed'[p] = next[c][p] + 1
      BY <1>1, <1>3, <2>2 DEF ConsumerInv, TypeOK
    <3>2. next[c][p] \in Nat /\ o \in Nat
      <4>1. next[c][p] \in 0 .. MaxLog
        BY DEF ConsumerInv, TypeOK
      <4> QED
        BY <4>1, MaxLogIsNat DEF Offsets
    <3>3. o < next[c][p]
      BY <1>2, <1>3, <3>1, <3>2
    <3> QED
      BY <1>1, <3>1, <3>3 DEF Stake, Passed
  <2> QED
    BY <2>1, <2>2
<1> QED
  BY <1>1, <1>2, <1>3

\* The steps of a consumer that are no failures.
LEMMA SuccessStake ==
    ASSUME ConsumerInv, NEW c \in Consumers,
           CommitOffset(c) \/ CommitRefused(c) \/ NextPoll(c) \/ Crash(c),
           NEW p \in Partitions, NEW o \in Offsets, Stake(p, o)'
    PROVE  Stake(p, o)
<1>1. CASE CommitOffset(c)
  <2>1. /\ phase[c] = "commit" /\ Advance(c, current[c])
        /\ committed' = [committed EXCEPT ![current[c]] = next[c][current[c]] + 1]
        /\ UNCHANGED <<owner, position, stop, times>>
    BY <1>1 DEF CommitOffset, groupVars
  <2>2. /\ current[c] \in Partitions /\ Remaining(c, current[c])
        /\ ~ (p = current[c] /\ o = next[c][current[c]])
        /\ o < committed'[p] => Stake(p, o)
    BY <2>1, CommitStake
  <2> QED
    BY <2>1, <2>2, AdvanceStake
<1>2. CASE CommitRefused(c) \/ NextPoll(c) \/ Crash(c)
  <2>1. committed' = committed /\ Dropped(c)
    <3>1. committed' = committed
      BY <1>2 DEF CommitRefused, NextPoll, Crash, brokerVars
    <3>2. CASE CommitRefused(c) \/ NextPoll(c)
      BY <3>2 DEF CommitRefused, NextPoll, Dropped, brokerVars, groupVars, ConsumerInv, TypeOK
    <3>3. CASE Crash(c)
      BY <3>3 DEF Crash, Dropped, brokerVars, ConsumerInv, TypeOK
    <3> QED
      BY <1>2, <3>1, <3>2, <3>3
  <2>2. o < committed'[p] => Stake(p, o)
    BY <2>1 DEF Stake, Passed, Dropped
  <2>3. Stake(p, o) \/ (owner'[p] = c /\ Synchronous(c) /\ Carries(c, p, o))
    BY <2>1, <2>2, DroppedStake
  <2>4. ~ (owner'[p] = c /\ Synchronous(c) /\ Carries(c, p, o))
    <3>1. CASE CommitRefused(c)
      <4>1. phase[c] = "commit" /\ owner[current[c]] # c
        BY <3>1 DEF CommitRefused
      <4> QED
        BY <4>1 DEF ConsumerInv, LoopInv, Synchronous
    <3>2. CASE NextPoll(c)
      <4>1. next[c][p] \in 0 .. MaxLog /\ stop[c][p] \in 0 .. MaxLog
        BY DEF ConsumerInv, TypeOK
      <4>2. ~ Remaining(c, p)
        BY <3>2 DEF NextPoll
      <4> QED
        BY <4>1, <4>2, MaxLogIsNat DEF Carries, Remaining, Offsets
    <3>3. CASE Crash(c)
      <4>1. owner'[p] # c
        BY <3>3 DEF Crash, ConsumerAssumptions
      <4> QED
        BY <4>1
    <3> QED
      BY <1>2, <3>1, <3>2, <3>3
  <2> QED
    BY <2>3, <2>4
<1> QED
  BY <1>1, <1>2

\* The two failures: a message, or what is left of a batch.
LEMMA FailureStake ==
    ASSUME ConsumerInv, NEW c \in Consumers, HandleFails(c) \/ CommitFails(c),
           NEW p \in Partitions, NEW o \in Offsets, Stake(p, o)'
    PROVE  Stake(p, o) \/ Carries(c, p, o)
<1>1. CASE HandleFails(c)
  <2>1. PICK q \in Partitions : Remaining(c, q) /\ Advance(c, q)
    BY <1>1 DEF HandleFails, AtPartition
  <2>2. UNCHANGED <<committed, owner, position, stop, times>>
    BY <1>1 DEF HandleFails, brokerVars, groupVars
  <2>3. o < committed'[p] => Stake(p, o)
    BY <2>2 DEF Stake, Passed
  <2>4. Stake(p, o) \/ (p = q /\ o = next[c][q])
    BY <2>1, <2>2, <2>3, AdvanceStake
  <2>5. next[c][q] \in 0 .. MaxLog
    BY DEF ConsumerInv, TypeOK
  <2> QED
    BY <2>1, <2>4, <2>5 DEF Carries, Remaining
<1>2. CASE CommitFails(c)
  <2>1. /\ phase[c] = "commit" /\ UNCHANGED times
        /\ committed' \in {committed, [committed EXCEPT ![current[c]] = next[c][current[c]] + 1]}
    BY <1>2 DEF CommitFails
  <2>2. o < committed'[p] => Stake(p, o)
    BY <2>1, CommitStake
  <2>3. Dropped(c)
    BY <1>2 DEF CommitFails, Dropped, groupVars, ConsumerInv, TypeOK
  <2> QED
    BY <2>2, <2>3, DroppedStake
<1> QED
  BY <1>1, <1>2

\* A failure of the database or the broker costs no more than the batch it struck,
\* in which it may skip the message itself or what came after it.  A crash, a
\* rebalance, a refused commit or a stale batch never adds to the loss.
THEOREM FailuresAreBounded == Spec => FailuresCostABatch
<1>1. ASSUME ConsumerInv, [Next]_vars
      PROVE  \/ AtStake' \subseteq AtStake
             \/ /\ failures' = failures + 1
                /\ \E c \in Consumers : AtStake' \ AtStake \subseteq BatchOf(c)
  <2>1. ASSUME NEW c \in Consumers, HandleFails(c) \/ CommitFails(c)
        PROVE  failures' = failures + 1 /\ AtStake' \ AtStake \subseteq BatchOf(c)
    <3>1. \A p \in Partitions, o \in Offsets : Stake(p, o)' => Stake(p, o) \/ Carries(c, p, o)
      BY <1>1, <2>1, FailureStake
    <3>2. AtStake' \ AtStake \subseteq BatchOf(c)
      BY <3>1, OnlyBatchAtStake
    <3> QED
      BY <2>1, <3>2 DEF HandleFails, CommitFails
  <2>2. ASSUME NEW c \in Consumers, LoopStep(c) \/ Crash(c) \/ Restart(c)
        PROVE  AtStake' \subseteq AtStake
    <3>1. \A p \in Partitions, o \in Offsets : Stake(p, o)' => Stake(p, o)
      BY <1>1, <2>2, PollStake, OthersStake, SuccessStake DEF LoopStep
    <3> QED
      BY <3>1, NothingMoreAtStake
  <2>3. ASSUME Rebalance \/ (\E q \in Partitions : Publish(q)) \/ UNCHANGED vars
        PROVE  AtStake' \subseteq AtStake
    <3>1. \A p \in Partitions, o \in Offsets : Stake(p, o)' => Stake(p, o)
      BY <1>1, <2>3, RebalanceStake, OthersStake
    <3> QED
      BY <3>1, NothingMoreAtStake
  <2> QED
    BY <1>1, <2>1, <2>2, <2>3 DEF Next
<1>2. ConsumerInv /\ [Next]_vars
        => [\/ AtStake' \subseteq AtStake
            \/ /\ failures' = failures + 1
               /\ \E c \in Consumers : AtStake' \ AtStake \subseteq BatchOf(c)]_vars
  BY <1>1
<1> QED
  BY <1>2, ConsumerInvariant, PTL DEF Spec, FailuresCostABatch

\* What is skipped was at stake, and nothing is at first: NothingSkipped fails only
\* by messages of a batch that a failure struck.
THEOREM SkippedWasAtStake ==
    /\ Init => AtStake = {}
    /\ \A p \in Partitions, o \in Offsets :
          times[p][o] = 0 /\ o < committed[p] => <<p, o>> \in AtStake
<1>1. Init => AtStake = {}
  <2> SUFFICES ASSUME Init, NEW p \in Partitions, NEW o \in Offsets PROVE ~ Stake(p, o)
    BY DEF AtStake
  <2>1. o \in Nat /\ committed[p] = 0 /\ position[p] = 0 /\ \A c \in Consumers : next[c][p] = 0
    BY DEF Init, Offsets
  <2> QED
    BY <2>1 DEF Stake, Passed
<1>2. ASSUME NEW p \in Partitions, NEW o \in Offsets, times[p][o] = 0, o < committed[p]
      PROVE  <<p, o>> \in AtStake
  BY <1>2 DEF AtStake, Stake, Passed
<1> QED
  BY <1>1, <1>2
==============================================================================
