---------------------------- MODULE OutboxProofs ----------------------------
(***************************************************************************)
(* The safety of Outbox for every set of events, calls and workers, every  *)
(* key and clock function, and every value of the bounds.                  *)
(***************************************************************************)
EXTENDS Outbox, TLAPS, WellFoundedInduction

USE OutboxAssumptions

-----------------------------------------------------------------------------
(* Types                                                                   *)

\* The fields of the rows that claiming and marking return.
LEMMA ClaimedFields ==
    ASSUME NEW r \in Row
    PROVE  /\ Claimed(r) \in Row
           /\ Claimed(r).status = "processing"
           /\ Claimed(r).retryAt = r.retryAt
           /\ Claimed(r).by = r.by
           /\ r.status # "processing" => Claimed(r).retries = r.retries
<1> USE DEF Row, Statuses, RetryTimes
<1>1. r.retries \in Nat /\ r.retries + 1 \in Nat
  OBVIOUS
<1>2. CASE r.status = "processing"
  <2>1. Claimed(r) = [r EXCEPT !.status = "processing", !.retries = r.retries + 1]
    BY <1>2 DEF Claimed
  <2> QED
    BY <1>1, <1>2, <2>1
<1>3. CASE r.status # "processing"
  <2>1. Claimed(r) = [r EXCEPT !.status = "processing"]
    BY <1>3 DEF Claimed
  <2> QED
    BY <1>1, <2>1
<1> QED
  BY <1>2, <1>3

LEMMA MarkedPublishedFields ==
    ASSUME NEW r \in Row
    PROVE  /\ MarkedPublished(r) \in Row
           /\ MarkedPublished(r).status = "published"
           /\ MarkedPublished(r).retries = r.retries
           /\ MarkedPublished(r).retryAt = r.retryAt
           /\ MarkedPublished(r).by = r.by
BY DEF MarkedPublished, Row, Statuses, RetryTimes

LEMMA MarkedFailedFields ==
    ASSUME NEW r \in Row
    PROVE  /\ MarkedFailed(r) \in Row
           /\ MarkedFailed(r).status = "failed"
           /\ MarkedFailed(r).retries = r.retries + 1
           /\ MarkedFailed(r).by = r.by
           /\ r.retries + 1 >= MaxRetries => MarkedFailed(r).retryAt = "null"
           /\ r.retries + 1 < MaxRetries => MarkedFailed(r).retryAt = "later"
<1> USE DEF Row, Statuses, RetryTimes
<1>1. r.retries \in Nat /\ r.retries + 1 \in Nat
  OBVIOUS
<1>2. CASE r.retries + 1 >= MaxRetries
  <2>1. MarkedFailed(r) = [r EXCEPT !.status = "failed", !.retries = r.retries + 1,
                                    !.retryAt = "null"]
    BY <1>2 DEF MarkedFailed
  <2>2. /\ MarkedFailed(r) \in Row
        /\ MarkedFailed(r).status = "failed"
        /\ MarkedFailed(r).retries = r.retries + 1
        /\ MarkedFailed(r).by = r.by
        /\ MarkedFailed(r).retryAt = "null"
    BY <1>1, <2>1
  <2> QED
    BY <1>1, <1>2, <2>2
<1>3. CASE ~ (r.retries + 1 >= MaxRetries)
  <2>1. MarkedFailed(r) = [r EXCEPT !.status = "failed", !.retries = r.retries + 1,
                                    !.retryAt = "later"]
    BY <1>3 DEF MarkedFailed
  <2>2. /\ MarkedFailed(r) \in Row
        /\ MarkedFailed(r).status = "failed"
        /\ MarkedFailed(r).retries = r.retries + 1
        /\ MarkedFailed(r).by = r.by
        /\ MarkedFailed(r).retryAt = "later"
    BY <1>1, <2>1
  <2> QED
    BY <1>1, <1>3, <2>2
<1> QED
  BY <1>2, <1>3

\* The row operators return rows.
LEMMA RowTypes ==
    /\ NoRow \in Row
    /\ \A c \in Calls : NewRow(c) \in Row
    /\ \A r \in Row : /\ Claimed(r) \in Row
                      /\ MarkedPublished(r) \in Row
                      /\ MarkedFailed(r) \in Row
<1>1. NoRow \in Row
  BY DEF NoRow, Row, Statuses, RetryTimes
<1>2. ASSUME NEW c \in Calls PROVE NewRow(c) \in Row
  BY DEF NewRow, Row, Statuses, RetryTimes
<1> QED
  BY <1>1, <1>2, ClaimedFields, MarkedPublishedFields, MarkedFailedFields

LEMMA TypeStep == TypeOK /\ [Next]_vars => TypeOK'
<1> SUFFICES ASSUME TypeOK, [Next]_vars PROVE TypeOK'
  OBVIOUS
<1>1. CASE UNCHANGED vars
  BY <1>1 DEF TypeOK, vars
<1>2. ASSUME NEW c \in Calls,
             Receive(c) \/ Check(c) \/ Insert(c) \/ Record(c) \/ IngestFault(c)
      PROVE TypeOK'
  BY <1>2 DEF TypeOK, Receive, Check, Insert, Record, IngestFault, workerVars,
              InTransaction, Answers
<1>3. ASSUME NEW c \in Calls, Commit(c) PROVE TypeOK'
  <2>1. NewRow(c) \in Row
    BY RowTypes
  <2>2. audit' \subseteq Calls \X AuditKinds
    BY <1>3 DEF TypeOK, Commit, AuditKinds
  <2> QED
    BY <1>3, <2>1, <2>2 DEF TypeOK, Commit, workerVars, InTransaction, Answers
<1>4. ASSUME NEW c \in Calls, Suppress(c) PROVE TypeOK'
  BY <1>4 DEF TypeOK, Suppress, workerVars, InTransaction, Answers, AuditKinds
<1>5. ASSUME NEW w \in Workers, Claim(w) PROVE TypeOK'
  <2>1. PICK B \in SUBSET Events :
          /\ batch' = [batch EXCEPT ![w] = B]
          /\ todo' = [todo EXCEPT ![w] = B]
          /\ draft' = [e \in Events |-> IF e \in B THEN Claimed(outbox[e]) ELSE draft[e]]
    BY <1>5 DEF Claim
  <2>2. draft' \in [Events -> Row]
    BY <2>1, RowTypes DEF TypeOK
  <2> QED
    BY <1>5, <2>1, <2>2 DEF TypeOK, Claim, ingestVars
<1>6. ASSUME NEW w \in Workers, PublishOk(w) \/ PublishFail(w) PROVE TypeOK'
  <2>1. PICK e \in Events :
          /\ sent' = sent \/ sent' = [sent EXCEPT ![e] = @ + 1]
          /\ \/ draft' = [draft EXCEPT ![e] = MarkedPublished(@)]
             \/ draft' = [draft EXCEPT ![e] = MarkedFailed(@)]
          /\ todo' = [todo EXCEPT ![w] = @ \ {e}]
    BY <1>6 DEF PublishOk, PublishFail
  <2>2. draft' \in [Events -> Row]
    BY <2>1, RowTypes DEF TypeOK
  <2>3. sent' \in [Events -> Nat] /\ todo' \in [Workers -> SUBSET Events]
    BY <2>1 DEF TypeOK
  <2> QED
    BY <1>6, <2>2, <2>3 DEF TypeOK, PublishOk, PublishFail, ingestVars
<1>7. ASSUME NEW w \in Workers, CommitBatch(w) \/ WorkerFault(w) PROVE TypeOK'
  <2>1. NoRow \in Row
    BY RowTypes
  <2>2. draft' \in [Events -> Row]
    BY <1>7, <2>1 DEF TypeOK, CommitBatch, WorkerFault
  <2>3. outbox' \in [Events -> Row]
    BY <1>7 DEF TypeOK, CommitBatch, WorkerFault
  <2>4. batch' \in [Workers -> SUBSET Events] /\ todo' \in [Workers -> SUBSET Events]
    BY <1>7 DEF TypeOK, CommitBatch, WorkerFault
  <2>5. faults' \in Nat
    BY <1>7 DEF TypeOK, CommitBatch, WorkerFault
  <2> QED
    BY <1>7, <2>2, <2>3, <2>4, <2>5 DEF TypeOK, CommitBatch, WorkerFault, ingestVars
<1>8. ASSUME NEW e \in Events, RetryDue(e) PROVE TypeOK'
  <2>0. outbox[e] \in Row
    BY DEF TypeOK
  <2>1. [outbox[e] EXCEPT !.retryAt = "due"] \in Row
    BY <2>0 DEF Row, RetryTimes
  <2>2. outbox' = [outbox EXCEPT ![e] = [outbox[e] EXCEPT !.retryAt = "due"]]
    BY <1>8 DEF RetryDue
  <2> QED
    BY <1>8, <2>1, <2>2 DEF TypeOK, RetryDue, ingestVars, workerVars
<1> QED
  BY <1>1, <1>2, <1>3, <1>4, <1>5, <1>6, <1>7, <1>8
     DEF Next, IngestStep, WorkerStep

\* Every variable keeps its type.
THEOREM TypeCorrect == Spec => []TypeOK
<1>1. Init => TypeOK
  BY RowTypes DEF Init, TypeOK
<1> QED
  BY <1>1, TypeStep, PTL DEF Spec

-----------------------------------------------------------------------------
(* The inductive invariant                                                 *)

\* Steps of a call before its commit touch its control point and the audit only.
LEMMA RowsFrame ==
    ASSUME OutboxInv, TypeOK', UNCHANGED <<stored, outbox, workerVars>>, faults' >= faults
    PROVE  RowInv' /\ LockInv' /\ CopiesAccounted'
<1> USE DEF OutboxInv, workerVars
<1>1. RowInv'
  BY DEF RowInv
<1>2. LockInv'
  BY DEF LockInv, Eligible
<1>3. CopiesAccounted'
  <2> SUFFICES ASSUME NEW e \in Events
               PROVE  (sent[e] <= faults + outbox[e].retries
                                  + IF outbox[e].status = "published"
                                       \/ \E w \in Workers : e \in batch[w] \ todo[w]
                                    THEN 1 ELSE 0)'
    BY DEF CopiesAccounted
  <2>1. /\ sent[e] \in Nat /\ outbox[e].retries \in Nat /\ faults \in Nat
        /\ faults' \in Nat
    BY DEF TypeOK, Row
  <2> QED
    BY <2>1 DEF CopiesAccounted
<1> QED
  BY <1>1, <1>2, <1>3

LEMMA ReceiveInv ==
    ASSUME OutboxInv, TypeOK', NEW c \in Calls, Receive(c) \/ Check(c) \/ IngestFault(c)
    PROVE  IngestInv'
BY DEF OutboxInv, TypeOK, IngestInv, Receive, Check, IngestFault, Holding, InTransaction,
       Answers

LEMMA InsertInv ==
    ASSUME OutboxInv, TypeOK', NEW c \in Calls, Insert(c)
    PROVE  IngestInv'
BY DEF OutboxInv, TypeOK, IngestInv, Insert, EventRowHeld, Holding, InTransaction, Answers

LEMMA RecordInv ==
    ASSUME OutboxInv, TypeOK', NEW c \in Calls, Record(c)
    PROVE  IngestInv'
BY DEF OutboxInv, TypeOK, IngestInv, Record, Holding, InTransaction, Answers

LEMMA SuppressInv ==
    ASSUME OutboxInv, TypeOK', NEW c \in Calls, Suppress(c)
    PROVE  IngestInv'
BY DEF OutboxInv, TypeOK, IngestInv, Suppress, Holding, InTransaction, Answers

LEMMA CommitInv ==
    ASSUME OutboxInv, TypeOK', NEW c \in Calls, Commit(c)
    PROVE  IngestInv' /\ RowInv' /\ LockInv' /\ CopiesAccounted'
<1> USE DEF OutboxInv
<1>0. /\ pc[c] = "commit" /\ stored[req[c]] = None /\ req[c] \in Events
      /\ req' = req /\ sent' = sent
  <2>1. pc[c] = "commit" /\ req' = req /\ sent' = sent
    BY DEF Commit, workerVars
  <2>2. pc[c] \in Holding => stored[req[c]] = None
    BY DEF IngestInv
  <2> QED
    BY <2>1, <2>2 DEF Holding, TypeOK
<1>1. IngestInv'
  <2>1. stored' = [stored EXCEPT ![req[c]] = c] /\ pc'[c] \in {"created", "error"}
    BY DEF Commit, TypeOK
  <2>2. \A d \in Calls : d # c => pc'[d] = pc[d]
    BY DEF Commit, TypeOK
  <2>3. \A d \in Calls :
          /\ <<d, "suppressed">> \in audit' <=> <<d, "suppressed">> \in audit
          /\ d # c => /\ <<d, "persisted">> \in audit' <=> <<d, "persisted">> \in audit
                      /\ <<d, "unresolved">> \in audit' <=> <<d, "unresolved">> \in audit
    BY DEF Commit
  <2>4. /\ <<c, "persisted">> \in audit'
        /\ <<c, "unresolved">> \in audit' <=> req[c] \in Unresolved
    <3>1. <<c, "unresolved">> \notin audit
      <4>1. <<c, "unresolved">> \in audit <=>
              stored[req[c]] = c /\ req[c] \in Unresolved
        BY DEF IngestInv
      <4> QED
        BY <4>1, <1>0
    <3>2. audit' = audit \cup {<<c, "persisted">>}
                        \cup {<<c, "unresolved">> : e \in Unresolved \cap {req[c]}}
      BY DEF Commit
    <3> QED
      BY <3>1, <3>2
  <2>5. \A e \in Events, d \in Calls : stored'[e] = d => req[d] = e
    BY <2>1, <1>0 DEF IngestInv, TypeOK
  <2>6. ASSUME NEW d \in Calls, d # c
        PROVE  /\ stored'[req[d]] = d <=> stored[req[d]] = d
               /\ stored'[req[d]] \in {stored[req[d]], c}
               /\ pc'[d] \in Holding => stored'[req[d]] = None
    <3>1. stored'[req[d]] = IF req[d] = req[c] THEN c ELSE stored[req[d]]
      BY <2>1, <1>0 DEF TypeOK
    <3>2. pc[d] \in Holding => stored[req[d]] = None /\ req[d] # req[c]
      BY <1>0, <2>6 DEF IngestInv, Holding
    <3> QED
      BY <1>0, <2>2, <2>6, <3>1, <3>2
  <2>7. stored'[req[c]] = c
    BY <2>1, <1>0 DEF TypeOK
  <2>8. ASSUME NEW d \in Calls
        PROVE  /\ pc'[d] \in Holding => stored'[req[d]] = None
               /\ \A x \in Calls :
                     pc'[d] \in Holding /\ pc'[x] \in Holding /\ req[d] = req[x] => d = x
               /\ pc'[d] \in {"suppress", "duplicate"} => stored'[req[d]] \notin {None, d}
               /\ pc'[d] = "created" => stored'[req[d]] = d
               /\ stored'[req[d]] = d => pc'[d] \in {"created", "error"}
               /\ pc'[d] = "duplicate" => <<d, "suppressed">> \in audit'
               /\ <<d, "suppressed">> \in audit' => pc'[d] \in {"duplicate", "error"}
               /\ <<d, "persisted">> \in audit' <=> stored'[req[d]] = d
               /\ <<d, "unresolved">> \in audit' <=>
                     stored'[req[d]] = d /\ req[d] \in Unresolved
    <3>1. CASE d = c
      <4>1. <<c, "suppressed">> \notin audit
        BY <1>0 DEF IngestInv
      <4> QED
        BY <3>1, <4>1, <1>0, <2>1, <2>3, <2>4, <2>7 DEF Holding
    <3>2. CASE d # c
      <4>1. /\ \A x \in Calls :
                 pc[d] \in Holding /\ pc[x] \in Holding /\ req[d] = req[x] => d = x
            /\ pc[d] \in {"suppress", "duplicate"} => stored[req[d]] \notin {None, d}
            /\ pc[d] = "created" => stored[req[d]] = d
            /\ stored[req[d]] = d => pc[d] \in {"created", "error"}
            /\ pc[d] = "duplicate" => <<d, "suppressed">> \in audit
            /\ <<d, "suppressed">> \in audit => pc[d] \in {"duplicate", "error"}
            /\ <<d, "persisted">> \in audit <=> stored[req[d]] = d
            /\ <<d, "unresolved">> \in audit <=>
                  stored[req[d]] = d /\ req[d] \in Unresolved
        BY DEF IngestInv
      <4>2. \A x \in Calls : pc'[x] \in Holding => pc[x] \in Holding
        BY <2>1, <2>2 DEF Holding
      <4> QED
        BY <3>2, <4>1, <4>2, <2>2, <2>3, <2>6
    <3> QED
      BY <3>1, <3>2
  <2> QED
    BY <1>0, <2>5, <2>8 DEF IngestInv
<1>2. outbox[req[c]].status = "none" /\ sent[req[c]] = 0 /\ outbox[req[c]].retries = 0
  BY <1>0 DEF RowInv, TypeOK
<1>3. /\ outbox'[req[c]].status = "pending" /\ outbox'[req[c]].retries = 0
      /\ outbox'[req[c]].retryAt = "null" /\ outbox'[req[c]].by = c
      /\ stored'[req[c]] = c
      /\ \A e \in Events : e # req[c] => outbox'[e] = outbox[e] /\ stored'[e] = stored[e]
  BY <1>0 DEF Commit, NewRow, TypeOK
<1>4. RowInv'
  BY <1>0, <1>2, <1>3 DEF RowInv, TypeOK
<1>5. \A w \in Workers : req[c] \notin batch[w]
  BY <1>2 DEF LockInv, Eligible
<1>6. LockInv'
  <2>1. \A w \in Workers : \A e \in batch[w] : outbox'[e] = outbox[e] /\ e \in Events
    BY <1>3, <1>5 DEF TypeOK
  <2> QED
    BY <2>1 DEF LockInv, Eligible, Commit, workerVars
<1>7. CopiesAccounted'
  <2> SUFFICES ASSUME NEW e \in Events
               PROVE  (sent[e] <= faults + outbox[e].retries
                                  + IF outbox[e].status = "published"
                                       \/ \E w \in Workers : e \in batch[w] \ todo[w]
                                    THEN 1 ELSE 0)'
    BY DEF CopiesAccounted
  <2>1. faults' >= faults /\ faults' \in Nat
    BY DEF Commit, TypeOK
  <2>2. CASE e = req[c]
    BY <1>0, <1>2, <1>3, <2>1, <2>2
  <2>3. CASE e # req[c]
    <3>1. outbox'[e] = outbox[e] /\ sent'[e] = sent[e] /\ batch' = batch /\ todo' = todo
      BY <1>0, <1>3, <2>3 DEF Commit, workerVars
    <3>2. sent[e] \in Nat /\ outbox[e].retries \in Nat /\ faults \in Nat
      BY DEF TypeOK, Row
    <3> QED
      BY <2>1, <3>1, <3>2 DEF CopiesAccounted
  <2> QED
    BY <2>2, <2>3
<1> QED
  BY <1>1, <1>4, <1>6, <1>7

\* The workers' steps leave the ingestion state alone.
LEMMA IngestFrame ==
    ASSUME IngestInv, UNCHANGED ingestVars
    PROVE  IngestInv'
BY DEF IngestInv, ingestVars, Holding

\* What the bookkeeping of copies allows for one event.
Allowed(e) == faults + outbox[e].retries
              + IF outbox[e].status = "published"
                     \/ \E w \in Workers : e \in batch[w] \ todo[w]
                THEN 1 ELSE 0

\* CopiesAccounted, event by event.
LEMMA CopiesByEvent == CopiesAccounted <=> \A e \in Events : sent[e] <= Allowed(e)
BY DEF CopiesAccounted, Allowed

\* The claimed rows were selectable and locked by nobody.
LEMMA ClaimInv ==
    ASSUME OutboxInv, TypeOK', NEW w \in Workers, Claim(w)
    PROVE  RowInv' /\ LockInv' /\ CopiesAccounted'
<1> USE DEF OutboxInv
<1>1. PICK B \in SUBSET Events :
        /\ B \subseteq {e \in Events : Eligible(e)} \ Locked
        /\ batch' = [batch EXCEPT ![w] = B]
        /\ todo' = [todo EXCEPT ![w] = B]
        /\ draft' = [e \in Events |-> IF e \in B THEN Claimed(outbox[e]) ELSE draft[e]]
  BY DEF Claim, Oldest
<1>2. batch[w] = {} /\ todo[w] = {}
  BY DEF Claim, LockInv
<1>3. UNCHANGED <<stored, outbox, sent, faults>>
  BY DEF Claim, ingestVars
<1>4. RowInv'
  BY <1>3 DEF RowInv
<1>5. \A e \in Events : Eligible(e)' <=> Eligible(e)
  BY <1>3 DEF Eligible
<1>6. \A v \in Workers : v # w => batch[v] \cap B = {}
  BY <1>1 DEF Locked
<1>7. LockInv'
  <2>1. \A u, v \in Workers : u # v => batch'[u] \cap batch'[v] = {}
    BY <1>1, <1>6 DEF LockInv, TypeOK
  <2>2. \A v \in Workers : todo'[v] \subseteq batch'[v]
    BY <1>1 DEF LockInv, TypeOK
  <2>3. ASSUME NEW v \in Workers, NEW e \in batch'[v]
        PROVE  /\ Eligible(e)
               /\ e \in todo'[v] => draft'[e] = Claimed(outbox[e])
               /\ e \notin todo'[v] =>
                     \/ draft'[e] = MarkedPublished(Claimed(outbox[e])) /\ sent[e] > 0
                     \/ draft'[e] = MarkedFailed(Claimed(outbox[e]))
    <3>1. CASE v = w
      BY <1>1, <2>3, <3>1 DEF TypeOK
    <3>2. CASE v # w
      <4>1. e \in batch[v] /\ e \in Events /\ e \notin B /\ todo'[v] = todo[v]
        BY <1>1, <1>6, <2>3, <3>2 DEF TypeOK
      <4>2. draft'[e] = draft[e]
        BY <1>1, <4>1
      <4> QED
        BY <4>1, <4>2 DEF LockInv
    <3> QED
      BY <3>1, <3>2
  <2>4. \A v \in Workers : batch'[v] \subseteq Events
    BY DEF TypeOK
  <2> QED
    BY <1>3, <1>5, <2>1, <2>2, <2>3, <2>4 DEF LockInv
<1>8. CopiesAccounted'
  <2>1. \A v \in Workers : batch'[v] \ todo'[v] = batch[v] \ todo[v]
    BY <1>1, <1>2 DEF TypeOK
  <2> QED
    BY <1>3, <2>1 DEF CopiesAccounted
<1> QED
  BY <1>4, <1>7, <1>8

\* A publication attempt drafts the next state of one locked row and leaves at
\* most one more copy of it on the topic.
LEMMA PublishInv ==
    ASSUME OutboxInv, TypeOK', NEW w \in Workers, PublishOk(w) \/ PublishFail(w)
    PROVE  RowInv' /\ LockInv' /\ CopiesAccounted'
<1> USE DEF OutboxInv
<1>1. PICK e \in Events :
        /\ e \in todo[w]
        /\ todo' = [todo EXCEPT ![w] = @ \ {e}]
        /\ \/ /\ sent' = [sent EXCEPT ![e] = @ + 1]
              /\ draft' = [draft EXCEPT ![e] = MarkedPublished(@)]
           \/ /\ sent' = sent \/ sent' = [sent EXCEPT ![e] = @ + 1]
              /\ draft' = [draft EXCEPT ![e] = MarkedFailed(@)]
  BY DEF PublishOk, PublishFail, NextRow
<1>2. UNCHANGED <<stored, outbox, batch, faults>>
  BY DEF PublishOk, PublishFail, ingestVars
<1>3. e \in batch[w] /\ draft[e] = Claimed(outbox[e]) /\ Eligible(e)
  BY <1>1 DEF LockInv
<1>4. \A f \in Events : sent'[f] >= sent[f] /\ (f # e => sent'[f] = sent[f])
  BY <1>1 DEF TypeOK
<1>5. stored[e] # None
  BY <1>3 DEF RowInv, Eligible
<1>6. RowInv'
  <2> SUFFICES ASSUME NEW f \in Events
               PROVE  /\ sent'[f] > 0 => stored[f] # None
                      /\ sent[f] > 0 => sent'[f] > 0
    BY <1>2 DEF RowInv
  <2> QED
    BY <1>4, <1>5 DEF RowInv, TypeOK
<1>7. \A v \in Workers : v # w => e \notin batch[v]
  BY <1>3 DEF LockInv
<1>8. LockInv'
  <2>1. \A v \in Workers : todo'[v] \subseteq batch'[v]
    BY <1>1, <1>2 DEF LockInv, TypeOK
  <2>2. ASSUME NEW v \in Workers, NEW f \in batch[v]
        PROVE  /\ f \in todo'[v] => draft'[f] = Claimed(outbox[f])
               /\ f \notin todo'[v] =>
                     \/ draft'[f] = MarkedPublished(Claimed(outbox[f])) /\ sent'[f] > 0
                     \/ draft'[f] = MarkedFailed(Claimed(outbox[f]))
    <3>0. f \in Events
      BY DEF TypeOK
    <3>1. CASE f = e
      <4>1. v = w /\ f \notin todo'[v]
        BY <1>1, <1>7, <2>2, <3>1 DEF TypeOK
      <4>2. \/ draft'[e] = MarkedPublished(draft[e]) /\ sent'[e] = sent[e] + 1
            \/ draft'[e] = MarkedFailed(draft[e])
        BY <1>1 DEF TypeOK
      <4>3. sent[e] \in Nat
        BY DEF TypeOK
      <4> QED
        BY <1>3, <3>1, <4>1, <4>2, <4>3
    <3>2. CASE f # e
      <4>1. draft'[f] = draft[f] /\ sent'[f] = sent[f] /\ (f \in todo'[v] <=> f \in todo[v])
        BY <1>1, <1>4, <3>0, <3>2 DEF TypeOK
      <4> QED
        BY <4>1 DEF LockInv
    <3> QED
      BY <3>1, <3>2
  <2>3. \A f : Eligible(f)' <=> Eligible(f)
    BY <1>2 DEF Eligible
  <2> QED
    BY <1>2, <2>1, <2>2, <2>3 DEF LockInv
<1>9. CopiesAccounted'
  <2> SUFFICES ASSUME NEW f \in Events PROVE sent'[f] <= Allowed(f)'
    BY DEF CopiesAccounted, Allowed
  <2>0. /\ sent[f] \in Nat /\ sent'[f] \in Nat /\ outbox[f].retries \in Nat
        /\ faults \in Nat /\ sent[f] <= Allowed(f)
    BY CopiesByEvent DEF TypeOK, Row
  <2>1. CASE f = e
    <3>1. sent'[e] <= sent[e] + 1
      BY <1>1, <2>0, <2>1 DEF TypeOK
    <3>2. e \in batch'[w] \ todo'[w]
      BY <1>1, <1>2, <1>3 DEF TypeOK
    <3>3. Allowed(e)' = faults + outbox[e].retries + 1
      BY <1>2, <3>2 DEF Allowed
    <3>4. \A v \in Workers : e \notin batch[v] \ todo[v]
      BY <1>1, <1>7
    <3>5. CASE outbox[e].status = "published"
      BY <1>3, <3>5 DEF Eligible
    <3>6. CASE outbox[e].status # "published"
      <4>1. Allowed(e) = faults + outbox[e].retries
        BY <2>0, <2>1, <3>4, <3>6 DEF Allowed
      <4> QED
        BY <2>0, <2>1, <3>1, <3>3, <4>1
    <3> QED
      BY <3>5, <3>6
  <2>2. CASE f # e
    <3>1. \A v \in Workers : f \in batch'[v] \ todo'[v] <=> f \in batch[v] \ todo[v]
      BY <1>1, <1>2, <2>2 DEF TypeOK
    <3>2. Allowed(f)' = Allowed(f)
      BY <1>2, <3>1 DEF Allowed
    <3> QED
      BY <1>4, <2>0, <2>2, <3>2
  <2> QED
    BY <2>1, <2>2
<1> QED
  BY <1>6, <1>8, <1>9

\* What a locked row is, and what its draft is once its attempt is over.
LEMMA SettledDraft ==
    ASSUME OutboxInv, NEW w \in Workers, NEW e \in batch[w], todo[w] = {}
    PROVE  /\ outbox[e].status \in {"pending", "failed"}
           /\ outbox[e].retries < MaxRetries
           /\ stored[e] # None
           /\ draft[e].by = outbox[e].by
           /\ \/ /\ draft[e].status = "published" /\ sent[e] > 0
                 /\ draft[e].retries = outbox[e].retries
                 /\ draft[e].retryAt # "later"
              \/ /\ draft[e].status = "failed"
                 /\ draft[e].retries = outbox[e].retries + 1
                 /\ draft[e].retryAt = "null" <=> draft[e].retries = MaxRetries
<1> USE DEF OutboxInv
<1>1. e \in Events /\ outbox[e] \in Row /\ outbox[e].retries \in Nat
  BY DEF TypeOK, Row
<1>2. Eligible(e) /\ outbox[e].status # "processing"
  BY <1>1 DEF LockInv, RowInv
<1>3. /\ outbox[e].status \in {"pending", "failed"}
      /\ outbox[e].retryAt # "later"
      /\ stored[e] # None
      /\ outbox[e].retries < MaxRetries
  BY <1>1, <1>2 DEF RowInv, Eligible
<1>4. \/ draft[e] = MarkedPublished(Claimed(outbox[e])) /\ sent[e] > 0
      \/ draft[e] = MarkedFailed(Claimed(outbox[e]))
  BY DEF LockInv
<1> DEFINE r == Claimed(outbox[e])
<1>5. /\ r \in Row /\ r.retries = outbox[e].retries
      /\ r.retryAt = outbox[e].retryAt /\ r.by = outbox[e].by
  BY <1>1, <1>2, ClaimedFields
<1> HIDE DEF r
<1>6. CASE draft[e] = MarkedPublished(r) /\ sent[e] > 0
  BY <1>3, <1>5, <1>6, MarkedPublishedFields
<1>7. CASE draft[e] = MarkedFailed(r)
  <2>1. /\ draft[e].status = "failed" /\ draft[e].by = outbox[e].by
        /\ draft[e].retries = outbox[e].retries + 1
        /\ outbox[e].retries + 1 >= MaxRetries => draft[e].retryAt = "null"
        /\ outbox[e].retries + 1 < MaxRetries => draft[e].retryAt = "later"
    BY <1>5, <1>7, MarkedFailedFields
  <2>2. draft[e].retryAt = "null" <=> draft[e].retries = MaxRetries
    BY <1>1, <1>3, <2>1
  <2> QED
    BY <1>3, <2>1, <2>2
<1> QED
  BY <1>4, <1>6, <1>7 DEF r

\* The drafts of a whole batch become the committed rows.
LEMMA CommitBatchInv ==
    ASSUME OutboxInv, TypeOK', NEW w \in Workers, CommitBatch(w)
    PROVE  RowInv' /\ LockInv' /\ CopiesAccounted'
<1> USE DEF OutboxInv
<1>1. /\ todo[w] = {}
      /\ outbox' = [e \in Events |-> IF e \in batch[w] THEN draft[e] ELSE outbox[e]]
      /\ draft' = [e \in Events |-> IF e \in batch[w] THEN NoRow ELSE draft[e]]
      /\ batch' = [batch EXCEPT ![w] = {}]
      /\ UNCHANGED <<stored, todo, sent, faults>>
  BY DEF CommitBatch, ingestVars
<1>2. \A e \in Events : e \in batch[w] => outbox'[e] = draft[e]
  BY <1>1
<1>3. \A e \in Events : e \notin batch[w] => outbox'[e] = outbox[e] /\ draft'[e] = draft[e]
  BY <1>1
<1>4. RowInv'
  <2> SUFFICES ASSUME NEW e \in Events
               PROVE  (/\ outbox[e].status = "none" <=> stored[e] = None
                       /\ stored[e] # None => outbox[e].by = stored[e]
                       /\ sent[e] > 0 => stored[e] # None
                       /\ outbox[e].status # "processing"
                       /\ outbox[e].status \in {"none", "pending"} =>
                             outbox[e].retries = 0 /\ outbox[e].retryAt = "null"
                       /\ outbox[e].status = "failed" =>
                             /\ outbox[e].retries \in 1..MaxRetries
                             /\ outbox[e].retryAt = "null"
                                   <=> outbox[e].retries = MaxRetries
                       /\ outbox[e].status = "published" =>
                             /\ sent[e] > 0
                             /\ outbox[e].retryAt # "later"
                             /\ outbox[e].retries < MaxRetries)'
    BY DEF RowInv
  <2>0. outbox[e].retries \in Nat
    BY DEF TypeOK, Row
  <2>1. CASE e \in batch[w]
    BY <1>1, <1>2, <2>0, <2>1, SettledDraft DEF RowInv
  <2>2. CASE e \notin batch[w]
    BY <1>1, <1>3, <2>2 DEF RowInv
  <2> QED
    BY <2>1, <2>2
<1>5. \A v \in Workers : v # w => batch[v] \cap batch[w] = {}
  BY DEF LockInv
<1>6. LockInv'
  <2>1. \A u, v \in Workers : u # v => batch'[u] \cap batch'[v] = {}
    BY <1>1 DEF LockInv, TypeOK
  <2>2. \A v \in Workers : todo'[v] \subseteq batch'[v]
    BY <1>1 DEF LockInv, TypeOK
  <2>3. ASSUME NEW v \in Workers, NEW e \in batch'[v]
        PROVE  (/\ Eligible(e)
                /\ e \in todo[v] => draft[e] = Claimed(outbox[e])
                /\ e \notin todo[v] =>
                      \/ draft[e] = MarkedPublished(Claimed(outbox[e])) /\ sent[e] > 0
                      \/ draft[e] = MarkedFailed(Claimed(outbox[e])))'
    <3>1. v # w /\ e \in batch[v] /\ e \in Events /\ e \notin batch[w]
      BY <1>1, <1>5, <2>3 DEF TypeOK
    <3>2. outbox'[e] = outbox[e] /\ draft'[e] = draft[e]
      BY <1>3, <3>1
    <3> QED
      BY <1>1, <3>1, <3>2 DEF LockInv, Eligible
  <2> QED
    BY <2>1, <2>2, <2>3 DEF LockInv
<1>7. CopiesAccounted'
  <2> SUFFICES ASSUME NEW e \in Events PROVE sent'[e] <= Allowed(e)'
    BY DEF CopiesAccounted, Allowed
  <2>0. /\ sent[e] \in Nat /\ outbox[e].retries \in Nat /\ faults \in Nat
        /\ sent[e] <= Allowed(e)
    BY CopiesByEvent DEF TypeOK, Row
  <2>1. CASE e \in batch[w]
    <3>1. Allowed(e) <= faults + outbox[e].retries + 1
      BY <2>0 DEF Allowed
    <3>2. Allowed(e)' >= faults + outbox[e].retries + 1
      <4>1. CASE outbox'[e].status = "published"
        BY <1>1, <1>2, <2>0, <2>1, <4>1, SettledDraft DEF Allowed
      <4>2. CASE outbox'[e].status # "published"
        BY <1>1, <1>2, <2>0, <2>1, <4>2, SettledDraft DEF Allowed
      <4> QED
        BY <4>1, <4>2
    <3>3. Allowed(e) \in Nat /\ Allowed(e)' \in Nat
      BY <2>0 DEF Allowed, TypeOK, Row
    <3> QED
      BY <1>1, <2>0, <3>1, <3>2, <3>3
  <2>2. CASE e \notin batch[w]
    <3>1. \A v \in Workers : e \in batch'[v] \ todo'[v] <=> e \in batch[v] \ todo[v]
      BY <1>1, <2>2 DEF TypeOK
    <3>2. Allowed(e)' = Allowed(e)
      BY <1>1, <1>3, <2>2, <3>1 DEF Allowed
    <3> QED
      BY <1>1, <2>0, <3>2
  <2> QED
    BY <2>1, <2>2
<1> QED
  BY <1>4, <1>6, <1>7

\* The rollback of a batch forgets its drafts; the fault pays for its copies.
LEMMA WorkerFaultInv ==
    ASSUME OutboxInv, TypeOK', NEW w \in Workers, WorkerFault(w)
    PROVE  RowInv' /\ LockInv' /\ CopiesAccounted'
<1> USE DEF OutboxInv
<1>1. /\ draft' = [e \in Events |-> IF e \in batch[w] THEN NoRow ELSE draft[e]]
      /\ batch' = [batch EXCEPT ![w] = {}]
      /\ todo' = [todo EXCEPT ![w] = {}]
      /\ faults' = faults + 1
      /\ UNCHANGED <<stored, outbox, sent>>
  BY DEF WorkerFault, ingestVars
<1>2. RowInv'
  BY <1>1 DEF RowInv
<1>3. \A v \in Workers : v # w => batch[v] \cap batch[w] = {}
  BY DEF LockInv
<1>4. LockInv'
  <2>1. \A u, v \in Workers : u # v => batch'[u] \cap batch'[v] = {}
    BY <1>1 DEF LockInv, TypeOK
  <2>2. \A v \in Workers : todo'[v] \subseteq batch'[v]
    BY <1>1 DEF LockInv, TypeOK
  <2>3. ASSUME NEW v \in Workers, NEW e \in batch'[v]
        PROVE  (/\ Eligible(e)
                /\ e \in todo[v] => draft[e] = Claimed(outbox[e])
                /\ e \notin todo[v] =>
                      \/ draft[e] = MarkedPublished(Claimed(outbox[e])) /\ sent[e] > 0
                      \/ draft[e] = MarkedFailed(Claimed(outbox[e])))'
    <3>1. v # w /\ e \in batch[v] /\ e \in Events /\ e \notin batch[w]
      BY <1>1, <1>3, <2>3 DEF TypeOK
    <3>2. draft'[e] = draft[e] /\ todo'[v] = todo[v]
      BY <1>1, <3>1 DEF TypeOK
    <3> QED
      BY <1>1, <3>1, <3>2 DEF LockInv, Eligible
  <2> QED
    BY <2>1, <2>2, <2>3 DEF LockInv
<1>5. CopiesAccounted'
  <2> SUFFICES ASSUME NEW e \in Events PROVE sent'[e] <= Allowed(e)'
    BY DEF CopiesAccounted, Allowed
  <2>0. /\ sent[e] \in Nat /\ outbox[e].retries \in Nat /\ faults \in Nat
        /\ sent[e] <= Allowed(e)
    BY CopiesByEvent DEF TypeOK, Row
  <2>1. CASE e \in batch[w]
    BY <1>1, <2>0 DEF Allowed
  <2>2. CASE e \notin batch[w]
    <3>1. \A v \in Workers : e \in batch[v] \ todo[v] <=> e \in batch'[v] \ todo'[v]
      BY <1>1, <2>2 DEF TypeOK, LockInv
    <3> QED
      BY <1>1, <2>0, <3>1 DEF Allowed
  <2> QED
    BY <2>1, <2>2
<1> QED
  BY <1>2, <1>4, <1>5

\* Only rows that no worker can have locked wait for their backoff.
LEMMA RetryDueInv ==
    ASSUME OutboxInv, TypeOK', NEW e \in Events, RetryDue(e)
    PROVE  RowInv' /\ LockInv' /\ CopiesAccounted'
<1> USE DEF OutboxInv
<1>1. outbox[e].retryAt = "later" /\ UNCHANGED <<stored, batch, todo, draft, sent, faults>>
  BY DEF RetryDue, ingestVars, workerVars
<1>2. outbox[e] \in Row
  BY DEF TypeOK
<1>3. outbox' = [outbox EXCEPT ![e] = [outbox[e] EXCEPT !.retryAt = "due"]]
  BY DEF RetryDue
<1>4. /\ outbox'[e].status = outbox[e].status /\ outbox'[e].retries = outbox[e].retries
      /\ outbox'[e].by = outbox[e].by /\ outbox'[e].retryAt = "due"
      /\ \A f \in Events : f # e => outbox'[f] = outbox[f]
  BY <1>2, <1>3 DEF Row, TypeOK
<1>5. RowInv'
  BY <1>1, <1>4 DEF RowInv
<1>6. \A w \in Workers : e \notin batch[w]
  BY <1>1 DEF LockInv, Eligible, RowInv
<1>7. \A w \in Workers : \A f \in batch[w] : outbox'[f] = outbox[f] /\ f \in Events
  BY <1>4, <1>6 DEF TypeOK
<1>8. LockInv'
  BY <1>1, <1>7 DEF LockInv, Eligible
<1>9. CopiesAccounted'
  <2> SUFFICES ASSUME NEW f \in Events PROVE sent'[f] <= Allowed(f)'
    BY DEF CopiesAccounted, Allowed
  <2>1. Allowed(f)' = Allowed(f)
    BY <1>1, <1>4 DEF Allowed
  <2> QED
    BY <1>1, <2>1, CopiesByEvent
<1> QED
  BY <1>5, <1>8, <1>9

LEMMA InvInit == Init => OutboxInv
<1> SUFFICES ASSUME Init PROVE OutboxInv
  OBVIOUS
<1>1. TypeOK
  BY RowTypes DEF Init, TypeOK
<1>2. IngestInv
  BY DEF Init, IngestInv, Holding
<1>3. \A e \in Events : outbox[e] = NoRow /\ stored[e] = None /\ sent[e] = 0
  BY DEF Init
<1>4. RowInv
  BY <1>3 DEF RowInv, NoRow
<1>5. LockInv
  BY DEF Init, LockInv
<1>6. CopiesAccounted
  <2>1. /\ faults = 0 /\ \A w \in Workers : batch[w] = {}
        /\ \A e \in Events : outbox[e].retries = 0 /\ outbox[e].status = "none"
    BY DEF Init, NoRow
  <2> QED
    BY <1>3, <2>1 DEF CopiesAccounted
<1> QED
  BY <1>1, <1>2, <1>4, <1>5, <1>6 DEF OutboxInv

LEMMA InvStep == OutboxInv /\ [Next]_vars => OutboxInv'
<1> SUFFICES ASSUME OutboxInv, [Next]_vars PROVE OutboxInv'
  OBVIOUS
<1>0. TypeOK'
  BY TypeStep DEF OutboxInv
<1>1. CASE UNCHANGED vars
  <2>1. UNCHANGED <<stored, outbox, workerVars>> /\ faults' >= faults /\ UNCHANGED ingestVars
    BY <1>1 DEF vars, workerVars, ingestVars, OutboxInv, TypeOK
  <2> QED
    BY <1>0, <2>1, RowsFrame, IngestFrame DEF OutboxInv
<1>2. ASSUME NEW c \in Calls,
             Receive(c) \/ Check(c) \/ Insert(c) \/ Record(c) \/ Suppress(c) \/ IngestFault(c)
      PROVE OutboxInv'
  <2>1. UNCHANGED <<stored, outbox, workerVars>> /\ faults' >= faults
    BY <1>2 DEF Receive, Check, Insert, Record, Suppress, IngestFault, OutboxInv, TypeOK
  <2>2. IngestInv'
    BY <1>0, <1>2, ReceiveInv, InsertInv, RecordInv, SuppressInv
  <2> QED
    BY <1>0, <2>1, <2>2, RowsFrame DEF OutboxInv
<1>3. ASSUME NEW c \in Calls, Commit(c) PROVE OutboxInv'
  BY <1>0, <1>3, CommitInv DEF OutboxInv
<1>4. ASSUME NEW w \in Workers, WorkerStep(w) \/ WorkerFault(w) PROVE OutboxInv'
  <2>1. UNCHANGED ingestVars
    BY <1>4 DEF WorkerStep, Claim, PublishOk, PublishFail, CommitBatch, WorkerFault
  <2>2. IngestInv'
    BY <2>1, IngestFrame DEF OutboxInv
  <2>3. RowInv' /\ LockInv' /\ CopiesAccounted'
    BY <1>0, <1>4, ClaimInv, PublishInv, CommitBatchInv, WorkerFaultInv DEF WorkerStep
  <2> QED
    BY <1>0, <2>2, <2>3 DEF OutboxInv
<1>5. ASSUME NEW e \in Events, RetryDue(e) PROVE OutboxInv'
  <2>1. IngestInv'
    BY <1>5, IngestFrame DEF OutboxInv, RetryDue
  <2> QED
    BY <1>0, <1>5, <2>1, RetryDueInv DEF OutboxInv
<1> QED
  BY <1>1, <1>2, <1>3, <1>4, <1>5 DEF Next, IngestStep

\* The inductive invariant holds in every reachable state.
THEOREM InvariantCorrect == Spec => []OutboxInv
BY InvInit, InvStep, PTL DEF Spec

-----------------------------------------------------------------------------
(* The safety properties                                                   *)

\* A call leaves its whole transaction behind or nothing of it.
THEOREM IngestAtomicity == Spec => []IngestAtomic
<1>1. ASSUME OutboxInv PROVE IngestAtomic
  <2>1. ASSUME NEW e \in Events, NEW c \in Calls, req[c] = e
        PROVE  /\ <<c, "persisted">> \in audit <=> stored[e] = c
               /\ <<c, "unresolved">> \in audit <=> stored[e] = c /\ e \in Unresolved
    <3>1. /\ <<c, "persisted">> \in audit <=> stored[req[c]] = c
          /\ <<c, "unresolved">> \in audit <=> stored[req[c]] = c /\ req[c] \in Unresolved
      BY <1>1 DEF OutboxInv, IngestInv
    <3> QED
      BY <2>1, <3>1
  <2>2. \A e \in Events : /\ outbox[e].status = "none" <=> stored[e] = None
                          /\ stored[e] # None => outbox[e].by = stored[e]
    BY <1>1 DEF OutboxInv, RowInv
  <2> QED
    BY <2>1, <2>2 DEF IngestAtomic
<1> QED
  BY <1>1, InvariantCorrect, PTL

\* The answer of handle() agrees with what is durable.
THEOREM AnswersTrue == Spec => []AnswersHold
<1>1. OutboxInv => AnswersHold
  BY DEF OutboxInv, IngestInv, AnswersHold
<1> QED
  BY <1>1, InvariantCorrect, PTL

\* Nothing is on the topic that PostgreSQL does not hold.
THEOREM PersistedFirst == Spec => []PersistBeforePublish
<1>1. OutboxInv => PersistBeforePublish
  BY DEF OutboxInv, RowInv, PersistBeforePublish
<1> QED
  BY <1>1, InvariantCorrect, PTL

\* No row exceeds its retries or leaves the retry schedule early.
THEOREM RetriesBounded == Spec => []RetryBudget
<1>1. OutboxInv => RetryBudget
  <2> SUFFICES ASSUME OutboxInv, NEW e \in Events
               PROVE  /\ outbox[e].retries <= MaxRetries
                      /\ outbox[e].status = "failed" =>
                            (outbox[e].retryAt = "null" <=> outbox[e].retries = MaxRetries)
                      /\ outbox[e].status # "processing"
    BY DEF RetryBudget
  <2>1. outbox[e].status \in Statuses /\ outbox[e].retries \in Nat
    BY DEF OutboxInv, TypeOK, Row
  <2>2. /\ outbox[e].status # "processing"
        /\ outbox[e].status \in {"none", "pending"} => outbox[e].retries = 0
        /\ outbox[e].status = "failed" =>
              /\ outbox[e].retries \in 1..MaxRetries
              /\ outbox[e].retryAt = "null" <=> outbox[e].retries = MaxRetries
        /\ outbox[e].status = "published" => outbox[e].retries < MaxRetries
    BY DEF OutboxInv, RowInv
  <2>3. outbox[e].retries <= MaxRetries
    BY <2>1, <2>2 DEF Statuses
  <2> QED
    BY <2>2, <2>3
<1> QED
  BY <1>1, InvariantCorrect, PTL

\* No row is dispatched by two workers at once.
THEOREM DispatchExclusive == Spec => []ExclusiveDispatch
<1>1. OutboxInv => ExclusiveDispatch
  BY DEF OutboxInv, LockInv, ExclusiveDispatch
<1> QED
  BY <1>1, InvariantCorrect, PTL

\* Every copy on the topic has an attempt or a fault behind it.
THEOREM CopiesBounded == Spec => []CopiesAccounted
<1>1. OutboxInv => CopiesAccounted
  BY DEF OutboxInv
<1> QED
  BY <1>1, InvariantCorrect, PTL

-----------------------------------------------------------------------------
(* Refinement of Delivery                                                  *)

\* The state functions that stand for the variables of Delivery.
Accepted == {e \in Events : stored[e] # None}
Settled == {e \in Events : outbox[e].status = "published"}
Abandoned == {e \in Events : Dead(e)}

\* A call that commits accepts its event.
LEMMA CommitAccepts ==
    ASSUME OutboxInv, NEW c \in Calls, Commit(c)
    PROVE  \E e \in Events : D!Accept(e)
<1> USE DEF OutboxInv
<1>1. req[c] \in Events /\ stored[req[c]] = None /\ outbox[req[c]].status = "none"
  <2>1. pc[c] \in Holding => stored[req[c]] = None
    BY DEF IngestInv
  <2> QED
    BY <2>1 DEF Commit, Holding, TypeOK, RowInv
<1>2. /\ stored' = [stored EXCEPT ![req[c]] = c]
      /\ outbox' = [outbox EXCEPT ![req[c]] = NewRow(c)] /\ sent' = sent
  BY DEF Commit, workerVars
<1>3. /\ outbox'[req[c]].status = "pending"
      /\ \A e \in Events : e # req[c] => outbox'[e] = outbox[e]
  BY <1>1, <1>2 DEF NewRow, TypeOK
<1>4. Accepted' = Accepted \cup {req[c]}
  BY <1>1, <1>2 DEF Accepted, TypeOK
<1>5. Settled' = Settled
  BY <1>1, <1>3 DEF Settled
<1>6. Abandoned' = Abandoned
  BY <1>1, <1>3 DEF Abandoned, Dead
<1>7. req[c] \notin Accepted
  BY <1>1 DEF Accepted
<1>8. PICK e \in Events : e = req[c]
  BY <1>1
<1>9. D!Accept(e)
  BY <1>2, <1>4, <1>5, <1>6, <1>7, <1>8 DEF D!Accept, Accepted, Settled, Abandoned
<1> QED
  BY <1>9

\* A publication attempt delivers a copy, or changes nothing of the promise.
LEMMA PublishDelivers ==
    ASSUME OutboxInv, NEW w \in Workers, PublishOk(w) \/ PublishFail(w)
    PROVE  (\E e \in Events : D!Deliver(e)) \/ UNCHANGED D!dvars
<1> USE DEF OutboxInv
<1>1. PICK e \in Events :
        e \in todo[w] /\ (sent' = sent \/ sent' = [sent EXCEPT ![e] = @ + 1])
  BY DEF PublishOk, PublishFail, NextRow
<1>2. stored' = stored /\ outbox' = outbox
  BY DEF PublishOk, PublishFail, ingestVars
<1>3. Accepted' = Accepted /\ Settled' = Settled /\ Abandoned' = Abandoned
  BY <1>2 DEF Accepted, Settled, Abandoned, Dead
<1>4. CASE sent' = sent
  BY <1>3, <1>4 DEF D!dvars, Accepted, Settled, Abandoned
<1>5. CASE sent' = [sent EXCEPT ![e] = @ + 1]
  <2>1. Eligible(e)
    BY <1>1 DEF LockInv
  <2>2. e \in Accepted \ (Settled \cup Abandoned)
    BY <2>1 DEF Eligible, RowInv, Accepted, Settled, Abandoned, Dead
  <2>3. D!Deliver(e)
    BY <1>3, <1>5, <2>2 DEF D!Deliver, Accepted, Settled, Abandoned
  <2> QED
    BY <2>3
<1> QED
  BY <1>1, <1>4, <1>5

\* The commit of a batch settles the published rows and gives up the rows
\* that are out of attempts.
LEMMA BatchResolves ==
    ASSUME OutboxInv, NEW w \in Workers, CommitBatch(w)
    PROVE  \E S, G \in SUBSET Events : D!Resolve(S, G)
<1> USE DEF OutboxInv
<1> DEFINE S == {e \in batch[w] : draft[e].status = "published"}
           G == {e \in batch[w] : draft[e].status = "failed" /\ draft[e].retryAt = "null"}
<1>1. /\ todo[w] = {} /\ batch[w] \subseteq Events
      /\ outbox' = [e \in Events |-> IF e \in batch[w] THEN draft[e] ELSE outbox[e]]
      /\ UNCHANGED <<stored, sent>>
  BY DEF CommitBatch, ingestVars, TypeOK
<1>2. \A e \in batch[w] :
         \/ outbox[e].status # "published" /\ outbox[e].retryAt # "null"
         \/ outbox[e].status = "pending"
  BY <1>1 DEF LockInv, Eligible, RowInv
<1>3. S \in SUBSET Events /\ G \in SUBSET Events /\ S \cap G = {}
  BY <1>1
<1>4. S \cup G \subseteq Accepted \ (Settled \cup Abandoned)
  BY <1>1, <1>2, SettledDraft DEF Accepted, Settled, Abandoned, Dead
<1>5. \A e \in S : sent[e] > 0
  BY <1>1, SettledDraft
<1>6. Accepted' = Accepted
  BY <1>1 DEF Accepted
<1>7. Settled' = Settled \cup S
  BY <1>1, <1>2 DEF Settled
<1>8. Abandoned' = Abandoned \cup G
  BY <1>1, <1>2 DEF Abandoned, Dead
<1>9. PICK s, g \in SUBSET Events : s = S /\ g = G
  BY <1>3
<1>10. D!Resolve(s, g)
  BY <1>1, <1>3, <1>4, <1>5, <1>6, <1>7, <1>8, <1>9
     DEF D!Resolve, Accepted, Settled, Abandoned
<1> QED
  BY <1>10

\* The passing of a backoff is invisible.
LEMMA RetryDueStutters ==
    ASSUME OutboxInv, NEW e \in Events, RetryDue(e)
    PROVE  UNCHANGED D!dvars
<1>1. outbox[e].retryAt = "later" /\ outbox[e] \in Row /\ UNCHANGED <<stored, sent>>
  BY DEF RetryDue, ingestVars, workerVars, OutboxInv, TypeOK
<1>2. outbox' = [outbox EXCEPT ![e] = [outbox[e] EXCEPT !.retryAt = "due"]]
  BY DEF RetryDue
<1>3. /\ outbox'[e].status = outbox[e].status /\ outbox'[e].retryAt = "due"
      /\ \A f \in Events : f # e => outbox'[f] = outbox[f]
  BY <1>1, <1>2 DEF Row, OutboxInv, TypeOK
<1>4. Settled' = Settled
  BY <1>3 DEF Settled
<1>5. Abandoned' = Abandoned
  BY <1>1, <1>3 DEF Abandoned, Dead
<1> QED
  BY <1>1, <1>4, <1>5 DEF D!dvars, Settled, Abandoned

LEMMA DeliveryStep == OutboxInv /\ [Next]_vars => [D!DNext]_(D!dvars)
<1> SUFFICES ASSUME OutboxInv, [Next]_vars PROVE D!DNext \/ UNCHANGED D!dvars
  OBVIOUS
<1>1. ASSUME UNCHANGED <<stored, outbox, sent>> PROVE UNCHANGED D!dvars
  BY <1>1 DEF D!dvars, Dead
<1>2. CASE UNCHANGED vars
  BY <1>1, <1>2 DEF vars
<1>3. ASSUME NEW c \in Calls,
             Receive(c) \/ Check(c) \/ Insert(c) \/ Record(c) \/ Suppress(c) \/ IngestFault(c)
      PROVE UNCHANGED D!dvars
  BY <1>1, <1>3 DEF Receive, Check, Insert, Record, Suppress, IngestFault, workerVars
<1>4. ASSUME NEW c \in Calls, Commit(c) PROVE D!DNext
  BY <1>4, CommitAccepts DEF D!DNext
<1>5. ASSUME NEW w \in Workers, Claim(w) \/ WorkerFault(w) PROVE UNCHANGED D!dvars
  BY <1>1, <1>5 DEF Claim, WorkerFault, ingestVars
<1>6. ASSUME NEW w \in Workers, PublishOk(w) \/ PublishFail(w)
      PROVE D!DNext \/ UNCHANGED D!dvars
  BY <1>6, PublishDelivers DEF D!DNext
<1>7. ASSUME NEW w \in Workers, CommitBatch(w) PROVE D!DNext
  BY <1>7, BatchResolves DEF D!DNext
<1>8. ASSUME NEW e \in Events, RetryDue(e) PROVE UNCHANGED D!dvars
  BY <1>8, RetryDueStutters
<1> QED
  BY <1>2, <1>3, <1>4, <1>5, <1>6, <1>7, <1>8 DEF Next, IngestStep, WorkerStep

\* The transactional outbox keeps the promise of Delivery.
THEOREM Refinement == Spec => ImplementsDelivery
<1>1. Init => D!DInit
  BY DEF Init, D!DInit, NoRow, Dead
<1> QED
  BY <1>1, DeliveryStep, InvariantCorrect, PTL DEF Spec, ImplementsDelivery, D!DSpec

-----------------------------------------------------------------------------
(* One outbox key for each identity                                         *)

\* The derived key tells identities apart.  The code's key, tenant and event
\* identity without the source, does so within a source only.
KeysApart == \A e, f \in Events : OutboxKey[e] = OutboxKey[f] => e = f

ErrorsAreFaults == \A c \in Calls : faults = 0 => pc[c] # "error"

LEMMA RecordFindsFreeKey ==
    ASSUME OutboxInv, KeysApart, NEW c \in Calls, pc[c] = "record"
    PROVE  ~ OutboxKeyTaken(req[c])
<1>1. req[c] \in Events /\ stored[req[c]] = None
  BY DEF OutboxInv, IngestInv, TypeOK, Holding
<1>2. outbox[req[c]].status = "none"
  BY <1>1 DEF OutboxInv, RowInv
<1> QED
  BY <1>1, <1>2 DEF OutboxKeyTaken, KeysApart

LEMMA ErrorsKept ==
    ASSUME KeysApart, OutboxInv, ErrorsAreFaults, [Next]_vars PROVE ErrorsAreFaults'
<1> SUFFICES ASSUME NEW c \in Calls, faults' = 0 PROVE pc'[c] # "error"
  BY DEF ErrorsAreFaults
<1>0. pc \in [Calls -> {"idle"} \cup InTransaction \cup Answers] /\ faults \in Nat
  BY DEF OutboxInv, TypeOK
<1>1. ASSUME faults' = faults, pc'[c] = pc[c] PROVE pc'[c] # "error"
  BY <1>1 DEF ErrorsAreFaults
<1>2. ASSUME faults' = faults + 1 PROVE FALSE
  BY <1>0, <1>2
<1>3. CASE UNCHANGED vars
  BY <1>1, <1>3 DEF vars
<1>4. ASSUME NEW w \in Workers, WorkerStep(w) \/ WorkerFault(w) PROVE pc'[c] # "error"
  BY <1>1, <1>2, <1>4
     DEF WorkerStep, WorkerFault, Claim, PublishOk, PublishFail, CommitBatch, ingestVars
<1>5. ASSUME NEW e \in Events, RetryDue(e) PROVE pc'[c] # "error"
  BY <1>1, <1>5 DEF RetryDue, ingestVars
<1>6. ASSUME NEW d \in Calls, IngestFault(d) PROVE pc'[c] # "error"
  BY <1>2, <1>6 DEF IngestFault
<1>7. ASSUME NEW d \in Calls, Receive(d) \/ Check(d) \/ Insert(d) \/ Suppress(d)
      PROVE  pc'[c] # "error"
  <2>1. faults' = faults /\ (c # d => pc'[c] = pc[c]) /\ pc'[d] # "error"
    BY <1>0, <1>7 DEF Receive, Check, Insert, Suppress
  <2> QED
    BY <1>1, <2>1
<1>8. ASSUME NEW d \in Calls, Record(d) PROVE pc'[c] # "error"
  <2>1. ~ OutboxKeyTaken(req[d])
    BY <1>8, RecordFindsFreeKey DEF Record
  <2>2. faults' = faults /\ (c # d => pc'[c] = pc[c]) /\ pc'[d] = "commit"
    BY <1>0, <1>8, <2>1 DEF Record
  <2> QED
    BY <1>1, <2>2
<1>9. ASSUME NEW d \in Calls, Commit(d) PROVE pc'[c] # "error"
  <2>1. faults' = faults /\ (c # d => pc'[c] = pc[c]) /\ pc'[d] = "created"
    BY <1>0, <1>2, <1>9 DEF Commit
  <2> QED
    BY <1>1, <2>1
<1> QED
  BY <1>3, <1>4, <1>5, <1>6, <1>7, <1>8, <1>9 DEF Next, IngestStep

\* With an outbox key of its own for each identity, a call fails only by a fault:
\* leaving the source out of the key is all there is to the rejected events.
THEOREM ApartAccepted == ASSUME KeysApart PROVE Spec => []DistinctEventsAccepted
<1>1. Init => ErrorsAreFaults
  BY DEF Init, ErrorsAreFaults
<1>2. OutboxInv /\ ErrorsAreFaults /\ [Next]_vars => ErrorsAreFaults'
  BY ErrorsKept
<1>3. ErrorsAreFaults => DistinctEventsAccepted
  BY DEF ErrorsAreFaults, DistinctEventsAccepted
<1> QED
  BY <1>1, <1>2, <1>3, InvariantCorrect, PTL DEF Spec

-----------------------------------------------------------------------------
(* Calls do not wait for ever                                               *)

\* The INSERT of c meets an uncommitted row of another call.
CallWaits(c) ==
    \/ pc[c] = "insert" /\ EventRowHeld(req[c])
    \/ pc[c] = "record" /\ OutboxKeyHeld(req[c])

CallsWaitsEnd ==
    (\E c \in Calls : pc[c] \in InTransaction) =>
        \E c \in Calls : pc[c] \in InTransaction /\ ~ CallWaits(c)

\* The places of a call, in order.
CallPlace(c) ==
    CASE pc[c] = "idle" -> 0
      [] pc[c] = "check" -> 1
      [] pc[c] = "insert" -> 2
      [] pc[c] \in {"record", "suppress"} -> 3
      [] pc[c] = "commit" -> 4
      [] pc[c] \in Answers -> 5

CallsRunForward ==
    [][\A c \in Calls : pc'[c] = pc[c] \/ CallPlace(c) < CallPlace(c)']_vars

\* A call waits for one that has its row or key; that one has both or waits for a
\* third that has: nobody who is about to commit waits.
LEMMA InvCallsWaitsEnd == OutboxInv => CallsWaitsEnd
<1> SUFFICES ASSUME OutboxInv, NEW c \in Calls, pc[c] \in InTransaction
             PROVE  \E d \in Calls : pc[d] \in InTransaction /\ ~ CallWaits(d)
  BY DEF CallsWaitsEnd
<1>1. ASSUME NEW d \in Calls, pc[d] = "commit"
      PROVE  pc[d] \in InTransaction /\ ~ CallWaits(d)
  BY <1>1 DEF CallWaits, InTransaction
<1>2. ASSUME NEW d \in Calls, pc[d] = "record"
      PROVE  \E x \in Calls : pc[x] \in InTransaction /\ ~ CallWaits(x)
  <2>1. CASE OutboxKeyHeld(req[d])
    BY <1>1, <2>1 DEF OutboxKeyHeld
  <2>2. CASE ~ OutboxKeyHeld(req[d])
    BY <1>2, <2>2 DEF CallWaits, InTransaction
  <2> QED
    BY <2>1, <2>2
<1>3. CASE CallWaits(c)
  <2>1. CASE pc[c] = "insert"
    <3>1. EventRowHeld(req[c])
      BY <1>3, <2>1 DEF CallWaits
    <3> QED
      BY <1>1, <1>2, <3>1 DEF EventRowHeld
  <2>2. CASE pc[c] = "record"
    BY <1>2, <2>2
  <2> QED
    BY <1>3, <2>1, <2>2 DEF CallWaits
<1> QED
  BY <1>3

\* Calls of one identity, of several identities with one outbox key or of both
\* never all wait for each other's uncommitted rows.
THEOREM CallsNeverAllWait == Spec => []CallsWaitsEnd
BY InvCallsWaitsEnd, InvariantCorrect, PTL

LEMMA CallSteps ==
    ASSUME OutboxInv, [Next]_vars, NEW c \in Calls, pc'[c] # pc[c]
    PROVE  CallPlace(c) < CallPlace(c)'
<1>0. pc \in [Calls -> {"idle"} \cup InTransaction \cup Answers]
  BY DEF OutboxInv, TypeOK
<1>1. ASSUME NEW d \in Calls, d # c, Receive(d) \/ IngestStep(d) \/ IngestFault(d)
      PROVE  FALSE
  BY <1>0, <1>1 DEF Receive, IngestStep, IngestFault, Check, Insert, Record, Commit, Suppress
<1>2. CASE UNCHANGED vars
  BY <1>2 DEF vars
<1>3. ASSUME NEW w \in Workers, WorkerStep(w) \/ WorkerFault(w) PROVE FALSE
  BY <1>3 DEF WorkerStep, WorkerFault, Claim, PublishOk, PublishFail, CommitBatch, ingestVars
<1>4. ASSUME NEW e \in Events, RetryDue(e) PROVE FALSE
  BY <1>4 DEF RetryDue, ingestVars
<1>5. CASE Receive(c) \/ Check(c) \/ Insert(c) \/ Suppress(c)
  <2>1. \/ pc[c] = "idle" /\ pc'[c] = "check"
        \/ pc[c] = "check" /\ pc'[c] \in {"insert", "suppress"}
        \/ pc[c] = "insert" /\ pc'[c] \in {"record", "suppress"}
        \/ pc[c] = "suppress" /\ pc'[c] \in {"duplicate", "error"}
    BY <1>0, <1>5 DEF Receive, Check, Insert, Suppress
  <2> QED
    BY <2>1 DEF CallPlace, Answers
<1>6. CASE Record(c) \/ Commit(c)
  <2>1. \/ pc[c] = "record" /\ pc'[c] \in {"error", "commit"}
        \/ pc[c] = "commit" /\ pc'[c] \in {"created", "error"}
    BY <1>0, <1>6 DEF Record, Commit
  <2> QED
    BY <2>1 DEF CallPlace, Answers
<1>7. CASE IngestFault(c)
  <2>1. pc[c] \in InTransaction /\ pc'[c] = "error"
    BY <1>0, <1>7 DEF IngestFault
  <2> QED
    BY <2>1 DEF CallPlace, InTransaction, Answers
<1> QED
  BY <1>1, <1>2, <1>3, <1>4, <1>5, <1>6, <1>7 DEF Next, IngestStep

\* ... and none goes back or repeats a statement: a call takes five steps at most.
THEOREM CallsAdvance == Spec => CallsRunForward
<1>1. OutboxInv /\ [Next]_vars =>
         [\A c \in Calls : pc'[c] = pc[c] \/ CallPlace(c) < CallPlace(c)']_vars
  BY CallSteps
<1> QED
  BY <1>1, InvariantCorrect, PTL DEF Spec, CallsRunForward

-----------------------------------------------------------------------------
(* The life of a row                                                        *)

\* How far a committed row is: attempts first, then what is left of this one.
RowPlace(e) ==
    5 * outbox[e].retries + CASE outbox[e].status = "none" -> 0
                              [] outbox[e].status = "pending" -> 1
                              [] outbox[e].status = "failed" /\ outbox[e].retryAt = "later" -> 2
                              [] outbox[e].status = "failed" /\ outbox[e].retryAt = "due" -> 3
                              [] OTHER -> 4

RowsBounded == \A e \in Events : RowPlace(e) \in 0 .. 5 * MaxRetries + 4

\* A row that is published or out of attempts is final, any other only advances,
\* and it stays the row of the call that stored the event.
RowsAdvance ==
    [][\A e \in Events :
          /\ outbox'[e] = outbox[e] \/ RowPlace(e) < RowPlace(e)'
          /\ outbox[e].status = "published" \/ Dead(e) => outbox'[e] = outbox[e]
          /\ stored[e] # None => stored'[e] = stored[e] /\ outbox'[e].by = outbox[e].by]_vars

LEMMA InvRowsBounded == OutboxInv => RowsBounded
<1> SUFFICES ASSUME OutboxInv, NEW e \in Events
             PROVE  RowPlace(e) \in 0 .. 5 * MaxRetries + 4
  BY DEF RowsBounded
<1>1. /\ outbox[e].retries \in Nat /\ outbox[e].retries <= MaxRetries /\ MaxRetries \in Nat
      /\ outbox[e].status \in Statuses
  BY DEF OutboxInv, TypeOK, RowInv, Row, Statuses
<1> QED
  BY <1>1 DEF RowPlace

\* The steps that write a committed row, each with the row it writes.
LEMMA RowStep ==
    ASSUME OutboxInv, [Next]_vars, NEW e \in Events, outbox'[e] # outbox[e]
    PROVE  \/ \E c \in Calls : Commit(c) /\ req[c] = e
           \/ \E w \in Workers : CommitBatch(w) /\ e \in batch[w]
           \/ RetryDue(e)
<1>0. outbox \in [Events -> Row]
  BY DEF OutboxInv, TypeOK
<1>1. ASSUME NEW c \in Calls, Commit(c) PROVE req[c] = e
  BY <1>0, <1>1 DEF Commit
<1>2. ASSUME NEW c \in Calls,
             Receive(c) \/ Check(c) \/ Insert(c) \/ Record(c) \/ Suppress(c) \/ IngestFault(c)
      PROVE  FALSE
  BY <1>2 DEF Receive, Check, Insert, Record, Suppress, IngestFault
<1>3. ASSUME NEW w \in Workers, CommitBatch(w) PROVE e \in batch[w]
  BY <1>3 DEF CommitBatch
<1>4. ASSUME NEW w \in Workers, Claim(w) \/ PublishOk(w) \/ PublishFail(w) \/ WorkerFault(w)
      PROVE  FALSE
  BY <1>4 DEF Claim, PublishOk, PublishFail, WorkerFault
<1>5. ASSUME NEW f \in Events, RetryDue(f) PROVE f = e
  BY <1>0, <1>5 DEF RetryDue
<1>6. CASE UNCHANGED vars
  BY <1>6 DEF vars
<1> QED
  BY <1>1, <1>2, <1>3, <1>4, <1>5, <1>6 DEF Next, IngestStep, WorkerStep

LEMMA RowMoves ==
    ASSUME OutboxInv, [Next]_vars, NEW e \in Events, outbox'[e] # outbox[e]
    PROVE  /\ RowPlace(e) < RowPlace(e)'
           /\ outbox[e].status # "published" /\ ~ Dead(e)
           /\ stored[e] # None => outbox'[e].by = outbox[e].by
<1>0. /\ outbox \in [Events -> Row] /\ outbox[e].retries \in Nat
      /\ MaxRetries \in Nat
  BY DEF OutboxInv, TypeOK, Row
<1>1. ASSUME NEW c \in Calls, Commit(c), req[c] = e
      PROVE  /\ RowPlace(e) < RowPlace(e)'
             /\ outbox[e].status # "published" /\ ~ Dead(e) /\ stored[e] = None
  <2>1. pc[c] = "commit" /\ stored[e] = None
    BY <1>1 DEF Commit, OutboxInv, IngestInv, Holding
  <2>2. outbox[e].status = "none" /\ outbox[e].retries = 0
    BY <2>1 DEF OutboxInv, RowInv
  <2>3. outbox'[e] = NewRow(c)
    BY <1>0, <1>1 DEF Commit
  <2>4. outbox'[e].status = "pending" /\ outbox'[e].retries = 0
    BY <2>3 DEF NewRow
  <2> QED
    BY <2>1, <2>2, <2>4 DEF RowPlace, Dead
<1>2. ASSUME NEW w \in Workers, CommitBatch(w), e \in batch[w]
      PROVE  /\ RowPlace(e) < RowPlace(e)'
             /\ outbox[e].status # "published" /\ ~ Dead(e)
             /\ outbox'[e].by = outbox[e].by
  <2>1. outbox'[e] = draft[e] /\ todo[w] = {}
    BY <1>2 DEF CommitBatch
  <2>2. /\ outbox[e].status \in {"pending", "failed"}
        /\ draft[e].by = outbox[e].by
        /\ \/ draft[e].status = "published" /\ draft[e].retries = outbox[e].retries
           \/ draft[e].status = "failed" /\ draft[e].retries = outbox[e].retries + 1
    BY <1>2, <2>1, SettledDraft
  <2>3. Eligible(e)
    BY <1>2 DEF OutboxInv, LockInv
  <2>4. ~ Dead(e) /\ (outbox[e].status = "failed" => outbox[e].retryAt = "due")
    BY <2>2, <2>3 DEF Eligible, Dead
  <2>5. RowPlace(e) <= 5 * outbox[e].retries + 3
    BY <1>0, <2>2, <2>4 DEF RowPlace
  <2>6. CASE draft[e].status = "published" /\ draft[e].retries = outbox[e].retries
    <3>1. RowPlace(e)' = 5 * outbox[e].retries + 4
      BY <2>1, <2>6 DEF RowPlace
    <3> QED
      BY <1>0, <2>1, <2>2, <2>4, <2>5, <3>1 DEF RowPlace
  <2>7. CASE draft[e].status = "failed" /\ draft[e].retries = outbox[e].retries + 1
    <3>1. RowPlace(e)' >= 5 * (outbox[e].retries + 1)
      BY <1>0, <2>1, <2>7 DEF RowPlace
    <3>2. RowPlace(e)' \in Nat /\ RowPlace(e) \in Nat
      BY <1>0, <2>1, <2>7 DEF RowPlace
    <3> QED
      BY <1>0, <2>1, <2>2, <2>4, <2>5, <3>1, <3>2
  <2> QED
    BY <2>2, <2>6, <2>7
<1>3. ASSUME RetryDue(e)
      PROVE  /\ RowPlace(e) < RowPlace(e)'
             /\ outbox[e].status # "published" /\ ~ Dead(e)
             /\ outbox'[e].by = outbox[e].by
  <2>1. /\ outbox[e].retryAt = "later"
        /\ outbox' = [outbox EXCEPT ![e] = [outbox[e] EXCEPT !.retryAt = "due"]]
    BY <1>3 DEF RetryDue
  <2>2. /\ outbox'[e].status = outbox[e].status /\ outbox'[e].retries = outbox[e].retries
        /\ outbox'[e].by = outbox[e].by /\ outbox'[e].retryAt = "due"
    BY <1>0, <2>1 DEF Row
  <2>3. outbox[e].status = "failed"
    BY <1>0, <2>1 DEF OutboxInv, RowInv, Row, Statuses
  <2> QED
    BY <1>0, <2>1, <2>2, <2>3 DEF RowPlace, Dead
<1> QED
  BY <1>1, <1>2, <1>3, RowStep

LEMMA StoredStays ==
    ASSUME OutboxInv, [Next]_vars, NEW e \in Events, stored[e] # None
    PROVE  stored'[e] = stored[e]
<1>1. ASSUME NEW c \in Calls, Commit(c) PROVE stored'[e] = stored[e]
  <2>1. req[c] # e
    BY <1>1 DEF Commit, OutboxInv, IngestInv, Holding
  <2> QED
    BY <1>1, <2>1 DEF Commit, OutboxInv, TypeOK
<1>2. ASSUME NEW c \in Calls,
             Receive(c) \/ Check(c) \/ Insert(c) \/ Record(c) \/ Suppress(c) \/ IngestFault(c)
      PROVE  stored' = stored
  BY <1>2 DEF Receive, Check, Insert, Record, Suppress, IngestFault
<1>3. ASSUME NEW w \in Workers, WorkerStep(w) \/ WorkerFault(w) PROVE stored' = stored
  BY <1>3 DEF WorkerStep, WorkerFault, Claim, PublishOk, PublishFail, CommitBatch, ingestVars
<1>4. ASSUME NEW f \in Events, RetryDue(f) PROVE stored' = stored
  BY <1>4 DEF RetryDue, ingestVars
<1>5. CASE UNCHANGED vars
  BY <1>5 DEF vars
<1> QED
  BY <1>1, <1>2, <1>3, <1>4, <1>5 DEF Next, IngestStep

\* A committed row has at most 5 * MaxRetries + 4 versions, each further than the
\* one before, whatever the workers, the broker and the clocks do.
THEOREM RowsAreBounded == Spec => []RowsBounded
BY InvRowsBounded, InvariantCorrect, PTL

THEOREM RowsOnlyAdvance == Spec => RowsAdvance
<1>1. ASSUME OutboxInv, [Next]_vars, NEW e \in Events
      PROVE  /\ outbox'[e] = outbox[e] \/ RowPlace(e) < RowPlace(e)'
             /\ outbox[e].status = "published" \/ Dead(e) => outbox'[e] = outbox[e]
             /\ stored[e] # None => stored'[e] = stored[e] /\ outbox'[e].by = outbox[e].by
  BY <1>1, RowMoves, StoredStays
<1>2. OutboxInv /\ [Next]_vars =>
         [\A e \in Events :
             /\ outbox'[e] = outbox[e] \/ RowPlace(e) < RowPlace(e)'
             /\ outbox[e].status = "published" \/ Dead(e) => outbox'[e] = outbox[e]
             /\ stored[e] # None => stored'[e] = stored[e] /\ outbox'[e].by = outbox[e].by]_vars
  BY <1>1
<1> QED
  BY <1>2, InvariantCorrect, PTL DEF Spec, RowsAdvance

-----------------------------------------------------------------------------
(* Workers that hold a batch can go on                                      *)

LEMMA LeastNumber ==
    ASSUME NEW S, S \subseteq Nat, S # {}
    PROVE  \E m \in S : \A n \in S : m <= n
<1>1. \E m \in S : \A n \in S : ~ (<<n, m>> \in OpToRel(<, Nat))
  BY NatLessThanWellFounded, WFMin, Zenon
<1>2. PICK m \in S : \A n \in S : ~ (<<n, m>> \in OpToRel(<, Nat))
  BY <1>1
<1>3. ASSUME NEW n \in S PROVE m <= n
  <2>1. n \in Nat /\ m \in Nat
    BY <1>2, <1>3
  <2>2. ASSUME n < m PROVE FALSE
    <3>1. <<n, m>> \in {ss \in Nat \X Nat : ss[1] < ss[2]}
      BY <2>1, <2>2
    <3>2. <<n, m>> \in OpToRel(<, Nat)
      BY <3>1 DEF OpToRel
    <3> QED
      BY <1>2, <1>3, <3>2
  <2> QED
    BY <2>1, <2>2
<1> QED
  BY <1>2, <1>3

\* A worker with rows locked has a next row to publish, or its batch to commit: it
\* does not wait for a call, for another worker or for a row.
HoldersGoOn ==
    \A w \in Workers : batch[w] # {} => todo[w] = {} \/ \E e \in Events : NextRow(w, e)

LEMMA InvHoldersGoOn == OutboxInv => HoldersGoOn
<1> SUFFICES ASSUME OutboxInv, NEW w \in Workers, todo[w] # {}
             PROVE  \E e \in Events : NextRow(w, e)
  BY DEF HoldersGoOn
<1>1. todo[w] \subseteq Events
  BY DEF OutboxInv, TypeOK
<1> DEFINE S == {CreatedAt[e] : e \in todo[w]}
<1>2. S \subseteq Nat /\ S # {}
  BY <1>1
<1>3. PICK m \in S : \A n \in S : m <= n
  BY <1>2, LeastNumber
<1>4. PICK e \in todo[w] : m = CreatedAt[e]
  BY <1>3
<1>5. \A f \in todo[w] : CreatedAt[e] <= CreatedAt[f]
  BY <1>3, <1>4
<1> QED
  BY <1>1, <1>4, <1>5 DEF NextRow

\* A locked row is not locked for ever by workers waiting for each other.
THEOREM DispatchGoesOn == Spec => []HoldersGoOn
BY InvHoldersGoOn, InvariantCorrect, PTL
==============================================================================
