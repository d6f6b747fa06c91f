--------------------------- MODULE CommandsProofs ---------------------------
(***************************************************************************)
(* The safety of Commands for every set of requests and keys, every        *)
(* max_retries and any number of faults.                                   *)
(*                                                                         *)
(* An action of one request leaves the others alone, so the proof that a   *)
(* step preserves the invariant looks at that request only: Local is the   *)
(* invariant of one request, and Untouched says that the rest is as it     *)
(* was.                                                                    *)
(***************************************************************************)
EXTENDS Commands, TLAPS

USE CommandsAssumptions

PCs == {"idle", "attempt", "save", "publish", "answered", "closed"}
AnswerSet == {"none", "ok", "denied"} \cup Failures

-----------------------------------------------------------------------------
(* The invariant, request by request                                       *)

LocalTypes(r) ==
    /\ pc[r] \in PCs
    /\ tries[r] \in 0 .. MaxRetries
    /\ rows[r] \in 0 .. MaxRetries
    /\ session[r] \in {"new", "open", "aborted"}
    /\ answer[r] \in AnswerSet
    /\ topic[r] \in 0 .. MaxRetries
    /\ dlq[r] \in Nat

LocalTries(r) ==
    /\ pc[r] = "idle" => tries[r] = 0
    /\ pc[r] \in {"idle"} \cup Working => answer[r] = "none" /\ tries[r] < MaxRetries
    /\ pc[r] \in {"idle", "attempt", "save"} => rows[r] <= tries[r]
    /\ pc[r] = "publish" => rows[r] <= tries[r] + 1
    /\ pc[r] \in {"idle"} \cup Working => topic[r] <= tries[r]

LocalSession(r) ==
    /\ rows[r] > 0 => session[r] = "open"
    /\ pc[r] = "publish" => rows[r] > 0
    /\ kind[r] \in {"create", "acknowledge"} /\ pc[r] \in Working /\ topic[r] > 0
          => session[r] = "aborted" \/ (pc[r] = "attempt" /\ rows[r] > 0)
    /\ kind[r] \in {"update", "delete"} /\ pc[r] \in Working => rows[r] = 0

LocalPromises(r) ==
    /\ dlq[r] = IF answer[r] \in Failures THEN 1 ELSE 0
    /\ kind[r] \in {"create", "acknowledge"} => topic[r] <= 1
    /\ kind[r] \in {"create", "log"} /\ answer[r] = "ok" => topic[r] > 0
    /\ pc[r] = "answered" /\ answer[r] = "ok" => rows[r] > 0 /\ session[r] = "open"

Local(r) == LocalTypes(r) /\ LocalTries(r) /\ LocalSession(r) /\ LocalPromises(r)
EveryLocal == \A r \in Requests : Local(r)

\* Each variable of the requests is a function, and tenants and faults are what
\* they should be.
Shape ==
    /\ bus \in BusModes
    /\ tenants \subseteq Keys /\ faults \in Nat
    /\ kind \in [Requests -> Kinds]
    /\ key \in [Requests -> Keys]
    /\ pc = [r \in Requests |-> pc[r]]
    /\ tries = [r \in Requests |-> tries[r]]
    /\ rows = [r \in Requests |-> rows[r]]
    /\ session = [r \in Requests |-> session[r]]
    /\ answer = [r \in Requests |-> answer[r]]
    /\ topic = [r \in Requests |-> topic[r]]
    /\ dlq = [r \in Requests |-> dlq[r]]

LEMMA InvIsLocal == CommandsInv <=> Shape /\ EveryLocal
<1>1. TypeOK <=> Shape /\ \A r \in Requests : LocalTypes(r)
  BY DEF TypeOK, Shape, LocalTypes, PCs, AnswerSet
<1>2. TriesInv <=> \A r \in Requests : LocalTries(r)
  BY DEF TriesInv, LocalTries
<1>3. SessionInv <=> \A r \in Requests : LocalSession(r)
  BY DEF SessionInv, LocalSession
<1>4. DeadLettersAreFailures /\ AnnouncedOnce /\ AcceptedIsAnnounced /\ AcceptedIsWritten
        <=> \A r \in Requests : LocalPromises(r)
  BY DEF DeadLettersAreFailures, AnnouncedOnce, AcceptedIsAnnounced, AcceptedIsWritten,
         LocalPromises
<1> QED
  BY <1>1, <1>2, <1>3, <1>4 DEF CommandsInv, EveryLocal, Local

\* The variables of the other requests do not change.
Untouched(r) ==
    \A q \in Requests \ {r} :
        /\ pc'[q] = pc[q] /\ tries'[q] = tries[q] /\ rows'[q] = rows[q]
        /\ session'[q] = session[q] /\ answer'[q] = answer[q]
        /\ topic'[q] = topic[q] /\ dlq'[q] = dlq[q]

LEMMA OneRequest ==
    ASSUME CommandsInv, Shape', NEW r \in Requests, UNCHANGED inputVars,
           Untouched(r), Local(r)'
    PROVE  CommandsInv'
<1>1. ASSUME NEW q \in Requests PROVE Local(q)'
  <2>1. CASE q = r
    BY <2>1
  <2>2. CASE q # r
    <3>1. Local(q)
      BY InvIsLocal DEF EveryLocal
    <3>2. /\ pc'[q] = pc[q] /\ tries'[q] = tries[q] /\ rows'[q] = rows[q]
          /\ session'[q] = session[q] /\ answer'[q] = answer[q]
          /\ topic'[q] = topic[q] /\ dlq'[q] = dlq[q]
          /\ kind'[q] = kind[q]
      BY <2>2 DEF Untouched, inputVars
    <3> QED
      BY <3>1, <3>2 DEF Local, LocalTypes, LocalTries, LocalSession, LocalPromises
  <2> QED
    BY <2>1, <2>2
<1>2. EveryLocal'
  BY <1>1 DEF EveryLocal
<1> QED
  BY <1>2, InvIsLocal, PTL

-----------------------------------------------------------------------------
(* What the bus does with the outcome of an attempt                        *)

BusShape ==
    /\ pc = [r \in Requests |-> pc[r]]
    /\ tries = [r \in Requests |-> tries[r]]
    /\ answer = [r \in Requests |-> answer[r]]
    /\ dlq = [r \in Requests |-> dlq[r]]

BusUntouched(r) ==
    \A q \in Requests \ {r} :
        pc'[q] = pc[q] /\ tries'[q] = tries[q] /\ answer'[q] = answer[q] /\ dlq'[q] = dlq[q]

LEMMA RaiseEffect ==
    ASSUME Shape, NEW r \in Requests, NEW why, Raise(r, why)
    PROVE  /\ BusShape' /\ BusUntouched(r)
           /\ tries'[r] = tries[r] + 1
           /\ \/ /\ tries[r] + 1 < MaxRetries
                 /\ pc'[r] = "attempt" /\ answer'[r] = answer[r] /\ dlq'[r] = dlq[r]
              \/ /\ tries[r] + 1 >= MaxRetries
                 /\ pc'[r] = "answered" /\ answer'[r] = why /\ dlq'[r] = dlq[r] + 1
BY DEF Raise, Answer, Shape, BusShape, BusUntouched

LEMMA ReturnEffect ==
    ASSUME Shape, NEW r \in Requests, Return(r)
    PROVE  /\ BusShape' /\ BusUntouched(r)
           /\ pc'[r] = "answered" /\ answer'[r] = "ok"
           /\ tries'[r] = tries[r] /\ dlq'[r] = dlq[r]
BY DEF Return, Answer, Shape, BusShape, BusUntouched

\* An attempt that moves on to its next statement.
LEMMA MoveEffect ==
    ASSUME Shape, NEW r \in Requests, NEW p, pc' = [pc EXCEPT ![r] = p],
           UNCHANGED <<tries, answer, dlq>>
    PROVE  /\ BusShape' /\ BusUntouched(r)
           /\ pc'[r] = p
           /\ tries'[r] = tries[r] /\ answer'[r] = answer[r] /\ dlq'[r] = dlq[r]
BY DEF Shape, BusShape, BusUntouched

-----------------------------------------------------------------------------
(* When an outcome keeps the invariant of its request                      *)

\* The attempt raised: what it left in the session and on the topic must be
\* what the next attempt, or nobody, can cope with.
LEMMA RaiseLocal ==
    ASSUME Shape, NEW r \in Requests, Local(r), NEW why \in Failures, Raise(r, why),
           pc[r] \in Working, kind'[r] = kind[r],
           session'[r] \in {"new", "open", "aborted"},
           rows'[r] \in Nat, rows'[r] <= tries[r] + 1,
           topic'[r] \in Nat, topic'[r] <= tries[r] + 1,
           rows'[r] > 0 => session'[r] = "open",
           kind[r] \in {"create", "acknowledge"} => topic'[r] <= 1,
           kind[r] \in {"create", "acknowledge"} /\ topic'[r] > 0
              => session'[r] = "aborted" \/ rows'[r] > 0,
           kind[r] \in {"update", "delete"} => rows'[r] = 0
    PROVE  Local(r)'
<1> DEFINE again == tries[r] + 1 < MaxRetries
<1>1. /\ tries[r] \in Nat /\ tries[r] < MaxRetries
      /\ answer[r] = "none" /\ dlq[r] = 0
  BY DEF Local, LocalTypes, LocalTries, LocalPromises, Failures
<1>2. /\ tries'[r] = tries[r] + 1
      /\ \/ again /\ pc'[r] = "attempt" /\ answer'[r] = "none" /\ dlq'[r] = 0
         \/ ~ again /\ pc'[r] = "answered" /\ answer'[r] = why /\ dlq'[r] = 1
  BY <1>1, RaiseEffect
<1>3. LocalTypes(r)'
  BY <1>1, <1>2 DEF LocalTypes, PCs, AnswerSet
<1>4. LocalTries(r)'
  BY <1>1, <1>2 DEF LocalTries, Working
<1>5. LocalSession(r)'
  BY <1>2 DEF LocalSession, Working
<1>6. LocalPromises(r)'
  BY <1>2 DEF LocalPromises, Failures
<1> QED
  BY <1>3, <1>4, <1>5, <1>6 DEF Local

\* The attempt returned: it must have written, and announced what it had to.
LEMMA ReturnLocal ==
    ASSUME Shape, NEW r \in Requests, Local(r), Return(r),
           pc[r] \in Working, kind'[r] = kind[r],
           session'[r] = "open",
           rows'[r] \in 1 .. MaxRetries,
           topic'[r] \in 0 .. MaxRetries,
           kind[r] \in {"create", "acknowledge"} => topic'[r] <= 1,
           kind[r] \in {"create", "log"} => topic'[r] > 0
    PROVE  Local(r)'
<1>1. dlq[r] = 0 /\ tries[r] \in 0 .. MaxRetries
  BY DEF Local, LocalTypes, LocalTries, LocalPromises, Failures
<1>2. /\ pc'[r] = "answered" /\ answer'[r] = "ok"
      /\ tries'[r] = tries[r] /\ dlq'[r] = 0
  BY <1>1, ReturnEffect
<1>3. LocalTypes(r)'
  BY <1>1, <1>2 DEF LocalTypes, PCs, AnswerSet
<1>4. LocalTries(r)' /\ LocalSession(r)'
  BY <1>2 DEF LocalTries, LocalSession, Working
<1>5. LocalPromises(r)'
  BY <1>2 DEF LocalPromises, Failures
<1> QED
  BY <1>3, <1>4, <1>5 DEF Local

LEMMA LocalNow == ASSUME CommandsInv, NEW r \in Requests PROVE Shape /\ Local(r)
BY InvIsLocal DEF EveryLocal

\* What the invariant says of a request while an attempt of it runs.
LEMMA WorkingFacts ==
    ASSUME NEW r \in Requests, Local(r), pc[r] \in Working
    PROVE  /\ tries[r] \in Nat /\ tries[r] < MaxRetries
           /\ rows[r] \in Nat /\ topic[r] \in Nat
           /\ rows[r] <= tries[r] + 1 /\ topic[r] <= tries[r]
           /\ pc[r] \in {"attempt", "save"} => rows[r] <= tries[r]
           /\ pc[r] = "publish" => rows[r] > 0
           /\ rows[r] > 0 => session[r] = "open"
           /\ kind[r] \in {"create", "acknowledge"} => topic[r] <= 1
           /\ kind[r] \in {"create", "acknowledge"} /\ topic[r] > 0
                 => session[r] = "aborted" \/ (pc[r] = "attempt" /\ rows[r] > 0)
           /\ kind[r] \in {"update", "delete"} => rows[r] = 0
           /\ answer[r] = "none" /\ dlq[r] = 0
           /\ session[r] \in {"new", "open", "aborted"}
<1>1. /\ tries[r] \in Nat /\ rows[r] \in Nat /\ topic[r] \in Nat
      /\ session[r] \in {"new", "open", "aborted"}
  BY DEF Local, LocalTypes
<1>2. /\ tries[r] < MaxRetries /\ answer[r] = "none" /\ topic[r] <= tries[r]
      /\ pc[r] \in {"attempt", "save"} => rows[r] <= tries[r]
      /\ pc[r] = "publish" => rows[r] <= tries[r] + 1
  BY DEF Local, LocalTries, Working
<1>3. rows[r] <= tries[r] + 1
  BY <1>1, <1>2 DEF Working
<1>4. dlq[r] = 0
  BY <1>2 DEF Local, LocalPromises, Failures
<1> QED
  BY <1>1, <1>2, <1>3, <1>4 DEF Local, LocalSession, LocalPromises

\* An attempt that moves on to its next statement.
LEMMA MoveLocal ==
    ASSUME NEW r \in Requests, Local(r), pc[r] \in Working, kind'[r] = kind[r],
           pc'[r] \in {"save", "publish"},
           tries'[r] = tries[r], answer'[r] = answer[r], dlq'[r] = dlq[r],
           topic'[r] = topic[r], rows'[r] \in Nat,
           session'[r] \in {"new", "open", "aborted"},
           pc'[r] = "save" => rows'[r] <= tries[r],
           pc'[r] = "publish" => rows'[r] > 0 /\ rows'[r] <= tries[r] + 1,
           rows'[r] > 0 => session'[r] = "open",
           kind[r] \in {"create", "acknowledge"} => topic[r] = 0 \/ session'[r] = "aborted",
           kind[r] \in {"update", "delete"} => rows'[r] = 0
    PROVE  Local(r)'
<1>1. /\ tries[r] \in Nat /\ tries[r] < MaxRetries
      /\ topic[r] \in Nat /\ topic[r] <= tries[r]
      /\ kind[r] \in {"create", "acknowledge"} => topic[r] <= 1
      /\ answer[r] = "none" /\ dlq[r] = 0
  BY WorkingFacts
<1>2. LocalTypes(r)'
  BY <1>1 DEF LocalTypes, PCs, AnswerSet
<1>3. LocalTries(r)'
  BY <1>1 DEF LocalTries, Working
<1>4. LocalSession(r)'
  BY <1>1 DEF LocalSession, Working
<1>5. LocalPromises(r)'
  BY <1>1 DEF LocalPromises, Failures
<1> QED
  BY <1>2, <1>3, <1>4, <1>5 DEF Local

-----------------------------------------------------------------------------
(* One lemma per action                                                    *)

LEMMA SendKeepsInv == ASSUME CommandsInv, NEW r \in Requests, Send(r) PROVE CommandsInv'
<1>1. Shape /\ Local(r) /\ pc[r] = "idle"
  BY LocalNow DEF Send
<1>2. /\ UNCHANGED inputVars
      /\ tenants' = tenants /\ bus' = bus /\ kind' = kind /\ key' = key /\ faults' = faults
      /\ tries' = tries /\ rows' = rows /\ session' = session
      /\ topic' = topic /\ dlq' = dlq
  BY DEF Send, inputVars, sessionVars
<1>3. \/ Answer(r, "denied")
      \/ pc' = [pc EXCEPT ![r] = "attempt"] /\ answer' = answer
  BY DEF Send
<1>4. Shape' /\ Untouched(r)
  BY <1>1, <1>2, <1>3 DEF Answer, Shape, Untouched
<1>5. \/ pc'[r] = "attempt" /\ answer'[r] = answer[r]
      \/ pc'[r] = "answered" /\ answer'[r] = "denied"
  BY <1>1, <1>3 DEF Answer, Shape
<1>6. Local(r)'
  BY <1>1, <1>2, <1>5
     DEF Local, LocalTypes, LocalTries, LocalSession, LocalPromises,
         Working, PCs, AnswerSet, Failures
<1> QED
  BY <1>2, <1>4, <1>6, OneRequest

LEMMA ReadKeepsInv == ASSUME CommandsInv, NEW r \in Requests, Read(r) PROVE CommandsInv'
<1>1. /\ Shape /\ Local(r) /\ pc[r] \in Working
      /\ pc[r] = "attempt" /\ kind[r] # "log" /\ session[r] # "aborted"
  BY LocalNow DEF Read, AlreadyAcknowledged, Working
<1>2. /\ UNCHANGED inputVars
      /\ tenants' = tenants /\ bus' = bus /\ kind' = kind /\ key' = key /\ faults' = faults
      /\ rows' = rows /\ topic' = topic
      /\ session' = [session EXCEPT ![r] = "open"]
  BY DEF Read, AlreadyAcknowledged, inputVars
<1>3. \/ kind[r] = "create" /\ Raise(r, "exists")
      \/ kind[r] \in {"update", "delete"} /\ Raise(r, "missing")
      \/ Raise(r, "error")
      \/ kind[r] = "acknowledge" /\ rows[r] > 0 /\ Return(r)
      \/ /\ kind[r] \in {"create", "acknowledge"} => ~ rows[r] > 0
         /\ pc' = [pc EXCEPT ![r] = "save"]
         /\ UNCHANGED <<tries, answer, dlq>>
  BY DEF Read, AlreadyAcknowledged, Found
<1>4. BusShape' /\ BusUntouched(r)
  BY <1>1, <1>3, RaiseEffect, ReturnEffect, MoveEffect
<1>5. Shape' /\ Untouched(r)
  BY <1>1, <1>2, <1>4 DEF Shape, BusShape, Untouched, BusUntouched
<1>6. session'[r] = "open" /\ kind'[r] = kind[r] /\ rows'[r] = rows[r] /\ topic'[r] = topic[r]
  BY <1>1, <1>2 DEF Shape
<1>7. /\ tries[r] \in Nat /\ tries[r] < MaxRetries
      /\ rows[r] \in Nat /\ topic[r] \in Nat
      /\ rows[r] <= tries[r] /\ topic[r] <= tries[r]
      /\ kind[r] \in {"create", "acknowledge"} => topic[r] <= 1
      /\ kind[r] \in {"create", "acknowledge"} /\ topic[r] > 0 => rows[r] > 0
      /\ kind[r] \in {"update", "delete"} => rows[r] = 0
  BY <1>1, WorkingFacts
<1>8. ASSUME NEW why \in Failures, Raise(r, why) PROVE Local(r)'
  <2>1. rows'[r] <= tries[r] + 1 /\ topic'[r] <= tries[r] + 1
    BY <1>6, <1>7
  <2> QED
    BY <1>1, <1>6, <1>7, <1>8, <2>1, RaiseLocal
<1>9. ASSUME kind[r] = "acknowledge", rows[r] > 0, Return(r) PROVE Local(r)'
  <2>1. rows'[r] \in 1 .. MaxRetries /\ topic'[r] \in 0 .. MaxRetries
    BY <1>6, <1>7, <1>9
  <2> QED
    BY <1>1, <1>6, <1>7, <1>9, <2>1, ReturnLocal
<1>10. ASSUME kind[r] \in {"create", "acknowledge"} => ~ rows[r] > 0,
              pc' = [pc EXCEPT ![r] = "save"], UNCHANGED <<tries, answer, dlq>>
       PROVE  Local(r)'
  <2>1. /\ pc'[r] = "save" /\ tries'[r] = tries[r] /\ answer'[r] = answer[r]
        /\ dlq'[r] = dlq[r]
    BY <1>1, <1>10, MoveEffect
  <2>2. kind[r] \in {"create", "acknowledge"} => topic[r] = 0
    BY <1>7, <1>10
  <2> QED
    BY <1>1, <1>6, <1>7, <2>1, <2>2, MoveLocal
<1>11. Local(r)'
  BY <1>3, <1>8, <1>9, <1>10 DEF Failures
<1> QED
  BY <1>2, <1>5, <1>11, OneRequest

LEMMA PrepareKeepsInv == ASSUME CommandsInv, NEW r \in Requests, Prepare(r) PROVE CommandsInv'
<1>1. Shape /\ Local(r) /\ pc[r] = "attempt" /\ pc[r] \in Working /\ kind[r] = "log"
  BY LocalNow DEF Prepare, Working
<1>2. /\ UNCHANGED inputVars
      /\ tenants' = tenants /\ bus' = bus /\ kind' = kind /\ key' = key /\ faults' = faults
      /\ rows' = rows /\ session' = session /\ topic' = topic
      /\ pc' = [pc EXCEPT ![r] = "save"] /\ UNCHANGED <<tries, answer, dlq>>
  BY DEF Prepare, inputVars, sessionVars
<1>3. /\ BusShape' /\ BusUntouched(r)
      /\ pc'[r] = "save" /\ tries'[r] = tries[r] /\ answer'[r] = answer[r]
      /\ dlq'[r] = dlq[r]
  BY <1>1, <1>2, MoveEffect
<1>4. Shape' /\ Untouched(r)
  BY <1>1, <1>2, <1>3 DEF Shape, BusShape, Untouched, BusUntouched
<1>5. /\ rows[r] \in Nat /\ rows[r] <= tries[r]
      /\ rows[r] > 0 => session[r] = "open"
      /\ session[r] \in {"new", "open", "aborted"}
  BY <1>1, WorkingFacts
<1>6. Local(r)'
  BY <1>1, <1>2, <1>3, <1>5, MoveLocal
<1> QED
  BY <1>2, <1>4, <1>6, OneRequest

LEMMA UnusableKeepsInv == ASSUME CommandsInv, NEW r \in Requests, Unusable(r) PROVE CommandsInv'
<1>1. /\ Shape /\ Local(r) /\ pc[r] \in Working /\ session[r] = "aborted"
      /\ Raise(r, "error") /\ "error" \in Failures
  BY LocalNow DEF Unusable, Working, Failures
<1>2. /\ UNCHANGED inputVars
      /\ tenants' = tenants /\ bus' = bus /\ kind' = kind /\ key' = key /\ faults' = faults
      /\ rows' = rows /\ session' = session /\ topic' = topic
  BY DEF Unusable, inputVars, sessionVars
<1>3. Shape' /\ Untouched(r)
  <2>1. BusShape' /\ BusUntouched(r)
    BY <1>1, RaiseEffect
  <2> QED
    BY <1>1, <1>2, <2>1 DEF Shape, BusShape, Untouched, BusUntouched
<1>4. /\ tries[r] \in Nat /\ rows[r] \in Nat /\ topic[r] \in Nat
      /\ rows[r] <= tries[r] + 1 /\ topic[r] <= tries[r]
      /\ rows[r] > 0 => session[r] = "open"
      /\ kind[r] \in {"create", "acknowledge"} => topic[r] <= 1
      /\ kind[r] \in {"update", "delete"} => rows[r] = 0
  BY <1>1, WorkingFacts
<1>5. topic[r] <= tries[r] + 1
  BY <1>4
<1>6. Local(r)'
  BY <1>1, <1>2, <1>4, <1>5, RaiseLocal
<1> QED
  BY <1>2, <1>3, <1>6, OneRequest

LEMMA SaveKeepsInv == ASSUME CommandsInv, NEW r \in Requests, Save(r) PROVE CommandsInv'
<1>1. /\ Shape /\ Local(r) /\ pc[r] = "save" /\ pc[r] \in Working
      /\ session[r] # "aborted"
  BY LocalNow DEF Save, Working
<1>2. /\ UNCHANGED inputVars
      /\ tenants' = tenants /\ bus' = bus /\ kind' = kind /\ key' = key /\ faults' = faults
      /\ topic' = topic
      /\ rows' = [rows EXCEPT ![r] = @ + 1]
      /\ session' = [session EXCEPT ![r] = "open"]
  BY DEF Save, inputVars
<1>3. \/ kind[r] \in {"update", "delete"} /\ Return(r)
      \/ /\ kind[r] \notin {"update", "delete"}
         /\ pc' = [pc EXCEPT ![r] = "publish"]
         /\ UNCHANGED <<tries, answer, dlq>>
  BY DEF Save
<1>4. Shape' /\ Untouched(r)
  <2>1. BusShape' /\ BusUntouched(r)
    BY <1>1, <1>3, ReturnEffect, MoveEffect
  <2> QED
    BY <1>1, <1>2, <2>1 DEF Shape, BusShape, Untouched, BusUntouched
<1>5. /\ session'[r] = "open" /\ kind'[r] = kind[r]
      /\ rows'[r] = rows[r] + 1 /\ topic'[r] = topic[r]
  BY <1>1, <1>2 DEF Shape
<1>6. /\ tries[r] \in Nat /\ tries[r] < MaxRetries
      /\ rows[r] \in Nat /\ topic[r] \in Nat
      /\ rows[r] <= tries[r] /\ topic[r] <= tries[r]
      /\ kind[r] \in {"create", "acknowledge"} => topic[r] = 0
  <2>1. /\ tries[r] \in Nat /\ tries[r] < MaxRetries
        /\ rows[r] \in Nat /\ topic[r] \in Nat
        /\ rows[r] <= tries[r] /\ topic[r] <= tries[r]
    BY <1>1, WorkingFacts
  <2>2. kind[r] \in {"create", "acknowledge"} => ~ topic[r] > 0
    BY <1>1, WorkingFacts
  <2> QED
    BY <2>1, <2>2
<1>7. /\ rows'[r] \in 1 .. MaxRetries /\ rows'[r] \in Nat
      /\ rows'[r] > 0 /\ rows'[r] <= tries[r] + 1
      /\ topic'[r] \in 0 .. MaxRetries
  BY <1>5, <1>6
<1>8. ASSUME kind[r] \in {"update", "delete"}, Return(r) PROVE Local(r)'
  BY <1>1, <1>5, <1>7, <1>8, ReturnLocal
<1>9. ASSUME kind[r] \notin {"update", "delete"}, pc' = [pc EXCEPT ![r] = "publish"],
             UNCHANGED <<tries, answer, dlq>>
      PROVE  Local(r)'
  <2>1. /\ pc'[r] = "publish" /\ tries'[r] = tries[r] /\ answer'[r] = answer[r]
        /\ dlq'[r] = dlq[r]
    BY <1>1, <1>9, MoveEffect
  <2> QED
    BY <1>1, <1>5, <1>6, <1>7, <1>9, <2>1, MoveLocal
<1>10. Local(r)'
  BY <1>3, <1>8, <1>9
<1> QED
  BY <1>2, <1>4, <1>10, OneRequest

\* A statement that fails takes the rows of the session with it.
LEMMA AbortKeepsInv ==
    ASSUME CommandsInv, NEW r \in Requests, Abort(r), pc[r] \in Working, faults' \in Nat
    PROVE  CommandsInv'
<1>1. Shape /\ Local(r) /\ Raise(r, "error") /\ "error" \in Failures
  BY LocalNow DEF Abort, Failures
<1>2. /\ UNCHANGED inputVars
      /\ tenants' = tenants /\ bus' = bus /\ kind' = kind /\ key' = key /\ topic' = topic
      /\ rows' = [rows EXCEPT ![r] = 0]
      /\ session' = [session EXCEPT ![r] = "aborted"]
  BY DEF Abort, inputVars
<1>3. Shape' /\ Untouched(r)
  <2>1. BusShape' /\ BusUntouched(r)
    BY <1>1, RaiseEffect
  <2> QED
    BY <1>1, <1>2, <2>1 DEF Shape, BusShape, Untouched, BusUntouched
<1>4. /\ session'[r] = "aborted" /\ kind'[r] = kind[r]
      /\ rows'[r] = 0 /\ topic'[r] = topic[r]
  BY <1>1, <1>2 DEF Shape
<1>5. /\ tries[r] \in Nat /\ topic[r] \in Nat /\ topic[r] <= tries[r]
      /\ kind[r] \in {"create", "acknowledge"} => topic[r] <= 1
  BY WorkingFacts, <1>1
<1>6. topic'[r] <= tries[r] + 1 /\ rows'[r] <= tries[r] + 1 /\ ~ rows'[r] > 0 /\ rows'[r] \in Nat
  BY <1>4, <1>5
<1>7. Local(r)'
  BY <1>1, <1>4, <1>5, <1>6, RaiseLocal
<1> QED
  BY <1>2, <1>3, <1>7, OneRequest

LEMMA SaveConflictKeepsInv ==
    ASSUME CommandsInv, NEW r \in Requests, SaveConflict(r) PROVE CommandsInv'
<1>1. Abort(r) /\ pc[r] \in Working
  BY DEF SaveConflict, Working
<1>2. faults' \in Nat
  BY DEF SaveConflict, CommandsInv, TypeOK
<1> QED
  BY <1>1, <1>2, AbortKeepsInv

LEMMA DatabaseFaultKeepsInv ==
    ASSUME CommandsInv, NEW r \in Requests, DatabaseFault(r) PROVE CommandsInv'
<1>1. Abort(r) /\ pc[r] \in Working
  BY DEF DatabaseFault, Working
<1>2. faults' \in Nat
  BY DEF DatabaseFault, CommandsInv, TypeOK
<1> QED
  BY <1>1, <1>2, AbortKeepsInv

LEMMA ConnectFaultKeepsInv ==
    ASSUME CommandsInv, NEW r \in Requests, ConnectFault(r) PROVE CommandsInv'
<1>1. /\ Shape /\ Local(r) /\ pc[r] = "attempt" /\ pc[r] \in Working
      /\ session[r] = "new" /\ Raise(r, "error") /\ "error" \in Failures
  BY LocalNow DEF ConnectFault, Working, Failures
<1>2. /\ UNCHANGED inputVars
      /\ tenants' = tenants /\ bus' = bus /\ kind' = kind /\ key' = key /\ faults' = faults + 1
      /\ rows' = rows /\ session' = session /\ topic' = topic
  BY DEF ConnectFault, inputVars, sessionVars
<1>3. Shape' /\ Untouched(r)
  <2>1. BusShape' /\ BusUntouched(r)
    BY <1>1, RaiseEffect
  <2> QED
    BY <1>1, <1>2, <2>1 DEF Shape, BusShape, Untouched, BusUntouched
<1>4. /\ tries[r] \in Nat /\ rows[r] \in Nat /\ topic[r] \in Nat
      /\ rows[r] <= tries[r] + 1 /\ topic[r] <= tries[r]
      /\ ~ rows[r] > 0
      /\ kind[r] \in {"create", "acknowledge"} => (topic[r] <= 1 /\ ~ topic[r] > 0)
      /\ kind[r] \in {"update", "delete"} => rows[r] = 0
  BY <1>1, WorkingFacts
<1>5. topic[r] <= tries[r] + 1
  BY <1>4
<1>6. Local(r)'
  BY <1>1, <1>2, <1>4, <1>5, RaiseLocal
<1> QED
  BY <1>2, <1>3, <1>6, OneRequest

LEMMA PublishOkKeepsInv ==
    ASSUME CommandsInv, NEW r \in Requests, PublishOk(r) PROVE CommandsInv'
<1>1. /\ Shape /\ Local(r) /\ pc[r] = "publish" /\ pc[r] \in Working /\ Return(r)
  BY LocalNow DEF PublishOk, Working
<1>2. /\ UNCHANGED inputVars
      /\ tenants' = tenants /\ bus' = bus /\ kind' = kind /\ key' = key /\ faults' = faults
      /\ rows' = rows /\ session' = session
      /\ topic' = [topic EXCEPT ![r] = @ + 1]
  BY DEF PublishOk, inputVars, sessionVars
<1>3. Shape' /\ Untouched(r)
  <2>1. BusShape' /\ BusUntouched(r)
    BY <1>1, ReturnEffect
  <2> QED
    BY <1>1, <1>2, <2>1 DEF Shape, BusShape, Untouched, BusUntouched
<1>4. /\ kind'[r] = kind[r] /\ rows'[r] = rows[r] /\ session'[r] = session[r]
      /\ topic'[r] = topic[r] + 1
  BY <1>1, <1>2 DEF Shape
<1>5. /\ tries[r] \in Nat /\ tries[r] < MaxRetries
      /\ rows[r] \in Nat /\ rows[r] > 0 /\ rows[r] <= tries[r] + 1
      /\ topic[r] \in Nat /\ topic[r] <= tries[r]
      /\ session[r] = "open"
      /\ kind[r] \in {"create", "acknowledge"} => ~ topic[r] > 0
  BY <1>1, WorkingFacts
<1>6. /\ rows'[r] \in 1 .. MaxRetries /\ session'[r] = "open"
      /\ topic'[r] \in 0 .. MaxRetries /\ topic'[r] > 0
      /\ kind[r] \in {"create", "acknowledge"} => topic'[r] <= 1
  BY <1>4, <1>5
<1>7. Local(r)'
  BY <1>1, <1>4, <1>6, ReturnLocal
<1> QED
  BY <1>2, <1>3, <1>7, OneRequest

LEMMA PublishFailKeepsInv ==
    ASSUME CommandsInv, NEW r \in Requests, PublishFail(r) \/ PublishRefused(r)
    PROVE  CommandsInv'
<1>1. /\ Shape /\ Local(r) /\ pc[r] = "publish" /\ pc[r] \in Working
      /\ Raise(r, "error") /\ "error" \in Failures
  BY LocalNow DEF PublishFail, PublishRefused, Working, Failures
<1>2. /\ UNCHANGED inputVars
      /\ tenants' = tenants /\ bus' = bus /\ kind' = kind /\ key' = key /\ faults' \in {faults, faults + 1}
      /\ rows' = rows /\ session' = session
      /\ topic' = topic \/ topic' = [topic EXCEPT ![r] = @ + 1]
  BY DEF PublishFail, PublishRefused, inputVars, sessionVars
<1>3. Shape' /\ Untouched(r)
  <2>1. BusShape' /\ BusUntouched(r)
    BY <1>1, RaiseEffect
  <2> QED
    BY <1>1, <1>2, <2>1 DEF Shape, BusShape, Untouched, BusUntouched
<1>4. /\ kind'[r] = kind[r] /\ rows'[r] = rows[r] /\ session'[r] = session[r]
      /\ topic'[r] = topic[r] \/ topic'[r] = topic[r] + 1
  BY <1>1, <1>2 DEF Shape
<1>5. /\ tries[r] \in Nat
      /\ rows[r] \in Nat /\ rows[r] > 0 /\ rows[r] <= tries[r] + 1
      /\ topic[r] \in Nat /\ topic[r] <= tries[r]
      /\ session[r] = "open"
      /\ kind[r] \in {"create", "acknowledge"} => ~ topic[r] > 0
      /\ kind[r] \in {"update", "delete"} => rows[r] = 0
  BY <1>1, WorkingFacts
<1>6. /\ rows'[r] \in Nat /\ rows'[r] <= tries[r] + 1 /\ rows'[r] > 0
      /\ topic'[r] \in Nat /\ topic'[r] <= tries[r] + 1
      /\ session'[r] = "open"
      /\ kind[r] \in {"create", "acknowledge"} => topic'[r] <= 1
      /\ kind[r] \in {"update", "delete"} => rows'[r] = 0
  BY <1>4, <1>5
<1>7. Local(r)'
  BY <1>1, <1>4, <1>6, RaiseLocal
<1> QED
  BY <1>2, <1>3, <1>7, OneRequest

LEMMA CloseKeepsInv == ASSUME CommandsInv, NEW r \in Requests, Close(r) PROVE CommandsInv'
<1>1. Shape /\ Local(r) /\ pc[r] = "answered"
  BY LocalNow DEF Close
<1>2. /\ UNCHANGED inputVars
      /\ tenants' = tenants /\ bus' = bus /\ kind' = kind /\ key' = key /\ faults' = faults
      /\ tries' = tries /\ answer' = answer /\ dlq' = dlq /\ topic' = topic
      /\ pc' = [pc EXCEPT ![r] = "closed"]
      /\ rows' = [rows EXCEPT ![r] = 0]
      /\ session' = [session EXCEPT ![r] = "new"]
  BY DEF Close, inputVars
<1>3. Shape' /\ Untouched(r)
  BY <1>1, <1>2 DEF Shape, Untouched
<1>4. pc'[r] = "closed" /\ rows'[r] = 0 /\ session'[r] = "new"
  BY <1>1, <1>2 DEF Shape
<1>5. LocalTypes(r)' /\ LocalPromises(r)'
  BY <1>1, <1>2, <1>4 DEF Local, LocalTypes, LocalPromises, PCs, Failures
<1>6. LocalTries(r)' /\ LocalSession(r)'
  BY <1>4 DEF LocalTries, LocalSession, Working
<1>7. Local(r)'
  BY <1>5, <1>6 DEF Local
<1> QED
  BY <1>2, <1>3, <1>7, OneRequest

LEMMA CliCreateKeepsInv == ASSUME CommandsInv, NEW k \in Keys, CliCreate(k) PROVE CommandsInv'
<1>1. Shape /\ EveryLocal
  BY InvIsLocal
<1>2. /\ tenants' = tenants \cup {k}
      /\ bus' = bus /\ kind' = kind /\ key' = key /\ faults' = faults
      /\ pc' = pc /\ tries' = tries /\ answer' = answer /\ dlq' = dlq
      /\ rows' = rows /\ session' = session /\ topic' = topic
  BY DEF CliCreate, inputVars, sessionVars, busVars
<1>3. Shape'
  BY <1>1, <1>2 DEF Shape
<1>4. EveryLocal'
  BY <1>1, <1>2 DEF EveryLocal, Local, LocalTypes, LocalTries, LocalSession, LocalPromises
<1> QED
  BY <1>3, <1>4, InvIsLocal, PTL

-----------------------------------------------------------------------------
(* The specification                                                       *)

LEMMA InitInv == Init => CommandsInv
<1> SUFFICES ASSUME Init PROVE Shape /\ EveryLocal
  BY InvIsLocal
<1>1. Shape
  BY DEF Init, Shape
<1>2. ASSUME NEW r \in Requests PROVE Local(r)
  BY DEF Init, Local, LocalTypes, LocalTries, LocalSession, LocalPromises,
         Working, PCs, AnswerSet, Failures
<1> QED
  BY <1>1, <1>2 DEF EveryLocal

LEMMA NextInv == CommandsInv /\ [Next]_vars => CommandsInv'
<1> SUFFICES ASSUME CommandsInv, [Next]_vars PROVE CommandsInv'
  OBVIOUS
<1>1. CASE \E r \in Requests :
              Send(r) \/ HandlerStep(r) \/ DatabaseFault(r) \/ ConnectFault(r) \/ PublishFail(r)
  <2>1. PICK r \in Requests :
              Send(r) \/ HandlerStep(r) \/ DatabaseFault(r) \/ ConnectFault(r) \/ PublishFail(r)
    BY <1>1
  <2>2. CASE HandlerStep(r)
    BY <2>2, ReadKeepsInv, PrepareKeepsInv, UnusableKeepsInv, SaveKeepsInv,
       SaveConflictKeepsInv, PublishOkKeepsInv, PublishFailKeepsInv, CloseKeepsInv
    DEF HandlerStep
  <2>3. CASE ~ HandlerStep(r)
    BY <2>1, <2>3, SendKeepsInv, DatabaseFaultKeepsInv, ConnectFaultKeepsInv,
       PublishFailKeepsInv
  <2> QED
    BY <2>2, <2>3
<1>2. CASE \E k \in Keys : CliCreate(k)
  BY <1>2, CliCreateKeepsInv
<1>3. CASE UNCHANGED vars
  BY <1>3 DEF vars, inputVars, sessionVars, busVars, CommandsInv, TypeOK, TriesInv,
     SessionInv, DeadLettersAreFailures, AnnouncedOnce, AcceptedIsAnnounced, AcceptedIsWritten
<1> QED
  BY <1>1, <1>2, <1>3 DEF Next

\* The inductive invariant: what each request's attempts, rows, events and
\* session are to each other at every point of CommandBus.send and the handlers.
THEOREM CommandsInvariant == Spec => []CommandsInv
<1>1. Init => CommandsInv
  BY InitInv
<1>2. CommandsInv /\ [Next]_vars => CommandsInv'
  BY NextInv
<1> QED
  BY <1>1, <1>2, PTL DEF Spec

\* The variables keep their types: no request makes more than max_retries
\* attempts, flushes more rows or publishes more events than that.
THEOREM CommandsTypes == Spec => []TypeOK
<1>1. CommandsInv => TypeOK
  BY DEF CommandsInv
<1> QED
  BY <1>1, CommandsInvariant, PTL

\* A command is in the dead letter queue exactly when it failed, and then once.
THEOREM DeadLetters == Spec => []DeadLettersAreFailures
<1>1. CommandsInv => DeadLettersAreFailures
  BY DEF CommandsInv
<1> QED
  BY <1>1, CommandsInvariant, PTL

\* However often the bus retries CreateTenantHandler or the acknowledgement of
\* an alert, and whatever the broker stored of a publish that failed, its event
\* is on the topic at most once.
THEOREM RetriesAnnounceOnce == Spec => []AnnouncedOnce
<1>1. CommandsInv => AnnouncedOnce
  BY DEF CommandsInv
<1> QED
  BY <1>1, CommandsInvariant, PTL

\* A tenant or log answered as accepted has been published.
THEOREM AcceptedAreAnnounced == Spec => []AcceptedIsAnnounced
<1>1. CommandsInv => AcceptedIsAnnounced
  BY DEF CommandsInv
<1> QED
  BY <1>1, CommandsInvariant, PTL

\* When a request is answered as done, its session holds what it wrote.
THEOREM AcceptedAreWritten == Spec => []AcceptedIsWritten
<1>1. CommandsInv => AcceptedIsWritten
  BY DEF CommandsInv
<1> QED
  BY <1>1, CommandsInvariant, PTL

-----------------------------------------------------------------------------
(* What a step of a request does to its own attempts and rows               *)

RequestAct(r) ==
    Send(r) \/ HandlerStep(r) \/ DatabaseFault(r) \/ ConnectFault(r) \/ PublishFail(r)

Begins(r) ==
    /\ pc[r] = "idle" /\ pc'[r] \in {"attempt", "answered"}
    /\ tries'[r] = tries[r] /\ rows'[r] = rows[r]
Raises(r) ==
    /\ pc[r] \in Working /\ pc'[r] \in {"attempt", "answered"}
    /\ tries'[r] = tries[r] + 1 /\ rows'[r] \in {0, rows[r]}
Looks(r) ==
    /\ pc[r] = "attempt" /\ pc'[r] = "save" /\ tries'[r] = tries[r] /\ rows'[r] = rows[r]
    /\ kind[r] # "log" => rows[r] = 0
Writes(r) ==
    /\ pc[r] = "save" /\ pc'[r] \in {"publish", "answered"}
    /\ tries'[r] = tries[r] /\ rows'[r] = rows[r] + 1
    /\ kind[r] = "create" => ~ SlugHeld(r) /\ key[r] \notin tenants
    /\ kind[r] \in {"update", "delete"} => ~ TenantLocked(r)
Returns(r) ==
    /\ pc[r] \in {"attempt", "publish"} /\ pc'[r] = "answered"
    /\ tries'[r] = tries[r] /\ rows'[r] = rows[r]
Ends(r) ==
    /\ pc[r] = "answered" /\ pc'[r] = "closed" /\ tries'[r] = tries[r] /\ rows'[r] = 0

Effect(r) == Begins(r) \/ Raises(r) \/ Looks(r) \/ Writes(r) \/ Returns(r) \/ Ends(r)

\* The rows and the places of the other requests do not change.
Apart(r) ==
    /\ UNCHANGED <<tenants, kind, key>>
    /\ \A q \in Requests \ {r} :
          pc'[q] = pc[q] /\ tries'[q] = tries[q] /\ rows'[q] = rows[q]

LEMMA RaiseRaises ==
    ASSUME Shape, NEW r \in Requests, NEW why, Raise(r, why), pc[r] \in Working,
           rows' = rows \/ rows' = [rows EXCEPT ![r] = 0], UNCHANGED <<tenants, inputVars>>
    PROVE  Effect(r) /\ Apart(r)
<1>1. /\ BusUntouched(r) /\ tries'[r] = tries[r] + 1 /\ pc'[r] \in {"attempt", "answered"}
  BY RaiseEffect
<1>2. /\ rows'[r] \in {0, rows[r]} /\ \A q \in Requests \ {r} : rows'[q] = rows[q]
  BY DEF Shape
<1> QED
  BY <1>1, <1>2 DEF Effect, Raises, Apart, BusUntouched, inputVars

LEMMA ReturnReturns ==
    ASSUME Shape, NEW r \in Requests, Return(r), pc[r] \in {"attempt", "publish"},
           UNCHANGED <<rows, tenants, inputVars>>
    PROVE  Effect(r) /\ Apart(r)
BY ReturnEffect DEF Effect, Returns, Apart, BusUntouched, inputVars

LEMMA RequestEffect ==
    ASSUME CommandsInv, NEW r \in Requests, RequestAct(r) PROVE Effect(r) /\ Apart(r)
<1>0. Shape /\ Local(r)
  BY LocalNow
<1>1. CASE Send(r)
  <2>1. /\ pc[r] = "idle" /\ pc'[r] \in {"attempt", "answered"}
        /\ \A q \in Requests \ {r} : pc'[q] = pc[q]
    BY <1>0, <1>1 DEF Send, Answer, Shape
  <2> QED
    BY <1>1, <2>1 DEF Send, Effect, Begins, Apart, sessionVars, inputVars
<1>2. CASE Read(r)
  <2>1. /\ pc[r] = "attempt" /\ UNCHANGED <<tenants, inputVars, rows>>
        /\ kind[r] \in Kinds
    BY <1>0, <1>2 DEF Read, Shape
  <2>2. CASE Raise(r, "exists") \/ Raise(r, "missing") \/ Raise(r, "error")
    BY <1>0, <2>1, <2>2, RaiseRaises DEF Working
  <2>3. CASE AlreadyAcknowledged(r)
    BY <1>0, <2>1, <2>3, ReturnReturns DEF AlreadyAcknowledged
  <2>4. CASE /\ Found(r) <=> kind[r] \in {"update", "delete"}
             /\ pc' = [pc EXCEPT ![r] = "save"]
             /\ UNCHANGED <<tries, answer, dlq>>
    <3>1. pc'[r] = "save" /\ BusUntouched(r)
      BY <1>0, <2>4, MoveEffect
    <3>2. rows[r] \in Nat /\ (kind[r] \in {"update", "delete"} => rows[r] = 0)
      BY <1>0, <2>1, WorkingFacts DEF Working
    <3>3. kind[r] # "log" => rows[r] = 0
      BY <2>1, <2>4, <3>2 DEF Found, Kinds
    <3> QED
      BY <2>1, <2>4, <3>1, <3>3 DEF Effect, Looks, Apart, BusUntouched, inputVars
  <2> QED
    BY <1>2, <2>2, <2>3, <2>4 DEF Read
<1>3. CASE Prepare(r)
  <2>1. pc'[r] = "save" /\ BusUntouched(r)
    BY <1>0, <1>3, MoveEffect DEF Prepare
  <2> QED
    BY <1>3, <2>1 DEF Prepare, Effect, Looks, Apart, BusUntouched, sessionVars, inputVars
<1>4. CASE Unusable(r)
  BY <1>0, <1>4, RaiseRaises DEF Unusable, Working, sessionVars
<1>5. CASE Save(r)
  <2>1. /\ pc[r] = "save" /\ UNCHANGED <<tenants, inputVars>>
        /\ rows' = [rows EXCEPT ![r] = rows[r] + 1]
        /\ kind[r] = "create" => ~ SlugHeld(r) /\ key[r] \notin tenants
        /\ kind[r] \in {"update", "delete"} => ~ TenantLocked(r)
    BY <1>5 DEF Save
  <2>2. BusUntouched(r) /\ pc'[r] \in {"publish", "answered"} /\ tries'[r] = tries[r]
    BY <1>0, <1>5, MoveEffect, ReturnEffect DEF Save
  <2>3. rows'[r] = rows[r] + 1 /\ \A q \in Requests \ {r} : rows'[q] = rows[q]
    BY <1>0, <2>1 DEF Shape
  <2> QED
    BY <2>1, <2>2, <2>3 DEF Effect, Writes, Apart, BusUntouched, inputVars
<1>6. ASSUME Abort(r), pc[r] \in Working PROVE Effect(r) /\ Apart(r)
  BY <1>0, <1>6, RaiseRaises DEF Abort
<1>7. CASE SaveConflict(r)
  BY <1>6, <1>7 DEF SaveConflict, Working
<1>8. CASE DatabaseFault(r)
  BY <1>6, <1>8 DEF DatabaseFault, Working
<1>9. CASE ConnectFault(r)
  BY <1>0, <1>9, RaiseRaises DEF ConnectFault, Working, sessionVars
<1>10. CASE PublishOk(r)
  BY <1>0, <1>10, ReturnReturns DEF PublishOk, sessionVars
<1>11. CASE PublishRefused(r)
  BY <1>0, <1>11, RaiseRaises DEF PublishRefused, Working, sessionVars
<1>12. CASE PublishFail(r)
  BY <1>0, <1>12, RaiseRaises DEF PublishFail, Working, sessionVars
<1>13. CASE Close(r)
  <2>1. /\ pc[r] = "answered" /\ pc'[r] = "closed" /\ rows'[r] = 0
        /\ \A q \in Requests \ {r} : pc'[q] = pc[q] /\ rows'[q] = rows[q]
    BY <1>0, <1>13 DEF Close, Shape
  <2> QED
    BY <1>13, <2>1 DEF Close, Effect, Ends, Apart, inputVars
<1> QED
  BY <1>1, <1>2, <1>3, <1>4, <1>5, <1>7, <1>8, <1>9, <1>10, <1>11, <1>12, <1>13
     DEF RequestAct, HandlerStep

-----------------------------------------------------------------------------
(* Requests end                                                             *)

\* How far a request is: four places for each attempt, then the answer and the end.
Place(r) ==
    CASE pc[r] = "idle" -> 0
      [] pc[r] = "attempt" -> 4 * tries[r] + 1
      [] pc[r] = "save" -> 4 * tries[r] + 2
      [] pc[r] = "publish" -> 4 * tries[r] + 3
      [] pc[r] = "answered" -> 4 * MaxRetries + 4
      [] pc[r] = "closed" -> 4 * MaxRetries + 5

PlacesBounded == \A r \in Requests : Place(r) \in 0 .. 4 * MaxRetries + 5

RequestsRunForward ==
    [][\/ UNCHANGED <<pc, tries>>
       \/ \E r \in Requests : Apart(r) /\ Place(r) < Place(r)']_vars

LEMMA PlaceInRange ==
    ASSUME CommandsInv, NEW r \in Requests
    PROVE  /\ Place(r) \in 0 .. 4 * MaxRetries + 5
           /\ pc[r] \in Working => Place(r) < 4 * MaxRetries
<1>1. /\ pc[r] \in PCs /\ tries[r] \in Nat /\ tries[r] <= MaxRetries /\ MaxRetries \in Nat
      /\ pc[r] \in Working => tries[r] < MaxRetries
  BY LocalNow DEF Local, LocalTypes, LocalTries
<1> QED
  BY <1>1 DEF Place, PCs, Working

LEMMA EffectAdvances ==
    ASSUME CommandsInv, CommandsInv', NEW r \in Requests, Effect(r)
    PROVE  Place(r) < Place(r)'
<1>0. /\ tries[r] \in Nat /\ tries'[r] \in Nat /\ MaxRetries \in Nat
  BY DEF CommandsInv, TypeOK
<1>1. Place(r) \in Nat /\ (pc[r] \in Working => Place(r) < 4 * MaxRetries)
  <2>1. Place(r) \in 0 .. 4 * MaxRetries + 5
    BY PlaceInRange
  <2> QED
    BY <1>0, <2>1, PlaceInRange
<1>2. CASE Begins(r)
  BY <1>0, <1>2 DEF Begins, Place
<1>3. CASE Raises(r)
  <2>1. CASE pc'[r] = "attempt"
    BY <1>0, <1>3, <2>1 DEF Raises, Place, Working
  <2>2. CASE pc'[r] = "answered"
    <3>1. Place(r)' = 4 * MaxRetries + 4
      BY <2>2 DEF Place
    <3> QED
      BY <1>0, <1>1, <1>3, <3>1 DEF Raises
  <2> QED
    BY <1>3, <2>1, <2>2 DEF Raises
<1>4. CASE Looks(r)
  BY <1>0, <1>4 DEF Looks, Place
<1>5. CASE Writes(r) \/ Returns(r)
  <2>1. pc[r] \in Working
    BY <1>5 DEF Writes, Returns, Working
  <2>2. CASE pc'[r] = "publish"
    BY <1>0, <1>5, <2>2 DEF Writes, Returns, Place
  <2>3. CASE pc'[r] = "answered"
    <3>1. Place(r)' = 4 * MaxRetries + 4
      BY <2>3 DEF Place
    <3> QED
      BY <1>0, <1>1, <2>1, <3>1
  <2> QED
    BY <1>5, <2>2, <2>3 DEF Writes, Returns
<1>6. CASE Ends(r)
  BY <1>0, <1>6 DEF Ends, Place
<1> QED
  BY <1>2, <1>3, <1>4, <1>5, <1>6 DEF Effect

\* A request has at most 4 * MaxRetries + 5 places ...
THEOREM RequestsAreBounded == Spec => []PlacesBounded
<1>1. CommandsInv => PlacesBounded
  BY PlaceInRange DEF PlacesBounded
<1> QED
  BY <1>1, CommandsInvariant, PTL

\* ... and each of its steps, a failing one too, takes it forward: whatever the
\* database and the broker do, a command is not tried for ever.
THEOREM RequestsAdvance == Spec => RequestsRunForward
<1>1. ASSUME CommandsInv, CommandsInv', [Next]_vars
      PROVE  \/ UNCHANGED <<pc, tries>>
             \/ \E r \in Requests : Apart(r) /\ Place(r) < Place(r)'
  <2>1. CASE UNCHANGED vars
    BY <2>1 DEF vars, busVars
  <2>2. CASE \E k \in Keys : CliCreate(k)
    BY <2>2 DEF CliCreate, busVars
  <2>3. CASE \E r \in Requests : RequestAct(r)
    BY <1>1, <2>3, RequestEffect, EffectAdvances
  <2> QED
    BY <1>1, <2>1, <2>2, <2>3 DEF Next, RequestAct
<1>2. CommandsInv /\ CommandsInv' /\ [Next]_vars =>
         [\/ UNCHANGED <<pc, tries>>
          \/ \E r \in Requests : Apart(r) /\ Place(r) < Place(r)']_vars
  BY <1>1
<1> QED
  BY <1>2, CommandsInvariant, PTL DEF Spec, RequestsRunForward

-----------------------------------------------------------------------------
(* Rows of one slug                                                         *)

\* A session holds one row of its tenant or acknowledgement at most, however many
\* attempts wrote one; of a slug nobody else holds, or has committed, a row; and
\* none when it has ended.
RowsOf(r) ==
    /\ kind[r] # "log" => rows[r] <= 1
    /\ kind[r] # "log" /\ pc[r] = "save" => rows[r] = 0
    /\ pc[r] = "closed" => rows[r] = 0
    /\ kind[r] = "create" /\ rows[r] > 0 => key[r] \notin tenants /\ ~ SlugHeld(r)
    /\ kind[r] \in {"update", "delete"} /\ rows[r] > 0 => ~ TenantLocked(r)

RowsExclusive == \A r \in Requests : RowsOf(r)

LEMMA EffectRows ==
    ASSUME CommandsInv, CommandsInv', RowsExclusive, NEW r \in Requests, Effect(r), Apart(r)
    PROVE  RowsExclusive'
<1>0. /\ \A q \in Requests : rows[q] \in Nat /\ rows'[q] \in Nat
      /\ kind' = kind /\ key' = key /\ tenants' = tenants
      /\ kind[r] \in Kinds
  BY DEF CommandsInv, TypeOK, Apart
<1>1. /\ rows'[r] \in {0, rows[r]} \/ Writes(r)
      /\ pc'[r] = "save" => Looks(r)
      /\ pc'[r] = "closed" => rows'[r] = 0
  BY DEF Effect, Begins, Raises, Looks, Writes, Returns, Ends
<1>2. Writes(r) /\ kind[r] # "log" => rows'[r] = 1
  BY DEF Writes, RowsExclusive, RowsOf
<1>3. RowsOf(r)
  BY DEF RowsExclusive
<1>4. ASSUME kind[r] = "create", rows'[r] > 0 PROVE key[r] \notin tenants /\ ~ SlugHeld(r)
  BY <1>0, <1>1, <1>3, <1>4 DEF RowsOf, Writes
<1>5. ASSUME kind[r] \in {"update", "delete"}, rows'[r] > 0 PROVE ~ TenantLocked(r)
  BY <1>0, <1>1, <1>3, <1>5 DEF RowsOf, Writes
<1>6. RowsOf(r)'
  <2>1. SlugHeld(r)' => SlugHeld(r)
    BY <1>0 DEF SlugHeld, Apart
  <2>2. TenantLocked(r)' => TenantLocked(r)
    BY <1>0 DEF TenantLocked, Apart
  <2>3. kind[r] # "log" => rows'[r] <= 1
    BY <1>0, <1>1, <1>2, <1>3 DEF RowsOf
  <2>4. kind[r] # "log" /\ pc'[r] = "save" => rows'[r] = 0
    BY <1>0, <1>1 DEF Looks
  <2> QED
    BY <1>0, <1>1, <1>4, <1>5, <2>1, <2>2, <2>3, <2>4 DEF RowsOf
<1>7. ASSUME NEW q \in Requests \ {r} PROVE RowsOf(q)'
  <2>1. RowsOf(q) /\ rows'[q] = rows[q] /\ pc'[q] = pc[q]
    BY DEF RowsExclusive, Apart
  <2>2. ASSUME kind[q] = "create", rows[q] > 0, SlugHeld(q)' PROVE FALSE
    <3>1. PICK x \in Requests \ {q} :
             kind[x] = "create" /\ key[x] = key[q] /\ rows'[x] > 0
      BY <1>0, <2>2 DEF SlugHeld
    <3>2. CASE x = r
      BY <1>0, <1>4, <2>2, <3>1, <3>2 DEF SlugHeld
    <3>3. CASE x # r
      BY <1>0, <2>1, <2>2, <3>1, <3>3 DEF RowsOf, SlugHeld, Apart
    <3> QED
      BY <3>2, <3>3
  <2>3. ASSUME kind[q] \in {"update", "delete"}, rows[q] > 0, TenantLocked(q)' PROVE FALSE
    <3>1. PICK x \in Requests \ {q} :
             kind[x] \in {"update", "delete"} /\ key[x] = key[q] /\ rows'[x] > 0
      BY <1>0, <2>3 DEF TenantLocked
    <3>2. CASE x = r
      BY <1>0, <1>5, <2>3, <3>1, <3>2 DEF TenantLocked
    <3>3. CASE x # r
      BY <1>0, <2>1, <2>3, <3>1, <3>3 DEF RowsOf, TenantLocked, Apart
    <3> QED
      BY <3>2, <3>3
  <2> QED
    BY <1>0, <2>1, <2>2, <2>3 DEF RowsOf
<1> QED
  BY <1>6, <1>7 DEF RowsExclusive

LEMMA CliRows ==
    ASSUME CommandsInv, RowsExclusive, NEW k \in Keys, CliCreate(k) PROVE RowsExclusive'
<1>1. UNCHANGED <<kind, key, rows, pc>> /\ tenants' = tenants \cup {k}
  BY DEF CliCreate, inputVars, sessionVars, busVars
<1>2. ASSUME NEW r \in Requests PROVE RowsOf(r)'
  <2>1. kind[r] = "create" /\ rows[r] > 0 => key[r] # k
    BY DEF CliCreate
  <2> QED
    BY <1>1, <2>1 DEF RowsExclusive, RowsOf, SlugHeld, TenantLocked
<1> QED
  BY <1>2 DEF RowsExclusive

\* Retries and concurrent requests never hold two tenants of a slug, or one that
\* is committed, or two acknowledgements of a request.
THEOREM RowsAreExclusive == Spec => []RowsExclusive
<1>1. Init => RowsExclusive
  <2> SUFFICES ASSUME Init, NEW r \in Requests PROVE RowsOf(r)
    BY DEF RowsExclusive
  <2>1. rows = [q \in Requests |-> 0]
    BY DEF Init
  <2>2. rows[r] = 0
    BY <2>1
  <2>3. rows[r] <= 1 /\ ~ rows[r] > 0
    BY <2>2
  <2> QED
    BY <2>2, <2>3 DEF RowsOf
<1>2. ASSUME CommandsInv, CommandsInv', RowsExclusive, [Next]_vars PROVE RowsExclusive'
  <2>1. CASE UNCHANGED vars
    BY <1>2, <2>1 DEF vars, inputVars, sessionVars, busVars, RowsExclusive, RowsOf,
                      SlugHeld, TenantLocked
  <2>2. CASE \E k \in Keys : CliCreate(k)
    BY <1>2, <2>2, CliRows
  <2>3. CASE \E r \in Requests : RequestAct(r)
    BY <1>2, <2>3, RequestEffect, EffectRows
  <2> QED
    BY <1>2, <2>1, <2>2, <2>3 DEF Next, RequestAct
<1>3. CommandsInv /\ CommandsInv' /\ RowsExclusive /\ [Next]_vars => RowsExclusive'
  BY <1>2
<1> QED
  BY <1>1, <1>3, CommandsInvariant, PTL DEF Spec

-----------------------------------------------------------------------------
(* Waits end                                                                *)

\* The flush of r waits for a row of another session.
RequestWaits(r) ==
    /\ pc[r] = "save" /\ session[r] # "aborted"
    /\ \/ kind[r] = "create" /\ key[r] \notin tenants /\ SlugHeld(r)
       \/ kind[r] \in {"update", "delete"} /\ TenantLocked(r)

Running(r) == pc[r] \notin {"idle", "closed"}

WaitsEnd ==
    (\E r \in Requests : Running(r)) => \E r \in Requests : Running(r) /\ ~ RequestWaits(r)

LEMMA InvWaitsEnd == CommandsInv /\ RowsExclusive => WaitsEnd
<1> SUFFICES ASSUME CommandsInv, RowsExclusive, NEW r \in Requests, RequestWaits(r)
             PROVE  \E q \in Requests : Running(q) /\ ~ RequestWaits(q)
  BY DEF WaitsEnd
<1>1. ASSUME NEW q \in Requests, kind[q] # "log", rows[q] > 0
      PROVE  Running(q) /\ ~ RequestWaits(q)
  <2>1. rows[q] \in Nat /\ (pc[q] = "idle" => rows[q] = 0)
    BY LocalNow DEF Local, LocalTypes, LocalTries
  <2>2. pc[q] # "save" /\ pc[q] # "closed"
    BY <1>1, <2>1 DEF RowsExclusive, RowsOf
  <2> QED
    BY <1>1, <2>1, <2>2 DEF Running, RequestWaits
<1>2. \E q \in Requests : kind[q] # "log" /\ rows[q] > 0
  BY DEF RequestWaits, SlugHeld, TenantLocked
<1> QED
  BY <1>1, <1>2

\* Whoever has a row of a tenant waits for nobody, so requests about the same
\* tenants never all wait for each other.
THEOREM RequestWaitsEnd == Spec => []WaitsEnd
BY InvWaitsEnd, CommandsInvariant, RowsAreExclusive, PTL
==============================================================================
