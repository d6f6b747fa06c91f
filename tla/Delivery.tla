------------------------------ MODULE Delivery ------------------------------
(***************************************************************************)
(* What the transactional outbox promises, without sessions, rows or       *)
(* locks: an event is published only after it has been accepted; it may be *)
(* published more than once, never again once it is settled; it is settled *)
(* only when a copy is on the topic; or it is given up, for good.          *)
(***************************************************************************)
EXTENDS Naturals

CONSTANT Events

VARIABLES
    accepted,   \* events durably recorded
    copies,     \* messages of each event on the topic
    settled,    \* events recorded as published
    abandoned   \* events whose publication is given up

dvars == <<accepted, copies, settled, abandoned>>

DInit ==
    /\ accepted = {}
    /\ copies = [e \in Events |-> 0]
    /\ settled = {}
    /\ abandoned = {}

\* An ingestion commits.
Accept(e) ==
    /\ e \notin accepted
    /\ accepted' = accepted \cup {e}
    /\ UNCHANGED <<copies, settled, abandoned>>

\* A message reaches the topic.
Deliver(e) ==
    /\ e \in accepted \ (settled \cup abandoned)
    /\ copies' = [copies EXCEPT ![e] = @ + 1]
    /\ UNCHANGED <<accepted, settled, abandoned>>

\* Faulty variant of Resolve: a row is marked published before it is sent.
ResolveUnsent(S, D) ==
    /\ S \cap D = {}
    /\ S \cup D \subseteq accepted \ (settled \cup abandoned)
    /\ settled' = settled \cup S
    /\ abandoned' = abandoned \cup D
    /\ UNCHANGED <<accepted, copies>>

\* A batch commits: S published, D given up.
Resolve(S, D) ==
    /\ S \cap D = {}
    /\ S \cup D \subseteq accepted \ (settled \cup abandoned)
    /\ \A e \in S : copies[e] > 0
    /\ settled' = settled \cup S
    /\ abandoned' = abandoned \cup D
    /\ UNCHANGED <<accepted, copies>>

DNext ==
    \/ \E e \in Events : Accept(e) \/ Deliver(e)
    \/ \E S, D \in SUBSET Events : Resolve(S, D)

DSpec == DInit /\ [][DNext]_dvars
=============================================================================
