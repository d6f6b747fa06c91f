------------------------------- MODULE MCViews -------------------------------
(* Instances of Views for TLC.                                             *)
EXTENDS Views, TLC

CONSTANTS a1, a2, k1, k2, low, high

\* Every event has a key and a severity of its own.
MCKeysOf == [e \in Events |-> IF e = a1 THEN <<k1>> ELSE <<k2>>]
MCSeverityOf == [e \in Events |-> IF e = a1 THEN low ELSE high]

\* The two events change places, with their keys and severities.
Exchange == a1 :> a2 @@ a2 :> a1 @@ k1 :> k2 @@ k2 :> k1 @@ low :> high @@ high :> low
Symmetry == Permutations(Incidents) \cup {Exchange}
=============================================================================
