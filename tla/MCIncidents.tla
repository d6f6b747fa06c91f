----------------------------- MODULE MCIncidents -----------------------------
(* Instances of Incidents for TLC.                                         *)
EXTENDS Incidents, TLC

CONSTANTS a1, a2, k1, k2, i1, i2, i3, i4, d1, d2, d3, p1, p2, p3, p4, p5

\* a1 is eligible for the first rule, a2 for both; they share k1.
MCKeysOf == [e \in Events |-> IF e = a1 THEN <<k1>> ELSE <<k1, k2>>]
MCOneKey == [e \in Events |-> <<k1>>]
MCRuleOf == [k \in Keys |-> IF k = k1 THEN 1 ELSE 2]

Symmetry == Permutations(Deliveries) \cup Permutations(Requests)
=============================================================================
