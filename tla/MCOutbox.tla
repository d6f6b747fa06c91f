------------------------------ MODULE MCOutbox ------------------------------
(* Instances of Outbox for TLC.                                            *)
EXTENDS Outbox, TLC

CONSTANTS e1, e2, e3, c1, c2, c3, w1, w2

\* e1 and e2 come from two sources of one tenant with the same key; e3 shares
\* nothing with them.  e2's clock is ahead of e1's; e3 is as old as e1.
MCOutboxKey == [e \in Events |-> IF e = e3 THEN "k2" ELSE "k1"]
MCCreatedAt == [e \in Events |-> IF e = e2 THEN 2 ELSE 1]

\* What the calls submit: one identity twice and another with its key, or three
\* identities, two of them with one key, so that there are up to two outbox rows.
Mixes == {<<e1, e1, e2>>, <<e1, e2, e3>>}

MCInit == Init /\ <<req[c1], req[c2], req[c3]>> \in Mixes

MCSpec == MCInit /\ [][Next]_vars /\ Fairness
=============================================================================
