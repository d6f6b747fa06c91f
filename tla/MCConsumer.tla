----------------------------- MODULE MCConsumer -----------------------------
(* Instances of Consumer for TLC.                                          *)
EXTENDS Consumer, TLC

CONSTANTS q1, q2, w1, w2

Symmetry == Permutations(Consumers) \cup Permutations(Partitions)
=============================================================================
