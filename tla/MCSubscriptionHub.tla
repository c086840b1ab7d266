------------------------- MODULE MCSubscriptionHub -------------------------
(* SubscriptionHub on small instances: m1 matches both keys, m2 only k1. *)
EXTENDS SubscriptionHub, TLC

CONSTANTS c1, c2, k1, k2, m1, m2

MCMatches == [m \in Multis |-> IF m = m1 THEN Keys ELSE {k1} \cap Keys]
Symmetry == Permutations(Clients)
=============================================================================
