---------------------------- MODULE MCChainIndex ----------------------------
(* ChainIndex on small instances: model values for assets and block ids.   *)
EXTENDS ChainIndex, TLC

Symmetry == Permutations(Ids) \cup Permutations(Assets)
=============================================================================
