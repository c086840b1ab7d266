----------------------------- MODULE MCTxIndex -----------------------------
(* TxIndex on small instances: model values for the block ids. *)
EXTENDS TxIndex, TLC

Symmetry == Permutations(Ids)
=============================================================================
