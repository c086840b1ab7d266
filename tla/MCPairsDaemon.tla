---------------------------- MODULE MCPairsDaemon ----------------------------
(* PairsDaemon with model values for the open transactions and signals.    *)
EXTENDS PairsDaemon
=============================================================================
