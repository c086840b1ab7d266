----------------------------- MODULE MCConsumer -----------------------------
(* Consumer on small instances; all its parameters are numbers and sets.   *)
EXTENDS Consumer
=============================================================================
