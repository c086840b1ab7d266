-------------------------------- MODULE MCBus --------------------------------
(* Bus on a small instance: a page and two windows that hear it.           *)
EXTENDS Bus, TLC

CONSTANTS page, frame1, frame2, request1, handler1, handler2

MCPeers == page :> {frame1, frame2} @@ frame1 :> {page} @@ frame2 :> {page}
MCOwner == request1 :> page

\* A request beside one handler, or two handlers.
MCUses ==
  {[requests |-> {request1}, handlers |-> {handler1}],
   [requests |-> {}, handlers |-> {handler1, handler2}]}
=============================================================================
