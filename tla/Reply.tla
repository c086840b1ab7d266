-------------------------------- MODULE Reply --------------------------------
(***************************************************************************)
(* What a caller is promised by the components that answer requests        *)
(* through messages: a call is settled at most once, and with a result     *)
(* only after somebody who may grant it acted on this call.  A call may    *)
(* also be forgotten, when the process that held it stops.                 *)
(***************************************************************************)
CONSTANT Calls

VARIABLES
  call,    \* what the caller knows of each call
  granted  \* the calls that were acted on

vars == <<call, granted>>

Init ==
  /\ call = [c \in Calls |-> "unsettled"]
  /\ granted = {}

Grant(c) ==
  /\ granted' = granted \cup {c}
  /\ UNCHANGED call

Settle(c, outcome) ==
  /\ call[c] = "unsettled"
  /\ outcome = "result" => c \in granted
  /\ call' = [call EXCEPT ![c] = outcome]
  /\ UNCHANGED granted

\* One event may refuse or forget many calls.
GiveUp(cs, outcome) ==
  /\ \A c \in cs : call[c] = "unsettled"
  /\ call' = [c \in Calls |-> IF c \in cs THEN outcome ELSE call[c]]
  /\ UNCHANGED granted

Next ==
  \/ \E c \in Calls : Grant(c)
  \/ \E c \in Calls, outcome \in {"result", "refusal"} : Settle(c, outcome)
  \/ \E cs \in SUBSET Calls, outcome \in {"refusal", "forgotten"} : GiveUp(cs, outcome)

Spec == Init /\ [][Next]_vars
=============================================================================
