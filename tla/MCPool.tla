-------------------------------- MODULE MCPool --------------------------------
(* Pool with small reserves.  The fees are those of the code, the locked LP *)
(* are scaled down.                                                         *)
EXTENDS Pool

(* Sixteen steps are enough: the deployed root is that of math.ts, for the  *)
(* amounts of the run and on both sides of where the start value changes.   *)
ASSUME RootsAgree ==
  \A n \in (0..400) \cup (9900..10100) \cup {99999999, 100000000, 2000000000} :
    rideIsqrt(n) = isqrt(n)
=============================================================================
