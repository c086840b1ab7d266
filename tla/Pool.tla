---------------------------------- MODULE Pool ----------------------------------
(***************************************************************************)
(* A constant-product pool of two tokens: the formulas of packages/sdk/amm *)
(* applied again and again to the reserves and the LP supply.  A step of   *)
(* the pool is a formula, and the transfers that go with it; the contract  *)
(* is not in the repository.                                               *)
(*                                                                         *)
(* There are two sets of formulas.  core/pool-math.ts is what the SDK      *)
(* quotes with; its comment "The RIDE contract implements the same         *)
(* formulas" does not hold of the first deposit.  core/ride-formulas.ts    *)
(* ports "the arithmetic actually deployed": the same output of a swap,    *)
(* but for the first deposit sqrtProduct, and a ceiling on the reserves.   *)
(* A pool works with one of the two.                                       *)
(*                                                                         *)
(* All division is floor; bigint does not overflow.  An operation whose    *)
(* function throws changes nothing.                                        *)
(***************************************************************************)
EXTENDS Integers

CONSTANTS
  BPS_DENOMINATOR, MIN_FEE_BPS, MAX_FEE_BPS, MINIMUM_LIQUIDITY,
  Fees,        \* the fees of the pools
  MaxAmount,   \* bound: amounts of an operation
  MaxReserve,  \* MAX_RESERVE of ride-formulas.ts, and a bound on other reserves
  MaxSupply    \* bound: LP supply

ASSUME PoolAssumption ==
  /\ BPS_DENOMINATOR \in Nat /\ MINIMUM_LIQUIDITY \in Nat \ {0}
  /\ MIN_FEE_BPS \in Nat \ {0} /\ MAX_FEE_BPS \in Nat /\ MAX_FEE_BPS < BPS_DENOMINATOR
  /\ Fees \subseteq Nat /\ MaxAmount \in Nat /\ MaxReserve \in Nat /\ MaxSupply \in Nat

VARIABLES reserveA, reserveB, supply, feeBps,
  deployed   \* the pool works with ride-formulas.ts, not pool-math.ts

config == <<feeBps, deployed>>
vars == <<reserveA, reserveB, supply, feeBps, deployed>>

-----------------------------------------------------------------------------
(* math.ts                                                                 *)

fraction(a, b, c) == (a * b) \div c

\* Newton's method, from n down until the next value is not smaller.
newtonStep(n, x) == (x + n \div x) \div 2

newton(n) ==
  LET from[x \in 1..n] == IF newtonStep(n, x) < x THEN from[newtonStep(n, x)] ELSE x
  IN  from

isqrt(n) == IF n = 0 THEN 0 ELSE newton(n)[n]

-----------------------------------------------------------------------------
(* ride-formulas.ts                                                        *)

\* Where Newton's method begins, by the magnitude of n: 10^4, 10^8, 10^12, 10^16
\* or 10^18 (the last three as quotients).
rideStart(n) ==
  IF n < 10000 THEN n
  ELSE IF n < 100000000 THEN n \div 100
  ELSE IF n \div 100000000 < 10000 THEN n \div 10000
  ELSE IF n \div 100000000 < 100000000 THEN n \div 1000000
  ELSE IF n \div 1000000000 < 1000000000 THEN n \div 100000000
  ELSE n \div 1000000000

rideStep(n, x) == IF newtonStep(n, x) < x THEN newtonStep(n, x) ELSE x

fourSteps(n, x) == rideStep(n, rideStep(n, rideStep(n, rideStep(n, x))))

\* The loop of sixteen steps.
rideIsqrt(n) ==
  IF n = 0 THEN 0
  ELSE IF n <= 3 THEN 1
  ELSE fourSteps(n, fourSteps(n, fourSteps(n, fourSteps(n, rideStart(n)))))

sqrtProductRoundedUp(a, b) == (rideIsqrt(a) + 1) * (rideIsqrt(b) + 1)   \* mutant

\* The product of the two roots, and one more when its square over a, rounded
\* down, is not more than b.
sqrtProduct(a, b) ==
  LET approx == rideIsqrt(a) * rideIsqrt(b)
  IN  IF approx > 0 /\ ((approx + 1) * (approx + 1)) \div a <= b THEN approx + 1 ELSE approx

-----------------------------------------------------------------------------
(* pool-math.ts: what the functions return when they do not throw.         *)

LpOfMax(lpFromA, lpFromB) == IF lpFromA <= lpFromB THEN lpFromB ELSE lpFromA   \* mutant

LpOf(lpFromA, lpFromB) == IF lpFromA <= lpFromB THEN lpFromA ELSE lpFromB

\* The side that constrains the deposit is taken as a whole, and of the other
\* one what the minted LP stand for, rounded down.
getAddLiquidity(amountA, amountB, rA, rB, total) ==
  LET lpFromA == fraction(amountA, total, rA)
      lpFromB == fraction(amountB, total, rB)
      lp == LpOf(lpFromA, lpFromB)
      Share(amount, reserve) ==
        LET share == fraction(lp, reserve, total)
        IN  IF share > amount THEN amount ELSE share
  IN  [lpMinted |-> lp,
       actualAmountA |-> IF lpFromA <= lpFromB THEN amountA ELSE Share(amountA, rA),
       actualAmountB |-> IF lpFromA <= lpFromB THEN Share(amountB, rB) ELSE amountB]

RemoveRoundedUp(lpBurn, rA, rB, total) ==   \* mutant
  [amountA |-> (lpBurn * rA + total - 1) \div total,
   amountB |-> (lpBurn * rB + total - 1) \div total]

getRemoveLiquidity(lpBurn, rA, rB, total) ==
  [amountA |-> fraction(lpBurn, rA, total), amountB |-> fraction(lpBurn, rB, total)]

AmountAtSpot(amountIn, rIn, rOut, fee) == fraction(amountIn, rOut, rIn)   \* mutant

\* The fee is taken from the input, all of which goes to the reserve.
AmountOut(amountIn, rIn, rOut, fee) ==
  LET amountInWithFee == amountIn * (BPS_DENOMINATOR - fee)
  IN  (amountInWithFee * rOut) \div (rIn * BPS_DENOMINATOR + amountInWithFee)

-----------------------------------------------------------------------------
TypeOK ==
  /\ reserveA \in Nat /\ reserveB \in Nat /\ supply \in Nat
  /\ feeBps \in Fees /\ deployed \in BOOLEAN

\* createPool writes no reserves; the first deposit does.
Init ==
  /\ reserveA = 0 /\ reserveB = 0 /\ supply = 0
  /\ feeBps \in Fees /\ deployed \in BOOLEAN

Amounts == 1..MaxAmount

\* getInitialLiquidity: MINIMUM_LIQUIDITY of the LP belong to nobody.
InitialLiquidity(amountA, amountB) ==
  /\ supply = 0
  /\ supply' = IF deployed THEN sqrtProduct(amountA, amountB) ELSE isqrt(amountA * amountB)
  /\ supply' > MINIMUM_LIQUIDITY
  /\ reserveA' = amountA /\ reserveB' = amountB
  /\ reserveA' <= MaxReserve /\ reserveB' <= MaxReserve
  /\ UNCHANGED config

\* What is not used of the amounts is refunded.
AddLiquidity(amountA, amountB) ==
  /\ supply > 0
  /\ LET added == getAddLiquidity(amountA, amountB, reserveA, reserveB, supply) IN
       /\ added.lpMinted > 0
       /\ reserveA' = reserveA + added.actualAmountA
       /\ reserveB' = reserveB + added.actualAmountB
       /\ supply' = supply + added.lpMinted
  /\ reserveA' <= MaxReserve /\ reserveB' <= MaxReserve /\ supply' <= MaxSupply
  /\ UNCHANGED config

RemoveLiquidity(lpBurn) ==
  /\ lpBurn <= supply
  /\ LET removed == getRemoveLiquidity(lpBurn, reserveA, reserveB, supply) IN
       /\ ~(removed.amountA = 0 /\ removed.amountB = 0)
       /\ reserveA' = reserveA - removed.amountA
       /\ reserveB' = reserveB - removed.amountB
  /\ supply' = supply - lpBurn
  /\ UNCHANGED config

\* getAmountOut: the amount that leaves, when the swap is not refused.
Swap(amountIn, rIn, rOut, out) ==
  /\ supply > 0
  /\ MIN_FEE_BPS <= feeBps /\ feeBps <= MAX_FEE_BPS
  /\ out = AmountOut(amountIn, rIn, rOut, feeBps)
  /\ out # 0 /\ out < rOut
  /\ rIn + amountIn <= MaxReserve

SwapAForB(amountIn) ==
  LET out == AmountOut(amountIn, reserveA, reserveB, feeBps) IN
    /\ Swap(amountIn, reserveA, reserveB, out)
    /\ reserveA' = reserveA + amountIn
    /\ reserveB' = reserveB - out
    /\ UNCHANGED <<supply, feeBps, deployed>>

SwapBForA(amountIn) ==
  LET out == AmountOut(amountIn, reserveB, reserveA, feeBps) IN
    /\ Swap(amountIn, reserveB, reserveA, out)
    /\ reserveB' = reserveB + amountIn
    /\ reserveA' = reserveA - out
    /\ UNCHANGED <<supply, feeBps, deployed>>

\* The function takes any amount up to the supply.  Nobody has the locked LP
\* to burn: they are sent to LOCKED_LP_ADDR.
Held == 1..(supply - MINIMUM_LIQUIDITY)

Next ==
  \/ \E a, b \in Amounts : InitialLiquidity(a, b) \/ AddLiquidity(a, b)
  \/ \E lp \in Held : RemoveLiquidity(lp)
  \/ \E a \in Amounts : SwapAForB(a) \/ SwapBForA(a)

Spec == Init /\ [][Next]_vars

-----------------------------------------------------------------------------
(* The pool is never drained: from the first deposit on there is more than *)
(* nothing of both tokens, whatever is swapped and burned, since the       *)
(* locked LP keep a share of both.  The formulas divide by all three.      *)
NeverDrained ==
  supply # 0 => supply >= MINIMUM_LIQUIDITY /\ reserveA > 0 /\ reserveB > 0

\* The square of what one LP stands for: reserveA * reserveB / supply^2.
NotLess(a, b, total, a1, b1, total1) ==
  a1 * b1 * (total * total) >= a * b * (total1 * total1)

(* Swaps and removals round in favor of the pool: the product of the       *)
(* reserves that one LP stands for never falls.  For a swap that is k: the *)
(* "INVARIANT VIOLATION" that getAmountOut throws is never reached.        *)
RoundsForPool ==
  [][supply # 0 /\ supply' <= supply
       => NotLess(reserveA, reserveB, supply, reserveA', reserveB', supply')]_vars

(* "LP add then remove cycle does not create value": who burns the LP of a *)
(* deposit gets back at most what he paid, of both tokens, whatever the    *)
(* state of the pool and the amounts he offered.                           *)
RoundTrip(a, b) ==
  LET added == getAddLiquidity(a, b, reserveA, reserveB, supply)
      removed == getRemoveLiquidity(added.lpMinted, reserveA + added.actualAmountA,
                   reserveB + added.actualAmountB, supply + added.lpMinted)
  IN  added.lpMinted > 0
        => removed.amountA <= added.actualAmountA /\ removed.amountB <= added.actualAmountB

NoFreeValue == supply # 0 => \A a, b \in Amounts : RoundTrip(a, b)

Root(n) == CHOOSE r \in 0..n : r * r <= n /\ n < (r + 1) * (r + 1)
Above(n) == IF n <= 1 THEN n ELSE Root(n) + 1

(* What the first deposit mints is near the root of its product.  In       *)
(* pool-math.ts it is the root, rounded down.  In ride-formulas.ts it      *)
(* "never overshoots floor(sqrt(a*b)) by more than 1, and never            *)
(* undershoots by more than sqrt(a)+sqrt(b)" (test/ride-formulas.spec.ts). *)
FirstSupplyNearRoot ==
  [][supply = 0 /\ supply' # 0
       => LET root == Root(reserveA' * reserveB')
          IN  IF deployed
              THEN /\ supply' <= root + 1
                   /\ supply' >= root - (Above(reserveA') + Above(reserveB'))
              ELSE supply' = root]_vars

(* "All outputs round in favor of the pool (against the caller)": no       *)
(* operation takes from what one LP stands for, of the two tokens          *)
(* together.                                                               *)
AllRoundForPool ==
  [][supply # 0
       => NotLess(reserveA, reserveB, supply, reserveA', reserveB', supply')]_vars
=============================================================================
