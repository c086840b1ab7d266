------------------------------- MODULE PoolProofs -------------------------------
(***************************************************************************)
(* Proofs about Pool, for all reserves, amounts and fees.  The arithmetic  *)
(* is in the lemmas: what floor division gives, that isqrt is the root,    *)
(* then one inequality per formula.                                        *)
(***************************************************************************)
EXTENDS Pool, TLAPS, NaturalsInduction, WellFoundedInduction

(* Floor division by a positive number. *)
LEMMA DivFacts ==
  ASSUME NEW n \in Nat, NEW d \in Nat, d > 0
  PROVE  n \div d \in Nat /\ d * (n \div d) <= n /\ n < d * (n \div d) + d
  BY SMT

(* Products are monotonic. *)
LEMMA TimesMonotonic ==
  ASSUME NEW a \in Nat, NEW b \in Nat, NEW c \in Nat, a <= b
  PROVE  a * c <= b * c
  BY SMT

LEMMA ProductsMonotonic ==
  ASSUME NEW a \in Nat, NEW b \in Nat, NEW c \in Nat, NEW d \in Nat, a <= b, c <= d
  PROVE  a * c <= b * d
  BY SMT

(* A common positive factor can be dropped. *)
LEMMA DropFactor ==
  ASSUME NEW a \in Int, NEW b \in Int, NEW k \in Nat, k > 0, k * a <= k * b
  PROVE  a <= b
  BY SMT

-----------------------------------------------------------------------------
(* isqrt: Newton's method descends through the positive numbers, each       *)
(* value being newtonStep of the one before; Descend is one unfolding.     *)
Descend(n, f) == [x \in 1..n |-> IF newtonStep(n, x) < x THEN f[newtonStep(n, x)] ELSE x]

(* What the recursive definition of newton stands for.                     *)
LEMMA NewtonDef ==
  ASSUME NEW n
  PROVE  newton(n) = (CHOOSE f : f = Descend(n, f))
  BY DEF newton, Descend

(* Every set of naturals has a least element.                              *)
LEMMA LeastExists ==
  ASSUME NEW S, S \subseteq Nat, S # {}
  PROVE  \E x \in S : \A y \in S : x <= y
<1> DEFINE R == OpToRel(<, Nat)
<1>1. PICK x \in S : \A y \in S : ~ (<<y, x>> \in R)
  BY WFMin, NatLessThanWellFounded
<1>2. ASSUME NEW y \in S, y < x PROVE <<y, x>> \in R
  BY <1>2 DEF OpToRel
<1>3. \A y \in S : ~ (y < x)
  BY <1>1, <1>2, Zenon
<1> QED
  BY <1>3

(* One step of the method: it stays positive and, by the inequality of the *)
(* means, does not get below the root; it descends while above the root.   *)
LEMMA StepIs ==
  ASSUME NEW n \in Nat, NEW x \in 1..n
  PROVE  /\ newtonStep(n, x) \in Nat
         /\ newtonStep(n, x) >= 1
         /\ newtonStep(n, x) >= x => x * x <= n
         /\ n < (newtonStep(n, x) + 1) * (newtonStep(n, x) + 1)
<1> DEFINE q == n \div x
            y == newtonStep(n, x)
<1>1. q \in Nat /\ x * q <= n /\ n < x * q + x /\ q >= 1
  BY SMT
<1> HIDE DEF q
<1>2. y = (x + q) \div 2
  BY DEF newtonStep, q
<1>3. y \in Nat /\ 2 * y <= x + q /\ x + q < 2 * y + 2
  BY <1>1, <1>2
<1> HIDE DEF y
<1>4. y >= 1
  BY <1>1, <1>3
<1>5. ASSUME y >= x PROVE x * x <= n
  <2>1. x <= q
    BY <1>1, <1>3, <1>5
  <2>2. x * x <= x * q
    BY <1>1, <2>1
  <2>3. x * x \in Nat /\ x * q \in Nat
    BY <1>1
  <2> QED
    BY <1>1, <2>2, <2>3
<1>6. n < (y + 1) * (y + 1)
  <2>1. x + q + 1 <= 2 * (y + 1)
    BY <1>1, <1>3
  <2> DEFINE a == x
              b == q + 1
              z == y + 1
  <2>2. a \in Nat /\ b \in Nat /\ z \in Nat /\ a + b <= 2 * z /\ n < a * b
    BY <1>1, <1>3, <2>1
  <2> HIDE DEF a, b, z
  <2>3. (a + b) * (a + b) <= (2 * z) * (2 * z)
    BY <2>2
  <2>4. 4 * (a * b) <= (a + b) * (a + b)
    <3>1. 0 <= (a - b) * (a - b)
      BY <2>2
    <3>2. (a + b) * (a + b) = (a - b) * (a - b) + 4 * (a * b)
      BY <2>2
    <3>3. a * b \in Nat /\ (a - b) * (a - b) \in Int
      BY <2>2
    <3> QED
      BY <3>1, <3>2, <3>3
  <2>5. (2 * z) * (2 * z) = 4 * (z * z)
    BY <2>2
  <2>6. a * b \in Nat /\ z * z \in Nat /\ (a + b) * (a + b) \in Nat
    BY <2>2
  <2>7. n < z * z
    BY <2>2, <2>3, <2>4, <2>5, <2>6
  <2> QED
    BY <2>7 DEF z
<1> QED
  BY <1>3, <1>4, <1>5, <1>6 DEF y

(* That there is such a function: those that are right up to k, one after  *)
(* the other.                                                              *)
PartOf(n, k, f) == f = [x \in 1..k |-> IF newtonStep(n, x) < x THEN f[newtonStep(n, x)] ELSE x]

LEMMA PartExists ==
  ASSUME NEW n \in Nat, NEW k \in 1..n, NEW f, PartOf(n, k - 1, f)
  PROVE  \E g : PartOf(n, k, g)
<1> DEFINE val == IF newtonStep(n, k) < k THEN f[newtonStep(n, k)] ELSE k
            g == [x \in 1..k |-> IF x < k THEN f[x] ELSE val]
            h == [x \in 1..k |-> IF newtonStep(n, x) < x THEN g[newtonStep(n, x)] ELSE x]
<1>1. ASSUME NEW x \in 1..k PROVE g[x] = h[x]
  <2>1. newtonStep(n, x) \in Nat /\ newtonStep(n, x) >= 1 /\ x \in Nat /\ k \in Nat
    BY StepIs
  <2>2. newtonStep(n, x) < x => g[newtonStep(n, x)] = f[newtonStep(n, x)]
    BY <2>1
  <2>3. CASE x < k
    <3>1. x \in 1..(k - 1)
      BY <2>1, <2>3
    <3>2. f[x] = IF newtonStep(n, x) < x THEN f[newtonStep(n, x)] ELSE x
      BY <3>1, Zenon DEF PartOf
    <3>3. g[x] = f[x]
      BY <2>3
    <3> QED
      BY <3>2, <3>3, <2>2
  <2>4. CASE x = k
    <3>1. g[x] = val
      BY <2>1, <2>4
    <3>2. val = IF newtonStep(n, x) < x THEN f[newtonStep(n, x)] ELSE x
      BY <2>4
    <3> QED
      BY <3>1, <3>2, <2>2
  <2> QED
    BY <2>1, <2>3, <2>4
<1>2. g = h
  <2> HIDE DEF val
  <2> QED
    BY <1>1
<1> QED
  BY <1>2 DEF PartOf

(* newton is what its definition says: the first k without a function that *)
(* is right up to k would have had one, from its predecessor.              *)
LEMMA NewtonIs ==
  ASSUME NEW n \in Nat
  PROVE  newton(n) = Descend(n, newton(n))
<1>1. \A k \in 0..n : \E f : PartOf(n, k, f)
  <2> DEFINE Bad == {k \in 0..n : ~ \E f : PartOf(n, k, f)}
  <2> SUFFICES ASSUME Bad # {} PROVE FALSE
    OBVIOUS
  <2>1. Bad \subseteq Nat
    OBVIOUS
  <2>2. PICK k \in Bad : \A j \in Bad : k <= j
    <3> HIDE DEF Bad
    <3> QED
      BY <2>1, LeastExists
  <2>3. k # 0
    <3>1. PartOf(n, 0, [x \in 1..0 |-> x])
      BY DEF PartOf
    <3> QED
      BY <3>1
  <2>4. k \in 1..n /\ k - 1 \in 0..n /\ ~ (k <= k - 1)
    BY <2>3
  <2>5. PICK f : PartOf(n, k - 1, f)
    BY <2>2, <2>4
  <2> QED
    BY <2>4, <2>5, PartExists
<1>2. n \in 0..n
  OBVIOUS
<1>3. PICK f : f = Descend(n, f)
  BY <1>1, <1>2 DEF PartOf, Descend
<1> QED
  BY <1>3, NewtonDef, Zenon

(* Begun anywhere not below the root, it ends at the root: the least x     *)
(* where it did not would have a smaller one.                              *)
LEMMA NewtonRoot ==
  ASSUME NEW n \in Nat, NEW x \in 1..n, n < (x + 1) * (x + 1)
  PROVE  LET v == newton(n)[x]
         IN  v \in Nat /\ v * v <= n /\ n < (v + 1) * (v + 1)
<1> DEFINE IsRoot(v) == v \in Nat /\ v * v <= n /\ n < (v + 1) * (v + 1)
            Bad == {y \in 1..n : n < (y + 1) * (y + 1) /\ ~ IsRoot(newton(n)[y])}
<1> SUFFICES ASSUME Bad # {} PROVE FALSE
  OBVIOUS
<1>1. PICK y \in Bad : \A z \in Bad : y <= z
  <2>1. Bad \subseteq Nat
    OBVIOUS
  <2> HIDE DEF Bad
  <2> QED
    BY <2>1, LeastExists
<1>2. y \in 1..n /\ y \in Nat /\ n < (y + 1) * (y + 1) /\ ~ IsRoot(newton(n)[y])
  OBVIOUS
<1>3. newton(n)[y] = IF newtonStep(n, y) < y THEN newton(n)[newtonStep(n, y)] ELSE y
  <2>1. \A f : f = Descend(n, f) => f[y] = IF newtonStep(n, y) < y THEN f[newtonStep(n, y)] ELSE y
    BY <1>2, Zenon DEF Descend
  <2> QED
    BY <2>1, NewtonIs, Zenon
<1> DEFINE z == newtonStep(n, y)
<1>4. /\ z \in Nat /\ z >= 1 /\ n < (z + 1) * (z + 1)
      /\ z >= y => y * y <= n
  BY <1>2, StepIs
<1> HIDE DEF z
<1>5. CASE z < y
  <2>1. z \in 1..n /\ ~ (y <= z)
    BY <1>2, <1>4, <1>5
  <2>2. z \notin Bad
    BY <1>1, <2>1, Zenon
  <2>3. IsRoot(newton(n)[z])
    BY <1>4, <2>1, <2>2
  <2>4. newton(n)[y] = newton(n)[z]
    BY <1>3, <1>5 DEF z
  <2> QED
    BY <1>2, <2>3, <2>4, Zenon
<1>6. CASE ~ (z < y)
  <2>1. newton(n)[y] = y
    BY <1>3, <1>6 DEF z
  <2>2. y * y <= n
    BY <1>2, <1>4, <1>6
  <2> QED
    BY <1>2, <2>1, <2>2
<1> QED
  BY <1>5, <1>6

(* isqrt of math.ts is the square root, rounded down, of numbers of any    *)
(* size: Newton's method as the code runs it ends neither early nor late.  *)
THEOREM IsqrtIsFloorRoot ==
  ASSUME NEW n \in Nat
  PROVE  /\ isqrt(n) \in Nat
         /\ isqrt(n) * isqrt(n) <= n
         /\ n < (isqrt(n) + 1) * (isqrt(n) + 1)
<1>1. CASE n = 0
  BY <1>1 DEF isqrt
<1>2. CASE n # 0
  <2>1. n \in 1..n /\ n < (n + 1) * (n + 1)
    BY <1>2
  <2>2. isqrt(n) = newton(n)[n]
    BY <1>2 DEF isqrt
  <2> QED
    BY <2>1, <2>2, NewtonRoot
<1> QED
  BY <1>1, <1>2

(* The deployed root and product are numbers.                              *)
LEMMA RideStepIs ==
  ASSUME NEW n \in Nat, n > 3, NEW x \in 1..n
  PROVE  rideStep(n, x) \in 1..n
BY StepIs DEF rideStep

LEMMA FourStepsAre ==
  ASSUME NEW n \in Nat, n > 3, NEW x \in 1..n
  PROVE  fourSteps(n, x) \in 1..n
<1>1. rideStep(n, x) \in 1..n
  BY RideStepIs
<1>2. rideStep(n, rideStep(n, x)) \in 1..n
  BY <1>1, RideStepIs
<1>3. rideStep(n, rideStep(n, rideStep(n, x))) \in 1..n
  BY <1>2, RideStepIs
<1>4. rideStep(n, rideStep(n, rideStep(n, rideStep(n, x)))) \in 1..n
  BY <1>3, RideStepIs
<1> QED
  BY <1>4 DEF fourSteps

LEMMA RideStartIs ==
  ASSUME NEW n \in Nat, n > 3
  PROVE  rideStart(n) \in 1..n
<1>1. \A d \in Nat \ {0} : n >= d => n \div d \in 1..n
  <2> SUFFICES ASSUME NEW d \in Nat \ {0}, n >= d PROVE n \div d \in 1..n
    OBVIOUS
  <2>1. n \div d \in Nat /\ d * (n \div d) <= n /\ n < d * (n \div d) + d
    BY DivFacts
  <2> DEFINE q == n \div d
  <2>2. q \in Nat /\ d * q <= n /\ n < d * q + d
    BY <2>1
  <2> HIDE DEF q
  <2>3. q # 0
    BY <2>2
  <2>4. q <= d * q
    BY <2>2
  <2>5. d * q \in Nat
    BY <2>2
  <2>6. q \in 1..n
    BY <2>2, <2>3, <2>4, <2>5
  <2> QED
    BY <2>6 DEF q
<1> QED
  BY <1>1 DEF rideStart

LEMMA SqrtProductIs ==
  ASSUME NEW a \in Nat, NEW b \in Nat
  PROVE  sqrtProduct(a, b) \in Nat
<1>1. \A n \in Nat : rideIsqrt(n) \in Nat
  <2> SUFFICES ASSUME NEW n \in Nat, n > 3 PROVE rideIsqrt(n) \in Nat
    BY DEF rideIsqrt
  <2>1. rideStart(n) \in 1..n
    BY RideStartIs
  <2>2. fourSteps(n, rideStart(n)) \in 1..n
    BY <2>1, FourStepsAre
  <2>3. fourSteps(n, fourSteps(n, rideStart(n))) \in 1..n
    BY <2>2, FourStepsAre
  <2>4. fourSteps(n, fourSteps(n, fourSteps(n, rideStart(n)))) \in 1..n
    BY <2>3, FourStepsAre
  <2>5. fourSteps(n, fourSteps(n, fourSteps(n, fourSteps(n, rideStart(n))))) \in 1..n
    BY <2>4, FourStepsAre
  <2> QED
    BY <2>5 DEF rideIsqrt
<1>2. rideIsqrt(a) * rideIsqrt(b) \in Nat
  BY <1>1
<1> QED
  BY <1>2 DEF sqrtProduct

-----------------------------------------------------------------------------
(* One inequality per formula.                                             *)

(* A swap leaves some of the token that goes out, and the product of the   *)
(* reserves does not fall.                                                 *)
LEMMA SwapFacts ==
  ASSUME NEW in \in Nat, NEW X \in Nat, NEW Y \in Nat, NEW fee \in Nat,
         in > 0, X > 0, Y > 0, 0 < fee, fee < BPS_DENOMINATOR
  PROVE  LET out == AmountOut(in, X, Y, fee)
         IN  out \in Nat /\ out < Y /\ X * Y <= (X + in) * (Y - out)
<1> DEFINE B == BPS_DENOMINATOR
           w == in * (B - fee)
           D == X * B + w
           out == AmountOut(in, X, Y, fee)
<1>0. B \in Nat /\ B > 0
  BY PoolAssumption
<1>1. w \in Nat /\ w <= in * B
  BY <1>0
<1>2. D \in Nat /\ D > 0 /\ w < D
  BY <1>0, <1>1
<1>3. w * Y \in Nat
  BY <1>1
<1> HIDE DEF w, D
<1>4. out = (w * Y) \div D
  BY DEF AmountOut, w, D
<1>5. out \in Nat /\ D * out <= w * Y
  BY <1>2, <1>3, <1>4, DivFacts
<1> HIDE DEF out
<1>6. out < Y
  <2>1. w * Y < D * Y
    BY <1>1, <1>2
  <2> QED
    BY <2>1, <1>2, <1>3, <1>5
<1>7. X * B * Y + D * out <= D * Y
  <2>1. D * Y = X * B * Y + w * Y
    BY <1>0, <1>1 DEF D
  <2> QED
    BY <2>1, <1>0, <1>2, <1>3, <1>5
<1>8. X * B * Y <= D * (Y - out)
  <2>1. D * (Y - out) = D * Y - D * out
    BY <1>2, <1>5
  <2> QED
    BY <2>1, <1>7, <1>0, <1>2, <1>5
<1>9. D * (Y - out) <= (X * B + in * B) * (Y - out)
  <2>1. D <= X * B + in * B
    BY <1>0, <1>1 DEF D
  <2>2. Y - out \in Nat /\ X * B + in * B \in Nat
    BY <1>0, <1>5, <1>6
  <2> QED
    BY <2>1, <2>2, <1>2, TimesMonotonic
<1>10. B * (X * Y) <= B * ((X + in) * (Y - out))
  BY <1>0, <1>5, <1>8, <1>9, <1>2
<1>11. X * Y <= (X + in) * (Y - out)
  BY <1>0, <1>5, <1>10, DropFactor
<1> QED
  BY <1>5, <1>6, <1>11 DEF out

(* What is left of a reserve after a removal is at least the share of the  *)
(* LP that are left.                                                       *)
LEMMA RemoveFacts ==
  ASSUME NEW lp \in Nat, NEW R \in Nat, NEW S \in Nat, lp <= S, S > 0
  PROVE  LET out == fraction(lp, R, S)
         IN  out \in Nat /\ out <= R /\ R * (S - lp) <= S * (R - out)
<1> DEFINE out == fraction(lp, R, S)
<1>1. out \in Nat /\ S * out <= lp * R
  BY DivFacts DEF fraction
<1> HIDE DEF out
<1>2. lp * R <= S * R
  BY TimesMonotonic
<1>3. out <= R
  BY <1>1, <1>2, DropFactor
<1> QED
  BY <1>1, <1>3 DEF out

(* Two inequalities between quotients make one between products: the form  *)
(* that NotLess has.                                                       *)
LEMMA SharesMultiply ==
  ASSUME NEW a \in Nat, NEW b \in Nat, NEW s \in Nat,
         NEW a1 \in Nat, NEW b1 \in Nat, NEW s1 \in Nat,
         a * s1 <= s * a1, b * s1 <= s * b1
  PROVE  NotLess(a, b, s, a1, b1, s1)
<1>1. (a * s1) * (b * s1) <= (s * a1) * (s * b1)
  BY ProductsMonotonic
<1> QED
  BY <1>1 DEF NotLess

(* The side that constrains a deposit is not given back in excess.         *)
LEMMA FullSideFacts ==
  ASSUME NEW lp \in Nat, NEW amount \in Nat, NEW R \in Nat, NEW S \in Nat,
         S > 0, lp * R <= amount * S
  PROVE  fraction(lp, R + amount, S + lp) <= amount
<1> DEFINE q == fraction(lp, R + amount, S + lp)
<1>1. q \in Nat /\ (S + lp) * q <= lp * (R + amount)
  BY DivFacts DEF fraction
<1>2. lp * (R + amount) <= (S + lp) * amount
  OBVIOUS
<1> HIDE DEF q
<1>3. (S + lp) * q <= (S + lp) * amount
  BY <1>1, <1>2
<1>4. q <= amount
  BY <1>1, <1>3, DropFactor
<1> QED
  BY <1>4 DEF q

(* Nor is the other side, of which the share of the LP was taken.          *)
LEMMA ShareSideFacts ==
  ASSUME NEW lp \in Nat, NEW R \in Nat, NEW S \in Nat, S > 0
  PROVE  LET share == fraction(lp, R, S)
         IN  share \in Nat /\ fraction(lp, R + share, S + lp) <= share
<1> DEFINE share == fraction(lp, R, S)
           q == fraction(lp, R + share, S + lp)
<1>1. share \in Nat /\ lp * R < S * share + S
  BY DivFacts DEF fraction
<1> HIDE DEF share
<1>2. q \in Nat /\ (S + lp) * q <= lp * (R + share)
  BY <1>1, DivFacts DEF fraction
<1> HIDE DEF q
<1>3. ASSUME q >= share + 1 PROVE FALSE
  <2>1. (S + lp) * (share + 1) <= (S + lp) * q
    BY <1>1, <1>2, <1>3
  <2>2. (S + lp) * (share + 1) <= lp * (R + share)
    BY <1>1, <1>2, <2>1
  <2>3. S * share + S + lp * share + lp <= lp * R + lp * share
    BY <1>1, <2>2
  <2> QED
    BY <1>1, <2>3
<1> QED
  BY <1>1, <1>2, <1>3 DEF q, share

(* A deposit: what is minted and taken are numbers, and neither token      *)
(* comes back in excess.                                                   *)
LEMMA AddFacts ==
  ASSUME NEW a \in Nat, NEW b \in Nat, NEW rA \in Nat, NEW rB \in Nat, NEW S \in Nat,
         rA > 0, rB > 0, S > 0
  PROVE  LET added == getAddLiquidity(a, b, rA, rB, S)
             removed == getRemoveLiquidity(added.lpMinted, rA + added.actualAmountA,
                          rB + added.actualAmountB, S + added.lpMinted)
         IN  /\ added.lpMinted \in Nat
             /\ added.actualAmountA \in Nat /\ added.actualAmountB \in Nat
             /\ removed.amountA <= added.actualAmountA
             /\ removed.amountB <= added.actualAmountB
<1> DEFINE lpA == fraction(a, S, rA)
           lpB == fraction(b, S, rB)
           added == getAddLiquidity(a, b, rA, rB, S)
           lp == added.lpMinted
<1>1. lpA \in Nat /\ rA * lpA <= a * S
  BY DivFacts DEF fraction
<1>2. lpB \in Nat /\ rB * lpB <= b * S
  BY DivFacts DEF fraction
<1>3. CASE lpA <= lpB
  <2>1. added.lpMinted = lpA /\ added.actualAmountA = a
    BY <1>3 DEF getAddLiquidity, LpOf
  <2>2. lpA * rB <= b * S
    <3>1. lpA * rB <= lpB * rB
      BY <1>1, <1>2, <1>3, TimesMonotonic
    <3> QED
      BY <3>1, <1>1, <1>2
  <2>3. fraction(lpA, rB, S) \in Nat /\ fraction(lpA, rB, S) <= b
    <3>1. fraction(lpA, rB, S) \in Nat /\ S * fraction(lpA, rB, S) <= lpA * rB
      BY <1>1, DivFacts DEF fraction
    <3>2. S * fraction(lpA, rB, S) <= S * b
      BY <3>1, <2>2, <1>1
    <3> QED
      BY <3>1, <3>2, DropFactor
  <2>4. added.actualAmountB = fraction(lpA, rB, S)
    BY <1>3, <2>3 DEF getAddLiquidity, LpOf
  <2>5. lpA * rA <= a * S
    BY <1>1
  <2>6. fraction(lpA, rA + a, S + lpA) <= a
    BY <1>1, <2>5, FullSideFacts
  <2>7. fraction(lpA, rB + fraction(lpA, rB, S), S + lpA) <= fraction(lpA, rB, S)
    BY <1>1, ShareSideFacts
  <2> QED
    BY <1>1, <2>1, <2>3, <2>4, <2>6, <2>7 DEF getRemoveLiquidity
<1>4. CASE ~(lpA <= lpB)
  <2>1. added.lpMinted = lpB /\ added.actualAmountB = b
    BY <1>4 DEF getAddLiquidity, LpOf
  <2>2. lpB * rA <= a * S
    <3>1. lpB * rA <= lpA * rA
      BY <1>1, <1>2, <1>4, TimesMonotonic
    <3> QED
      BY <3>1, <1>1, <1>2
  <2>3. fraction(lpB, rA, S) \in Nat /\ fraction(lpB, rA, S) <= a
    <3>1. fraction(lpB, rA, S) \in Nat /\ S * fraction(lpB, rA, S) <= lpB * rA
      BY <1>2, DivFacts DEF fraction
    <3>2. S * fraction(lpB, rA, S) <= S * a
      BY <3>1, <2>2, <1>2
    <3> QED
      BY <3>1, <3>2, DropFactor
  <2>4. added.actualAmountA = fraction(lpB, rA, S)
    BY <1>4, <2>3 DEF getAddLiquidity, LpOf
  <2>5. lpB * rB <= b * S
    BY <1>2
  <2>6. fraction(lpB, rB + b, S + lpB) <= b
    BY <1>2, <2>5, FullSideFacts
  <2>7. fraction(lpB, rA + fraction(lpB, rA, S), S + lpB) <= fraction(lpB, rA, S)
    BY <1>2, ShareSideFacts
  <2> QED
    BY <1>2, <2>1, <2>3, <2>4, <2>6, <2>7 DEF getRemoveLiquidity
<1> QED
  BY <1>3, <1>4

-----------------------------------------------------------------------------
(* The pool.                                                               *)

IInv == TypeOK /\ NeverDrained

LEMMA InitInv == Init => IInv
  BY PoolAssumption DEF Init, IInv, TypeOK, NeverDrained

LEMMA StepInv == IInv /\ [Next]_vars => IInv'
<1> SUFFICES ASSUME IInv, [Next]_vars PROVE IInv'
  OBVIOUS
<1>0. /\ TypeOK /\ NeverDrained /\ feeBps \in Nat
      /\ MINIMUM_LIQUIDITY \in Nat /\ MINIMUM_LIQUIDITY > 0
  BY PoolAssumption DEF IInv, TypeOK
<1>1. ASSUME NEW a \in Amounts, NEW b \in Amounts, InitialLiquidity(a, b) PROVE IInv'
  <2>1. a \in Nat /\ b \in Nat /\ a > 0 /\ b > 0
    BY PoolAssumption DEF Amounts
  <2>2. isqrt(a * b) \in Nat /\ sqrtProduct(a, b) \in Nat
    <3>1. a * b \in Nat
      BY <2>1
    <3> QED
      BY <2>1, <3>1, IsqrtIsFloorRoot, SqrtProductIs
  <2>3. supply' \in Nat /\ supply' >= MINIMUM_LIQUIDITY
    BY <1>0, <1>1, <2>2 DEF InitialLiquidity
  <2> QED
    BY <1>0, <1>1, <2>1, <2>3 DEF InitialLiquidity, config, IInv, TypeOK, NeverDrained
<1>2. ASSUME NEW a \in Amounts, NEW b \in Amounts, AddLiquidity(a, b) PROVE IInv'
  <2>1. a \in Nat /\ b \in Nat
    BY PoolAssumption DEF Amounts
  <2>2. reserveA \in Nat /\ reserveB \in Nat /\ supply \in Nat
        /\ supply > 0 /\ reserveA > 0 /\ reserveB > 0
    BY <1>0, <1>2 DEF AddLiquidity, TypeOK, NeverDrained
  <2> DEFINE added == getAddLiquidity(a, b, reserveA, reserveB, supply)
  <2>3. added.lpMinted \in Nat /\ added.actualAmountA \in Nat /\ added.actualAmountB \in Nat
    BY <2>1, <2>2, AddFacts
  <2>4. /\ reserveA' = reserveA + added.actualAmountA
        /\ reserveB' = reserveB + added.actualAmountB
        /\ supply' = supply + added.lpMinted
        /\ feeBps' = feeBps /\ deployed' = deployed
    BY <1>2 DEF AddLiquidity, config
  <2> HIDE DEF added
  <2> QED
    BY <1>0, <2>2, <2>3, <2>4 DEF IInv, TypeOK, NeverDrained
<1>3. ASSUME NEW lp \in Held, RemoveLiquidity(lp) PROVE IInv'
  <2>1. /\ reserveA \in Nat /\ reserveB \in Nat /\ supply \in Nat /\ lp \in Nat
        /\ supply > 0 /\ lp <= supply /\ reserveA > 0 /\ reserveB > 0
        /\ supply - lp >= MINIMUM_LIQUIDITY
    BY <1>0, <1>3 DEF RemoveLiquidity, Held, TypeOK, NeverDrained
  <2> DEFINE outA == fraction(lp, reserveA, supply)
             outB == fraction(lp, reserveB, supply)
  <2>2. outA \in Nat /\ outA <= reserveA /\ reserveA * (supply - lp) <= supply * (reserveA - outA)
    BY <2>1, RemoveFacts
  <2>3. outB \in Nat /\ outB <= reserveB /\ reserveB * (supply - lp) <= supply * (reserveB - outB)
    BY <2>1, RemoveFacts
  <2>4. /\ reserveA' = reserveA - outA /\ reserveB' = reserveB - outB
        /\ supply' = supply - lp /\ feeBps' = feeBps /\ deployed' = deployed
    BY <1>3 DEF RemoveLiquidity, getRemoveLiquidity, config
  <2> HIDE DEF outA, outB
  <2>5. reserveA - outA # 0
    <3>1. reserveA * (supply - lp) > 0
      BY <1>0, <2>1
    <3> QED
      BY <3>1, <2>1, <2>2
  <2>6. reserveB - outB # 0
    <3>1. reserveB * (supply - lp) > 0
      BY <1>0, <2>1
    <3> QED
      BY <3>1, <2>1, <2>3
  <2> QED
    BY <1>0, <2>1, <2>2, <2>3, <2>4, <2>5, <2>6 DEF IInv, TypeOK, NeverDrained
<1>4. ASSUME NEW a \in Amounts, SwapAForB(a) PROVE IInv'
  <2>1. a \in Nat /\ a > 0
    BY PoolAssumption DEF Amounts
  <2>2. /\ reserveA \in Nat /\ reserveB \in Nat /\ supply \in Nat
        /\ supply > 0 /\ reserveA > 0 /\ reserveB > 0
        /\ 0 < feeBps /\ feeBps < BPS_DENOMINATOR
    BY <1>0, <1>4, PoolAssumption DEF SwapAForB, Swap, TypeOK, NeverDrained
  <2>3. AmountOut(a, reserveA, reserveB, feeBps) \in Nat
        /\ AmountOut(a, reserveA, reserveB, feeBps) < reserveB
    BY <1>0, <2>1, <2>2, SwapFacts
  <2> QED
    BY <1>0, <1>4, <2>1, <2>2, <2>3 DEF SwapAForB, IInv, TypeOK, NeverDrained
<1>5. ASSUME NEW a \in Amounts, SwapBForA(a) PROVE IInv'
  <2>1. a \in Nat /\ a > 0
    BY PoolAssumption DEF Amounts
  <2>2. /\ reserveA \in Nat /\ reserveB \in Nat /\ supply \in Nat
        /\ supply > 0 /\ reserveA > 0 /\ reserveB > 0
        /\ 0 < feeBps /\ feeBps < BPS_DENOMINATOR
    BY <1>0, <1>5, PoolAssumption DEF SwapBForA, Swap, TypeOK, NeverDrained
  <2>3. AmountOut(a, reserveB, reserveA, feeBps) \in Nat
        /\ AmountOut(a, reserveB, reserveA, feeBps) < reserveA
    BY <1>0, <2>1, <2>2, SwapFacts
  <2> QED
    BY <1>0, <1>5, <2>1, <2>2, <2>3 DEF SwapBForA, IInv, TypeOK, NeverDrained
<1>6. CASE UNCHANGED vars
  BY <1>0, <1>6 DEF vars, IInv, TypeOK, NeverDrained
<1> QED
  BY <1>1, <1>2, <1>3, <1>4, <1>5, <1>6 DEF Next

(* The reserves and the supply stay numbers.                               *)
THEOREM TypeCorrect == Spec => []TypeOK
<1>1. IInv => TypeOK
  BY DEF IInv
<1> QED
  BY InitInv, StepInv, <1>1, PTL DEF Spec

(* No sequence of deposits, removals and swaps drains the pool.            *)
THEOREM PoolNeverDrained == Spec => []NeverDrained
<1>1. IInv => NeverDrained
  BY DEF IInv
<1> QED
  BY InitInv, StepInv, <1>1, PTL DEF Spec

(* In no state of the pool does a deposit that is withdrawn again return   *)
(* more of a token than was paid.                                          *)
THEOREM DepositsAreNotProfitable == Spec => []NoFreeValue
<1>1. IInv => NoFreeValue
  <2> SUFFICES ASSUME IInv, supply # 0, NEW a \in Amounts, NEW b \in Amounts
               PROVE  RoundTrip(a, b)
    BY DEF NoFreeValue
  <2>1. a \in Nat /\ b \in Nat
    BY PoolAssumption DEF Amounts
  <2>2. /\ reserveA \in Nat /\ reserveB \in Nat /\ supply \in Nat
        /\ reserveA > 0 /\ reserveB > 0 /\ supply > 0
    BY DEF IInv, TypeOK, NeverDrained
  <2> QED
    BY <2>1, <2>2, AddFacts DEF RoundTrip
<1> QED
  BY InitInv, StepInv, <1>1, PTL DEF Spec

(* Swaps and removals never lower what one LP stands for.                  *)
THEOREM SwapsAndRemovalsFavorPool == Spec => RoundsForPool
<1> DEFINE Favors ==
      supply # 0 /\ supply' <= supply
        => NotLess(reserveA, reserveB, supply, reserveA', reserveB', supply')
<1>1. IInv /\ [Next]_vars => [Favors]_vars
  <2> SUFFICES ASSUME IInv, Next, supply # 0, supply' <= supply
               PROVE  NotLess(reserveA, reserveB, supply, reserveA', reserveB', supply')
    OBVIOUS
  <2>0. /\ reserveA \in Nat /\ reserveB \in Nat /\ supply \in Nat /\ feeBps \in Nat
        /\ reserveA > 0 /\ reserveB > 0 /\ supply > 0
        /\ MINIMUM_LIQUIDITY \in Nat /\ MINIMUM_LIQUIDITY > 0
    BY PoolAssumption DEF IInv, TypeOK, NeverDrained
  <2>1. ASSUME NEW a \in Amounts, NEW b \in Amounts, InitialLiquidity(a, b) PROVE FALSE
    BY <2>1 DEF InitialLiquidity
  <2>2. ASSUME NEW a \in Amounts, NEW b \in Amounts, AddLiquidity(a, b) PROVE FALSE
    <3>1. a \in Nat /\ b \in Nat
      BY PoolAssumption DEF Amounts
    <3> DEFINE lp == getAddLiquidity(a, b, reserveA, reserveB, supply).lpMinted
    <3>2. lp \in Nat
      BY <2>0, <3>1, AddFacts
    <3>3. lp > 0 /\ supply' = supply + lp
      BY <2>2 DEF AddLiquidity
    <3> QED
      BY <2>0, <3>2, <3>3
  <2>3. ASSUME NEW lp \in Held, RemoveLiquidity(lp)
        PROVE  NotLess(reserveA, reserveB, supply, reserveA', reserveB', supply')
    <3> DEFINE outA == fraction(lp, reserveA, supply)
               outB == fraction(lp, reserveB, supply)
    <3>1. lp \in Nat /\ lp <= supply
      BY <2>0 DEF Held
    <3>2. outA \in Nat /\ outA <= reserveA /\ reserveA * (supply - lp) <= supply * (reserveA - outA)
      BY <2>0, <3>1, RemoveFacts
    <3>3. outB \in Nat /\ outB <= reserveB /\ reserveB * (supply - lp) <= supply * (reserveB - outB)
      BY <2>0, <3>1, RemoveFacts
    <3>4. reserveA' = reserveA - outA /\ reserveB' = reserveB - outB /\ supply' = supply - lp
      BY <2>3 DEF RemoveLiquidity, getRemoveLiquidity
    <3> HIDE DEF outA, outB
    <3>5. reserveA' \in Nat /\ reserveB' \in Nat /\ supply' \in Nat
      BY <2>0, <3>1, <3>2, <3>3, <3>4
    <3> QED
      BY <2>0, <3>2, <3>3, <3>4, <3>5, SharesMultiply
  <2>4. ASSUME NEW a \in Amounts, SwapAForB(a)
        PROVE  NotLess(reserveA, reserveB, supply, reserveA', reserveB', supply')
    <3> DEFINE out == AmountOut(a, reserveA, reserveB, feeBps)
    <3>1. a \in Nat /\ a > 0 /\ 0 < feeBps /\ feeBps < BPS_DENOMINATOR
      BY <2>0, <2>4, PoolAssumption DEF SwapAForB, Swap, Amounts
    <3>2. out \in Nat /\ out < reserveB
          /\ reserveA * reserveB <= (reserveA + a) * (reserveB - out)
      BY <2>0, <3>1, SwapFacts
    <3>3. reserveA' = reserveA + a /\ reserveB' = reserveB - out /\ supply' = supply
      BY <2>4 DEF SwapAForB
    <3> HIDE DEF out
    <3>4. reserveA' * reserveB' \in Nat /\ supply * supply \in Nat
      BY <2>0, <3>1, <3>2, <3>3
    <3>5. (reserveA * reserveB) * (supply * supply) <= (reserveA' * reserveB') * (supply * supply)
      BY <2>0, <3>2, <3>3, <3>4, TimesMonotonic
    <3> QED
      BY <2>0, <3>3, <3>4, <3>5 DEF NotLess
  <2>5. ASSUME NEW a \in Amounts, SwapBForA(a)
        PROVE  NotLess(reserveA, reserveB, supply, reserveA', reserveB', supply')
    <3> DEFINE out == AmountOut(a, reserveB, reserveA, feeBps)
    <3>1. a \in Nat /\ a > 0 /\ 0 < feeBps /\ feeBps < BPS_DENOMINATOR
      BY <2>0, <2>5, PoolAssumption DEF SwapBForA, Swap, Amounts
    <3>2. out \in Nat /\ out < reserveA
          /\ reserveB * reserveA <= (reserveB + a) * (reserveA - out)
      BY <2>0, <3>1, SwapFacts
    <3>3. reserveB' = reserveB + a /\ reserveA' = reserveA - out /\ supply' = supply
      BY <2>5 DEF SwapBForA
    <3> HIDE DEF out
    <3>4. reserveA' * reserveB' \in Nat /\ supply * supply \in Nat
          /\ reserveA * reserveB <= reserveA' * reserveB'
      BY <2>0, <3>1, <3>2, <3>3
    <3>5. (reserveA * reserveB) * (supply * supply) <= (reserveA' * reserveB') * (supply * supply)
      BY <2>0, <3>4, TimesMonotonic
    <3> QED
      BY <2>0, <3>3, <3>4, <3>5 DEF NotLess
  <2> QED
    BY <2>1, <2>2, <2>3, <2>4, <2>5 DEF Next
<1> QED
  BY InitInv, StepInv, <1>1, PTL DEF Spec, RoundsForPool

=============================================================================
