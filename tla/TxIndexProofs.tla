---------------------------- MODULE TxIndexProofs ----------------------------
(***************************************************************************)
(* Proofs about TxIndex, for any blocks, batches, transactions and any     *)
(* multiplier: uids follow the chain, and a transaction is stored exactly  *)
(* as long as its block.                                                   *)
(*                                                                         *)
(* What has to be known of the generator is that the next uid it gives is  *)
(* above all uids its process gave, because it never goes back (Numbered), *)
(* and above those that an older process gave at their own heights,        *)
(* because what a process writes is above the heights of what it found.    *)
(* That transactions live as long as their blocks needs neither (Base).    *)
(***************************************************************************)
EXTENDS TxIndex, TableProofs, SequenceTheorems, FiniteSetTheorems

\* The block rows are one chain, and the next key block goes above it.
Chain ==
  /\ InChainOrder(blocks)
  /\ \A b \in blocks : b.uid < blockSeq /\ b.height < cursor
  /\ blocks # {} => \E b \in blocks : b.height = cursor - 1
  /\ process <= since /\ since <= blockSeq

\* A squash moves transactions to older blocks only.
InTime == \A t \in txs : t.born < blockSeq /\ t.block <= t.born

\* A process writes to the blocks it stored.
Written ==
  \A t \in txs : /\ t.by <= t.born /\ t.by <= process
                 /\ t.by # process => t.born < process

\* The subscription delivered the last key block.
Delivered == Keys(blocks) # {} /\ KeyUid(blocks) >= since

Room == gen.last <= Multiplier

\* The next uid is above all that this process gave.
Numbered == \A t \in txs : t.by = process => t.uid < NextUid(gen)

Base == TypeOK /\ Chain /\ InTime /\ Written /\ Room /\ TxsOfStoredBlocks
Ascending == Numbered /\ UidsFollowChain

-----------------------------------------------------------------------------
(* The generator.                                                          *)

(* The uids of a height end where those of the next begin.                 *)
LEMMA TimesAbove ==
  ASSUME NEW a \in Nat, NEW b \in Nat, NEW m \in Nat, a < b
  PROVE  a * m + m <= b * m /\ a * m \in Nat /\ b * m \in Nat
<1>1. PICK d \in Nat : b = a + 1 + d
  <2>1. b - a - 1 \in Nat /\ b = a + 1 + (b - a - 1)
    OBVIOUS
  <2> QED
    BY <2>1
<1>2. b * m = a * m + m + d * m
  BY <1>1
<1>3. d * m \in Nat /\ a * m \in Nat
  OBVIOUS
<1> QED
  BY <1>2, <1>3

GenType == [height : Nat, last : Nat]

LEMMA AtHeightFacts ==
  ASSUME NEW g \in GenType, NEW h \in Nat, g.last <= Multiplier, TxAssumption
  PROVE  /\ AtHeight(g, h) \in GenType
         /\ AtHeight(g, h).height = IF g.height < h THEN h ELSE g.height
         /\ AtHeight(g, h).last = IF g.height < h THEN 0 ELSE g.last
         /\ AtHeight(g, h).last <= Multiplier
         /\ NextUid(g) \in Nat /\ NextUid(AtHeight(g, h)) \in Nat
         /\ NextUid(g) <= NextUid(AtHeight(g, h))
<1>1. Multiplier \in Nat
  BY DEF TxAssumption
<1>2. /\ AtHeight(g, h) \in GenType
      /\ AtHeight(g, h).height = IF g.height < h THEN h ELSE g.height
      /\ AtHeight(g, h).last = IF g.height < h THEN 0 ELSE g.last
      /\ AtHeight(g, h).last <= Multiplier
  BY <1>1 DEF AtHeight, GenType
<1>3. \A f \in GenType : NextUid(f) \in Nat
  <2> TAKE f \in GenType
  <2>1. f.height \in Nat /\ f.last \in Nat
    BY DEF GenType
  <2>2. f.height * Multiplier \in Nat
    BY <1>1, <2>1
  <2> QED
    BY <2>1, <2>2 DEF NextUid
<1>4. CASE g.height < h
  <2>1. g.height \in Nat /\ g.last \in Nat
    BY DEF GenType
  <2>2. g.height * Multiplier + Multiplier <= h * Multiplier
        /\ g.height * Multiplier \in Nat /\ h * Multiplier \in Nat
    BY <1>1, <1>4, <2>1, TimesAbove
  <2>3. NextUid(AtHeight(g, h)) = h * Multiplier
    BY <1>2, <1>4, <2>2 DEF NextUid
  <2> QED
    BY <1>1, <1>2, <1>3, <2>1, <2>2, <2>3 DEF NextUid
<1>5. CASE ~ g.height < h
  BY <1>2, <1>3, <1>5 DEF AtHeight
<1> QED
  BY <1>2, <1>4, <1>5

-----------------------------------------------------------------------------
(* A batch whose heights do not fall, and what its loads say.              *)
TxBatch(bs, loads) ==
  /\ Batch(bs, Ids) /\ Len(bs) >= 1
  /\ loads \in [DOMAIN bs -> Loads]
  /\ \A i, j \in DOMAIN bs : i < j => bs[i].height <= bs[j].height
  /\ \A i \in DOMAIN bs : Ended(bs, loads, i).last <= Multiplier

LEMMA PlacesFinite ==
  ASSUME NEW bs, NEW loads, TxBatch(bs, loads), TxAssumption
  PROVE  /\ IsFiniteSet(Places(loads))
         /\ \A p \in Places(loads) : p[1] \in DOMAIN bs /\ p[1] \in Nat /\ p[2] \in Nat
         /\ \A p, q \in Places(loads) : p[1] = q[1] /\ p[2] = q[2] => p = q
<1>1. Len(bs) \in Nat /\ DOMAIN bs = 1..Len(bs) /\ MaxTxs \in Nat /\ DOMAIN loads = DOMAIN bs
  BY DEF TxBatch, Batch, TxAssumption
<1>2. \A i \in DOMAIN bs : DOMAIN loads[i] \subseteq 1..MaxTxs
  BY <1>1 DEF TxBatch, Loads
<1>3. Places(loads) \in SUBSET ((1..Len(bs)) \X (1..MaxTxs))
  BY <1>1, <1>2 DEF Places
<1>4. IsFiniteSet((1..Len(bs)) \X (1..MaxTxs))
  <2>1. /\ 1 \in Int /\ Len(bs) \in Int /\ MaxTxs \in Int
    BY <1>1
  <2>2. IsFiniteSet(1..Len(bs)) /\ IsFiniteSet(1..MaxTxs)
    BY <2>1, FS_Interval
  <2> QED
    BY <2>2, FS_Product
<1>5. IsFiniteSet(Places(loads))
  BY <1>3, <1>4, FS_Subset
<1>6. \A p \in Places(loads) : p \in (1..Len(bs)) \X (1..MaxTxs)
  BY <1>3
<1> QED
  BY <1>1, <1>5, <1>6

Earlier(bs, loads, p) == {q \in AtSameHeight(bs, loads, p[1]) : Precedes(q, p)}

LEMMA EarlierFinite ==
  ASSUME NEW bs, NEW loads, TxBatch(bs, loads), TxAssumption
  PROVE  /\ \A i : /\ IsFiniteSet(AtSameHeight(bs, loads, i))
                   /\ Cardinality(AtSameHeight(bs, loads, i)) \in Nat
         /\ \A p : /\ IsFiniteSet(Earlier(bs, loads, p))
                   /\ Cardinality(Earlier(bs, loads, p)) \in Nat
<1>1. \A i : AtSameHeight(bs, loads, i) \in SUBSET Places(loads)
  BY DEF AtSameHeight
<1>2. \A p : Earlier(bs, loads, p) \in SUBSET Places(loads)
  BY DEF AtSameHeight, Earlier
<1>3. \A S \in SUBSET Places(loads) : IsFiniteSet(S) /\ Cardinality(S) \in Nat
  BY PlacesFinite, FS_Subset, FS_CardinalityType
<1> QED
  BY <1>1, <1>2, <1>3

(* Of two sets of places, one strictly in the other.                       *)
LEMMA FewerPlaces ==
  ASSUME NEW S, NEW T, IsFiniteSet(S), T \subseteq S, NEW x \in S, x \notin T
  PROVE  Cardinality(T) < Cardinality(S)
<1>1. T \in SUBSET S
  OBVIOUS
<1>2. /\ IsFiniteSet(T) /\ Cardinality(T) <= Cardinality(S)
      /\ Cardinality(S) = Cardinality(T) => S = T
  BY <1>1, FS_Subset
<1>3. Cardinality(T) \in Nat /\ Cardinality(S) \in Nat
  BY <1>2, FS_CardinalityType
<1> QED
  BY <1>2, <1>3

(* Heights of the generator along a batch.                                 *)
LEMMA BegunFacts ==
  ASSUME NEW bs, NEW loads, TxBatch(bs, loads), gen \in GenType, Room, TxAssumption
  PROVE  /\ \A i \in DOMAIN bs :
              /\ Begun(bs, i) \in GenType
              /\ Begun(bs, i).height = IF gen.height < bs[i].height THEN bs[i].height ELSE gen.height
              /\ NextUid(gen) <= NextUid(Begun(bs, i)) /\ NextUid(Begun(bs, i)) \in Nat
              /\ NextUid(gen) \in Nat
              /\ Begun(bs, i).last <= Multiplier
         /\ \A i, j \in DOMAIN bs :
              /\ i < j => Begun(bs, i).height <= Begun(bs, j).height
              /\ Begun(bs, i).height = Begun(bs, j).height => Begun(bs, i) = Begun(bs, j)
<1>1. \A i \in DOMAIN bs : bs[i].height \in Nat
  BY DEF TxBatch, Batch
<1>2. ASSUME NEW i \in DOMAIN bs
      PROVE  /\ Begun(bs, i) \in GenType
             /\ Begun(bs, i).height = IF gen.height < bs[i].height THEN bs[i].height ELSE gen.height
             /\ Begun(bs, i).last = IF gen.height < bs[i].height THEN 0 ELSE gen.last
             /\ NextUid(gen) <= NextUid(Begun(bs, i)) /\ NextUid(Begun(bs, i)) \in Nat
             /\ NextUid(gen) \in Nat
             /\ Begun(bs, i).last <= Multiplier
  BY <1>1, AtHeightFacts DEF Begun, Room
<1>3. ASSUME NEW i \in DOMAIN bs, NEW j \in DOMAIN bs
      PROVE  /\ i < j => Begun(bs, i).height <= Begun(bs, j).height
             /\ Begun(bs, i).height = Begun(bs, j).height => Begun(bs, i) = Begun(bs, j)
  <2>1. gen.height \in Nat /\ bs[i].height \in Nat /\ bs[j].height \in Nat
    BY <1>1 DEF GenType
  <2>2. i < j => bs[i].height <= bs[j].height
    BY DEF TxBatch
  <2>3. i < j => Begun(bs, i).height <= Begun(bs, j).height
    BY <1>2, <2>1, <2>2
  <2>4. ASSUME Begun(bs, i).height = Begun(bs, j).height PROVE Begun(bs, i) = Begun(bs, j)
    <3>1. Begun(bs, i).last = Begun(bs, j).last
      BY <1>2, <2>1, <2>4
    <3> QED
      BY <1>2, <2>4, <3>1 DEF GenType
  <2> QED
    BY <2>3, <2>4
<1> QED
  BY <1>2, <1>3

LEMMA EndedFields ==
  ASSUME NEW bs, NEW loads, TxBatch(bs, loads), TxAssumption,
         NEW i \in DOMAIN bs, Begun(bs, i) \in GenType
  PROVE  /\ Ended(bs, loads, i) \in GenType
         /\ Ended(bs, loads, i).height = Begun(bs, i).height
         /\ Ended(bs, loads, i).last
              = Begun(bs, i).last + Cardinality(AtSameHeight(bs, loads, i))
<1> DEFINE g == Begun(bs, i)
           n == Cardinality(AtSameHeight(bs, loads, i))
<1>1. n \in Nat
  BY EarlierFinite
<1>2. Ended(bs, loads, i) = [g EXCEPT !.last = @ + n]
  BY DEF Ended
<1>3. g \in GenType
  OBVIOUS
<1> HIDE DEF g, n
<1>4. g.height \in Nat /\ g.last \in Nat /\ g.last + n \in Nat
      /\ g = [height |-> g.height, last |-> g.last]
  BY <1>1, <1>3 DEF GenType
<1>5. [g EXCEPT !.last = @ + n] = [height |-> g.height, last |-> g.last + n]
  BY <1>3 DEF GenType
<1>6. Ended(bs, loads, i) = [height |-> g.height, last |-> g.last + n]
  BY <1>2, <1>5
<1>7. Ended(bs, loads, i) \in GenType /\ Ended(bs, loads, i).height = g.height
      /\ Ended(bs, loads, i).last = g.last + n
  BY <1>4, <1>6 DEF GenType
<1> QED
  BY <1>7 DEF g, n

\* The uids of an append lie between what the generator begins and ends with.
LEMMA UidBounds ==
  ASSUME NEW bs, NEW loads, TxBatch(bs, loads), gen \in GenType, Room, TxAssumption,
         NEW p \in Places(loads)
  PROVE  /\ UidOf(bs, loads, p) \in Nat
         /\ NextUid(Begun(bs, p[1])) <= UidOf(bs, loads, p)
         /\ UidOf(bs, loads, p) < NextUid(Ended(bs, loads, p[1]))
         /\ UidOf(bs, loads, p) < Begun(bs, p[1]).height * Multiplier + Multiplier
<1> DEFINE i == p[1]
           g == Begun(bs, i)
           S == AtSameHeight(bs, loads, i)
           E == Earlier(bs, loads, p)
<1>1. i \in DOMAIN bs /\ i \in Nat /\ p[2] \in Nat
  BY PlacesFinite
<1>2. g \in GenType /\ NextUid(g) \in Nat
  BY <1>1, BegunFacts
<1>3. g.height \in Nat /\ g.last \in Nat /\ Multiplier \in Nat
  BY <1>2 DEF GenType, TxAssumption
<1>4. Cardinality(E) < Cardinality(S) /\ Cardinality(E) \in Nat /\ Cardinality(S) \in Nat
  <2>1. p \in S /\ p \notin E /\ E \subseteq S
    BY <1>1 DEF AtSameHeight, Earlier, Precedes
  <2>2. IsFiniteSet(S)
    BY EarlierFinite
  <2> HIDE DEF S, E
  <2>3. Cardinality(E) < Cardinality(S)
    BY <2>1, <2>2, FewerPlaces
  <2> QED
    BY <2>3, EarlierFinite DEF S, E
<1>5. UidOf(bs, loads, p) = NextUid(g) + Cardinality(E)
  BY DEF UidOf, Earlier
<1>6. /\ Ended(bs, loads, i).height = g.height
      /\ Ended(bs, loads, i).last = g.last + Cardinality(S)
      /\ Ended(bs, loads, i).last <= Multiplier
  BY <1>1, <1>2, EndedFields DEF TxBatch
<1> HIDE DEF g, S, E, i
<1>7. g.height * Multiplier \in Nat
  BY <1>3
<1>8. NextUid(g) = g.height * Multiplier + g.last
      /\ NextUid(Ended(bs, loads, i)) = g.height * Multiplier + (g.last + Cardinality(S))
  BY <1>6 DEF NextUid
<1> QED
  BY <1>2, <1>3, <1>4, <1>5, <1>6, <1>7, <1>8 DEF g, i

\* The uids of a batch are in the order of its transactions.
LEMMA UidsInOrder ==
  ASSUME NEW bs, NEW loads, TxBatch(bs, loads), gen \in GenType, Room, TxAssumption,
         NEW p \in Places(loads), NEW q \in Places(loads), Precedes(p, q)
  PROVE  UidOf(bs, loads, p) < UidOf(bs, loads, q)
<1>1. /\ p[1] \in DOMAIN bs /\ p[1] \in Nat /\ p[2] \in Nat
      /\ q[1] \in DOMAIN bs /\ q[1] \in Nat /\ q[2] \in Nat
  BY PlacesFinite
<1>2. CASE Begun(bs, p[1]).height = Begun(bs, q[1]).height
  <2>1. Begun(bs, p[1]) = Begun(bs, q[1])
    BY <1>1, <1>2, BegunFacts
  <2>2. AtSameHeight(bs, loads, p[1]) = AtSameHeight(bs, loads, q[1])
    BY <1>2 DEF AtSameHeight
  <2> DEFINE E == Earlier(bs, loads, p)
             F == Earlier(bs, loads, q)
  <2>3. E \subseteq F
    <3> SUFFICES ASSUME NEW x \in E PROVE x \in F
      OBVIOUS
    <3>1. x \in Places(loads) /\ x \in AtSameHeight(bs, loads, q[1]) /\ Precedes(x, p)
      BY <2>2 DEF Earlier, AtSameHeight
    <3>2. x[1] \in Nat /\ x[2] \in Nat
      BY <3>1, PlacesFinite
    <3>3. Precedes(x, q)
      BY <1>1, <3>1, <3>2 DEF Precedes
    <3> QED
      BY <3>1, <3>3 DEF Earlier
  <2>4. p \in F /\ p \notin E
    BY <1>1, <2>2 DEF Earlier, AtSameHeight, Precedes
  <2>5. IsFiniteSet(F) /\ Cardinality(E) \in Nat /\ Cardinality(F) \in Nat
    BY EarlierFinite
  <2>6. /\ UidOf(bs, loads, p) = NextUid(Begun(bs, q[1])) + Cardinality(E)
        /\ UidOf(bs, loads, q) = NextUid(Begun(bs, q[1])) + Cardinality(F)
    BY <2>1 DEF UidOf, Earlier
  <2> HIDE DEF E, F
  <2>7. Cardinality(E) < Cardinality(F)
    BY <2>3, <2>4, <2>5, FewerPlaces
  <2>8. NextUid(Begun(bs, q[1])) \in Nat
    BY <1>1, BegunFacts
  <2> QED
    BY <2>5, <2>6, <2>7, <2>8
<1>3. CASE Begun(bs, p[1]).height # Begun(bs, q[1]).height
  <2>1. p[1] < q[1]
    BY <1>3 DEF Precedes
  <2>2. /\ Begun(bs, p[1]).height <= Begun(bs, q[1]).height
        /\ Begun(bs, p[1]) \in GenType /\ Begun(bs, q[1]) \in GenType
    BY <1>1, <2>1, BegunFacts
  <2> DEFINE a == Begun(bs, p[1]).height
             b == Begun(bs, q[1]).height
  <2>3. a \in Nat /\ b \in Nat /\ a < b /\ Begun(bs, q[1]).last \in Nat
    BY <1>3, <2>2 DEF GenType
  <2>4. Multiplier \in Nat
    BY DEF TxAssumption
  <2>5. NextUid(Begun(bs, q[1])) = b * Multiplier + Begun(bs, q[1]).last
    BY DEF NextUid
  <2>6. /\ UidOf(bs, loads, p) < a * Multiplier + Multiplier
        /\ NextUid(Begun(bs, q[1])) <= UidOf(bs, loads, q)
        /\ UidOf(bs, loads, p) \in Nat /\ UidOf(bs, loads, q) \in Nat
    BY UidBounds
  <2> HIDE DEF a, b
  <2>7. a * Multiplier + Multiplier <= b * Multiplier
        /\ a * Multiplier \in Nat /\ b * Multiplier \in Nat
    BY <2>3, <2>4, TimesAbove
  <2> QED
    BY <2>3, <2>4, <2>5, <2>6, <2>7
<1> QED
  BY <1>2, <1>3

\* What the batch ends with is above all its uids.
LEMMA EndedFacts ==
  ASSUME NEW bs, NEW loads, TxBatch(bs, loads), gen \in GenType, Room, TxAssumption
  PROVE  /\ Ended(bs, loads, Len(bs)) \in GenType
         /\ Ended(bs, loads, Len(bs)).last <= Multiplier
         /\ Ended(bs, loads, Len(bs)).height = Begun(bs, Len(bs)).height
         /\ NextUid(Begun(bs, Len(bs))) <= NextUid(Ended(bs, loads, Len(bs)))
         /\ NextUid(gen) <= NextUid(Ended(bs, loads, Len(bs)))
         /\ NextUid(Ended(bs, loads, Len(bs))) \in Nat
         /\ \A p \in Places(loads) : UidOf(bs, loads, p) < NextUid(Ended(bs, loads, Len(bs)))
<1> DEFINE n == Len(bs)
           last == Ended(bs, loads, n)
           g == Begun(bs, n)
           S == AtSameHeight(bs, loads, n)
<1>1. n \in Nat /\ n \in DOMAIN bs /\ DOMAIN bs = 1..n
  BY DEF TxBatch, Batch
<1>2. g \in GenType /\ NextUid(gen) <= NextUid(g) /\ NextUid(g) \in Nat /\ NextUid(gen) \in Nat
  BY <1>1, BegunFacts
<1>3. Cardinality(S) \in Nat /\ Multiplier \in Nat
  BY EarlierFinite DEF TxAssumption
<1>4. last \in GenType /\ last.height = g.height /\ last.last = g.last + Cardinality(S)
      /\ last.last <= Multiplier
  BY <1>1, <1>2, EndedFields DEF TxBatch
<1>5. g.height \in Nat /\ g.last \in Nat
  BY <1>2 DEF GenType
<1>6. NextUid(last) = g.height * Multiplier + (g.last + Cardinality(S))
      /\ NextUid(g) = g.height * Multiplier + g.last
  BY <1>4 DEF NextUid
<1>7. g.height * Multiplier \in Nat
  BY <1>3, <1>5
<1>8. ASSUME NEW p \in Places(loads) PROVE UidOf(bs, loads, p) < NextUid(last)
  <2>1. p[1] \in DOMAIN bs /\ p[1] \in Nat
    BY PlacesFinite
  <2>2. /\ UidOf(bs, loads, p) < NextUid(Ended(bs, loads, p[1]))
        /\ UidOf(bs, loads, p) < Begun(bs, p[1]).height * Multiplier + Multiplier
        /\ UidOf(bs, loads, p) \in Nat
    BY UidBounds
  <2>3. CASE Begun(bs, p[1]).height = g.height
    <3>1. Begun(bs, p[1]) = g
      BY <1>1, <2>1, <2>3, BegunFacts
    <3>2. AtSameHeight(bs, loads, p[1]) = S
      BY <2>3 DEF AtSameHeight
    <3>3. Ended(bs, loads, p[1]) = last
      BY <3>1, <3>2 DEF Ended
    <3> QED
      BY <2>2, <3>3
  <2>4. CASE Begun(bs, p[1]).height # g.height
    <3> DEFINE a == Begun(bs, p[1]).height
               b == g.height
    <3>1. p[1] < n
      BY <1>1, <2>1, <2>4
    <3>2. a <= b /\ a \in Nat
      BY <1>1, <2>1, <3>1, BegunFacts DEF GenType
    <3>3. a < b
      BY <1>5, <2>4, <3>2
    <3>4. UidOf(bs, loads, p) < a * Multiplier + Multiplier
      BY <2>2
    <3>5. NextUid(last) = b * Multiplier + (g.last + Cardinality(S))
      BY <1>6
    <3>6. b \in Nat
      BY <1>5
    <3> HIDE DEF a, b
    <3>7. a * Multiplier + Multiplier <= b * Multiplier
          /\ a * Multiplier \in Nat /\ b * Multiplier \in Nat
      BY <1>3, <3>2, <3>3, <3>6, TimesAbove
    <3> HIDE DEF last, g, S
    <3> QED
      BY <1>3, <1>5, <2>2, <3>4, <3>5, <3>7
  <2> QED
    BY <2>3, <2>4
<1>9. /\ NextUid(gen) <= NextUid(last) /\ NextUid(last) \in Nat
      /\ NextUid(g) <= NextUid(last)
  <2> HIDE DEF g, S, last
  <2> QED
    BY <1>2, <1>3, <1>5, <1>6, <1>7
<1> QED
  BY <1>4, <1>8, <1>9
-----------------------------------------------------------------------------
(* The rows a batch adds.                                                  *)

\* A generator that is later in the batch gives greater uids.
LEMMA BegunInOrder ==
  ASSUME NEW bs, NEW loads, TxBatch(bs, loads), gen \in GenType, Room, TxAssumption,
         NEW i \in DOMAIN bs, NEW j \in DOMAIN bs, i <= j
  PROVE  NextUid(Begun(bs, i)) <= NextUid(Begun(bs, j))
<1> DEFINE g == Begun(bs, i)
           f == Begun(bs, j)
<1>1. /\ g \in GenType /\ f \in GenType /\ g.last <= Multiplier
      /\ NextUid(g) \in Nat /\ NextUid(f) \in Nat
  BY BegunFacts
<1>2. g.height <= f.height /\ (g.height = f.height => g = f)
  <2>1. i \in Nat /\ j \in Nat
    BY DEF TxBatch, Batch
  <2>2. i < j \/ i = j
    BY <2>1
  <2>3. g.height \in Nat
    BY <1>1 DEF GenType
  <2> QED
    BY <2>2, <2>3, BegunFacts
<1> HIDE DEF g, f
<1>3. g.height \in Nat /\ f.height \in Nat /\ g.last \in Nat /\ f.last \in Nat /\ Multiplier \in Nat
  BY <1>1 DEF GenType, TxAssumption
<1>4. CASE g.height = f.height
  <2>1. NextUid(g) = NextUid(f)
    BY <1>2, <1>4
  <2> QED
    BY <1>1, <2>1 DEF g, f
<1>5. CASE g.height # f.height
  <2>1. g.height < f.height
    BY <1>2, <1>3, <1>5
  <2>2. /\ g.height * Multiplier + Multiplier <= f.height * Multiplier
        /\ g.height * Multiplier \in Nat /\ f.height * Multiplier \in Nat
    BY <1>3, <2>1, TimesAbove
  <2>3. NextUid(g) <= NextUid(f)
    BY <1>1, <1>3, <2>2 DEF NextUid
  <2> QED
    BY <2>3 DEF g, f
<1> QED
  BY <1>4, <1>5

TxOf(bs, loads, p) ==
  [uid |-> UidOf(bs, loads, p), block |-> blockSeq + p[1] - 1,
   height |-> bs[p[1]].height, born |-> blockSeq + p[1] - 1, nth |-> p[2], by |-> process]

LEMMA TxOfFields ==
  ASSUME NEW bs, NEW loads, TxBatch(bs, loads), gen \in GenType, Room, TxAssumption,
         blockSeq \in Nat, process \in Nat, NEW p \in Places(loads)
  PROVE  LET t == TxOf(bs, loads, p)
         IN  /\ t \in TxRows
             /\ t.uid = UidOf(bs, loads, p) /\ t.nth = p[2] /\ t.height = bs[p[1]].height
             /\ t.born = blockSeq + p[1] - 1 /\ t.block = t.born /\ t.by = process
             /\ blockSeq <= t.born /\ t.born < blockSeq + Len(bs)
<1>1. p[1] \in DOMAIN bs /\ p[1] \in Nat /\ p[2] \in Nat
  BY PlacesFinite
<1>2. 1 <= p[1] /\ p[1] <= Len(bs) /\ Len(bs) \in Nat /\ bs[p[1]].height \in Nat
  <2>1. Batch(bs, Ids)
    BY DEF TxBatch
  <2>2. Len(bs) \in Nat /\ p[1] \in 1..Len(bs) /\ bs[p[1]].height \in Nat
    BY <1>1, <2>1 DEF Batch
  <2> QED
    BY <2>2
<1>3. UidOf(bs, loads, p) \in Nat
  BY UidBounds
<1>4. blockSeq + p[1] - 1 \in Nat /\ blockSeq <= blockSeq + p[1] - 1
      /\ blockSeq + p[1] - 1 < blockSeq + Len(bs)
  <2>1. \A i, n \in Nat : 1 <= i /\ i <= n =>
          /\ blockSeq + i - 1 \in Nat /\ blockSeq <= blockSeq + i - 1
          /\ blockSeq + i - 1 < blockSeq + n
    OBVIOUS
  <2> QED
    BY <1>1, <1>2, <2>1
<1>5. LET t == TxOf(bs, loads, p)
      IN  /\ t.uid = UidOf(bs, loads, p) /\ t.nth = p[2] /\ t.height = bs[p[1]].height
          /\ t.born = blockSeq + p[1] - 1 /\ t.block = t.born /\ t.by = process
  BY DEF TxOf
<1>6. TxOf(bs, loads, p) \in TxRows
  BY <1>1, <1>2, <1>3, <1>4 DEF TxOf, TxRows
<1> QED
  BY <1>4, <1>5, <1>6

LEMMA NewTxsRows ==
  ASSUME NEW bs, NEW loads, TxBatch(bs, loads), TxAssumption, blockSeq \in Nat,
         NEW blocks0 \in SUBSET BlockRows(Ids), NewIds(blocks0, bs),
         NEW t \in NewTxs(bs, loads, Upsert(blocks0, bs, blockSeq))
  PROVE  \E p \in Places(loads) : t = TxOf(bs, loads, p)
<1> DEFINE rows == Upsert(blocks0, bs, blockSeq)
<1>1. PICK p \in Places(loads) :
         t = [uid |-> UidOf(bs, loads, p), block |-> RowOf(rows, bs[p[1]].id).uid,
              height |-> bs[p[1]].height, born |-> RowOf(rows, bs[p[1]].id).uid,
              nth |-> p[2], by |-> process]
  BY DEF NewTxs
<1>2. p[1] \in DOMAIN bs
  BY PlacesFinite
<1>3. Batch(bs, Ids)
  BY DEF TxBatch
<1>4. RowOf(rows, bs[p[1]].id) = Appended(bs, blockSeq, p[1])
  BY <1>2, <1>3, AppendedUid
<1>5. RowOf(rows, bs[p[1]].id).uid = blockSeq + p[1] - 1
  BY <1>4 DEF Appended
<1> QED
  BY <1>1, <1>5 DEF TxOf

\* UidsFollowChain, of any rows.
InOrder(t, u) ==
  Before(t, u) => /\ t.block <= u.block
                  /\ t.by = u.by \/ NumberedAtHeight(t) => t.uid < u.uid

InUidOrder(rows) == \A t, u \in rows : InOrder(t, u)

\* The rows of a batch, after those that were there.
LEMMA BatchRows ==
  ASSUME NEW bs, NEW loads, TxBatch(bs, loads), gen \in GenType, Room, TxAssumption,
         blockSeq \in Nat, process \in Nat, process <= blockSeq, NEW old \in SUBSET TxRows,
         \A t \in old : t.born < blockSeq /\ t.block <= t.born,
         NEW new, \A t \in new : \E p \in Places(loads) : t = TxOf(bs, loads, p)
  PROVE  /\ \A t \in old \cup new :
              t \in TxRows /\ t.born < blockSeq + Len(bs) /\ t.block <= t.born
         /\ \A t \in new : t.by = process /\ t.by <= t.born
<1>1. Len(bs) \in Nat
  BY DEF TxBatch, Batch
<1>2. ASSUME NEW t \in new
      PROVE  /\ t \in TxRows /\ t.born < blockSeq + Len(bs) /\ t.block <= t.born
             /\ t.by = process /\ t.by <= t.born
  <2>1. PICK p \in Places(loads) : t = TxOf(bs, loads, p)
    BY <1>2
  <2>2. /\ t \in TxRows /\ t.born < blockSeq + Len(bs) /\ t.block = t.born
        /\ t.by = process /\ blockSeq <= t.born
    BY <2>1, TxOfFields
  <2> QED
    BY <2>2 DEF TxRows
<1>3. ASSUME NEW t \in old PROVE t.born < blockSeq + Len(bs)
  BY <1>1, <1>3 DEF TxRows
<1> QED
  BY <1>2, <1>3

(* Rows of this process and of their own heights below the generator, and  *)
(* the rows of a batch after them, are in the order of the chain.          *)
LEMMA BatchInOrder ==
  ASSUME NEW bs, NEW loads, TxBatch(bs, loads), gen \in GenType, Room, TxAssumption,
         blockSeq \in Nat, process \in Nat, NEW old \in SUBSET TxRows, InUidOrder(old),
         \A t \in old : /\ t.born < blockSeq /\ t.block <= t.born
                        /\ t.by = process \/ NumberedAtHeight(t)
                             => t.uid < NextUid(Begun(bs, 1)),
         NEW new, \A t \in new : \E p \in Places(loads) : t = TxOf(bs, loads, p)
  PROVE  /\ InUidOrder(old \cup new)
         /\ \A t \in old \cup new :
              t.by = process => t.uid < NextUid(Ended(bs, loads, Len(bs)))
<1>1. 1 \in DOMAIN bs /\ Len(bs) \in Nat /\ Len(bs) >= 1 /\ Len(bs) \in DOMAIN bs
  BY DEF TxBatch, Batch
<1>2. ASSUME NEW t \in new
      PROVE  /\ t \in TxRows /\ t.by = process
             /\ blockSeq <= t.born /\ t.born < blockSeq + Len(bs) /\ t.block = t.born
             /\ NextUid(Begun(bs, 1)) <= t.uid
             /\ t.uid < NextUid(Ended(bs, loads, Len(bs)))
  <2>1. PICK p \in Places(loads) : t = TxOf(bs, loads, p)
    BY <1>2
  <2>2. p[1] \in DOMAIN bs /\ 1 <= p[1]
    <3>1. p[1] \in DOMAIN bs
      BY PlacesFinite
    <3>2. DOMAIN bs = 1..Len(bs)
      BY DEF TxBatch, Batch
    <3> QED
      BY <1>1, <3>1, <3>2
  <2>3. /\ NextUid(Begun(bs, 1)) <= NextUid(Begun(bs, p[1]))
        /\ NextUid(Begun(bs, 1)) \in Nat /\ NextUid(Begun(bs, p[1])) \in Nat
    BY <1>1, <2>2, BegunInOrder, BegunFacts
  <2>4. NextUid(Begun(bs, p[1])) <= UidOf(bs, loads, p) /\ UidOf(bs, loads, p) \in Nat
    BY UidBounds
  <2>5. UidOf(bs, loads, p) < NextUid(Ended(bs, loads, Len(bs)))
    BY EndedFacts
  <2>6. NextUid(Begun(bs, 1)) <= UidOf(bs, loads, p)
    BY <2>3, <2>4
  <2> QED
    BY <2>1, <2>5, <2>6, TxOfFields
<1>3. ASSUME NEW t \in old
      PROVE  /\ t \in TxRows /\ t.born \in Nat /\ t.block \in Nat /\ t.uid \in Nat
             /\ t.born < blockSeq /\ t.block <= t.born
             /\ t.by = process \/ NumberedAtHeight(t) => t.uid < NextUid(Begun(bs, 1))
             /\ t.by = process => t.uid < NextUid(Ended(bs, loads, Len(bs)))
  <2>1. t \in TxRows /\ t.born \in Nat /\ t.block \in Nat /\ t.uid \in Nat
    BY DEF TxRows
  <2>2. /\ NextUid(Begun(bs, 1)) <= NextUid(Begun(bs, Len(bs)))
        /\ NextUid(Begun(bs, 1)) \in Nat /\ NextUid(Begun(bs, Len(bs))) \in Nat
        /\ Begun(bs, Len(bs)) \in GenType
    BY <1>1, BegunInOrder, BegunFacts
  <2>3. NextUid(Begun(bs, Len(bs))) <= NextUid(Ended(bs, loads, Len(bs)))
        /\ NextUid(Ended(bs, loads, Len(bs))) \in Nat
    BY EndedFacts
  <2> QED
    BY <1>3, <2>1, <2>2, <2>3
<1>4. ASSUME NEW t \in new, NEW u \in new, Before(t, u)
      PROVE  t.uid < u.uid /\ t.block <= u.block
  <2>1. PICK p \in Places(loads) : t = TxOf(bs, loads, p)
    BY <1>2
  <2>2. PICK q \in Places(loads) : u = TxOf(bs, loads, q)
    BY <1>2
  <2>3. p[1] \in Nat /\ p[2] \in Nat /\ q[1] \in Nat /\ q[2] \in Nat
    BY PlacesFinite
  <2>4. /\ t.uid = UidOf(bs, loads, p) /\ t.nth = p[2]
        /\ t.born = blockSeq + p[1] - 1 /\ t.block = t.born
        /\ u.uid = UidOf(bs, loads, q) /\ u.nth = q[2]
        /\ u.born = blockSeq + q[1] - 1 /\ u.block = u.born
    BY <2>1, <2>2, TxOfFields
  <2>5. Precedes(p, q) /\ t.block <= u.block
    BY <1>4, <2>3, <2>4 DEF Precedes, Before
  <2>6. t.uid < u.uid
    BY <2>4, <2>5, UidsInOrder
  <2> QED
    BY <2>5, <2>6
<1>5. ASSUME NEW t \in old, NEW u \in new
      PROVE  /\ t.by = process \/ NumberedAtHeight(t) => t.uid < u.uid
             /\ t.born < u.born /\ t.block <= u.block
  <2>1. NextUid(Begun(bs, 1)) \in Nat
    BY <1>1, BegunFacts
  <2>2. /\ u.uid \in Nat /\ u.born \in Nat /\ u.block = u.born /\ blockSeq <= u.born
        /\ NextUid(Begun(bs, 1)) <= u.uid
    BY <1>2 DEF TxRows
  <2>3. /\ t.born \in Nat /\ t.block \in Nat /\ t.uid \in Nat
        /\ t.born < blockSeq /\ t.block <= t.born
        /\ t.by = process \/ NumberedAtHeight(t) => t.uid < NextUid(Begun(bs, 1))
    BY <1>3
  <2> QED
    BY <2>1, <2>2, <2>3
<1>6. InUidOrder(old \cup new)
  <2> SUFFICES ASSUME NEW t \in old \cup new, NEW u \in old \cup new
               PROVE  InOrder(t, u)
    BY DEF InUidOrder
  <2>1. CASE t \in old /\ u \in old
    BY <2>1 DEF InUidOrder
  <2>2. CASE t \in new /\ u \in new
    BY <1>4, <2>2 DEF InOrder
  <2>3. CASE t \in old /\ u \in new
    <3>1. u.by = process
      BY <1>2, <2>3
    <3> QED
      BY <1>5, <2>3, <3>1 DEF InOrder
  <2>4. CASE t \in new /\ u \in old
    <3>1. u.born < t.born /\ u.born \in Nat /\ t.born \in Nat
      BY <1>2, <1>3, <1>5, <2>4 DEF TxRows
    <3> QED
      BY <3>1 DEF InOrder, Before
  <2> QED
    BY <2>1, <2>2, <2>3, <2>4
<1> QED
  BY <1>2, <1>3, <1>6

-----------------------------------------------------------------------------
(* What the invariant says before a batch.                                 *)

RefersTo(rows, table) ==
  \A t \in rows : \E b \in table : b.uid = t.block /\ b.height = t.height

LEMMA Types ==
  ASSUME Base, TxAssumption
  PROVE  /\ blocks \in SUBSET BlockRows(Ids) /\ txs \in SUBSET TxRows /\ gen \in GenType
         /\ blockSeq \in Nat /\ since \in Nat /\ cursor \in Nat /\ process \in Nat
         /\ Multiplier \in Nat
         /\ \A t \in txs : /\ t.uid \in Nat /\ t.block \in Nat /\ t.born \in Nat
                          /\ t.height \in Nat /\ t.by \in Nat
         /\ \A b \in blocks : b.uid \in Nat /\ b.height \in Nat /\ b.id \in Ids
<1>1. /\ blocks \in SUBSET BlockRows(Ids) /\ txs \in SUBSET TxRows /\ gen \in GenType
      /\ blockSeq \in Nat /\ since \in Nat /\ cursor \in Nat /\ process \in Nat
  BY DEF Base, TypeOK, GenType
<1>2. Multiplier \in Nat
  BY DEF TxAssumption
<1>3. \A t \in txs : /\ t.uid \in Nat /\ t.block \in Nat /\ t.born \in Nat
                     /\ t.height \in Nat /\ t.by \in Nat
  BY <1>1 DEF TxRows
<1>4. \A b \in blocks : b.uid \in Nat /\ b.height \in Nat /\ b.id \in Ids
  BY <1>1 DEF BlockRows
<1> QED
  BY <1>1, <1>2, <1>3, <1>4

\* What a process writes at a height above those it found is above its own
\* uids and above those of older processes that were numbered at their height.
LEMMA BelowNext ==
  ASSUME Base, Ascending, TxAssumption, NEW h \in Nat,
         \A t \in txs : t.by # process => t.height < h
  PROVE  \A t \in txs : t.by = process \/ NumberedAtHeight(t)
                          => t.uid < NextUid(AtHeight(gen, h))
<1> SUFFICES ASSUME NEW t \in txs, t.by = process \/ NumberedAtHeight(t)
             PROVE  t.uid < NextUid(AtHeight(gen, h))
  OBVIOUS
<1>1. /\ gen \in GenType /\ gen.last <= Multiplier /\ Multiplier \in Nat
      /\ t.uid \in Nat /\ t.height \in Nat
  BY Types DEF Base, Room
<1>2. /\ AtHeight(gen, h) \in GenType
      /\ AtHeight(gen, h).height = IF gen.height < h THEN h ELSE gen.height
      /\ NextUid(gen) \in Nat /\ NextUid(AtHeight(gen, h)) \in Nat
      /\ NextUid(gen) <= NextUid(AtHeight(gen, h))
  BY <1>1, AtHeightFacts
<1>3. CASE t.by = process
  <2>1. t.uid < NextUid(gen)
    BY <1>3 DEF Ascending, Numbered
  <2> QED
    BY <1>1, <1>2, <2>1
<1>4. CASE t.by # process
  <2> DEFINE g == AtHeight(gen, h).height
  <2>1. g \in Nat /\ h <= g /\ AtHeight(gen, h).last \in Nat
    BY <1>1, <1>2 DEF GenType
  <2>2. NextUid(AtHeight(gen, h)) = g * Multiplier + AtHeight(gen, h).last
    BY DEF NextUid
  <2> HIDE DEF g
  <2>3. t.height < g
    BY <1>1, <1>4, <2>1
  <2>4. /\ t.height * Multiplier + Multiplier <= g * Multiplier
        /\ t.height * Multiplier \in Nat /\ g * Multiplier \in Nat
    BY <1>1, <2>1, <2>3, TimesAbove
  <2>5. t.uid < (t.height + 1) * Multiplier
    BY <1>4 DEF NumberedAtHeight
  <2>6. (t.height + 1) * Multiplier = t.height * Multiplier + Multiplier
    BY <1>1
  <2> QED
    BY <1>1, <2>1, <2>2, <2>4, <2>5, <2>6
<1> QED
  BY <1>3, <1>4

\* The row keeps its uid, its place in the chain, its height and its writer,
\* and its block is not a newer one.
Kept(t, u) ==
  /\ t.uid = u.uid /\ t.born = u.born /\ t.nth = u.nth /\ t.height = u.height
  /\ t.by = u.by /\ t.block <= u.block

(* Squashing moves the transactions of the microblocks to the key block,   *)
(* which is at their height and stays.                                     *)
LEMMA SquashedRows ==
  ASSUME Base, TxAssumption
  PROVE  /\ Squashed(txs) \in SUBSET TxRows
         /\ InUidOrder(txs) => InUidOrder(Squashed(txs))
         /\ RefersTo(Squashed(txs), Squash(blocks))
         /\ \A t \in Squashed(txs) : \E u \in txs : Kept(t, u)
<1>1. /\ blocks \in SUBSET BlockRows(Ids) /\ txs \in SUBSET TxRows /\ blockSeq \in Nat
      /\ \A t \in txs : t.uid \in Nat /\ t.block \in Nat /\ t.born \in Nat /\ t.height \in Nat
      /\ \A b \in blocks : b.uid \in Nat /\ b.height \in Nat
  BY Types
<1>2. RefersTo(txs, blocks)
  BY DEF Base, TxsOfStoredBlocks, RefersTo
<1>5. /\ Uids(Squash(blocks)) = Uids(Keys(blocks))
      /\ \A d \in Squash(blocks) :
           \E e \in Keys(blocks) : e.uid = d.uid /\ e.height = d.height
  <2>1. InChainOrder(blocks) /\ \A b \in blocks : b.uid < blockSeq
    BY DEF Base, Chain
  <2> QED
    BY <1>1, <2>1, SquashInOrder
<1>3. CASE Micros(blocks) = {}
  <2>1. Squashed(txs) = txs /\ Squash(blocks) = blocks
    BY <1>3 DEF Squashed, Squash
  <2>2. \A t \in txs : Kept(t, t)
    BY <1>1 DEF Kept
  <2> QED
    BY <1>1, <1>2, <2>1, <2>2
<1>4. CASE Micros(blocks) # {}
  <2> DEFINE K == KeyUid(blocks)
             M(t) == IF t.block > K THEN [t EXCEPT !.block = K] ELSE t
  <2>1. Squashed(txs) = {M(t) : t \in txs}
    BY <1>4 DEF Squashed
  <2>2. InChainOrder(blocks) /\ \A b \in blocks : b.uid < blockSeq
    BY DEF Base, Chain
  <2>3. Keys(blocks) # {}
    BY <1>4, <2>2 DEF InChainOrder
  <2>4. K \in Nat /\ K \in Uids(Keys(blocks)) /\ \A k \in Keys(blocks) : k.uid <= K
    BY <1>1, <2>2, <2>3, KeyUidIsGreatest
  <2> HIDE DEF K
  <2>5. ASSUME NEW t \in txs
        PROVE  /\ M(t) \in TxRows /\ Kept(M(t), t)
               /\ M(t).block = IF t.block > K THEN K ELSE t.block
               /\ M(t).nth \in Nat
    <3>1. t \in TxRows
      BY <1>1
    <3>2. /\ M(t) \in TxRows /\ M(t).uid = t.uid /\ M(t).born = t.born /\ M(t).nth = t.nth
          /\ M(t).height = t.height /\ M(t).by = t.by
          /\ M(t).block = IF t.block > K THEN K ELSE t.block
      BY <2>4, <3>1 DEF TxRows
    <3>3. M(t).block <= t.block /\ M(t).nth \in Nat
      BY <1>1, <2>4, <3>1, <3>2 DEF TxRows
    <3> QED
      BY <3>2, <3>3 DEF Kept
  <2>6. ASSUME NEW t \in txs
        PROVE  \E b \in Squash(blocks) : b.uid = M(t).block /\ b.height = t.height
    <3>1. PICK b \in blocks : b.uid = t.block /\ b.height = t.height
      BY <1>2 DEF RefersTo
    <3>2. PICK k \in Keys(blocks) : k.uid = K
      BY <2>4 DEF Uids
    <3>3. ASSUME NEW c \in Keys(blocks)
          PROVE  \E d \in Squash(blocks) : d.uid = c.uid /\ d.height = c.height
      <4>0. c.uid \in Uids(Keys(blocks))
        BY DEF Uids
      <4>1. c.uid \in Uids(Squash(blocks))
        BY <1>5, <4>0
      <4>2. PICK d \in Squash(blocks) : d.uid = c.uid
        BY <4>1 DEF Uids
      <4>3. PICK e \in Keys(blocks) : e.uid = d.uid /\ e.height = d.height
        BY <1>5
      <4>4. e = c
        BY <2>2, <4>2, <4>3 DEF InChainOrder, Keys
      <4> QED
        BY <4>2, <4>3, <4>4
    <3>4. CASE b \in Keys(blocks)
      <4>1. M(t).block = b.uid
        BY <1>1, <2>4, <2>5, <3>1, <3>4
      <4> QED
        BY <3>1, <3>3, <3>4, <4>1
    <3>5. CASE b \notin Keys(blocks)
      <4>1. b \in Micros(blocks)
        BY <3>5 DEF Keys, Micros
      <4>2. k.uid < b.uid /\ k.height <= b.height
        BY <2>2, <3>2, <4>1 DEF InChainOrder
      <4>3. M(t).block = K
        BY <1>1, <2>4, <2>5, <3>1, <3>2, <4>2
      <4>4. PICK c \in Keys(blocks) : c.height = b.height
        BY <2>2, <4>1 DEF InChainOrder
      <4>5. k.height = b.height
        <5>1. CASE c = k
          BY <4>4, <5>1
        <5>2. CASE c # k
          <6>1. c \in blocks /\ k \in blocks
            BY <3>2, <4>4 DEF Keys
          <6>2. c.uid # k.uid
            BY <2>2, <5>2, <6>1 DEF InChainOrder
          <6>3. c.uid < k.uid
            BY <1>1, <2>4, <3>2, <6>1, <6>2
          <6>4. c.height < k.height
            BY <2>2, <3>2, <6>3 DEF InChainOrder
          <6> QED
            BY <1>1, <3>1, <4>2, <4>4, <6>1, <6>4
        <5> QED
          BY <5>1, <5>2
      <4> QED
        BY <3>1, <3>2, <3>3, <4>3, <4>5
    <3> QED
      BY <3>4, <3>5
  <2>7. ASSUME InUidOrder(txs), NEW t \in txs, NEW u \in txs
        PROVE  InOrder(M(t), M(u))
    <3>1. InOrder(t, u)
      BY <2>7 DEF InUidOrder
    <3>2. /\ M(t).uid = t.uid /\ M(t).born = t.born /\ M(t).nth = t.nth
          /\ M(t).height = t.height /\ M(t).by = t.by
          /\ M(u).uid = u.uid /\ M(u).born = u.born /\ M(u).nth = u.nth /\ M(u).by = u.by
          /\ M(t).block = IF t.block > K THEN K ELSE t.block
          /\ M(u).block = IF u.block > K THEN K ELSE u.block
      BY <2>5 DEF Kept
    <3> HIDE DEF M
    <3>3. t.block <= u.block => M(t).block <= M(u).block
      <4>1. t.block \in Nat /\ u.block \in Nat
        BY <1>1
      <4> QED
        BY <2>4, <3>2, <4>1
    <3>4. /\ Before(M(t), M(u)) <=> Before(t, u)
          /\ NumberedAtHeight(M(t)) <=> NumberedAtHeight(t)
      BY <3>2 DEF Before, NumberedAtHeight
    <3> QED
      BY <3>1, <3>2, <3>3, <3>4 DEF InOrder
  <2> HIDE DEF M
  <2>8. Squashed(txs) \in SUBSET TxRows
    BY <2>1, <2>5
  <2>9. InUidOrder(txs) => InUidOrder(Squashed(txs))
    BY <2>1, <2>7 DEF InUidOrder
  <2>10. RefersTo(Squashed(txs), Squash(blocks))
    <3> SUFFICES ASSUME NEW t \in txs
                 PROVE  \E b \in Squash(blocks) : b.uid = M(t).block /\ b.height = M(t).height
      BY <2>1 DEF RefersTo
    <3>1. M(t).height = t.height
      BY <2>5 DEF Kept
    <3> QED
      BY <2>6, <3>1
  <2>11. \A t \in Squashed(txs) : \E u \in txs : Kept(t, u)
    BY <2>1, <2>5
  <2> QED
    BY <2>8, <2>9, <2>10, <2>11
<1> QED
  BY <1>3, <1>4

-----------------------------------------------------------------------------
(* The steps.                                                              *)

(* What any batch does, on the rows it finds when it writes.               *)
Batching(bs, loads, blocks0, txs0) ==
  /\ Batch(bs, Ids) /\ Len(bs) >= 1 /\ loads \in [DOMAIN bs -> Loads]
  /\ \A i, j \in DOMAIN bs : i < j => bs[i].height <= bs[j].height
  /\ NewIds(blocks0, bs) /\ RefersTo(txs0, blocks0)
  /\ \A t \in txs0 : \E u \in txs : Kept(t, u)
  /\ Appends(bs, loads, blocks0, txs0)
  /\ UNCHANGED process

LEMMA AppendFacts ==
  ASSUME Base, TxAssumption, NEW bs, NEW loads,
         NEW blocks0 \in SUBSET BlockRows(Ids), NEW txs0 \in SUBSET TxRows,
         Batching(bs, loads, blocks0, txs0)
  PROVE  /\ TxBatch(bs, loads)
         /\ blocks' = Upsert(blocks0, bs, blockSeq) /\ blockSeq' = blockSeq + Len(bs)
         /\ gen' = Ended(bs, loads, Len(bs))
         /\ gen \in GenType /\ blockSeq \in Nat /\ Multiplier \in Nat /\ Room
         /\ process \in Nat /\ process <= blockSeq
         /\ Len(bs) \in Nat /\ 1 \in DOMAIN bs /\ Len(bs) \in DOMAIN bs
         /\ DOMAIN bs = 1..Len(bs)
         /\ \A i \in DOMAIN bs : bs[i].height \in Nat
         /\ \E new : /\ txs' = txs0 \cup new
                     /\ \A t \in new : \E p \in Places(loads) : t = TxOf(bs, loads, p)
<1> DEFINE new == NewTxs(bs, loads, Upsert(blocks0, bs, blockSeq))
<1>1. /\ blocks' = Upsert(blocks0, bs, blockSeq) /\ blockSeq' = blockSeq + Len(bs)
      /\ txs' = txs0 \cup new /\ gen' = Ended(bs, loads, Len(bs))
      /\ \A i \in DOMAIN bs : Ended(bs, loads, i).last <= Multiplier
      /\ Batch(bs, Ids)
  BY DEF Batching, Appends
<1>2. /\ gen \in GenType /\ blockSeq \in Nat /\ Multiplier \in Nat /\ Room
      /\ process \in Nat /\ process <= blockSeq
      /\ \A t \in txs : t.block \in Nat /\ t.born \in Nat
  <2>1. process <= since /\ since <= blockSeq /\ since \in Nat
    BY Types DEF Base, Chain
  <2> QED
    BY <2>1, Types DEF Base
<1>3. TxBatch(bs, loads)
  BY <1>1 DEF TxBatch, Batching
<1>4. /\ Len(bs) \in Nat /\ 1 \in DOMAIN bs /\ Len(bs) \in DOMAIN bs /\ DOMAIN bs = 1..Len(bs)
      /\ \A i \in DOMAIN bs : bs[i].height \in Nat
  BY DEF Batching, Batch
<1>6. NewIds(blocks0, bs)
  BY DEF Batching
<1>7. ASSUME NEW t \in new PROVE \E p \in Places(loads) : t = TxOf(bs, loads, p)
  BY <1>2, <1>3, <1>6, NewTxsRows
<1> HIDE DEF new
<1> QED
  BY <1>1, <1>2, <1>3, <1>4, <1>7

LEMMA KeptRows ==
  ASSUME Base, TxAssumption, NEW bs, NEW loads, NEW blocks0, NEW txs0 \in SUBSET TxRows,
         Batching(bs, loads, blocks0, txs0), NEW t \in txs0
  PROVE  /\ t.born < blockSeq /\ t.block <= t.born
         /\ t.by <= t.born /\ t.by <= process /\ (t.by # process => t.born < process)
         /\ \E u \in txs : t.uid = u.uid /\ t.height = u.height /\ t.by = u.by
<1>1. PICK u \in txs : Kept(t, u)
  BY DEF Batching
<1>2. /\ u.born < blockSeq /\ u.block <= u.born
      /\ u.by <= u.born /\ u.by <= process /\ (u.by # process => u.born < process)
  BY DEF Base, InTime, Written
<1>3. t.block \in Nat /\ u.block \in Nat /\ u.born \in Nat
  BY Types DEF TxRows
<1> QED
  BY <1>1, <1>2, <1>3 DEF Kept

LEMMA AppendBase ==
  ASSUME Base, TxAssumption, NEW bs, NEW loads,
         NEW blocks0 \in SUBSET BlockRows(Ids), NEW txs0 \in SUBSET TxRows,
         Batching(bs, loads, blocks0, txs0)
  PROVE  /\ txs' \in SUBSET TxRows /\ gen' \in GenType
         /\ Room' /\ InTime' /\ Written' /\ TxsOfStoredBlocks'
<1>1. PICK new : /\ txs' = txs0 \cup new
                 /\ \A t \in new : \E p \in Places(loads) : t = TxOf(bs, loads, p)
  BY AppendFacts
<1>2. /\ TxBatch(bs, loads) /\ gen' = Ended(bs, loads, Len(bs))
      /\ blocks' = Upsert(blocks0, bs, blockSeq) /\ blockSeq' = blockSeq + Len(bs)
      /\ gen \in GenType /\ blockSeq \in Nat /\ Room
      /\ process \in Nat /\ process <= blockSeq
  BY AppendFacts
<1>3. /\ \A t \in txs' : t \in TxRows /\ t.born < blockSeq' /\ t.block <= t.born
      /\ \A t \in new : t.by = process /\ t.by <= t.born
  <2>1. /\ \A t \in txs0 \cup new :
             t \in TxRows /\ t.born < blockSeq + Len(bs) /\ t.block <= t.born
        /\ \A t \in new : t.by = process /\ t.by <= t.born
    <3>1. \A t \in txs0 : t.born < blockSeq /\ t.block <= t.born
      BY KeptRows
    <3> QED
      BY <1>1, <1>2, <3>1, BatchRows
  <2> QED
    BY <1>1, <1>2, <2>1
<1>4. gen' \in GenType /\ gen'.last <= Multiplier
  BY <1>2, EndedFacts
<1>6. Written'
  <2>1. process' = process
    BY DEF Batching
  <2>2. \A t \in txs0 : /\ t.by <= t.born /\ t.by <= process
                        /\ t.by # process => t.born < process
    BY KeptRows
  <2> QED
    BY <1>1, <1>2, <1>3, <2>1, <2>2 DEF Written
<1>5. TxsOfStoredBlocks'
  <2> SUFFICES ASSUME NEW t \in txs0 \cup new
               PROVE  \E b \in Upsert(blocks0, bs, blockSeq) : b.uid = t.block /\ b.height = t.height
    BY <1>1, <1>2 DEF TxsOfStoredBlocks
  <2>1. Upsert(blocks0, bs, blockSeq) = blocks0 \cup {Appended(bs, blockSeq, i) : i \in DOMAIN bs}
    BY UpsertRows DEF Batching
  <2>2. CASE t \in txs0
    BY <2>1, <2>2 DEF RefersTo, Batching
  <2>3. CASE t \in new
    <3>1. PICK p \in Places(loads) : t = TxOf(bs, loads, p)
      BY <1>1, <2>3
    <3>2. p[1] \in DOMAIN bs
      BY <1>2, PlacesFinite
    <3>3. t.block = blockSeq + p[1] - 1 /\ t.height = bs[p[1]].height
      BY <3>1 DEF TxOf
    <3>4. /\ Appended(bs, blockSeq, p[1]).uid = blockSeq + p[1] - 1
          /\ Appended(bs, blockSeq, p[1]).height = bs[p[1]].height
      BY DEF Appended
    <3> QED
      BY <2>1, <3>2, <3>3, <3>4
  <2> QED
    BY <2>2, <2>3
<1> QED
  BY <1>3, <1>4, <1>5, <1>6 DEF InTime, Room

LEMMA AppendAscending ==
  ASSUME Base, Ascending, TxAssumption, NEW bs, NEW loads,
         NEW blocks0 \in SUBSET BlockRows(Ids), NEW txs0 \in SUBSET TxRows,
         Batching(bs, loads, blocks0, txs0), InUidOrder(txs0),
         \A u \in txs : u.by # process => u.height < bs[1].height
  PROVE  Ascending'
<1>1. PICK new : /\ txs' = txs0 \cup new
                 /\ \A t \in new : \E p \in Places(loads) : t = TxOf(bs, loads, p)
  BY AppendFacts
<1>2. /\ TxBatch(bs, loads) /\ gen' = Ended(bs, loads, Len(bs))
      /\ gen \in GenType /\ blockSeq \in Nat /\ process \in Nat /\ Room
      /\ 1 \in DOMAIN bs /\ \A i \in DOMAIN bs : bs[i].height \in Nat
  BY AppendFacts
<1>3. \A u \in txs : u.by = process \/ NumberedAtHeight(u) => u.uid < NextUid(Begun(bs, 1))
  BY <1>2, BelowNext DEF Begun
<1>4. ASSUME NEW t \in txs0
      PROVE  /\ t.born < blockSeq /\ t.block <= t.born
             /\ t.by = process \/ NumberedAtHeight(t) => t.uid < NextUid(Begun(bs, 1))
  <2>1. /\ t.born < blockSeq /\ t.block <= t.born
        /\ \E u \in txs : t.uid = u.uid /\ t.height = u.height /\ t.by = u.by
    BY KeptRows
  <2>2. PICK u \in txs : t.uid = u.uid /\ t.height = u.height /\ t.by = u.by
    BY <2>1
  <2>3. NumberedAtHeight(t) <=> NumberedAtHeight(u)
    BY <2>2 DEF NumberedAtHeight
  <2> QED
    BY <1>3, <2>1, <2>2, <2>3
<1>5. InUidOrder(txs') /\ \A t \in txs' : t.by = process => t.uid < NextUid(gen')
  <2>1. /\ InUidOrder(txs0 \cup new)
        /\ \A t \in txs0 \cup new :
             t.by = process => t.uid < NextUid(Ended(bs, loads, Len(bs)))
    BY <1>1, <1>2, <1>4, BatchInOrder
  <2> QED
    BY <1>1, <1>2, <2>1
<1>6. UidsFollowChain'
  BY <1>5 DEF UidsFollowChain, InUidOrder, InOrder
<1>7. Numbered'
  <2>1. process' = process
    BY DEF Batching
  <2> QED
    BY <1>5, <2>1 DEF Numbered, NextUid
<1> QED
  BY <1>6, <1>7 DEF Ascending

LEMMA HandleBlocksStep ==
  ASSUME Base, TxAssumption, NEW n \in 1..MaxBatch, NEW ids \in [1..n -> Ids],
         NEW loads \in [1..n -> Loads], HandleBlocks(ids, loads)
  PROVE  Base' /\ (Ascending => Ascending')
<1> DEFINE bs == [i \in DOMAIN ids |-> [id |-> ids[i], height |-> cursor + i - 1, key |-> TRUE]]
<1>1. /\ \A i \in DOMAIN ids : ids[i] \notin StoredIds(blocks)
      /\ \A i, j \in DOMAIN ids : ids[i] = ids[j] => i = j
      /\ Appends(bs, loads, Squash(blocks), Squashed(txs))
      /\ cursor' = cursor + Len(ids) /\ since' = since /\ process' = process
  BY DEF HandleBlocks
<1>2. /\ blocks \in SUBSET BlockRows(Ids) /\ txs \in SUBSET TxRows /\ gen \in GenType
      /\ blockSeq \in Nat /\ since \in Nat /\ cursor \in Nat /\ process \in Nat
      /\ \A b \in blocks : b.uid \in Nat /\ b.height \in Nat /\ b.id \in Ids
  BY Types
<1>3. n \in Nat /\ n >= 1 /\ DOMAIN ids = 1..n /\ DOMAIN bs = 1..n
  BY DEF TxAssumption
<1>4. Len(ids) = n /\ Len(bs) = n
  BY <1>3
<1>5. ASSUME NEW i \in 1..n
      PROVE  bs[i].id = ids[i] /\ bs[i].height = cursor + i - 1 /\ bs[i].key = TRUE
             /\ ids[i] \in Ids /\ cursor + i - 1 \in Nat
  BY <1>2, <1>3
<1> HIDE DEF bs
<1>6. Batch(bs, Ids)
  <2>1. Len(bs) \in Nat /\ DOMAIN bs = 1..Len(bs)
    BY <1>3, <1>4
  <2>2. ASSUME NEW i \in DOMAIN bs
        PROVE  bs[i].id \in Ids /\ bs[i].height \in Nat /\ bs[i].key \in BOOLEAN
    <3>1. i \in 1..n
      BY <1>3
    <3> QED
      BY <1>5, <3>1
  <2> QED
    BY <2>1, <2>2 DEF Batch
<1>7. ASSUME NEW i \in DOMAIN bs, NEW j \in DOMAIN bs, i < j
      PROVE  bs[i].height < bs[j].height /\ bs[i].height <= bs[j].height
  <2>1. i \in 1..n /\ j \in 1..n
    BY <1>3
  <2>2. bs[i].height = cursor + i - 1 /\ bs[j].height = cursor + j - 1
    BY <1>5, <2>1
  <2> QED
    BY <1>2, <1>7, <2>1, <2>2
<1>8. /\ InChainOrder(blocks) /\ \A b \in blocks : b.uid < blockSeq /\ b.height < cursor
      /\ process <= since /\ since <= blockSeq
  BY DEF Base, Chain
<1>9. /\ Squash(blocks) \in SUBSET BlockRows(Ids)
      /\ InChainOrder(Squash(blocks))
      /\ Micros(Squash(blocks)) = {}
      /\ StoredIds(Squash(blocks)) \subseteq StoredIds(blocks)
      /\ \A b \in Squash(blocks) : \E c \in Keys(blocks) : c.uid = b.uid /\ c.height = b.height
  BY <1>2, <1>8, SquashInOrder
<1>10. \A b \in Squash(blocks) : b.uid < blockSeq /\ b.height < cursor /\ b.uid \in Nat /\ b.height \in Nat
  BY <1>2, <1>8, <1>9 DEF Keys
<1>11. NewIds(Squash(blocks), bs)
  BY <1>1, <1>3, <1>5, <1>9 DEF NewIds
<1>12. bs[1].height = cursor /\ bs[n].height = cursor + n - 1 /\ 1 \in DOMAIN bs /\ n \in DOMAIN bs
  <2>1. 1 \in 1..n /\ n \in 1..n
    BY <1>3
  <2>2. bs[1].height = cursor + 1 - 1 /\ bs[n].height = cursor + n - 1
    BY <1>5, <2>1
  <2> QED
    BY <1>2, <1>3, <2>1, <2>2
<1>13. /\ Squashed(txs) \in SUBSET TxRows
       /\ InUidOrder(txs) => InUidOrder(Squashed(txs))
       /\ RefersTo(Squashed(txs), Squash(blocks))
       /\ \A t \in Squashed(txs) : \E u \in txs : Kept(t, u)
  BY SquashedRows
<1>14. Batching(bs, loads, Squash(blocks), Squashed(txs))
  <2>1. loads \in [DOMAIN bs -> Loads]
    BY <1>3
  <2> QED
    BY <1>1, <1>3, <1>4, <1>6, <1>7, <1>11, <1>13, <2>1 DEF Batching
<1>15. /\ txs' \in SUBSET TxRows /\ gen' \in GenType
       /\ Room' /\ InTime' /\ Written' /\ TxsOfStoredBlocks'
  BY <1>9, <1>13, <1>14, AppendBase
<1>16. ASSUME Ascending PROVE Ascending'
  <2>1. \A u \in txs : u.height < bs[1].height
    BY <1>8, <1>12 DEF Base, TxsOfStoredBlocks
  <2>2. InUidOrder(Squashed(txs))
    BY <1>13, <1>16 DEF Ascending, UidsFollowChain, InUidOrder, InOrder
  <2> QED
    BY <1>9, <1>13, <1>14, <1>16, <2>1, <2>2, AppendAscending
<1>17. blocks' = Upsert(Squash(blocks), bs, blockSeq) /\ blockSeq' = blockSeq + n
  BY <1>1, <1>4 DEF Appends
<1>18. blocks' = Squash(blocks) \cup {Appended(bs, blockSeq, i) : i \in DOMAIN bs}
  BY <1>6, <1>11, <1>17, UpsertRows
<1>19. ASSUME NEW i \in DOMAIN bs
       PROVE  /\ Appended(bs, blockSeq, i) \in BlockRows(Ids)
              /\ Appended(bs, blockSeq, i).uid < blockSeq + n
              /\ Appended(bs, blockSeq, i).height = bs[i].height
  <2>1. Appended(bs, blockSeq, i).uid < blockSeq + Len(bs)
    BY <1>2, <1>6, AppendedFields
  <2>2. Appended(bs, blockSeq, i) \in BlockRows(Ids)
    BY <1>2, <1>6, AppendedFields
  <2> QED
    BY <1>4, <2>1, <2>2 DEF Appended
<1>20. blocks' \in SUBSET BlockRows(Ids)
  BY <1>9, <1>18, <1>19
<1>21. TypeOK'
  <2>1. blockSeq' \in Nat /\ cursor' \in Nat /\ since' \in Nat /\ process' \in Nat
    BY <1>1, <1>2, <1>3, <1>4, <1>17
  <2> QED
    BY <1>15, <1>20, <2>1 DEF TypeOK, GenType
<1>22. InChainOrder(blocks')
  <2>1. ASSUME NEW b \in Squash(blocks), NEW i \in DOMAIN bs PROVE b.height < bs[i].height
    <3>1. i \in 1..n /\ b.height < cursor /\ b.height \in Nat
      BY <1>3, <1>10
    <3>2. bs[i].height = cursor + i - 1
      BY <1>5, <3>1
    <3> QED
      BY <1>2, <3>1, <3>2
  <2>2. \A i \in DOMAIN bs : bs[i].key
    BY <1>3, <1>5
  <2>3. \A i, j \in DOMAIN bs : i < j => bs[i].height < bs[j].height
    BY <1>7
  <2> QED
    BY <1>2, <1>6, <1>9, <1>10, <1>11, <1>17, <2>1, <2>2, <2>3, UpsertKeysInOrder
<1>23. Chain'
  <2>1. ASSUME NEW b \in blocks' PROVE b.uid < blockSeq' /\ b.height < cursor'
    <3>1. CASE b \in Squash(blocks)
      BY <1>1, <1>2, <1>3, <1>4, <1>10, <1>17, <3>1
    <3>2. ASSUME NEW i \in DOMAIN bs, b = Appended(bs, blockSeq, i)
          PROVE  b.uid < blockSeq' /\ b.height < cursor'
      <4>1. b.height = cursor + i - 1 /\ i \in 1..n
        BY <1>3, <1>5, <1>19, <3>2
      <4>2. b.height < cursor + n
        BY <1>2, <1>3, <4>1
      <4> QED
        BY <1>1, <1>4, <1>17, <1>19, <3>2, <4>2
    <3> QED
      BY <1>18, <3>1, <3>2
  <2>2. \E b \in blocks' : b.height = cursor' - 1
    <3>1. Appended(bs, blockSeq, n) \in blocks'
      BY <1>12, <1>18
    <3>2. Appended(bs, blockSeq, n).height = cursor' - 1
      BY <1>1, <1>2, <1>3, <1>4, <1>12, <1>19
    <3> QED
      BY <3>1, <3>2
  <2>3. process' <= since' /\ since' <= blockSeq'
    BY <1>1, <1>2, <1>3, <1>8, <1>17
  <2> QED
    BY <1>22, <2>1, <2>2, <2>3 DEF Chain
<1> QED
  BY <1>15, <1>16, <1>21, <1>23 DEF Base

LEMMA HandleMicroblockStep ==
  ASSUME Base, TxAssumption, NEW id \in Ids, NEW load \in Loads, HandleMicroblock(id, load)
  PROVE  Base' /\ (Ascending => Ascending')
<1> DEFINE bs    == <<[id |-> id, height |-> cursor - 1, key |-> FALSE]>>
           loads == <<load>>
<1>1. /\ Delivered /\ id \notin StoredIds(blocks)
      /\ Appends(bs, loads, blocks, txs)
      /\ since' = since /\ cursor' = cursor /\ process' = process
  BY DEF HandleMicroblock, Delivered
<1>2. /\ blocks \in SUBSET BlockRows(Ids) /\ txs \in SUBSET TxRows /\ gen \in GenType
      /\ blockSeq \in Nat /\ since \in Nat /\ cursor \in Nat /\ process \in Nat
      /\ \A t \in txs : t.block \in Nat
      /\ \A b \in blocks : b.uid \in Nat /\ b.height \in Nat /\ b.id \in Ids
  BY Types
<1>3. /\ InChainOrder(blocks) /\ \A b \in blocks : b.uid < blockSeq /\ b.height < cursor
      /\ process <= since /\ since <= blockSeq /\ (blocks # {} => \E b \in blocks : b.height = cursor - 1)
  BY DEF Base, Chain
<1>4. PICK tip \in blocks : tip.height = cursor - 1
  BY <1>1, <1>3 DEF Delivered, Keys
<1>5. cursor - 1 \in Nat
  BY <1>2, <1>4
<1>6. /\ Len(bs) = 1 /\ DOMAIN bs = {1} /\ 1 \in DOMAIN bs
      /\ bs[1].id = id /\ bs[1].height = cursor - 1 /\ bs[1].key = FALSE
      /\ loads \in [DOMAIN bs -> Loads]
  <2>1. loads \in [{1} -> Loads] /\ DOMAIN bs = {1}
    OBVIOUS
  <2> QED
    BY <2>1
<1> HIDE DEF bs, loads
<1>7. Batch(bs, Ids)
  <2>1. {1} = 1..1 /\ 1 \in Nat
    OBVIOUS
  <2>2. DOMAIN bs = 1..Len(bs) /\ Len(bs) \in Nat
    BY <1>6, <2>1
  <2>3. ASSUME NEW i \in DOMAIN bs
        PROVE  bs[i].id \in Ids /\ bs[i].height \in Nat /\ bs[i].key \in BOOLEAN
    <3>1. i = 1
      BY <1>6
    <3> QED
      BY <1>5, <1>6, <3>1
  <2> QED
    BY <2>2, <2>3 DEF Batch
<1>8. NewIds(blocks, bs)
  BY <1>1, <1>6 DEF NewIds
<1>9. \A i, j \in DOMAIN bs : i < j => bs[i].height <= bs[j].height
  BY <1>6
<1>10. \A t \in txs : \E u \in txs : Kept(t, u)
  BY <1>2 DEF Kept
<1>11. RefersTo(txs, blocks)
  BY DEF Base, TxsOfStoredBlocks, RefersTo
<1>12. Batching(bs, loads, blocks, txs)
  <2>1. Len(bs) >= 1
    BY <1>6
  <2> QED
    BY <1>1, <1>6, <1>7, <1>8, <1>9, <1>10, <1>11, <2>1 DEF Batching
<1>13. /\ txs' \in SUBSET TxRows /\ gen' \in GenType
       /\ Room' /\ InTime' /\ Written' /\ TxsOfStoredBlocks'
  BY <1>2, <1>12, AppendBase
<1>14. blocks' = Upsert(blocks, bs, blockSeq) /\ blockSeq' = blockSeq + 1
  BY <1>1, <1>6 DEF Appends
<1>15. blocks' = blocks \cup {Appended(bs, blockSeq, 1)}
  BY <1>6, <1>7, <1>8, <1>14, UpsertRows
<1>16. /\ Appended(bs, blockSeq, 1) \in BlockRows(Ids)
       /\ Appended(bs, blockSeq, 1).uid < blockSeq + 1
       /\ Appended(bs, blockSeq, 1).height = cursor - 1
  <2>1. Appended(bs, blockSeq, 1).uid < blockSeq + Len(bs)
    BY <1>2, <1>6, <1>7, AppendedFields
  <2>2. Appended(bs, blockSeq, 1) \in BlockRows(Ids)
    BY <1>2, <1>6, <1>7, AppendedFields
  <2> QED
    BY <1>6, <2>1, <2>2 DEF Appended
<1>17. TypeOK'
  <2>1. blockSeq' \in Nat /\ cursor' \in Nat /\ since' \in Nat /\ process' \in Nat
    BY <1>1, <1>2, <1>14
  <2>2. blocks' \in SUBSET BlockRows(Ids)
    BY <1>2, <1>15, <1>16
  <2> QED
    BY <1>13, <2>1, <2>2 DEF TypeOK, GenType
<1>18. InChainOrder(blocks')
  <2>1. \A b \in blocks : b.uid < blockSeq /\ b.height <= bs[1].height
    BY <1>2, <1>3, <1>6
  <2>2. \E b \in blocks : b.height = bs[1].height
    BY <1>4, <1>6
  <2> QED
    BY <1>2, <1>3, <1>6, <1>7, <1>8, <1>14, <2>1, <2>2, UpsertMicroInOrder
<1>19. Chain'
  <2>1. ASSUME NEW b \in blocks' PROVE b.uid < blockSeq' /\ b.height < cursor'
    <3>1. CASE b \in blocks
      BY <1>1, <1>2, <1>3, <1>14, <3>1
    <3>2. CASE b = Appended(bs, blockSeq, 1)
      BY <1>1, <1>2, <1>14, <1>16, <3>2
    <3> QED
      BY <1>15, <3>1, <3>2
  <2>2. \E b \in blocks' : b.height = cursor' - 1
    BY <1>1, <1>4, <1>15
  <2>3. process' <= since' /\ since' <= blockSeq'
    BY <1>1, <1>2, <1>3, <1>14
  <2> QED
    BY <1>18, <2>1, <2>2, <2>3 DEF Chain
<1>20. ASSUME NEW t \in txs, t.by # process PROVE t.height < bs[1].height
  <2>1. PICK b \in blocks : b.uid = t.block /\ b.height = t.height
    BY DEF Base, TxsOfStoredBlocks
  <2>2. /\ KeyUid(blocks) >= since /\ KeyUid(blocks) \in Nat
        /\ KeyUid(blocks) \in Uids(Keys(blocks))
    BY <1>1, <1>2, <1>3, KeyUidIsGreatest DEF Delivered
  <2>3. PICK k \in Keys(blocks) : k.uid = KeyUid(blocks)
    BY <2>2 DEF Uids
  <2>4. b.uid < k.uid
    <3>1. t.born < process /\ t.block <= t.born
      BY <1>20 DEF Base, Written, InTime
    <3>2. t.block \in Nat /\ t.born \in Nat
      BY Types
    <3> QED
      BY <1>2, <1>3, <2>1, <2>2, <2>3, <3>1, <3>2
  <2>5. b \in Keys(blocks)
    <3>1. SUFFICES ASSUME b \in Micros(blocks) PROVE FALSE
      BY DEF Keys, Micros
    <3>2. k.uid < b.uid
      BY <1>3, <3>1 DEF InChainOrder
    <3> QED
      BY <1>2, <2>3, <2>4, <3>2 DEF Keys
  <2>6. b.height < k.height /\ k.height < cursor /\ k.height \in Nat /\ b.height \in Nat
    BY <1>2, <1>3, <2>4, <2>5 DEF InChainOrder, Keys
  <2> QED
    BY <1>2, <1>6, <2>1, <2>6
<1>21. ASSUME Ascending PROVE Ascending'
  <2>1. InUidOrder(txs)
    BY <1>21 DEF Ascending, UidsFollowChain, InUidOrder, InOrder
  <2> QED
    BY <1>2, <1>12, <1>20, <1>21, <2>1, AppendAscending
<1> QED
  BY <1>13, <1>17, <1>19, <1>21 DEF Base

\* A subscription goes on or a new one starts, in the same process or in a
\* new one.
GoesOn ==
  \/ process' = process /\ gen' = gen /\ since' \in {since, blockSeq}
  \/ process' = blockSeq /\ gen' = NewGenerator /\ since' = blockSeq

LEMMA FewerWritten ==
  ASSUME Base, TxAssumption, GoesOn, txs' \subseteq txs
  PROVE  Written'
<1>1. process \in Nat /\ since \in Nat /\ blockSeq \in Nat
  BY Types
<1>2. process <= blockSeq
  BY <1>1 DEF Base, Chain
<1>3. ASSUME NEW t \in txs
      PROVE  /\ t.by <= t.born /\ t.by <= process'
             /\ t.by # process' => t.born < process'
  <2>1. /\ t.by <= t.born /\ t.by <= process /\ (t.by # process => t.born < process)
        /\ t.born < blockSeq /\ t.by \in Nat /\ t.born \in Nat
    BY Types DEF Base, Written, InTime
  <2> QED
    BY <1>1, <1>2, <2>1 DEF GoesOn
<1> QED
  BY <1>3 DEF Written

\* What a rollback to a stored row leaves.
LEMMA RollBackToBase ==
  ASSUME Base, TxAssumption, NEW row \in blocks, RollBackTo(row), GoesOn
  PROVE  /\ Base'
         /\ txs' \subseteq txs /\ blocks' \subseteq blocks /\ blockSeq' = blockSeq
         /\ cursor' = row.height + 1 /\ row.height + 1 <= cursor
<1>1. /\ txs' = {t \in txs : t.block <= row.uid} /\ blocks' = CutAbove(blocks, row.uid)
      /\ cursor' = row.height + 1 /\ blockSeq' = blockSeq
  BY DEF RollBackTo
<1>2. /\ blocks \in SUBSET BlockRows(Ids) /\ txs \in SUBSET TxRows /\ gen \in GenType
      /\ blockSeq \in Nat /\ since \in Nat /\ cursor \in Nat /\ process \in Nat /\ Multiplier \in Nat
      /\ \A t \in txs : t.block \in Nat
      /\ \A b \in blocks : b.uid \in Nat /\ b.height \in Nat /\ b.id \in Ids
  BY Types
<1>3. /\ InChainOrder(blocks) /\ \A b \in blocks : b.uid < blockSeq /\ b.height < cursor
      /\ process <= since /\ since <= blockSeq
  BY DEF Base, Chain
<1>4. /\ txs' \subseteq txs /\ blocks' \subseteq blocks
      /\ \A b \in blocks : b \in blocks' <=> b.uid <= row.uid
      /\ row \in blocks'
  BY <1>1, <1>2 DEF CutAbove
<1>5. row.height + 1 <= cursor /\ cursor' \in Nat
  BY <1>1, <1>2, <1>3
<1>6. gen' \in GenType /\ gen'.last <= Multiplier
  BY <1>2 DEF GoesOn, NewGenerator, GenType, Base, Room
<1>7. TypeOK'
  <2>1. since' \in Nat /\ process' \in Nat
    BY <1>2 DEF GoesOn
  <2> QED
    BY <1>1, <1>2, <1>4, <1>5, <1>6, <2>1 DEF TypeOK, GenType
<1>8. InChainOrder(blocks') /\ \A b \in blocks' : b.height <= row.height
  BY <1>1, <1>2, <1>3, CutAboveInOrder
<1>9. Chain'
  <2>1. ASSUME NEW b \in blocks' PROVE b.uid < blockSeq' /\ b.height < cursor'
    BY <1>1, <1>2, <1>3, <1>4, <1>8, <2>1
  <2>2. \E b \in blocks' : b.height = cursor' - 1
    BY <1>1, <1>2, <1>4
  <2>3. process' <= since' /\ since' <= blockSeq'
    BY <1>1, <1>2, <1>3 DEF GoesOn
  <2> QED
    BY <1>8, <2>1, <2>2, <2>3 DEF Chain
<1>10. InTime'
  BY <1>1, <1>4 DEF Base, InTime
<1>11. Room' /\ Written'
  BY <1>4, <1>6, FewerWritten DEF Room
<1>12. TxsOfStoredBlocks'
  <2> SUFFICES ASSUME NEW t \in txs'
               PROVE  \E b \in blocks' : b.uid = t.block /\ b.height = t.height
    BY DEF TxsOfStoredBlocks
  <2>1. t \in txs /\ t.block <= row.uid
    BY <1>1
  <2>2. PICK b \in blocks : b.uid = t.block /\ b.height = t.height
    BY <2>1 DEF Base, TxsOfStoredBlocks
  <2> QED
    BY <1>4, <2>1, <2>2
<1> QED
  BY <1>1, <1>4, <1>5, <1>7, <1>9, <1>10, <1>11, <1>12 DEF Base

\* A process keeps its generator, and a new one has not written anything.
LEMMA FewerAscending ==
  ASSUME Base, TxAssumption, Ascending, GoesOn, txs' \subseteq txs
  PROVE  Ascending'
<1>1. UidsFollowChain'
  BY DEF Ascending, UidsFollowChain
<1>2. CASE process' = process /\ gen' = gen
  BY <1>1, <1>2 DEF Ascending, Numbered, NextUid
<1>3. CASE process' = blockSeq
  <2>1. ASSUME NEW t \in txs PROVE t.by # blockSeq
    <3>1. t.by <= t.born /\ t.born < blockSeq /\ t.by \in Nat /\ t.born \in Nat
      BY Types DEF Base, Written, InTime
    <3> QED
      BY <3>1, Types
  <2> QED
    BY <1>1, <1>3, <2>1 DEF Ascending, Numbered
<1> QED
  BY <1>1, <1>2, <1>3 DEF GoesOn

LEMMA HandleRollbackStep ==
  ASSUME Base, TxAssumption, NEW id \in Ids, HandleRollback(id)
  PROVE  Base' /\ (Ascending => Ascending')
<1>1. RollBackTo(RowOf(blocks, id)) /\ GoesOn
  BY DEF HandleRollback, GoesOn
<1>2. RowOf(blocks, id) \in blocks
  BY DEF HandleRollback, RowOf, StoredIds
<1>3. Base' /\ txs' \subseteq txs
  BY <1>1, <1>2, RollBackToBase
<1> QED
  BY <1>1, <1>3, FewerAscending

\* What start() leaves for the new subscription.
LEMMA ResumeStep ==
  ASSUME Base, TxAssumption, RollBackToResume, GoesOn
  PROVE  Base' /\ (Ascending => Ascending')
<1>1. since' = blockSeq
  BY DEF RollBackToResume
<1>2. /\ blocks \in SUBSET BlockRows(Ids) /\ txs \in SUBSET TxRows /\ gen \in GenType
      /\ blockSeq \in Nat /\ since \in Nat /\ process \in Nat /\ Multiplier \in Nat
  BY Types
<1>3. Base' /\ txs' \subseteq txs
  <2>1. CASE ResumeRows(blocks, Depth, Step) = {}
    <3>1. /\ blocks = {} /\ cursor' = StartingHeight
          /\ blocks' = blocks /\ blockSeq' = blockSeq /\ txs' = txs
      BY <2>1 DEF RollBackToResume
    <3>2. txs = {}
      BY <3>1 DEF Base, TxsOfStoredBlocks
    <3>3. StartingHeight \in Nat
      BY DEF TxAssumption
    <3>4. gen' \in GenType /\ gen'.last <= Multiplier
      BY <1>2 DEF GoesOn, NewGenerator, GenType, Base, Room
    <3>5. process' \in Nat /\ process' <= since'
      <4>1. process <= since /\ since <= blockSeq
        BY DEF Base, Chain
      <4> QED
        BY <1>1, <1>2, <4>1 DEF GoesOn
    <3>6. TypeOK'
      BY <1>1, <1>2, <3>1, <3>3, <3>4, <3>5 DEF TypeOK, GenType
    <3>7. Chain'
      <4>1. InChainOrder(blocks')
        BY <3>1 DEF InChainOrder, Keys, Micros
      <4> QED
        BY <1>1, <1>2, <3>1, <3>5, <4>1 DEF Chain
    <3>8. InTime' /\ TxsOfStoredBlocks' /\ Written'
      BY <3>1, <3>2 DEF InTime, TxsOfStoredBlocks, Written
    <3>9. Room'
      BY <3>4 DEF Room
    <3> QED
      BY <3>1, <3>6, <3>7, <3>8, <3>9 DEF Base
  <2>2. CASE ResumeRows(blocks, Depth, Step) # {}
    <3> DEFINE row == ResumeRow(blocks, Depth, Step)
    <3>1. row \in blocks
      BY <1>2, <2>2, ResumeRowStored
    <3>2. RollBackTo(row)
      BY <2>2 DEF RollBackToResume
    <3> HIDE DEF row
    <3> QED
      BY <3>1, <3>2, RollBackToBase
  <2> QED
    BY <2>1, <2>2
<1> QED
  BY <1>3, FewerAscending

LEMMA ResubscribeStep ==
  ASSUME Base, TxAssumption, Resubscribe
  PROVE  Base' /\ (Ascending => Ascending')
<1>1. RollBackToResume /\ GoesOn
  BY DEF Resubscribe, RollBackToResume, GoesOn
<1> QED
  BY <1>1, ResumeStep

LEMMA RestartStep ==
  ASSUME Base, TxAssumption, Restart
  PROVE  Base' /\ (Ascending => Ascending')
<1>1. RollBackToResume /\ GoesOn
  BY DEF Restart, RollBackToResume, GoesOn
<1> QED
  BY <1>1, ResumeStep

LEMMA InitStep ==
  ASSUME Init, TxAssumption
  PROVE  Base /\ Ascending
<1>1. /\ blocks = {} /\ blockSeq = 1 /\ txs = {} /\ gen = [height |-> 0, last |-> 0]
      /\ since = 1 /\ cursor = StartingHeight /\ process = 1
  BY DEF Init, NewGenerator
<1>2. StartingHeight \in Nat /\ Multiplier \in Nat
  BY DEF TxAssumption
<1>3. gen \in GenType /\ gen.last = 0 /\ gen.height = 0
  BY <1>1 DEF GenType
<1>4. TypeOK
  BY <1>1, <1>2, <1>3 DEF TypeOK, GenType
<1>5. Chain
  <2>1. InChainOrder(blocks)
    BY <1>1 DEF InChainOrder, Keys, Micros
  <2> QED
    BY <1>1, <2>1 DEF Chain
<1>6. InTime /\ Written /\ TxsOfStoredBlocks /\ UidsFollowChain /\ Numbered
  BY <1>1 DEF InTime, Written, TxsOfStoredBlocks, UidsFollowChain, Numbered
<1>7. Room
  BY <1>2, <1>3 DEF Room
<1> QED
  BY <1>4, <1>5, <1>6, <1>7 DEF Base, Ascending

LEMMA NextStep ==
  ASSUME Base, TxAssumption, [Next]_vars
  PROVE  Base' /\ (Ascending => Ascending')
<1>1. ASSUME NEW n \in 1..MaxBatch, NEW ids \in [1..n -> Ids], NEW loads \in [1..n -> Loads],
             HandleBlocks(ids, loads)
      PROVE  Base' /\ (Ascending => Ascending')
  BY <1>1, HandleBlocksStep
<1>2. ASSUME NEW id \in Ids, NEW load \in Loads, HandleMicroblock(id, load)
      PROVE  Base' /\ (Ascending => Ascending')
  BY <1>2, HandleMicroblockStep
<1>3. ASSUME NEW id \in Ids, HandleRollback(id)
      PROVE  Base' /\ (Ascending => Ascending')
  BY <1>3, HandleRollbackStep
<1>4. ASSUME Resubscribe PROVE Base' /\ (Ascending => Ascending')
  BY <1>4, ResubscribeStep
<1>5. ASSUME Restart PROVE Base' /\ (Ascending => Ascending')
  BY <1>5, RestartStep
<1>6. ASSUME UNCHANGED vars PROVE Base' /\ (Ascending => Ascending')
  <2>1. Base'
    BY <1>6 DEF vars, Base, TypeOK, Chain, InTime, Written, Room, TxsOfStoredBlocks
  <2>2. Ascending => Ascending'
    BY <1>6 DEF vars, Ascending, Numbered, UidsFollowChain, NextUid
  <2> QED
    BY <2>1, <2>2
<1> QED
  BY <1>1, <1>2, <1>3, <1>4, <1>5, <1>6 DEF Next

-----------------------------------------------------------------------------
(* The theorems.                                                           *)

(* The variables of the transaction tables keep their types.               *)
THEOREM TypeCorrect == Spec => []TypeOK
<1>1. Init => Base
  BY TxAssumption, InitStep
<1>2. Base /\ [Next]_vars => Base'
  BY TxAssumption, NextStep
<1>3. Base => TypeOK
  BY DEF Base
<1> QED
  BY <1>1, <1>2, <1>3, PTL DEF Spec

(* However subscriptions end and whatever numbers the generator gives,     *)
(* every transaction belongs to a stored block of its height.              *)
THEOREM TransactionsHaveBlocks == Spec => []TxsOfStoredBlocks
<1>1. Init => Base
  BY TxAssumption, InitStep
<1>2. Base /\ [Next]_vars => Base'
  BY TxAssumption, NextStep
<1>3. Base => TxsOfStoredBlocks
  BY DEF Base
<1> QED
  BY <1>1, <1>2, <1>3, PTL DEF Spec

(* Whatever is rolled back and however subscriptions end, the uids of any  *)
(* number of heights, blocks and transactions follow the chain, but for    *)
(* those an older process numbered beyond their height.                    *)
THEOREM UidsAscend == Spec => []UidsFollowChain
<1>1. Init => Base /\ Ascending
  BY TxAssumption, InitStep
<1>2. (Base /\ Ascending) /\ [Next]_vars => (Base /\ Ascending)'
  BY TxAssumption, NextStep
<1>3. Base /\ Ascending => UidsFollowChain
  BY DEF Ascending
<1> QED
  BY <1>1, <1>2, <1>3, PTL DEF Spec

(* A step loses a transaction only by removing its block and all above it. *)
LostWithBlock ==
  \A t \in txs :
    \/ \E u \in txs' : u.born = t.born /\ u.nth = t.nth
    \/ \A b \in blocks' : b.uid < t.block

LEMMA RollBackToLoses ==
  ASSUME Base, TxAssumption, NEW row \in blocks, RollBackTo(row)
  PROVE  LostWithBlock
<1> SUFFICES ASSUME NEW t \in txs, ~ \E u \in txs' : u.born = t.born /\ u.nth = t.nth
             PROVE  \A b \in blocks' : b.uid < t.block
  BY DEF LostWithBlock
<1>1. txs' = {u \in txs : u.block <= row.uid} /\ blocks' = CutAbove(blocks, row.uid)
  BY DEF RollBackTo
<1>2. ~ (t.block <= row.uid)
  BY <1>1
<1>3. t.block \in Nat /\ \A b \in blocks : b.uid \in Nat
  BY Types
<1> QED
  BY <1>1, <1>2, <1>3 DEF CutAbove

LEMMA StepLoses ==
  ASSUME Base, TxAssumption, [Next]_vars
  PROVE  LostWithBlock
<1>1. ASSUME NEW rows, UNCHANGED txs \/ txs' = txs \cup rows PROVE LostWithBlock
  BY <1>1 DEF LostWithBlock
<1>2. ASSUME NEW n \in 1..MaxBatch, NEW ids \in [1..n -> Ids], NEW loads \in [1..n -> Loads],
             HandleBlocks(ids, loads)
      PROVE  LostWithBlock
  <2>1. \E new : txs' = Squashed(txs) \cup new
    BY <1>2 DEF HandleBlocks, Appends
  <2> SUFFICES ASSUME NEW t \in txs
               PROVE  \E u \in Squashed(txs) : u.born = t.born /\ u.nth = t.nth
    BY <2>1 DEF LostWithBlock
  <2>2. CASE Micros(blocks) = {}
    BY <2>2 DEF Squashed
  <2>3. CASE Micros(blocks) # {}
    <3> DEFINE u == IF t.block > KeyUid(blocks) THEN [t EXCEPT !.block = KeyUid(blocks)] ELSE t
    <3>1. u \in Squashed(txs)
      BY <2>3 DEF Squashed
    <3>2. t \in TxRows
      BY Types
    <3>3. u.born = t.born /\ u.nth = t.nth
      BY <3>2 DEF TxRows
    <3> QED
      BY <3>1, <3>3
  <2> QED
    BY <2>2, <2>3
<1>3. ASSUME NEW id \in Ids, NEW load \in Loads, HandleMicroblock(id, load)
      PROVE  LostWithBlock
  <2>1. \E new : txs' = txs \cup new
    BY <1>3 DEF HandleMicroblock, Appends
  <2> QED
    BY <1>1, <2>1
<1>4. ASSUME NEW id \in Ids, HandleRollback(id) PROVE LostWithBlock
  <2>1. RowOf(blocks, id) \in blocks
    BY <1>4 DEF HandleRollback, RowOf, StoredIds
  <2>2. RollBackTo(RowOf(blocks, id))
    BY <1>4 DEF HandleRollback
  <2> QED
    BY <2>1, <2>2, RollBackToLoses
<1>5. ASSUME RollBackToResume PROVE LostWithBlock
  <2>1. CASE ResumeRows(blocks, Depth, Step) = {}
    BY <1>1, <1>5, <2>1 DEF RollBackToResume
  <2>2. CASE ResumeRows(blocks, Depth, Step) # {}
    <3>1. blocks \in SUBSET BlockRows(Ids)
      BY Types
    <3>2. ResumeRow(blocks, Depth, Step) \in blocks
      BY <2>2, <3>1, ResumeRowStored
    <3>3. RollBackTo(ResumeRow(blocks, Depth, Step))
      BY <1>5, <2>2 DEF RollBackToResume
    <3> QED
      BY <3>2, <3>3, RollBackToLoses
  <2> QED
    BY <2>1, <2>2
<1>6. ASSUME UNCHANGED vars PROVE LostWithBlock
  BY <1>1, <1>6 DEF vars
<1> QED
  BY <1>2, <1>3, <1>4, <1>5, <1>6 DEF Next, Resubscribe, Restart

(* A transaction disappears only with its block.                           *)
THEOREM LostWithItsBlock == Spec => LostOnlyWithBlock
<1>1. Init => Base
  BY TxAssumption, InitStep
<1>2. Base /\ [Next]_vars => Base'
  BY TxAssumption, NextStep
<1>3. Base /\ [Next]_vars => [LostWithBlock]_vars
  BY TxAssumption, StepLoses
<1>4. Spec => [][LostWithBlock]_vars
  BY <1>1, <1>2, <1>3, PTL DEF Spec
<1> QED
  BY <1>4 DEF LostOnlyWithBlock, LostWithBlock
=============================================================================
