----------------------------- MODULE TableProofs -----------------------------
(***************************************************************************)
(* Facts about the rows of the two kinds of tables.  The versioned ones:   *)
(* extending, squashing and rolling back keep the versions of every asset  *)
(* chained, for tables of any size, and a rollback through several blocks  *)
(* is the rollbacks to each of them in turn.  The block rows: squashing,   *)
(* appending and cutting keep them one chain, for chains of any length.    *)
(***************************************************************************)
EXTENDS BlockTable, VersionedTable, WellFoundedInduction, TLAPS

(* A nonempty set of naturals has a least element, and a bounded one a     *)
(* greatest: what Min and Max choose.                                      *)
LEMMA LeastExists ==
  ASSUME NEW S, S \subseteq Nat, S # {}
  PROVE  \E x \in S : \A y \in S : x <= y
<1>. DEFINE R == OpToRel(<, Nat)
<1>1. PICK x \in S : \A y \in S : ~ (<<y, x>> \in R)
  BY WFMin, NatLessThanWellFounded DEF R
<1>2. ASSUME NEW y \in S, y < x PROVE <<y, x>> \in R
  BY <1>2 DEF OpToRel, R
<1>3. \A y \in S : ~ (y < x)
  BY <1>1, <1>2, Zenon
<1>4. \A y \in S : x <= y
  BY <1>3, S \subseteq Nat
<1>. QED BY <1>4, Zenon

LEMMA MinIsLeast ==
  ASSUME NEW S, S \subseteq Nat, S # {}
  PROVE  Min(S) \in S /\ \A y \in S : Min(S) <= y
BY LeastExists DEF Min

LEMMA MaxIsGreatest ==
  ASSUME NEW S, S \subseteq Nat, S # {}, NEW n \in Nat, \A x \in S : x <= n
  PROVE  Max(S) \in S /\ \A y \in S : y <= Max(S)
<1>. DEFINE T == {n - x : x \in S}
<1>1. T \subseteq Nat /\ T # {}
  <2>1. \A x \in S : n - x \in Nat
    OBVIOUS
  <2>. QED BY <2>1 DEF T
<1>2. PICK t \in T : \A u \in T : t <= u
  BY <1>1, LeastExists
<1>3. PICK x \in S : t = n - x
  BY DEF T
<1>4. \A y \in S : x >= y
  <2>. TAKE y \in S
  <2>1. n - x <= n - y
    BY <1>2, <1>3 DEF T
  <2>. QED BY <2>1
<1>. QED BY <1>4 DEF Max

-----------------------------------------------------------------------------
(* A batch of updates, and the uids it takes. *)
Updates(us, Assets) ==
  /\ Len(us) \in Nat
  /\ DOMAIN us = 1..Len(us)
  /\ \A i \in DOMAIN us : us[i].asset \in Assets /\ us[i].block \in Nat

(* What a row of a batch is superseded by. *)
LEMMA SupersededByCases ==
  ASSUME NEW Assets, NEW us, Updates(us, Assets), NEW asset, NEW i \in Nat, NEW base \in Nat
  PROVE  \/ /\ Later(us, asset, i) = {}
            /\ SupersededBy(us, asset, i, base) = MaxUid
         \/ \E j \in DOMAIN us :
              /\ i < j /\ us[j].asset = asset
              /\ SupersededBy(us, asset, i, base) = base + j - 1
              /\ \A k \in DOMAIN us : i < k /\ us[k].asset = asset => j <= k
<1>1. CASE Later(us, asset, i) = {}
  BY <1>1 DEF SupersededBy
<1>2. CASE Later(us, asset, i) # {}
  <2>1. Later(us, asset, i) \subseteq Nat
    BY DEF Later, Updates
  <2>2. /\ Min(Later(us, asset, i)) \in Later(us, asset, i)
        /\ \A k \in Later(us, asset, i) : Min(Later(us, asset, i)) <= k
    BY <1>2, <2>1, MinIsLeast
  <2>. QED BY <1>2, <2>2 DEF SupersededBy, Later, Updates
<1>. QED BY <1>1, <1>2

LEMMA SupersededByType ==
  ASSUME NEW Assets, NEW us, Updates(us, Assets), NEW asset, NEW i \in Nat, NEW base \in Nat
  PROVE  SupersededBy(us, asset, i, base) \in Nat
<1>1. \A j \in DOMAIN us : base + j - 1 \in Nat
  BY DEF Updates
<1>2. CASE SupersededBy(us, asset, i, base) = MaxUid
  BY <1>2, MaxUidAssumption
<1>3. CASE \E j \in DOMAIN us : SupersededBy(us, asset, i, base) = base + j - 1
  BY <1>1, <1>3
<1>. QED
  <2>1. \/ SupersededBy(us, asset, i, base) = MaxUid
        \/ \E j \in DOMAIN us :
              /\ i < j /\ us[j].asset = asset
              /\ SupersededBy(us, asset, i, base) = base + j - 1
              /\ \A k \in DOMAIN us : i < k /\ us[k].asset = asset => j <= k
    BY SupersededByCases, Zenon
  <2>. QED BY <1>2, <1>3, <2>1, Zenon

(* The rows of an extended table. *)
Closed(r, us, base) ==
  IF r.sup = MaxUid THEN [r EXCEPT !.sup = SupersededBy(us, r.asset, 0, base)] ELSE r

NewRow(us, base, i) ==
  [uid |-> base + i - 1, asset |-> us[i].asset, block |-> us[i].block,
   sup |-> SupersededBy(us, us[i].asset, i, base)]

LEMMA ExtendRows ==
  ASSUME NEW rows, NEW us, NEW base
  PROVE  Extend(rows, us, base) = {Closed(r, us, base) : r \in rows}
                                    \cup {NewRow(us, base, i) : i \in DOMAIN us}
BY DEF Extend, CloseSuperseded, NewRows, Closed, NewRow

LEMMA ClosedFields ==
  ASSUME NEW Assets, NEW rows \in SUBSET Rows(Assets), NEW r \in rows,
         NEW us, Updates(us, Assets), NEW base \in Nat
  PROVE  /\ Closed(r, us, base) \in Rows(Assets)
         /\ Closed(r, us, base).uid = r.uid
         /\ Closed(r, us, base).asset = r.asset
         /\ Closed(r, us, base).block = r.block
         /\ Closed(r, us, base).sup =
              IF r.sup = MaxUid THEN SupersededBy(us, r.asset, 0, base) ELSE r.sup
BY SupersededByType DEF Closed, Rows

LEMMA NewRowFields ==
  ASSUME NEW Assets, NEW us, Updates(us, Assets), NEW base \in Nat, NEW i \in DOMAIN us
  PROVE  NewRow(us, base, i) \in Rows(Assets)
<1>1. i \in Nat /\ i >= 1
  BY DEF Updates
<1>2. SupersededBy(us, us[i].asset, i, base) \in Nat
  BY <1>1, SupersededByType
<1>3. us[i].asset \in Assets /\ us[i].block \in Nat
  BY DEF Updates
<1>. QED BY <1>1, <1>2, <1>3 DEF NewRow, Rows

LEMMA ExtendType ==
  ASSUME NEW Assets, NEW rows \in SUBSET Rows(Assets),
         NEW us, Updates(us, Assets), NEW base \in Nat
  PROVE  Extend(rows, us, base) \in SUBSET Rows(Assets)
BY ExtendRows, ClosedFields, NewRowFields

-----------------------------------------------------------------------------
(* The next update of an asset after position i of the batch, if there is  *)
(* one, starts at or before every later update of that asset.              *)
NextInBatch(us, asset, i, base, sup) ==
  /\ \/ sup = MaxUid
     \/ \E j \in DOMAIN us : i < j /\ us[j].asset = asset /\ sup = base + j - 1
  /\ \A k \in DOMAIN us : i < k /\ us[k].asset = asset => sup <= base + k - 1

LEMMA SupersededByNext ==
  ASSUME NEW Assets, NEW us, Updates(us, Assets), NEW asset, NEW i \in Nat, NEW base \in Nat
  PROVE  NextInBatch(us, asset, i, base, SupersededBy(us, asset, i, base))
<1>. DEFINE sup == SupersededBy(us, asset, i, base)
<1>1. CASE Later(us, asset, i) = {} /\ sup = MaxUid
  <2>1. ~ \E k \in DOMAIN us : i < k /\ us[k].asset = asset
    BY <1>1, Zenon DEF Later
  <2>. QED BY <1>1, <2>1, Zenon DEF NextInBatch
<1>2. ASSUME NEW j \in DOMAIN us, i < j, us[j].asset = asset, sup = base + j - 1,
             \A k \in DOMAIN us : i < k /\ us[k].asset = asset => j <= k
      PROVE  NextInBatch(us, asset, i, base, sup)
  <2>1. \A k \in DOMAIN us : j <= k => base + j - 1 <= base + k - 1
    BY DEF Updates
  <2>. QED BY <1>2, <2>1, Zenon DEF NextInBatch
<1>. QED
  <2>1. \/ Later(us, asset, i) = {} /\ sup = MaxUid
        \/ \E j \in DOMAIN us :
              /\ i < j /\ us[j].asset = asset /\ sup = base + j - 1
              /\ \A k \in DOMAIN us : i < k /\ us[k].asset = asset => j <= k
    BY SupersededByCases, Zenon
  <2>. QED BY <1>1, <1>2, <2>1, Zenon

(* Extending a table with fresh uids keeps its versions chained. *)
LEMMA ExtendChained ==
  ASSUME NEW Assets, NEW rows \in SUBSET Rows(Assets), Chained(rows),
         NEW us, Updates(us, Assets), NEW base \in Nat, base + Len(us) <= MaxUid,
         \A r \in rows : r.uid < base
  PROVE  Chained(Extend(rows, us, base))
<1>. DEFINE C(r) == Closed(r, us, base)
            N(i) == NewRow(us, base, i)
            Old == {C(r) : r \in rows}
            New == {N(i) : i \in DOMAIN us}
<1>1. Extend(rows, us, base) = Old \cup New
  BY ExtendRows
<1>2. ASSUME NEW r \in rows
      PROVE  /\ r.uid \in Nat /\ r.sup \in Nat /\ r.uid < base /\ r.uid < MaxUid
             /\ C(r).uid = r.uid /\ C(r).asset = r.asset /\ C(r).sup \in Nat
             /\ r.sup # MaxUid => C(r).sup = r.sup
             /\ r.sup = MaxUid => NextInBatch(us, r.asset, 0, base, C(r).sup)
  <2>1. r.uid \in Nat /\ r.sup \in Nat /\ r.uid < base /\ r.uid < MaxUid
    BY DEF Rows, Chained
  <2>2. /\ C(r).uid = r.uid /\ C(r).asset = r.asset /\ C(r) \in Rows(Assets)
        /\ C(r).sup = IF r.sup = MaxUid THEN SupersededBy(us, r.asset, 0, base) ELSE r.sup
    BY ClosedFields
  <2>3. C(r).sup \in Nat
    BY <2>2 DEF Rows
  <2>4. NextInBatch(us, r.asset, 0, base, SupersededBy(us, r.asset, 0, base))
    BY SupersededByNext
  <2>. QED BY <2>1, <2>2, <2>3, <2>4
<1>3. ASSUME NEW i \in DOMAIN us
      PROVE  /\ i \in Nat /\ i >= 1 /\ base + i - 1 < MaxUid
             /\ N(i).uid = base + i - 1 /\ N(i).asset = us[i].asset /\ N(i).sup \in Nat
             /\ NextInBatch(us, us[i].asset, i, base, N(i).sup)
  <2>1. i \in Nat /\ i >= 1 /\ base + i - 1 < MaxUid
    BY MaxUidAssumption DEF Updates
  <2>2. NextInBatch(us, us[i].asset, i, base, SupersededBy(us, us[i].asset, i, base))
    BY <2>1, SupersededByNext
  <2>3. SupersededBy(us, us[i].asset, i, base) \in Nat
    BY <2>1, SupersededByType
  <2>. QED BY <2>1, <2>2, <2>3 DEF NewRow
<1>. HIDE DEF C, N
<1>4. ASSUME NEW r \in Old \cup New, NEW s \in Old \cup New, r.uid = s.uid
      PROVE  r = s
  <2>1. \A p, q \in rows : p.uid = q.uid => p = q
    BY DEF Chained
  <2>. QED BY <1>2, <1>3, <1>4, <2>1
<1>5. ASSUME NEW r \in Old \cup New PROVE r.uid < MaxUid
  BY <1>2, <1>3
<1>6. ASSUME NEW r \in Old \cup New, r.sup # MaxUid
      PROVE  \E s \in Old \cup New : s.uid = r.sup /\ s.asset = r.asset /\ r.uid < s.uid
  <2>1. ASSUME NEW p \in rows, r = C(p), p.sup # MaxUid
        PROVE  \E s \in Old : s.uid = r.sup /\ s.asset = r.asset /\ r.uid < s.uid
    <3>1. PICK q \in rows : q.uid = p.sup /\ q.asset = p.asset /\ p.uid < q.uid
      BY <2>1 DEF Chained
    <3>. QED BY <1>2, <2>1, <3>1
  <2>2. ASSUME NEW p \in rows, r = C(p), p.sup = MaxUid
        PROVE  \E s \in New : s.uid = r.sup /\ s.asset = r.asset /\ r.uid < s.uid
    <3>1. PICK j \in DOMAIN us : us[j].asset = p.asset /\ C(p).sup = base + j - 1
      BY <1>2, <1>6, <2>2 DEF NextInBatch
    <3>2. N(j) \in New
      OBVIOUS
    <3>3. N(j).uid = base + j - 1 /\ N(j).asset = us[j].asset /\ j \in Nat /\ j >= 1
      BY <1>3
    <3>4. r.uid \in Nat /\ r.uid < base /\ r.asset = p.asset /\ r.sup = base + j - 1
      BY <1>2, <2>2, <3>1
    <3>5. N(j).uid = r.sup /\ N(j).asset = r.asset /\ r.uid < N(j).uid
      BY <3>1, <3>3, <3>4
    <3>. QED BY <3>2, <3>5, Zenon
  <2>3. ASSUME NEW i \in DOMAIN us, r = N(i)
        PROVE  \E s \in New : s.uid = r.sup /\ s.asset = r.asset /\ r.uid < s.uid
    <3>1. PICK j \in DOMAIN us : i < j /\ us[j].asset = us[i].asset /\ N(i).sup = base + j - 1
      BY <1>3, <1>6, <2>3 DEF NextInBatch
    <3>2. N(j) \in New
      OBVIOUS
    <3>3. N(j).uid = r.sup /\ N(j).asset = r.asset /\ r.uid < N(j).uid
      BY <1>3, <2>3, <3>1
    <3>. QED BY <3>2, <3>3, Zenon
  <2>. QED BY <2>1, <2>2, <2>3
<1>7. ASSUME NEW r \in Old \cup New, NEW s \in Old \cup New,
             r.asset = s.asset, r.uid < s.uid
      PROVE  r.sup <= s.uid
  <2>1. ASSUME NEW p \in rows, NEW q \in rows, r = C(p), s = C(q) PROVE r.sup <= s.uid
    <3>1. p.sup <= q.uid
      BY <1>2, <1>7, <2>1 DEF Chained
    <3>. QED BY <1>2, <2>1, <3>1
  <2>2. ASSUME NEW p \in rows, NEW j \in DOMAIN us, r = C(p), s = N(j) PROVE r.sup <= s.uid
    <3>1. CASE p.sup = MaxUid
      <4>1. 0 < j /\ us[j].asset = p.asset
        BY <1>2, <1>3, <1>7, <2>2
      <4>2. NextInBatch(us, p.asset, 0, base, C(p).sup)
        BY <1>2, <3>1
      <4>3. C(p).sup <= base + j - 1
        BY <4>1, <4>2, Zenon DEF NextInBatch
      <4>. QED BY <1>3, <2>2, <4>3
    <3>2. CASE p.sup # MaxUid
      <4>1. p.sup < base
        BY <1>2, <3>2 DEF Chained
      <4>. QED BY <1>2, <1>3, <2>2, <3>2, <4>1
    <3>. QED BY <3>1, <3>2
  <2>3. ASSUME NEW i \in DOMAIN us, NEW j \in DOMAIN us, r = N(i), s = N(j) PROVE r.sup <= s.uid
    <3>1. i < j
      BY <1>3, <1>7, <2>3
    <3>2. N(i).sup <= base + j - 1
      BY <1>3, <1>7, <2>3, <3>1 DEF NextInBatch
    <3>. QED BY <1>3, <2>3, <3>2
  <2>4. ASSUME NEW i \in DOMAIN us, NEW q \in rows, r = N(i), s = C(q) PROVE FALSE
    BY <1>2, <1>3, <1>7, <2>4
  <2>. QED BY <2>1, <2>2, <2>3, <2>4
<1>. HIDE DEF Old, New
<1>. QED BY <1>1, <1>4, <1>5, <1>6, <1>7 DEF Chained

-----------------------------------------------------------------------------
(* A rollback reopens exactly the rows whose successor it deletes: since   *)
(* newer versions never belong to older blocks, the successor of a row     *)
(* that stays is the lowest deleted version of its asset.                  *)
LEMMA SuccessorDeleted ==
  ASSUME NEW Assets, NEW rows \in SUBSET Rows(Assets), Chained(rows), InBlockOrder(rows),
         NEW block \in Nat, NEW r \in rows, r.block <= block
  PROVE  r.sup \in LowestUids(Above(rows, block))
           <=> \E s \in rows : s.uid = r.sup /\ s.block > block
<1>1. ASSUME r.sup \in LowestUids(Above(rows, block))
      PROVE  \E s \in rows : s.uid = r.sup /\ s.block > block
  BY <1>1 DEF LowestUids, Above
<1>2. ASSUME NEW s \in rows, s.uid = r.sup, s.block > block
      PROVE  r.sup \in LowestUids(Above(rows, block))
  <2>1. /\ r.uid \in Nat /\ r.sup \in Nat /\ r.block \in Nat
        /\ s.uid \in Nat /\ s.uid < MaxUid
    BY DEF Rows, Chained
  <2>2. s.asset = r.asset /\ r.uid < s.uid
    BY <1>2, <2>1 DEF Chained
  <2>3. ASSUME NEW e \in Above(rows, block), e.asset = s.asset PROVE s.uid <= e.uid
    <3>1. e \in rows /\ e.block > block /\ e.uid \in Nat /\ e.block \in Nat
      BY DEF Above, Rows
    <3>2. ~ (e.uid < r.uid)
      BY <3>1, <2>1 DEF InBlockOrder
    <3>3. e.uid # r.uid
      BY <3>1, <2>1 DEF Chained
    <3>4. r.uid < e.uid
      BY <2>1, <3>1, <3>2, <3>3
    <3>. QED BY <1>2, <2>2, <2>3, <3>1, <3>4 DEF Chained
  <2>4. s \in Above(rows, block)
    BY <1>2 DEF Above
  <2>. QED BY <1>2, <2>3, <2>4 DEF LowestUids
<1>. QED BY <1>1, <1>2

(* What a rollback makes of a row it keeps. *)
Reopened(r, rows, block) ==
  IF \E s \in rows : s.uid = r.sup /\ s.block > block
    THEN [r EXCEPT !.sup = MaxUid] ELSE r

LEMMA RollBackRows ==
  ASSUME NEW Assets, NEW rows \in SUBSET Rows(Assets), Chained(rows), InBlockOrder(rows),
         NEW block \in Nat
  PROVE  RollBack(rows, block) =
           {Reopened(r, rows, block) : r \in {q \in rows : q.block <= block}}
<1>1. rows \ Above(rows, block) = {q \in rows : q.block <= block}
  BY DEF Above, Rows
<1>2. \A r \in {q \in rows : q.block <= block} :
        (IF r.sup \in LowestUids(Above(rows, block)) THEN [r EXCEPT !.sup = MaxUid] ELSE r)
          = Reopened(r, rows, block)
  BY SuccessorDeleted DEF Reopened
<1>. QED BY <1>1, <1>2 DEF RollBack

LEMMA ReopenedFields ==
  ASSUME NEW Assets, NEW rows \in SUBSET Rows(Assets), NEW block \in Nat, NEW r \in rows
  PROVE  /\ Reopened(r, rows, block) \in Rows(Assets)
         /\ Reopened(r, rows, block).uid = r.uid
         /\ Reopened(r, rows, block).asset = r.asset
         /\ Reopened(r, rows, block).block = r.block
         /\ Reopened(r, rows, block).sup =
              IF \E s \in rows : s.uid = r.sup /\ s.block > block THEN MaxUid ELSE r.sup
BY MaxUidAssumption DEF Reopened, Rows

LEMMA RollBackType ==
  ASSUME NEW Assets, NEW rows \in SUBSET Rows(Assets), Chained(rows), InBlockOrder(rows),
         NEW block \in Nat
  PROVE  RollBack(rows, block) \in SUBSET Rows(Assets)
BY RollBackRows, ReopenedFields

(* Rolling back keeps the versions chained. *)
LEMMA RollBackChained ==
  ASSUME NEW Assets, NEW rows \in SUBSET Rows(Assets), Chained(rows), InBlockOrder(rows),
         NEW block \in Nat
  PROVE  Chained(RollBack(rows, block))
<1>. DEFINE D(r) == Reopened(r, rows, block)
            Kept == {q \in rows : q.block <= block}
            New  == {D(r) : r \in Kept}
<1>1. RollBack(rows, block) = New
  BY RollBackRows
<1>2. ASSUME NEW r \in Kept
      PROVE  /\ r \in rows /\ r.block <= block /\ r.uid < MaxUid
             /\ r.uid \in Nat /\ r.sup \in Nat /\ r.block \in Nat
             /\ D(r).uid = r.uid /\ D(r).asset = r.asset
             /\ D(r).sup = IF \E s \in rows : s.uid = r.sup /\ s.block > block
                             THEN MaxUid ELSE r.sup
  <2>1. r \in rows /\ r.block <= block
    OBVIOUS
  <2>2. r.uid < MaxUid /\ r.uid \in Nat /\ r.sup \in Nat /\ r.block \in Nat
    BY <2>1 DEF Rows, Chained
  <2>3. /\ D(r).uid = r.uid /\ D(r).asset = r.asset
        /\ D(r).sup = IF \E s \in rows : s.uid = r.sup /\ s.block > block
                        THEN MaxUid ELSE r.sup
    BY <2>1, ReopenedFields
  <2>. QED BY <2>1, <2>2, <2>3
<1>. HIDE DEF D
<1>3. ASSUME NEW r \in New, NEW s \in New, r.uid = s.uid PROVE r = s
  BY <1>2, <1>3 DEF Chained
<1>4. ASSUME NEW r \in New PROVE r.uid < MaxUid
  BY <1>2
<1>5. ASSUME NEW r \in New, r.sup # MaxUid
      PROVE  \E s \in New : s.uid = r.sup /\ s.asset = r.asset /\ r.uid < s.uid
  <2>1. PICK p \in Kept : r = D(p)
    OBVIOUS
  <2>2. p.sup # MaxUid /\ r.sup = p.sup /\ ~ \E s \in rows : s.uid = p.sup /\ s.block > block
    BY <1>2, <1>5, <2>1
  <2>3. PICK q \in rows : q.uid = p.sup /\ q.asset = p.asset /\ p.uid < q.uid
    BY <1>2, <2>2 DEF Chained
  <2>4. q.block \in Nat
    BY DEF Rows
  <2>5. q \in Kept
    BY <2>2, <2>3, <2>4
  <2>6. D(q) \in New
    BY <2>5
  <2>7. D(q).uid = r.sup /\ D(q).asset = r.asset /\ r.uid < D(q).uid
    BY <1>2, <2>1, <2>2, <2>3, <2>5
  <2>. QED BY <2>6, <2>7, Zenon
<1>6. ASSUME NEW r \in New, NEW s \in New, r.asset = s.asset, r.uid < s.uid
      PROVE  r.sup <= s.uid
  <2>1. PICK p \in Kept : r = D(p)
    OBVIOUS
  <2>2. PICK q \in Kept : s = D(q)
    OBVIOUS
  <2>3. p.asset = q.asset /\ p.uid < q.uid /\ p.sup <= q.uid
    BY <1>2, <1>6, <2>1, <2>2 DEF Chained
  <2>4. ASSUME NEW t \in rows, t.uid = p.sup, t.block > block PROVE FALSE
    <3>1. t.uid \in Nat /\ t.block \in Nat
      BY DEF Rows
    <3>2. t.uid # q.uid
      BY <1>2, <2>4, <3>1 DEF Chained
    <3>3. t.uid < q.uid
      BY <1>2, <2>3, <2>4, <3>1, <3>2
    <3>. QED BY <1>2, <2>4, <3>1, <3>3 DEF InBlockOrder
  <2>. QED BY <1>2, <2>1, <2>2, <2>3, <2>4
<1>. HIDE DEF New
<1>. QED BY <1>1, <1>3, <1>4, <1>5, <1>6 DEF Chained

LEMMA RollBackInBlockOrder ==
  ASSUME NEW Assets, NEW rows \in SUBSET Rows(Assets), Chained(rows), InBlockOrder(rows),
         NEW block \in Nat
  PROVE  InBlockOrder(RollBack(rows, block))
BY RollBackRows, ReopenedFields DEF InBlockOrder

-----------------------------------------------------------------------------
(* A rollback through several blocks.                                      *)
ReopenedUids(rows, targets) == UNION {LowestUids(DeletedAt(rows, targets, u)) : u \in targets}

KeptOf(rows, targets) == {r \in rows : \A u \in targets : r.block <= u}

Made(r, uids) == IF r.sup \in uids THEN [r EXCEPT !.sup = MaxUid] ELSE r

LEMMA ThroughRows ==
  ASSUME NEW rows, NEW targets
  PROVE  RollBackThrough(rows, targets)
           = {Made(r, ReopenedUids(rows, targets)) : r \in KeptOf(rows, targets)}
BY DEF RollBackThrough, ReopenedUids, KeptOf, Made

LEMMA MadeFields ==
  ASSUME NEW Assets, NEW r \in Rows(Assets), NEW uids
  PROVE  /\ Made(r, uids) \in Rows(Assets)
         /\ Made(r, uids).uid = r.uid /\ Made(r, uids).asset = r.asset
         /\ Made(r, uids).block = r.block
         /\ Made(r, uids).sup = IF r.sup \in uids THEN MaxUid ELSE r.sup
BY MaxUidAssumption DEF Made, Rows

(* To one block it is the rollback to that block.                          *)
LEMMA RollBackThroughOne ==
  ASSUME NEW Assets, NEW rows \in SUBSET Rows(Assets), NEW block \in Nat
  PROVE  RollBackThrough(rows, {block}) = RollBack(rows, block)
<1>1. DeletedAt(rows, {block}, block) = Above(rows, block)
  BY DEF DeletedAt, Above
<1>2. ReopenedUids(rows, {block}) = LowestUids(Above(rows, block))
  BY <1>1 DEF ReopenedUids
<1>3. KeptOf(rows, {block}) = rows \ Above(rows, block)
  BY DEF KeptOf, Above, Rows
<1>4. RollBack(rows, block) = {Made(r, LowestUids(Above(rows, block))) : r \in rows \ Above(rows, block)}
  BY DEF RollBack, Made
<1>. QED BY <1>2, <1>3, <1>4, ThroughRows

(* It is one rollback after the other, the newest block first, as the loop *)
(* of rollback() does them: whatever the rows, chained or not.             *)
THEOREM RollBackStepwise ==
  ASSUME NEW Assets, NEW rows \in SUBSET Rows(Assets),
         NEW newer \in SUBSET Nat, NEW block \in Nat, \A u \in newer : block < u
  PROVE  RollBackThrough(rows, newer \cup {block})
           = RollBack(RollBackThrough(rows, newer), block)
<1>. DEFINE all  == newer \cup {block}
            mid  == RollBackThrough(rows, newer)
            R    == ReopenedUids(rows, newer)
            Low  == LowestUids(Above(mid, block))
            K    == KeptOf(rows, newer)
            D(r) == Made(r, R)
<1>1. mid = {D(r) : r \in K} /\ K \subseteq rows
  BY ThroughRows DEF KeptOf
<1>2. ASSUME NEW r \in rows
      PROVE  /\ r.uid \in Nat /\ r.sup \in Nat /\ r.block \in Nat
             /\ D(r) \in Rows(Assets) /\ D(r).uid = r.uid /\ D(r).asset = r.asset
             /\ D(r).block = r.block
             /\ D(r).sup = IF r.sup \in R THEN MaxUid ELSE r.sup
  <2>1. r \in Rows(Assets)
    OBVIOUS
  <2>2. r.uid \in Nat /\ r.sup \in Nat /\ r.block \in Nat
    BY <2>1 DEF Rows
  <2>. QED BY <2>1, <2>2, MadeFields
<1>3. \A u \in newer : DeletedAt(rows, all, u) = DeletedAt(rows, newer, u)
  <2>. SUFFICES ASSUME NEW u \in newer
                PROVE  DeletedAt(rows, all, u) = DeletedAt(rows, newer, u)
    OBVIOUS
  <2>1. u \in Nat /\ block < u /\ ~ (block > u)
    OBVIOUS
  <2>. QED BY <2>1 DEF DeletedAt
<1>4. DeletedAt(rows, all, block) = {r \in K : r.block > block}
  BY DEF DeletedAt, KeptOf
<1>5. Low = LowestUids(DeletedAt(rows, all, block))
  <2>. DEFINE A == {r \in K : r.block > block}
  <2>1. Above(mid, block) = {D(r) : r \in A}
    <3>. HIDE DEF D, mid, K
    <3>. QED BY <1>1, <1>2 DEF Above
  <2>2. A \subseteq rows
    BY <1>1
  <2>. HIDE DEF D, A
  <2>3. LowestUids({D(r) : r \in A}) = LowestUids(A)
    BY <1>2, <2>2 DEF LowestUids
  <2>. QED BY <1>4, <2>1, <2>3 DEF A
<1>6. ReopenedUids(rows, all) = R \cup Low
  <2>1. ReopenedUids(rows, all)
          = (UNION {LowestUids(DeletedAt(rows, all, u)) : u \in newer})
              \cup LowestUids(DeletedAt(rows, all, block))
    <3>. DEFINE F(u) == LowestUids(DeletedAt(rows, all, u))
    <3>1. ReopenedUids(rows, all) = UNION {F(u) : u \in all}
      BY DEF ReopenedUids
    <3>. HIDE DEF F
    <3>2. ASSUME NEW x PROVE (x \in UNION {F(u) : u \in all})
                               <=> (x \in (UNION {F(u) : u \in newer}) \cup F(block))
      <4>1. (x \in UNION {F(u) : u \in all}) <=> \E u \in all : x \in F(u)
        OBVIOUS
      <4>2. (x \in UNION {F(u) : u \in newer}) <=> \E u \in newer : x \in F(u)
        OBVIOUS
      <4>3. (\E u \in all : x \in F(u)) <=> (\E u \in newer : x \in F(u)) \/ x \in F(block)
        OBVIOUS
      <4>. QED BY <4>1, <4>2, <4>3
    <3>3. UNION {F(u) : u \in all} = (UNION {F(u) : u \in newer}) \cup F(block)
      BY <3>2
    <3>. QED BY <3>1, <3>3 DEF F
  <2>2. {LowestUids(DeletedAt(rows, all, u)) : u \in newer}
          = {LowestUids(DeletedAt(rows, newer, u)) : u \in newer}
    BY <1>3
  <2>. QED BY <1>5, <2>1, <2>2 DEF ReopenedUids
<1>7. KeptOf(rows, all) = {r \in K : r.block <= block}
  BY DEF KeptOf
<1>8. mid \ Above(mid, block) = {D(r) : r \in {q \in K : q.block <= block}}
  <2>. HIDE DEF D, mid, K
  <2>. QED BY <1>1, <1>2 DEF Above
<1>9. ASSUME NEW r \in rows PROVE Made(D(r), Low) = Made(r, R \cup Low)
  <2>1. CASE r.sup \in R
    <3>1. D(r) = [r EXCEPT !.sup = MaxUid]
      BY <2>1 DEF Made
    <3>2. [D(r) EXCEPT !.sup = MaxUid] = D(r)
      <4>1. r \in Rows(Assets)
        OBVIOUS
      <4>. QED BY <3>1, <4>1 DEF Rows
    <3>. QED BY <2>1, <3>1, <3>2 DEF Made
  <2>2. CASE r.sup \notin R
    BY <2>2 DEF Made
  <2>. QED BY <2>1, <2>2
<1>10. RollBack(mid, block) = {Made(q, Low) : q \in mid \ Above(mid, block)}
  BY DEF RollBack, Made
<1>. HIDE DEF D, mid, Low, K, R
<1>11. RollBack(mid, block) = {Made(D(r), Low) : r \in {q \in K : q.block <= block}}
  BY <1>8, <1>10
<1>12. RollBackThrough(rows, all) = {Made(r, R \cup Low) : r \in {q \in K : q.block <= block}}
  BY <1>6, <1>7, ThroughRows
<1>. QED BY <1>1, <1>9, <1>11, <1>12 DEF mid

(* When the versions are chained in the order of their blocks, the last    *)
(* block alone decides what a rollback through several leaves.             *)
LEMMA RollBackThroughLast ==
  ASSUME NEW Assets, NEW rows \in SUBSET Rows(Assets), Chained(rows), InBlockOrder(rows),
         NEW targets \in SUBSET Nat, NEW last \in targets, \A u \in targets : last <= u
  PROVE  RollBackThrough(rows, targets) = RollBack(rows, last)
<1>1. KeptOf(rows, targets) = {q \in rows : q.block <= last}
  BY DEF KeptOf, Rows
<1>2. ASSUME NEW r \in rows, r.block <= last
      PROVE  r.sup \in ReopenedUids(rows, targets) <=> \E s \in rows : s.uid = r.sup /\ s.block > last
  <2>1. ASSUME NEW u \in targets, r.sup \in LowestUids(DeletedAt(rows, targets, u))
        PROVE  \E s \in rows : s.uid = r.sup /\ s.block > last
    <3>1. PICK s \in rows : s.uid = r.sup /\ s.block > u
      BY <2>1 DEF LowestUids, DeletedAt
    <3>2. s.block \in Nat /\ u \in Nat /\ last \in Nat /\ last <= u
      BY DEF Rows
    <3>. QED BY <3>1, <3>2
  <2>2. ASSUME NEW s \in rows, s.uid = r.sup, s.block > last
        PROVE  r.sup \in ReopenedUids(rows, targets)
    <3>. DEFINE T == {u \in targets : u < s.block}
    <3>1. /\ r.uid \in Nat /\ r.sup \in Nat /\ r.block \in Nat
          /\ s.uid \in Nat /\ s.uid < MaxUid /\ s.block \in Nat
      BY DEF Rows, Chained
    <3>2. s.asset = r.asset /\ r.uid < s.uid
      BY <2>2, <3>1 DEF Chained
    <3>3. T \subseteq Nat /\ T # {} /\ \A u \in T : u <= s.block
      <4>1. \A u \in targets : u \in Nat
        OBVIOUS
      <4>2. last \in T
        BY <2>2
      <4>3. T \subseteq Nat
        BY <4>1
      <4>4. \A u \in T : u <= s.block
        BY <3>1, <4>1
      <4>. HIDE DEF T
      <4>. QED BY <4>2, <4>3, <4>4
    <3>4. PICK u \in T : \A v \in T : v <= u
      <4>. HIDE DEF T
      <4>1. Max(T) \in T /\ \A v \in T : v <= Max(T)
        BY <3>1, <3>3, MaxIsGreatest
      <4>. QED BY <4>1
    <3>5. u \in targets /\ u \in Nat /\ s.block > u
      BY <3>1
    <3>6. \A v \in targets : v > u => s.block <= v
      <4>. SUFFICES ASSUME NEW v \in targets, v > u, ~ (s.block <= v) PROVE FALSE
        OBVIOUS
      <4>1. v \in T
        BY <3>1
      <4>. QED BY <3>4, <3>5, <4>1
    <3>7. s \in DeletedAt(rows, targets, u)
      BY <3>5, <3>6 DEF DeletedAt
    <3>8. ASSUME NEW e \in DeletedAt(rows, targets, u), e.asset = s.asset PROVE s.uid <= e.uid
      <4>1. e \in rows /\ e.block > u /\ e.uid \in Nat /\ e.block \in Nat
        BY DEF DeletedAt, Rows
      <4>2. r.block < e.block
        BY <1>2, <3>1, <3>5, <4>1
      <4>3. ~ (e.uid < r.uid)
        BY <3>1, <4>1, <4>2 DEF InBlockOrder
      <4>4. e.uid # r.uid
        BY <3>1, <4>1, <4>2 DEF Chained
      <4>5. r.uid < e.uid
        BY <3>1, <4>1, <4>3, <4>4
      <4>. QED BY <2>2, <3>2, <3>8, <4>1, <4>5 DEF Chained
    <3>9. r.sup \in LowestUids(DeletedAt(rows, targets, u))
      BY <2>2, <3>7, <3>8 DEF LowestUids
    <3>. QED BY <3>5, <3>9 DEF ReopenedUids
  <2>. QED BY <2>1, <2>2 DEF ReopenedUids
<1>3. \A r \in {q \in rows : q.block <= last} :
        Made(r, ReopenedUids(rows, targets)) = Reopened(r, rows, last)
  BY <1>2 DEF Made, Reopened
<1>4. RollBack(rows, last) = {Reopened(r, rows, last) : r \in {q \in rows : q.block <= last}}
  BY RollBackRows
<1>. QED BY <1>1, <1>3, <1>4, ThroughRows

-----------------------------------------------------------------------------
(* Squashing only renames blocks: it keeps the chains and the block order. *)
Repointed(r, block) == IF r.block > block THEN [r EXCEPT !.block = block] ELSE r

LEMMA RepointRows ==
  ASSUME NEW Assets, NEW rows \in SUBSET Rows(Assets), NEW block \in Nat
  PROVE  /\ Repoint(rows, block) = {Repointed(r, block) : r \in rows}
         /\ \A r \in rows :
              /\ Repointed(r, block) \in Rows(Assets)
              /\ Repointed(r, block).uid = r.uid
              /\ Repointed(r, block).asset = r.asset
              /\ Repointed(r, block).sup = r.sup
              /\ Repointed(r, block).block = IF r.block > block THEN block ELSE r.block
BY DEF Repoint, Repointed, Rows

LEMMA RepointType ==
  ASSUME NEW Assets, NEW rows \in SUBSET Rows(Assets), NEW block \in Nat
  PROVE  Repoint(rows, block) \in SUBSET Rows(Assets)
BY RepointRows

LEMMA RepointChained ==
  ASSUME NEW Assets, NEW rows \in SUBSET Rows(Assets), NEW block \in Nat, Chained(rows)
  PROVE  Chained(Repoint(rows, block))
<1>. DEFINE P(r) == Repointed(r, block)
            New  == {P(r) : r \in rows}
<1>1. Repoint(rows, block) = New
  BY RepointRows
<1>2. ASSUME NEW r \in rows
      PROVE  P(r).uid = r.uid /\ P(r).asset = r.asset /\ P(r).sup = r.sup
  BY RepointRows
<1>. HIDE DEF P
<1>3. ASSUME NEW r \in New, NEW s \in New, r.uid = s.uid PROVE r = s
  BY <1>2, <1>3 DEF Chained
<1>4. ASSUME NEW r \in New PROVE r.uid < MaxUid
  BY <1>2 DEF Chained
<1>5. ASSUME NEW r \in New, r.sup # MaxUid
      PROVE  \E s \in New : s.uid = r.sup /\ s.asset = r.asset /\ r.uid < s.uid
  <2>1. PICK p \in rows : r = P(p)
    OBVIOUS
  <2>2. PICK q \in rows : q.uid = p.sup /\ q.asset = p.asset /\ p.uid < q.uid
    BY <1>2, <1>5, <2>1 DEF Chained
  <2>. QED BY <1>2, <2>1, <2>2
<1>6. ASSUME NEW r \in New, NEW s \in New, r.asset = s.asset, r.uid < s.uid
      PROVE  r.sup <= s.uid
  BY <1>2, <1>6 DEF Chained
<1>. HIDE DEF New
<1>. QED BY <1>1, <1>3, <1>4, <1>5, <1>6 DEF Chained

LEMMA RepointInBlockOrder ==
  ASSUME NEW Assets, NEW rows \in SUBSET Rows(Assets), NEW block \in Nat, InBlockOrder(rows)
  PROVE  InBlockOrder(Repoint(rows, block))
<1>1. ASSUME NEW r \in rows, NEW s \in rows, r.uid < s.uid
      PROVE  Repointed(r, block).block <= Repointed(s, block).block
  <2>1. r.block \in Nat /\ s.block \in Nat /\ r.block <= s.block
    BY <1>1 DEF Rows, InBlockOrder
  <2>2. /\ Repointed(r, block).block = IF r.block > block THEN block ELSE r.block
        /\ Repointed(s, block).block = IF s.block > block THEN block ELSE s.block
    BY RepointRows
  <2>. QED BY <2>1, <2>2
<1>2. Repoint(rows, block) = {Repointed(r, block) : r \in rows}
  BY RepointRows
<1>3. ASSUME NEW r \in rows PROVE Repointed(r, block).uid = r.uid
  BY DEF Repointed, Rows
<1>. QED BY <1>1, <1>2, <1>3 DEF InBlockOrder

(* Extending keeps the block order when the batch's blocks are in order    *)
(* and no older than the blocks the table knows.                           *)
LEMMA ExtendInBlockOrder ==
  ASSUME NEW Assets, NEW rows \in SUBSET Rows(Assets), InBlockOrder(rows),
         NEW us, Updates(us, Assets), NEW base \in Nat,
         \A r \in rows : r.uid < base,
         \A r \in rows, i \in DOMAIN us : r.block <= us[i].block,
         \A i, j \in DOMAIN us : i <= j => us[i].block <= us[j].block
  PROVE  InBlockOrder(Extend(rows, us, base))
<1>. DEFINE C(r) == Closed(r, us, base)
            N(i) == NewRow(us, base, i)
<1>1. Extend(rows, us, base) = {C(r) : r \in rows} \cup {N(i) : i \in DOMAIN us}
  BY ExtendRows
<1>2. ASSUME NEW r \in rows
      PROVE  C(r).uid = r.uid /\ C(r).block = r.block /\ r.uid < base /\ r.uid \in Nat
  <2>1. /\ C(r) \in Rows(Assets)
        /\ C(r).uid = r.uid /\ C(r).asset = r.asset /\ C(r).block = r.block
        /\ C(r).sup = IF r.sup = MaxUid THEN SupersededBy(us, r.asset, 0, base) ELSE r.sup
    BY ClosedFields
  <2>. QED BY <2>1 DEF Rows
<1>3. ASSUME NEW i \in DOMAIN us
      PROVE  N(i).uid = base + i - 1 /\ N(i).block = us[i].block /\ i \in Nat /\ i >= 1
  BY DEF NewRow, Updates
<1>. HIDE DEF C, N
<1>. QED BY <1>1, <1>2, <1>3 DEF InBlockOrder


-----------------------------------------------------------------------------
(* The block rows. *)
(* A batch of appends. *)
Batch(bs, Ids) ==
  /\ Len(bs) \in Nat
  /\ DOMAIN bs = 1..Len(bs)
  /\ \A i \in DOMAIN bs : bs[i].id \in Ids /\ bs[i].height \in Nat /\ bs[i].key \in BOOLEAN

(* Its ids are new, and so its rows are the batch itself. *)
NewIds(blocks, bs) ==
  /\ \A i \in DOMAIN bs : bs[i].id \notin StoredIds(blocks)
  /\ \A i, j \in DOMAIN bs : bs[i].id = bs[j].id => i = j

Appended(bs, seq, i) ==
  [uid |-> seq + i - 1, id |-> bs[i].id, height |-> bs[i].height, key |-> bs[i].key]

LEMMA UpsertRows ==
  ASSUME NEW Ids, NEW blocks, NEW bs, Batch(bs, Ids), NEW seq, NewIds(blocks, bs)
  PROVE  Upsert(blocks, bs, seq) = blocks \cup {Appended(bs, seq, i) : i \in DOMAIN bs}
<1>1. {k \in DOMAIN bs : IsNew(blocks, bs, k)} = DOMAIN bs
  <2>1. ASSUME NEW k \in DOMAIN bs PROVE IsNew(blocks, bs, k)
    <3>1. ASSUME NEW j \in DOMAIN bs, j < k, bs[j].id = bs[k].id PROVE FALSE
      <4>1. j = k
        BY <3>1 DEF NewIds
      <4>2. j \in Nat /\ k \in Nat
        BY DEF Batch
      <4>. QED BY <3>1, <4>1, <4>2
    <3>. QED BY <3>1 DEF IsNew, NewIds
  <2>. QED BY <2>1
<1>. QED BY <1>1 DEF Upsert, Appended

LEMMA AppendedFields ==
  ASSUME NEW Ids, NEW bs, Batch(bs, Ids), NEW seq \in Nat, NEW i \in DOMAIN bs
  PROVE  /\ Appended(bs, seq, i) \in BlockRows(Ids)
         /\ seq <= Appended(bs, seq, i).uid
         /\ Appended(bs, seq, i).uid < seq + Len(bs)
         /\ Appended(bs, seq, i).uid = seq + i - 1
         /\ Appended(bs, seq, i).id = bs[i].id
         /\ Appended(bs, seq, i).height = bs[i].height
         /\ Appended(bs, seq, i).key = bs[i].key
<1>1. i \in Nat /\ 1 <= i /\ i <= Len(bs) /\ Len(bs) \in Nat
  BY DEF Batch
<1>. QED BY <1>1 DEF Batch, Appended, BlockRows

(* What is read back by id after the insert is the uid the row just got. *)
LEMMA AppendedUid ==
  ASSUME NEW Ids, NEW blocks \in SUBSET BlockRows(Ids), NEW bs, Batch(bs, Ids),
         NEW seq \in Nat, NewIds(blocks, bs), NEW i \in DOMAIN bs
  PROVE  RowOf(Upsert(blocks, bs, seq), bs[i].id) = Appended(bs, seq, i)
<1>1. Appended(bs, seq, i) \in Upsert(blocks, bs, seq) /\ Appended(bs, seq, i).id = bs[i].id
  BY UpsertRows, AppendedFields
<1>2. ASSUME NEW b \in Upsert(blocks, bs, seq), b.id = bs[i].id
      PROVE  b = Appended(bs, seq, i)
  <2>1. b \notin blocks
    BY <1>2 DEF NewIds, StoredIds
  <2>2. PICK j \in DOMAIN bs : b = Appended(bs, seq, j)
    BY <2>1, UpsertRows
  <2>3. bs[j].id = bs[i].id
    BY <1>2, <2>2 DEF Appended
  <2>4. i = j
    BY <2>3 DEF NewIds
  <2>. QED BY <2>2, <2>4
<1>. QED BY <1>1, <1>2 DEF RowOf

-----------------------------------------------------------------------------
(* Key blocks appended at growing heights above a chain without            *)
(* microblocks continue the chain.                                         *)
LEMMA UpsertKeysInOrder ==
  ASSUME NEW Ids, NEW blocks \in SUBSET BlockRows(Ids), NEW bs, Batch(bs, Ids),
         NEW seq \in Nat, NewIds(blocks, bs),
         InChainOrder(blocks), Micros(blocks) = {},
         \A b \in blocks : b.uid < seq,
         \A b \in blocks, i \in DOMAIN bs : b.height < bs[i].height,
         \A i, j \in DOMAIN bs : i < j => bs[i].height < bs[j].height,
         \A i \in DOMAIN bs : bs[i].key
  PROVE  InChainOrder(Upsert(blocks, bs, seq))
<1>. DEFINE A(i) == Appended(bs, seq, i)
            New  == {A(i) : i \in DOMAIN bs}
<1>1. Upsert(blocks, bs, seq) = blocks \cup New
  BY UpsertRows
<1>2. ASSUME NEW i \in DOMAIN bs
      PROVE  /\ i \in Nat /\ A(i).uid = seq + i - 1 /\ seq <= A(i).uid /\ A(i).uid \in Nat
             /\ A(i).id = bs[i].id /\ A(i).height = bs[i].height /\ A(i).key
             /\ A(i).height \in Nat
  <2>1. i \in Nat
    BY DEF Batch
  <2>2. A(i) \in BlockRows(Ids) /\ seq <= A(i).uid
    BY AppendedFields
  <2>3. /\ A(i).uid = seq + i - 1 /\ A(i).id = bs[i].id
        /\ A(i).height = bs[i].height /\ A(i).key = bs[i].key
    BY DEF Appended
  <2>. QED BY <2>1, <2>2, <2>3 DEF BlockRows
<1>3. ASSUME NEW b \in blocks
      PROVE  b.uid \in Nat /\ b.height \in Nat /\ b.uid < seq /\ b.key
  BY DEF BlockRows, Micros
<1>. HIDE DEF A
<1>4. ASSUME NEW b \in blocks \cup New, NEW c \in blocks \cup New, b.uid = c.uid \/ b.id = c.id
      PROVE  b = c
  <2>1. ASSUME b \in blocks, c \in blocks PROVE b = c
    BY <1>4, <2>1 DEF InChainOrder
  <2>2. ASSUME NEW x \in blocks, NEW i \in DOMAIN bs PROVE x.uid # A(i).uid /\ x.id # A(i).id
    BY <1>2, <1>3 DEF NewIds, StoredIds
  <2>3. ASSUME NEW i \in DOMAIN bs, NEW j \in DOMAIN bs, A(i).uid = A(j).uid \/ A(i).id = A(j).id
        PROVE  i = j
    BY <1>2, <2>3 DEF NewIds
  <2>. QED BY <1>4, <2>1, <2>2, <2>3
<1>5. ASSUME NEW b \in blocks \cup New, NEW c \in blocks \cup New, b.uid < c.uid
      PROVE  b.height < c.height
  <2>1. ASSUME b \in blocks, c \in blocks PROVE b.height < c.height
    BY <1>3, <1>5, <2>1 DEF InChainOrder, Keys
  <2>2. ASSUME NEW i \in DOMAIN bs, NEW j \in DOMAIN bs, A(i).uid < A(j).uid
        PROVE  A(i).height < A(j).height
    BY <1>2, <2>2
  <2>3. ASSUME NEW x \in blocks, NEW i \in DOMAIN bs
        PROVE  x.height < A(i).height /\ ~ (A(i).uid < x.uid)
    BY <1>2, <1>3
  <2>. QED BY <1>5, <2>1, <2>2, <2>3
<1>6. Micros(blocks \cup New) = {}
  BY <1>2, <1>3 DEF Micros
<1>. HIDE DEF New
<1>. QED BY <1>1, <1>4, <1>5, <1>6 DEF InChainOrder, Keys

(* A microblock at the height of the tip goes on top of the chain. *)
LEMMA UpsertMicroInOrder ==
  ASSUME NEW Ids, NEW blocks \in SUBSET BlockRows(Ids), NEW bs, Batch(bs, Ids),
         NEW seq \in Nat, NewIds(blocks, bs),
         InChainOrder(blocks), Len(bs) = 1, ~ bs[1].key,
         \A b \in blocks : b.uid < seq /\ b.height <= bs[1].height,
         \E b \in blocks : b.height = bs[1].height
  PROVE  InChainOrder(Upsert(blocks, bs, seq))
<1>. DEFINE m == Appended(bs, seq, 1)
<1>1. DOMAIN bs = {1}
  BY DEF Batch
<1>2. Upsert(blocks, bs, seq) = blocks \cup {m}
  BY <1>1, UpsertRows
<1>3. /\ m.uid = seq /\ m.id = bs[1].id /\ m.height = bs[1].height /\ ~ m.key
      /\ m.height \in Nat /\ m.id \notin StoredIds(blocks)
  <2>1. 1 \in DOMAIN bs
    BY <1>1
  <2>2. m.uid = seq + 1 - 1 /\ m.id = bs[1].id /\ m.height = bs[1].height /\ m.key = bs[1].key
    BY DEF Appended
  <2>. QED BY <2>1, <2>2 DEF NewIds, Batch
<1>4. ASSUME NEW b \in blocks
      PROVE  b.uid \in Nat /\ b.height \in Nat /\ b.uid < seq /\ b.height <= m.height /\ b # m
  BY <1>3 DEF BlockRows
<1>. HIDE DEF m
<1>5. Keys(blocks \cup {m}) = Keys(blocks) /\ Micros(blocks \cup {m}) = Micros(blocks) \cup {m}
  BY <1>3 DEF Keys, Micros
<1>6. \E k \in Keys(blocks) : k.height = m.height
  <2>1. PICK b \in blocks : b.height = m.height
    BY <1>3
  <2>2. CASE b.key
    BY <2>1, <2>2 DEF Keys
  <2>3. CASE ~ b.key
    BY <2>1, <2>3 DEF InChainOrder, Micros
  <2>. QED BY <2>2, <2>3
<1>7. ASSUME NEW b \in blocks \cup {m}, NEW c \in blocks \cup {m}, b.uid = c.uid \/ b.id = c.id
      PROVE  b = c
  <2>1. ASSUME NEW x \in blocks PROVE x.uid # m.uid /\ x.id # m.id
    BY <1>3, <1>4 DEF StoredIds
  <2>2. ASSUME b \in blocks, c \in blocks PROVE b = c
    BY <1>7, <2>2 DEF InChainOrder
  <2>. QED BY <1>7, <2>1, <2>2
<1>8. \A k \in Keys(blocks) : k.uid < m.uid /\ k.height <= m.height
  BY <1>3, <1>4 DEF Keys
<1>. QED BY <1>2, <1>5, <1>6, <1>7, <1>8 DEF InChainOrder

(* Cutting a chain above a row leaves a chain, and everything in it is at  *)
(* most as high as the row.                                                *)
LEMMA CutAboveInOrder ==
  ASSUME NEW Ids, NEW blocks \in SUBSET BlockRows(Ids), InChainOrder(blocks), NEW row \in blocks
  PROVE  /\ InChainOrder(CutAbove(blocks, row.uid))
         /\ \A b \in CutAbove(blocks, row.uid) : b.height <= row.height
<1>. DEFINE Cut == CutAbove(blocks, row.uid)
<1>1. Cut \subseteq blocks /\ \A b \in blocks : b \in Cut <=> b.uid <= row.uid
  BY DEF CutAbove
<1>2. \A b \in blocks : b.uid \in Nat /\ b.height \in Nat
  BY DEF BlockRows
<1>. HIDE DEF Cut
<1>3. ASSUME NEW b \in Cut PROVE b.height <= row.height
  <2>1. b \in blocks /\ b.uid <= row.uid /\ b.uid \in Nat /\ row.uid \in Nat
    BY <1>1, <1>2
  <2>2. CASE b = row
    BY <1>2, <2>2
  <2>3. CASE b.key /\ row.key /\ b # row
    <3>1. b.uid < row.uid
      BY <2>1, <2>3 DEF InChainOrder
    <3>. QED BY <1>2, <2>1, <2>3, <3>1 DEF InChainOrder, Keys
  <2>4. CASE b.key /\ ~ row.key
    BY <2>1, <2>4 DEF InChainOrder, Keys, Micros
  <2>5. CASE ~ b.key /\ row.key
    <3>1. row.uid < b.uid
      BY <2>1, <2>5 DEF InChainOrder, Keys, Micros
    <3>. QED BY <2>1, <3>1
  <2>6. CASE ~ b.key /\ ~ row.key
    <3>1. PICK k \in Keys(blocks) : k.height = b.height
      BY <2>1, <2>6 DEF InChainOrder, Micros
    <3>. QED BY <2>1, <2>6, <3>1 DEF InChainOrder, Keys, Micros
  <2>. QED BY <2>2, <2>3, <2>4, <2>5, <2>6
<1>4. \A m \in Micros(Cut) : \E k \in Keys(Cut) : k.height = m.height
  <2>. TAKE m \in Micros(Cut)
  <2>1. m \in Micros(blocks) /\ m.uid <= row.uid /\ m.uid \in Nat /\ row.uid \in Nat
    BY <1>1, <1>2 DEF Micros
  <2>2. PICK k \in Keys(blocks) : k.height = m.height
    BY <2>1 DEF InChainOrder
  <2>3. k.uid < m.uid /\ k.uid \in Nat /\ k \in blocks
    BY <1>2, <2>1, <2>2 DEF InChainOrder, Keys
  <2>4. k \in Keys(Cut)
    BY <1>1, <2>1, <2>2, <2>3 DEF Keys
  <2>. QED BY <2>2, <2>4
<1>5. Keys(Cut) \subseteq Keys(blocks) /\ Micros(Cut) \subseteq Micros(blocks)
  BY <1>1 DEF Keys, Micros
<1>6. InChainOrder(Cut)
  BY <1>1, <1>4, <1>5 DEF InChainOrder
<1>. QED BY <1>3, <1>6 DEF Cut

-----------------------------------------------------------------------------
(* What the queries for a largest or smallest row return. *)
LEMMA KeyUidIsGreatest ==
  ASSUME NEW Ids, NEW blocks \in SUBSET BlockRows(Ids), NEW seq \in Nat,
         \A b \in blocks : b.uid < seq, Keys(blocks) # {}
  PROVE  /\ KeyUid(blocks) \in Uids(Keys(blocks))
         /\ KeyUid(blocks) \in Nat
         /\ KeyUid(blocks) < seq
         /\ \A k \in Keys(blocks) : k.uid <= KeyUid(blocks)
<1>. DEFINE U == Uids(Keys(blocks))
<1>1. U \subseteq Nat /\ U # {} /\ \A u \in U : u < seq /\ u <= seq
  BY DEF Uids, Keys, BlockRows
<1>2. Max(U) \in U /\ \A u \in U : u <= Max(U)
  <2>. HIDE DEF U
  <2>. QED BY <1>1, MaxIsGreatest
<1>. QED BY <1>1, <1>2 DEF KeyUid, Uids

LEMMA LastMicroStored ==
  ASSUME NEW Ids, NEW blocks \in SUBSET BlockRows(Ids), NEW seq \in Nat,
         \A b \in blocks : b.uid < seq, Micros(blocks) # {}
  PROVE  /\ LastMicro(blocks) \in Micros(blocks)
         /\ \A n \in Micros(blocks) : n.uid <= LastMicro(blocks).uid
<1>. DEFINE U == Uids(Micros(blocks))
<1>1. U \subseteq Nat /\ U # {} /\ \A u \in U : u <= seq
  BY DEF Uids, Micros, BlockRows
<1>2. Max(U) \in U /\ \A u \in U : u <= Max(U)
  <2>. HIDE DEF U
  <2>. QED BY <1>1, MaxIsGreatest
<1>3. PICK m \in Micros(blocks) : m.uid = Max(U)
  BY <1>2 DEF Uids
<1>4. \A n \in Micros(blocks) : n.uid <= m.uid
  BY <1>2, <1>3 DEF Uids
<1>. QED BY <1>4 DEF LastMicro

LEMMA CurrentHeightIsGreatest ==
  ASSUME NEW Ids, NEW blocks \in SUBSET BlockRows(Ids), NEW bound \in Nat,
         \A b \in blocks : b.height < bound
  PROVE  /\ CurrentHeight(blocks) \in Nat
         /\ \A b \in blocks : b.height <= CurrentHeight(blocks)
         /\ blocks # {} => \E b \in blocks : b.height = CurrentHeight(blocks)
<1>. DEFINE H == Heights(blocks) \cup {0}
<1>1. H \subseteq Nat /\ H # {} /\ \A h \in H : h <= bound
  BY DEF Heights, BlockRows
<1>2. Max(H) \in H /\ \A h \in H : h <= Max(H)
  <2>. HIDE DEF H
  <2>. QED BY <1>1, MaxIsGreatest
<1>3. \A b \in blocks : b.height \in H /\ b.height \in Nat
  BY DEF Heights, BlockRows
<1>4. ASSUME NEW c \in blocks PROVE \E b \in blocks : b.height = Max(H)
  <2>1. CASE Max(H) \in Heights(blocks)
    BY <2>1 DEF Heights
  <2>2. CASE Max(H) = 0
    <3>1. c.height \in Nat /\ c.height <= 0
      BY <1>2, <1>3, <2>2
    <3>. QED BY <2>2, <3>1
  <2>. QED BY <1>2, <2>1, <2>2
<1>. QED BY <1>1, <1>2, <1>3, <1>4 DEF CurrentHeight

LEMMA LowestRowStored ==
  ASSUME NEW Ids, NEW rows \in SUBSET BlockRows(Ids), rows # {}
  PROVE  LowestRow(rows) \in rows /\ \A c \in rows : LowestRow(rows).uid <= c.uid
<1>. DEFINE U == {b.uid : b \in rows}
<1>1. U \subseteq Nat /\ U # {}
  BY DEF BlockRows
<1>2. PICK u \in U : \A v \in U : u <= v
  <2>. HIDE DEF U
  <2>. QED BY <1>1, LeastExists
<1>3. PICK b \in rows : u = b.uid
  OBVIOUS
<1>4. \A c \in rows : b.uid <= c.uid
  BY <1>2, <1>3
<1>. QED BY <1>4 DEF LowestRow

LEMMA ResumeRowStored ==
  ASSUME NEW Ids, NEW blocks \in SUBSET BlockRows(Ids), NEW depth, NEW step,
         ResumeRows(blocks, depth, step) # {}
  PROVE  /\ ResumeRow(blocks, depth, step) \in ResumeRows(blocks, depth, step)
         /\ ResumeRow(blocks, depth, step) \in blocks
<1>1. ResumeRows(blocks, depth, step) \subseteq blocks
  BY DEF ResumeRows
<1>. QED BY <1>1, LowestRowStored DEF ResumeRow

-----------------------------------------------------------------------------
(* Squashing keeps the chain of key blocks, with their uids and heights,   *)
(* and drops the microblocks.                                              *)
LEMMA SquashInOrder ==
  ASSUME NEW Ids, NEW blocks \in SUBSET BlockRows(Ids), NEW seq \in Nat,
         InChainOrder(blocks), \A b \in blocks : b.uid < seq
  PROVE  /\ Squash(blocks) \in SUBSET BlockRows(Ids)
         /\ InChainOrder(Squash(blocks))
         /\ Micros(Squash(blocks)) = {}
         /\ Uids(Squash(blocks)) = Uids(Keys(blocks))
         /\ StoredIds(Squash(blocks)) \subseteq StoredIds(blocks)
         /\ \A b \in Squash(blocks) :
              \E c \in Keys(blocks) : c.uid = b.uid /\ c.height = b.height
<1>1. CASE Micros(blocks) = {}
  <2>1. Squash(blocks) = blocks /\ Keys(blocks) = blocks
    BY <1>1 DEF Squash, Keys, Micros
  <2>. QED BY <1>1, <2>1
<1>2. CASE Micros(blocks) # {}
  <2>. DEFINE id   == LastMicro(blocks).id
              S(b) == IF b.uid = KeyUid(blocks) THEN [b EXCEPT !.id = id] ELSE b
              New  == {S(b) : b \in Keys(blocks)}
  <2>1. Squash(blocks) = New
    BY <1>2 DEF Squash
  <2>2. LastMicro(blocks) \in Micros(blocks)
    BY <1>2, LastMicroStored
  <2>3. id \in Ids /\ id \in StoredIds(blocks)
    BY <2>2 DEF Micros, BlockRows, StoredIds
  <2>4. ASSUME NEW b \in Keys(blocks)
        PROVE  /\ b \in blocks /\ b.uid \in Nat /\ b.height \in Nat
               /\ S(b) \in BlockRows(Ids)
               /\ S(b).uid = b.uid /\ S(b).height = b.height /\ S(b).key
               /\ S(b).id = IF b.uid = KeyUid(blocks) THEN id ELSE b.id
    BY <2>3 DEF Keys, BlockRows
  <2>5. ASSUME NEW b \in Keys(blocks) PROVE b.id # id
    <3>1. LastMicro(blocks) \in blocks /\ ~ LastMicro(blocks).key /\ b.key /\ b \in blocks
      BY <2>2 DEF Keys, Micros
    <3>2. b # LastMicro(blocks)
      BY <3>1
    <3>. QED BY <3>1, <3>2 DEF InChainOrder
  <2>. HIDE DEF S, id
  <2>6. ASSUME NEW b \in Keys(blocks), NEW c \in Keys(blocks),
               S(b).uid = S(c).uid \/ S(b).id = S(c).id
        PROVE  b = c
    BY <2>4, <2>5, <2>6 DEF InChainOrder
  <2>7. \A b \in New : b.key
    BY <2>4
  <2>8. Keys(New) = New /\ Micros(New) = {}
    BY <2>7 DEF Keys, Micros
  <2>9. ASSUME NEW b \in New, NEW c \in New, b.uid < c.uid PROVE b.height < c.height
    BY <2>4, <2>9 DEF InChainOrder
  <2>10. ASSUME NEW b \in New, NEW c \in New, b.uid = c.uid \/ b.id = c.id PROVE b = c
    BY <2>6, <2>10
  <2>11. InChainOrder(New)
    BY <2>8, <2>9, <2>10 DEF InChainOrder
  <2>12. Uids(New) = Uids(Keys(blocks))
    BY <2>4 DEF Uids
  <2>13. StoredIds(New) \subseteq StoredIds(blocks)
    BY <2>3, <2>4 DEF StoredIds
  <2>14. New \in SUBSET BlockRows(Ids)
    BY <2>4
  <2>15. \A b \in New : \E c \in Keys(blocks) : c.uid = b.uid /\ c.height = b.height
    BY <2>4
  <2>. HIDE DEF New
  <2>. QED BY <2>1, <2>8, <2>11, <2>12, <2>13, <2>14, <2>15
<1>. QED BY <1>1, <1>2

=============================================================================
