-------------------------- MODULE ChainIndexProofs --------------------------
(***************************************************************************)
(* ChainIndex keeps one chain of blocks, its references, dcc rows and      *)
(* origins, for any number of assets, blocks, batches and rollbacks, and   *)
(* also when the stream repeats blocks.  As long as it does not, it keeps  *)
(* one chain of versions per asset and ticker too, and implements          *)
(* SnapshotLedger.                                                         *)
(***************************************************************************)
EXTENDS ChainIndex, TableProofs, SequenceTheorems, FiniteSetTheorems

(* The inductive invariant.  VersionChain alone is not inductive: a        *)
(* rollback keeps the chains only because the rows above a block are the   *)
(* newest ones (RowsInBlockOrder), an append keeps that order only because *)
(* rows refer to stored blocks (RowsRefer) below the next block uid        *)
(* (OneChain), and the rows it adds come after all others (UidsBelow).     *)
UidsBelow ==
  /\ \A r \in assets : r.uid < assetSeq
  /\ \A r \in tickers : r.uid < tickerSeq

RowsRefer == \A r \in assets \cup tickers : r.block \in Uids(blocks)

DccRefers == \A d \in dcc : d.block \in Uids(Keys(blocks))

IInv ==
  /\ TypeOK
  /\ OneChain
  /\ VersionChain
  /\ RowsInBlockOrder
  /\ UidsBelow
  /\ RowsRefer
  /\ DccRefers


LEMMA LenOfFunction ==
  ASSUME NEW S, NEW n \in Nat, NEW f \in [1..n -> S]
  PROVE  f \in Seq(S) /\ Len(f) = n /\ DOMAIN f = 1..n
<1>1. f \in Seq(S)
  OBVIOUS
<1>2. Len(f) \in Nat /\ DOMAIN f = 1..Len(f)
  BY <1>1, LenProperties
<1>3. Len(f) = n
  BY <1>2
<1>. QED BY <1>1, <1>3

LEMMA TouchesType ==
  ASSUME NEW bs, NEW max \in Nat, NEW us \in Touches(bs, max)
  PROVE  /\ Len(us) \in Nat /\ DOMAIN us = 1..Len(us)
         /\ \A i \in DOMAIN us : us[i].asset \in Assets /\ us[i].at \in DOMAIN bs
         /\ \A i, j \in DOMAIN us : i <= j => us[i].at <= us[j].at
<1>1. PICK n \in 0..max : us \in [1..n -> [asset : Assets, at : DOMAIN bs]]
  BY DEF Touches
<1>2. n \in Nat
  BY <1>1
<1>3. Len(us) = n /\ DOMAIN us = 1..n
  BY <1>1, <1>2, LenOfFunction
<1>4. \A i, j \in DOMAIN us : i <= j => us[i].at <= us[j].at
  BY DEF Touches
<1>. QED BY <1>1, <1>2, <1>3, <1>4

-----------------------------------------------------------------------------
(* The versioned tables over one append: what a batch locates in its       *)
(* blocks is an ordered batch of updates at blocks above the stored ones.  *)
LEMMA LocatedUpdates ==
  ASSUME NEW stored \in SUBSET BlockRows(Ids), NEW bs, Batch(bs, Ids), NEW seq \in Nat,
         NewIds(stored, bs), NEW max \in Nat, NEW us \in Touches(bs, max)
  PROVE  LET ls == Located(us, bs, Upsert(stored, bs, seq))
         IN  /\ Updates(ls, Assets)
             /\ Len(ls) = Len(us)
             /\ \A i \in DOMAIN ls :
                  /\ seq <= ls[i].block /\ ls[i].block < seq + Len(bs)
                  /\ ls[i].block \in Uids(Upsert(stored, bs, seq))
             /\ \A i, j \in DOMAIN ls : i <= j => ls[i].block <= ls[j].block
<1>. DEFINE rows == Upsert(stored, bs, seq)
            ls == Located(us, bs, rows)
<1>1. /\ Len(us) \in Nat /\ DOMAIN us = 1..Len(us)
      /\ \A i \in DOMAIN us : us[i].asset \in Assets /\ us[i].at \in DOMAIN bs
      /\ \A i, j \in DOMAIN us : i <= j => us[i].at <= us[j].at
  BY TouchesType, Zenon
<1>2. ASSUME NEW k \in DOMAIN bs
      PROVE  /\ RowOf(rows, bs[k].id).uid = seq + k - 1
             /\ RowOf(rows, bs[k].id).uid \in Uids(rows)
             /\ k \in Nat /\ seq + k - 1 \in Nat
             /\ seq <= seq + k - 1 /\ seq + k - 1 < seq + Len(bs)
  <2>1. RowOf(rows, bs[k].id) = Appended(bs, seq, k)
    BY AppendedUid
  <2>2. Appended(bs, seq, k) \in rows
    BY UpsertRows
  <2>3. k \in Nat /\ k >= 1 /\ k <= Len(bs) /\ Len(bs) \in Nat
    BY DEF Batch
  <2>4. Appended(bs, seq, k).uid = seq + k - 1
    BY DEF Appended
  <2>. QED BY <2>1, <2>2, <2>3, <2>4 DEF Uids
<1>. HIDE DEF rows
<1>3. DOMAIN ls = DOMAIN us
  BY DEF Located
<1>4. ASSUME NEW i \in DOMAIN us
      PROVE  /\ ls[i] = [asset |-> us[i].asset, block |-> seq + us[i].at - 1]
             /\ ls[i].asset \in Assets /\ ls[i].block = seq + us[i].at - 1
             /\ ls[i].block \in Nat
             /\ seq <= ls[i].block /\ ls[i].block < seq + Len(bs)
             /\ ls[i].block \in Uids(rows)
  <2>1. us[i].at \in DOMAIN bs /\ us[i].asset \in Assets
    BY <1>1
  <2>2. ls[i] = [asset |-> us[i].asset, block |-> RowOf(rows, bs[us[i].at].id).uid]
    BY DEF Located
  <2>. QED BY <1>2, <2>1, <2>2
<1>5. Len(ls) = Len(us)
  <2>1. ls \in [1..Len(us) -> {ls[i] : i \in DOMAIN us}]
    BY <1>1, <1>3 DEF Located
  <2>. QED BY <1>1, <2>1, LenOfFunction
<1>6. ASSUME NEW i \in DOMAIN ls, NEW j \in DOMAIN ls, i <= j
      PROVE  ls[i].block <= ls[j].block
  <2>1. us[i].at <= us[j].at /\ us[i].at \in Nat /\ us[j].at \in Nat
    BY <1>1, <1>2, <1>3, <1>6
  <2>. QED BY <1>3, <1>4, <2>1
<1>7. Updates(ls, Assets)
  BY <1>1, <1>3, <1>4, <1>5 DEF Updates
<1>. HIDE DEF ls
<1>. QED BY <1>3, <1>4, <1>5, <1>6, <1>7 DEF ls, rows

(* A table of the index: typed, chained, in block order, with uids below   *)
(* its sequence and blocks among the given ones.                           *)
Table(rows, seq, uids) ==
  /\ rows \in SUBSET Rows(Assets)
  /\ Chained(rows)
  /\ InBlockOrder(rows)
  /\ \A r \in rows : r.uid < seq
  /\ \A r \in rows : r.block \in uids

LEMMA ExtendTable ==
  ASSUME NEW stored \in SUBSET BlockRows(Ids), NEW bs, Batch(bs, Ids), NEW seq \in Nat,
         NewIds(stored, bs), \A b \in stored : b.uid < seq,
         NEW max \in Nat, NEW us \in Touches(bs, max),
         NEW rows, NEW base \in Nat, Table(rows, base, Uids(stored)),
         base + Len(us) <= MaxUid
  PROVE  Table(Extend(rows, Located(us, bs, Upsert(stored, bs, seq)), base),
               base + Len(us), Uids(Upsert(stored, bs, seq)))
<1>. DEFINE ls == Located(us, bs, Upsert(stored, bs, seq))
            ext == Extend(rows, ls, base)
            all == Uids(Upsert(stored, bs, seq))
<1>1. /\ Updates(ls, Assets)
      /\ Len(ls) = Len(us)
      /\ \A i \in DOMAIN ls : seq <= ls[i].block /\ ls[i].block \in all
      /\ \A i, j \in DOMAIN ls : i <= j => ls[i].block <= ls[j].block
  BY LocatedUpdates
<1>2. Uids(stored) \subseteq all
  BY DEF Uids, Upsert
<1>. HIDE DEF ls, all
<1>3. rows \in SUBSET Rows(Assets) /\ Chained(rows) /\ InBlockOrder(rows)
  BY DEF Table
<1>4. \A r \in rows : r.uid < base
  BY DEF Table
<1>5. ASSUME NEW r \in rows PROVE r.block \in all /\ r.block < seq /\ r.block \in Nat
  BY <1>2, <1>3 DEF Table, Uids, Rows
<1>6. \A r \in rows, i \in DOMAIN ls : r.block <= ls[i].block
  <2>. TAKE r \in rows, i \in DOMAIN ls
  <2>1. ls[i].block \in Nat /\ seq <= ls[i].block
    BY <1>1 DEF Updates
  <2>. QED BY <1>5, <2>1
<1>7. ext \in SUBSET Rows(Assets)
  BY <1>1, <1>3, ExtendType
<1>8. Chained(ext)
  BY <1>1, <1>3, <1>4, ExtendChained
<1>9. InBlockOrder(ext)
  BY <1>1, <1>3, <1>4, <1>6, ExtendInBlockOrder
<1>10. ASSUME NEW x \in ext PROVE x.uid < base + Len(us) /\ x.block \in all
  <2>1. ASSUME NEW r \in rows, x = Closed(r, ls, base)
        PROVE  x.uid < base + Len(us) /\ x.block \in all
    <3>1. x.uid = r.uid /\ x.block = r.block
      BY <2>1, <1>3 DEF Closed, Rows
    <3>2. r.uid \in Nat /\ r.uid < base /\ Len(us) \in Nat
      BY <1>1, <1>3, <1>4 DEF Rows, Updates
    <3>. QED BY <1>5, <3>1, <3>2
  <2>2. ASSUME NEW i \in DOMAIN ls, x = NewRow(ls, base, i)
        PROVE  x.uid < base + Len(us) /\ x.block \in all
    <3>1. x.uid = base + i - 1 /\ x.block = ls[i].block
      BY <2>2 DEF NewRow
    <3>2. i \in Nat /\ i <= Len(us) /\ Len(us) \in Nat
      BY <1>1 DEF Updates
    <3>. QED BY <1>1, <3>1, <3>2
  <2>3. x \in {Closed(r, ls, base) : r \in rows} \cup {NewRow(ls, base, i) : i \in DOMAIN ls}
    BY ExtendRows
  <2>. QED BY <2>1, <2>2, <2>3
<1>. HIDE DEF ext
<1>11. Table(ext, base + Len(us), all)
  BY <1>7, <1>8, <1>9, <1>10 DEF Table
<1>. QED BY <1>11 DEF ext, ls, all

LEMMA RepointTable ==
  ASSUME NEW rows, NEW seq \in Nat, NEW uids, Table(rows, seq, uids),
         NEW kept, kept \subseteq uids, NEW block \in kept, block \in Nat,
         \A u \in uids : u \in Nat, \A u \in kept : u <= block,
         \A u \in uids : u <= block => u \in kept
  PROVE  Table(Repoint(rows, block), seq, kept)
<1>1. rows \in SUBSET Rows(Assets) /\ Chained(rows) /\ InBlockOrder(rows)
  BY DEF Table
<1>2. /\ Repoint(rows, block) \in SUBSET Rows(Assets)
      /\ Chained(Repoint(rows, block))
      /\ InBlockOrder(Repoint(rows, block))
  BY <1>1, RepointType, RepointChained, RepointInBlockOrder
<1>3. ASSUME NEW x \in Repoint(rows, block) PROVE x.uid < seq /\ x.block \in kept
  <2>1. PICK r \in rows : x = Repointed(r, block)
    BY DEF Repoint, Repointed
  <2>2. x.uid = r.uid /\ x.block = IF r.block > block THEN block ELSE r.block
    BY <1>1, <2>1 DEF Repointed, Rows
  <2>3. r.uid < seq /\ r.block \in uids /\ r.block \in Nat
    BY DEF Table
  <2>4. r.block > block \/ r.block <= block
    BY <2>3
  <2>. QED BY <2>2, <2>3, <2>4
<1>. QED BY <1>2, <1>3 DEF Table

LEMMA RollBackTable ==
  ASSUME NEW rows, NEW seq \in Nat, NEW uids, Table(rows, seq, uids), NEW block \in Nat
  PROVE  Table(RollBack(rows, block), seq, {u \in uids : u <= block})
<1>1. rows \in SUBSET Rows(Assets) /\ Chained(rows) /\ InBlockOrder(rows)
  BY DEF Table
<1>2. /\ RollBack(rows, block) \in SUBSET Rows(Assets)
      /\ Chained(RollBack(rows, block))
      /\ InBlockOrder(RollBack(rows, block))
  BY <1>1, RollBackType, RollBackChained, RollBackInBlockOrder
<1>3. ASSUME NEW x \in RollBack(rows, block)
      PROVE  x.uid < seq /\ x.block \in uids /\ x.block <= block
  <2>1. PICK r \in rows : r.block <= block /\ x = Reopened(r, rows, block)
    BY <1>1, RollBackRows
  <2>2. x.uid = r.uid /\ x.block = r.block
    BY <1>1, <2>1 DEF Reopened, Rows
  <2>. QED BY <2>1, <2>2 DEF Table
<1>. QED BY <1>2, <1>3 DEF Table

(* The blocks of a rollback, and the one it ends at.                       *)
LEMMA RowsRolledBackTo ==
  ASSUME NEW bl \in SUBSET BlockRows(Ids), NEW rs \in SUBSET bl, rs # {}
  PROVE  /\ LowestRow(rs) \in bl
         /\ LowestRow(rs).uid \in Nat /\ LowestRow(rs).height \in Nat
         /\ Uids(rs) \in SUBSET Nat /\ LowestRow(rs).uid \in Uids(rs)
         /\ \A u \in Uids(rs) : LowestRow(rs).uid <= u
<1>1. LowestRow(rs) \in rs /\ \A c \in rs : LowestRow(rs).uid <= c.uid
  BY LowestRowStored
<1>2. \A b \in bl : b.uid \in Nat /\ b.height \in Nat
  BY DEF BlockRows
<1>. QED BY <1>1, <1>2 DEF Uids

LEMMA OneRow ==
  ASSUME NEW id, HandleRollback(id)
  PROVE  {RowOf(blocks, id)} \in SUBSET blocks
<1>1. \E b \in blocks : b.id = id
  BY DEF HandleRollback, StoredIds
<1>. QED BY <1>1 DEF RowOf

(* A resume leaves the index alone or rolls it back.                       *)
LEMMA ResumeRollsBack ==
  ASSUME Resume
  PROVE  \/ UNCHANGED vars
         \/ \E rs \in SUBSET blocks : rs # {} /\ RollBackTo(rs)
<1>1. ResumeRows(blocks, Depth, Step) \in SUBSET blocks
  BY DEF ResumeRows
<1>2. CASE ResumeRows(blocks, Depth, Step) = {}
  BY <1>2 DEF Resume
<1>3. CASE ResumeRows(blocks, Depth, Step) # {}
  BY <1>1, <1>3 DEF Resume
<1>. QED BY <1>2, <1>3

(* On chained versions the rollback through several blocks is the one to   *)
(* the last.                                                               *)
LEMMA RollBackEndsAt ==
  ASSUME IInv, NEW rs \in SUBSET blocks, rs # {}, RollBackTo(rs)
  PROVE  /\ assets' = RollBack(assets, LowestRow(rs).uid)
         /\ tickers' = RollBack(tickers, LowestRow(rs).uid)
<1>1. blocks \in SUBSET BlockRows(Ids)
      /\ assets \in SUBSET Rows(Assets) /\ Chained(assets) /\ InBlockOrder(assets)
      /\ tickers \in SUBSET Rows(Assets) /\ Chained(tickers) /\ InBlockOrder(tickers)
  BY DEF IInv, TypeOK, VersionChain, RowsInBlockOrder
<1>2. /\ Uids(rs) \in SUBSET Nat /\ LowestRow(rs).uid \in Uids(rs)
      /\ \A u \in Uids(rs) : LowestRow(rs).uid <= u
  BY <1>1, RowsRolledBackTo
<1>3. /\ assets' = RollBackThrough(assets, Uids(rs))
      /\ tickers' = RollBackThrough(tickers, Uids(rs))
  BY DEF RollBackTo
<1>4. assets' = RollBack(assets, LowestRow(rs).uid)
  BY <1>1, <1>2, <1>3, RollBackThroughLast
<1>5. tickers' = RollBack(tickers, LowestRow(rs).uid)
  BY <1>1, <1>2, <1>3, RollBackThroughLast
<1>. QED BY <1>4, <1>5

LEMMA TablesOfInvariant ==
  IInv <=> /\ TypeOK
           /\ OneChain
           /\ DccRefers
           /\ Table(assets, assetSeq, Uids(blocks))
           /\ Table(tickers, tickerSeq, Uids(blocks))
BY DEF IInv, TypeOK, VersionChain, RowsInBlockOrder, UidsBelow, RowsRefer, Table

-----------------------------------------------------------------------------
(* handle_appends keeps the tables, whatever squashing left it. *)
LEMMA AppendsKeepTables ==
  ASSUME TypeOK, NEW bs, Batch(bs, Ids),
         NEW stored \in SUBSET BlockRows(Ids), NewIds(stored, bs),
         \A b \in stored : b.uid < blockSeq,
         NEW assets0, Table(assets0, assetSeq, Uids(stored)),
         NEW tickers0, Table(tickers0, tickerSeq, Uids(stored)),
         \A d \in dcc : d.block \in Uids(Keys(stored)),
         NEW us \in Touches(bs, MaxUps), NEW ts \in Touches(bs, MaxTickerUps),
         Appends(bs, us, ts, stored, assets0, tickers0)
  PROVE  /\ Table(assets', assetSeq', Uids(blocks'))
         /\ Table(tickers', tickerSeq', Uids(blocks'))
         /\ blocks' = Upsert(stored, bs, blockSeq)
         /\ blocks' \in SUBSET BlockRows(Ids)
         /\ \A b \in blocks' : b.uid < blockSeq'
         /\ blockSeq' \in Nat /\ assetSeq' \in Nat /\ tickerSeq' \in Nat
         /\ origins' \subseteq [asset : Assets, first : Nat]
         /\ dcc' \subseteq [height : Nat, block : Nat]
         /\ DccRefers'
<1>1. /\ blockSeq \in Nat /\ assetSeq \in Nat /\ tickerSeq \in Nat
      /\ MaxUps \in Nat /\ MaxTickerUps \in Nat
  BY IndexAssumption DEF TypeOK
<1>2. /\ Len(us) \in Nat /\ Len(ts) \in Nat /\ Len(bs) \in Nat
      /\ \A i \in DOMAIN us : us[i].asset \in Assets
      /\ DOMAIN us = 1..Len(us)
  BY <1>1, TouchesType DEF Batch
<1>3. /\ blocks' = Upsert(stored, bs, blockSeq) /\ blockSeq' = blockSeq + Len(bs)
      /\ assets' = Extend(assets0, Located(us, bs, blocks'), assetSeq)
      /\ assetSeq' = assetSeq + Len(us) /\ assetSeq + Len(us) <= MaxUid
      /\ tickers' = Extend(tickers0, Located(ts, bs, blocks'), tickerSeq)
      /\ tickerSeq' = tickerSeq + Len(ts) /\ tickerSeq + Len(ts) <= MaxUid
      /\ origins' = origins \cup NewOrigins(us)
      /\ dcc' = IF AssetsOnly THEN dcc ELSE MintedDcc(bs, blocks')
  BY DEF Appends
<1>4. Table(assets', assetSeq', Uids(blocks'))
  BY <1>1, <1>3, ExtendTable
<1>5. Table(tickers', tickerSeq', Uids(blocks'))
  BY <1>1, <1>3, ExtendTable
<1>6. blockSeq' \in Nat /\ assetSeq' \in Nat /\ tickerSeq' \in Nat
  BY <1>1, <1>2, <1>3
<1>7. ASSUME NEW b \in blocks' PROVE b \in BlockRows(Ids) /\ b.uid < blockSeq'
  <2>1. CASE b \in stored
    <3>1. b.uid \in Nat /\ b.uid < blockSeq
      BY <2>1 DEF BlockRows
    <3>. QED BY <1>1, <1>2, <1>3, <2>1, <3>1
  <2>2. ASSUME NEW i \in DOMAIN bs, b = Appended(bs, blockSeq, i)
        PROVE  b \in BlockRows(Ids) /\ b.uid < blockSeq'
    BY <1>1, <1>3, <2>2, AppendedFields
  <2>. QED BY <1>3, <2>1, <2>2, UpsertRows
<1>8. origins' \subseteq [asset : Assets, first : Nat]
  <2>1. ASSUME NEW i \in DOMAIN us
        PROVE  [asset |-> us[i].asset, first |-> SupersededBy(us, us[i].asset, 0, assetSeq)]
                 \in [asset : Assets, first : Nat]
    <3>1. Later(us, us[i].asset, 0) # {} /\ Later(us, us[i].asset, 0) \subseteq Nat
      BY <1>2 DEF Later
    <3>2. Min(Later(us, us[i].asset, 0)) \in Later(us, us[i].asset, 0)
      BY <3>1, MinIsLeast
    <3>3. Min(Later(us, us[i].asset, 0)) \in Nat /\ Min(Later(us, us[i].asset, 0)) > 0
      BY <3>2, <1>2 DEF Later
    <3>4. SupersededBy(us, us[i].asset, 0, assetSeq) \in Nat
      BY <1>1, <3>1, <3>3 DEF SupersededBy
    <3>. QED BY <1>2, <3>4
  <2>2. origins \subseteq [asset : Assets, first : Nat]
    BY DEF TypeOK
  <2>. QED BY <1>3, <2>1, <2>2 DEF NewOrigins
<1>9. ASSUME NEW d \in dcc'
      PROVE  d \in [height : Nat, block : Nat] /\ d.block \in Uids(Keys(blocks'))
  <2>1. CASE d \in dcc
    <3>1. d \in [height : Nat, block : Nat] /\ d.block \in Uids(Keys(stored))
      BY <2>1 DEF TypeOK
    <3>2. Keys(stored) \subseteq Keys(blocks')
      BY <1>3 DEF Upsert, Keys
    <3>. QED BY <3>1, <3>2 DEF Uids
  <2>2. ASSUME NEW k \in Minting(bs),
               d = [height |-> bs[k].height, block |-> RowOf(blocks', bs[k].id).uid]
        PROVE  d \in [height : Nat, block : Nat] /\ d.block \in Uids(Keys(blocks'))
    <3>1. k \in DOMAIN bs /\ bs[k].key /\ bs[k].height \in Nat
      BY DEF Minting, Batch
    <3>2. RowOf(blocks', bs[k].id) = Appended(bs, blockSeq, k)
      BY <1>1, <1>3, <3>1, AppendedUid
    <3>3. Appended(bs, blockSeq, k) \in blocks' /\ Appended(bs, blockSeq, k).key
      <4>1. blocks' = stored \cup {Appended(bs, blockSeq, i) : i \in DOMAIN bs}
        BY <1>3, UpsertRows
      <4>2. Appended(bs, blockSeq, k).key
        BY <3>1 DEF Appended
      <4>. QED BY <3>1, <4>1, <4>2
    <3>4. Appended(bs, blockSeq, k).uid \in Nat
      BY <1>7, <3>3 DEF BlockRows
    <3>. QED BY <2>2, <3>1, <3>2, <3>3, <3>4 DEF Uids, Keys
  <2>. QED BY <1>3, <2>1, <2>2 DEF MintedDcc
<1>. QED BY <1>3, <1>4, <1>5, <1>6, <1>7, <1>8, <1>9 DEF DccRefers

-----------------------------------------------------------------------------
LEMMA InitIInv == Init => IInv
BY IndexAssumption
   DEF Init, IInv, TypeOK, OneChain, VersionChain, RowsInBlockOrder, UidsBelow, RowsRefer,
       DccRefers, InChainOrder, Chained, InBlockOrder, Keys, Micros

(* What an item hands to handle_appends: a batch of appends with new ids,  *)
(* what its transactions touch, and the tables as squashing left them.     *)
Item(bs, us, ts, stored, assets0, tickers0) ==
  /\ Batch(bs, Ids) /\ NewIds(stored, bs) /\ Len(bs) >= 1
  /\ us \in Touches(bs, MaxUps) /\ ts \in Touches(bs, MaxTickerUps)
  /\ stored \in SUBSET BlockRows(Ids)
  /\ \A b \in stored : b.uid < blockSeq
  /\ Table(assets0, assetSeq, Uids(stored))
  /\ Table(tickers0, tickerSeq, Uids(stored))
  /\ Appends(bs, us, ts, stored, assets0, tickers0)

(* The blocks of an item of key blocks go on top of the squashed chain. *)
KeyBlocks(bs, n) ==
  /\ Len(bs) = n
  /\ \A i \in DOMAIN bs : bs[i].height = cursor + i - 1 /\ bs[i].key

LEMMA HandleBlocksItem ==
  ASSUME IInv, NEW ids \in IdBatches,
         NEW us \in Touches(ids, MaxUps), NEW ts \in Touches(ids, MaxTickerUps),
         HandleBlocks(ids, us, ts)
  PROVE  \E bs :
           /\ Item(bs, us, ts, Squash(blocks), Squashed(assets), Squashed(tickers))
           /\ KeyBlocks(bs, Len(ids))
           /\ cursor' = cursor + Len(ids)
<1>. DEFINE bs == [i \in DOMAIN ids |->
                     [id |-> ids[i], height |-> cursor + i - 1, key |-> TRUE]]
            stored == Squash(blocks)
<1>1. PICK n \in 1..MaxBatch : ids \in [1..n -> Ids]
  BY DEF IdBatches
<1>2. n \in Nat /\ n >= 1
  BY <1>1, IndexAssumption
<1>3. Len(ids) = n /\ DOMAIN ids = 1..n
  BY <1>1, <1>2, LenOfFunction
<1>4. /\ cursor \in Nat /\ blockSeq \in Nat /\ assetSeq \in Nat /\ tickerSeq \in Nat
      /\ blocks \in SUBSET BlockRows(Ids)
      /\ InChainOrder(blocks)
      /\ \A b \in blocks : b.uid < blockSeq /\ b.height < cursor
      /\ TypeOK
  BY DEF IInv, TypeOK, OneChain
<1>5. /\ \A i \in DOMAIN ids : ids[i] \notin StoredIds(blocks)
      /\ \A i, j \in DOMAIN ids : ids[i] = ids[j] => i = j
      /\ Appends(bs, us, ts, stored, Squashed(assets), Squashed(tickers))
      /\ cursor' = cursor + Len(ids)
  BY DEF HandleBlocks
<1>6. ASSUME NEW i \in 1..n
      PROVE  /\ bs[i] = [id |-> ids[i], height |-> cursor + i - 1, key |-> TRUE]
             /\ bs[i].id = ids[i] /\ ids[i] \in Ids
             /\ bs[i].height = cursor + i - 1 /\ bs[i].height \in Nat
             /\ cursor <= bs[i].height /\ bs[i].height < cursor + n
             /\ bs[i].key = TRUE
  BY <1>1, <1>2, <1>3, <1>4
<1>7. DOMAIN bs = 1..n /\ Len(bs) = n
  <2>1. DOMAIN bs = 1..n
    BY <1>3
  <2>2. bs \in [1..n -> {bs[i] : i \in 1..n}]
    BY <1>3
  <2>. QED BY <1>2, <2>1, <2>2, LenOfFunction
<1>8. Batch(bs, Ids)
  BY <1>2, <1>6, <1>7 DEF Batch
<1>9. /\ stored \in SUBSET BlockRows(Ids)
      /\ InChainOrder(stored)
      /\ Micros(stored) = {}
      /\ Uids(stored) = Uids(Keys(blocks))
      /\ StoredIds(stored) \subseteq StoredIds(blocks)
      /\ \A b \in stored : \E c \in Keys(blocks) : c.uid = b.uid /\ c.height = b.height
  BY <1>4, SquashInOrder
<1>10. NewIds(stored, bs)
  BY <1>3, <1>5, <1>6, <1>7, <1>9 DEF NewIds
<1>11. \A b \in stored : b.uid < blockSeq /\ b.height < cursor
  BY <1>4, <1>9 DEF Keys
<1>12. Keys(stored) = stored
  BY <1>9 DEF Keys, Micros
<1>13. Touches(ids, MaxUps) = Touches(bs, MaxUps)
         /\ Touches(ids, MaxTickerUps) = Touches(bs, MaxTickerUps)
  BY <1>3, <1>7 DEF Touches
<1>. HIDE DEF bs
<1>14. /\ Table(Squashed(assets), assetSeq, Uids(stored))
       /\ Table(Squashed(tickers), tickerSeq, Uids(stored))
  <2>1. Table(assets, assetSeq, Uids(blocks)) /\ Table(tickers, tickerSeq, Uids(blocks))
    BY TablesOfInvariant
  <2>2. CASE Micros(blocks) = {}
    <3>1. Keys(blocks) = blocks
      BY <1>4, <2>2 DEF Keys, Micros
    <3>. QED BY <1>9, <2>1, <2>2, <3>1 DEF Squashed
  <2>3. CASE Micros(blocks) # {}
    <3>1. Keys(blocks) # {}
      BY <1>4, <2>3 DEF InChainOrder
    <3>2. /\ KeyUid(blocks) \in Uids(Keys(blocks))
          /\ KeyUid(blocks) \in Nat
          /\ \A k \in Keys(blocks) : k.uid <= KeyUid(blocks)
      BY <1>4, <3>1, KeyUidIsGreatest
    <3>3. /\ Uids(Keys(blocks)) \subseteq Uids(blocks)
          /\ \A u \in Uids(blocks) : u \in Nat
          /\ \A u \in Uids(Keys(blocks)) : u <= KeyUid(blocks)
      BY <1>4, <3>2 DEF Uids, Keys, BlockRows
    <3>4. \A u \in Uids(blocks) : u <= KeyUid(blocks) => u \in Uids(Keys(blocks))
      <4>1. ASSUME NEW b \in blocks, b.uid <= KeyUid(blocks), ~ b.key PROVE FALSE
        <5>1. PICK k \in Keys(blocks) : k.uid = KeyUid(blocks)
          BY <3>2 DEF Uids
        <5>2. k.uid < b.uid /\ b.uid \in Nat /\ k.uid \in Nat
          BY <1>4, <4>1, <5>1 DEF InChainOrder, Micros, Keys, BlockRows
        <5>. QED BY <4>1, <5>1, <5>2
      <4>. QED BY <4>1 DEF Uids, Keys
    <3>. QED BY <1>4, <1>9, <2>1, <2>3, <3>2, <3>3, <3>4, RepointTable DEF Squashed
  <2>. QED BY <2>2, <2>3
<1>15. Item(bs, us, ts, stored, Squashed(assets), Squashed(tickers))
  BY <1>2, <1>5, <1>7, <1>8, <1>9, <1>10, <1>11, <1>13, <1>14 DEF Item
<1>16. KeyBlocks(bs, Len(ids))
  BY <1>3, <1>6, <1>7 DEF KeyBlocks
<1>. QED BY <1>5, <1>15, <1>16

(* The appends of an item of key blocks, and the chain they make. *)
LEMMA HandleBlocksIInv ==
  ASSUME IInv, NEW ids \in IdBatches,
         NEW us \in Touches(ids, MaxUps), NEW ts \in Touches(ids, MaxTickerUps),
         HandleBlocks(ids, us, ts)
  PROVE  IInv'
<1>. DEFINE stored == Squash(blocks)
            n == Len(ids)
<1>1. PICK bs :
        /\ Item(bs, us, ts, stored, Squashed(assets), Squashed(tickers))
        /\ KeyBlocks(bs, n)
        /\ cursor' = cursor + n
  BY HandleBlocksItem
<1>2. /\ Batch(bs, Ids) /\ NewIds(stored, bs)
      /\ us \in Touches(bs, MaxUps) /\ ts \in Touches(bs, MaxTickerUps)
      /\ stored \in SUBSET BlockRows(Ids)
      /\ \A b \in stored : b.uid < blockSeq
      /\ Table(Squashed(assets), assetSeq, Uids(stored))
      /\ Table(Squashed(tickers), tickerSeq, Uids(stored))
      /\ Appends(bs, us, ts, stored, Squashed(assets), Squashed(tickers))
  BY <1>1 DEF Item
<1>3. DOMAIN bs = 1..n /\ n \in Nat
  BY <1>1, <1>2 DEF KeyBlocks, Batch
<1>4. /\ cursor \in Nat /\ blockSeq \in Nat
      /\ blocks \in SUBSET BlockRows(Ids)
      /\ InChainOrder(blocks)
      /\ \A b \in blocks : b.uid < blockSeq /\ b.height < cursor
      /\ TypeOK
  BY DEF IInv, TypeOK, OneChain
<1>5. ASSUME NEW i \in 1..n
      PROVE  /\ bs[i].height = cursor + i - 1 /\ bs[i].key
             /\ bs[i].height \in Nat
             /\ cursor <= bs[i].height /\ bs[i].height < cursor + n
  BY <1>1, <1>3, <1>4 DEF KeyBlocks
<1>6. /\ InChainOrder(stored)
      /\ Micros(stored) = {}
      /\ Uids(stored) = Uids(Keys(blocks))
      /\ \A b \in stored : \E c \in Keys(blocks) : c.uid = b.uid /\ c.height = b.height
  BY <1>4, SquashInOrder
<1>7. \A b \in stored : b.height < cursor
  BY <1>4, <1>6 DEF Keys
<1>8. Keys(stored) = stored
  BY <1>6 DEF Keys, Micros
<1>9. \A d \in dcc : d.block \in Uids(Keys(stored))
  BY <1>6, <1>8 DEF IInv, DccRefers
<1>. HIDE DEF stored, n
<1>10. /\ Table(assets', assetSeq', Uids(blocks'))
       /\ Table(tickers', tickerSeq', Uids(blocks'))
       /\ blocks' = Upsert(stored, bs, blockSeq)
       /\ blocks' \in SUBSET BlockRows(Ids)
       /\ \A b \in blocks' : b.uid < blockSeq'
       /\ blockSeq' \in Nat /\ assetSeq' \in Nat /\ tickerSeq' \in Nat
       /\ origins' \subseteq [asset : Assets, first : Nat]
       /\ dcc' \subseteq [height : Nat, block : Nat]
       /\ DccRefers'
  BY <1>2, <1>4, <1>9, AppendsKeepTables
<1>11. InChainOrder(blocks')
  <2>1. \A b \in stored, i \in DOMAIN bs : b.height < bs[i].height
    <3>. TAKE b \in stored, i \in DOMAIN bs
    <3>1. b.height \in Nat /\ b.height < cursor /\ cursor <= bs[i].height /\ bs[i].height \in Nat
      BY <1>2, <1>3, <1>5, <1>7 DEF BlockRows
    <3>. QED BY <1>4, <3>1
  <2>2. ASSUME NEW i \in DOMAIN bs, NEW j \in DOMAIN bs, i < j
        PROVE  bs[i].height < bs[j].height
    <3>1. bs[i].height = cursor + i - 1 /\ bs[j].height = cursor + j - 1
      BY <1>3, <1>5
    <3>2. i \in Nat /\ j \in Nat
      BY <1>3
    <3>. QED BY <1>4, <2>2, <3>1, <3>2
  <2>3. \A i \in DOMAIN bs : bs[i].key
    BY <1>3, <1>5
  <2>. QED BY <1>2, <1>4, <1>6, <1>10, <2>1, <2>2, <2>3, UpsertKeysInOrder
<1>12. cursor' \in Nat /\ \A b \in blocks' : b.height < cursor'
  <2>1. cursor' = cursor + n /\ cursor' \in Nat
    BY <1>1, <1>3, <1>4 DEF n
  <2>2. ASSUME NEW i \in 1..n PROVE Appended(bs, blockSeq, i).height < cursor'
    BY <1>5, <2>1 DEF Appended
  <2>3. ASSUME NEW b \in stored PROVE b.height < cursor'
    <3>1. b.height \in Nat /\ b.height < cursor
      BY <1>2, <1>7 DEF BlockRows
    <3>. QED BY <1>3, <1>4, <2>1, <3>1
  <2>4. blocks' = stored \cup {Appended(bs, blockSeq, i) : i \in 1..n}
    BY <1>2, <1>3, <1>10, UpsertRows
  <2>. QED BY <2>1, <2>2, <2>3, <2>4
<1>13. TypeOK' /\ OneChain'
  BY <1>10, <1>11, <1>12 DEF TypeOK, OneChain, Table
<1>. QED BY <1>10, <1>13
         DEF IInv, VersionChain, RowsInBlockOrder, UidsBelow, RowsRefer, Table

(* A microblock is an item of its own on top of the chain as it is. *)
LEMMA HandleMicroblockItem ==
  ASSUME IInv, NEW id \in Ids,
         NEW us \in Touches(<<id>>, MaxUps), NEW ts \in Touches(<<id>>, MaxTickerUps),
         HandleMicroblock(id, us, ts)
  PROVE  \E bs :
           /\ Item(bs, us, ts, blocks, assets, tickers)
           /\ Len(bs) = 1 /\ bs[1].height = cursor - 1 /\ ~ bs[1].key
<1>. DEFINE bs == <<[id |-> id, height |-> cursor - 1, key |-> FALSE]>>
<1>1. /\ cursor \in Nat /\ blockSeq \in Nat
      /\ blocks \in SUBSET BlockRows(Ids)
      /\ InChainOrder(blocks)
      /\ \A b \in blocks : b.uid < blockSeq /\ b.height < cursor
      /\ TypeOK
  BY DEF IInv, TypeOK, OneChain
<1>2. /\ blocks # {} /\ id \notin StoredIds(blocks)
      /\ CurrentHeight(blocks) = cursor - 1
      /\ Appends(bs, us, ts, blocks, assets, tickers)
      /\ cursor' = cursor
  BY DEF HandleMicroblock
<1>3. /\ cursor - 1 \in Nat
      /\ \A b \in blocks : b.height <= cursor - 1
      /\ \E b \in blocks : b.height = cursor - 1
  BY <1>1, <1>2, CurrentHeightIsGreatest
<1>4. /\ Len(bs) = 1 /\ DOMAIN bs = 1..1 /\ DOMAIN bs = {1}
      /\ bs[1].id = id /\ bs[1].height = cursor - 1 /\ bs[1].key = FALSE
  OBVIOUS
<1>5. Touches(<<id>>, MaxUps) = Touches(bs, MaxUps)
        /\ Touches(<<id>>, MaxTickerUps) = Touches(bs, MaxTickerUps)
  BY DEF Touches
<1>. HIDE DEF bs
<1>6. Batch(bs, Ids)
  <2>1. Len(bs) \in Nat /\ DOMAIN bs = 1..Len(bs)
    BY <1>4
  <2>2. ASSUME NEW i \in DOMAIN bs
        PROVE  bs[i].id \in Ids /\ bs[i].height \in Nat /\ bs[i].key \in BOOLEAN
    <3>1. i = 1
      BY <1>4
    <3>. QED BY <1>3, <1>4, <3>1
  <2>. QED BY <2>1, <2>2 DEF Batch
<1>7. NewIds(blocks, bs)
  BY <1>2, <1>4 DEF NewIds
<1>8. Table(assets, assetSeq, Uids(blocks)) /\ Table(tickers, tickerSeq, Uids(blocks))
  BY TablesOfInvariant
<1>9. Item(bs, us, ts, blocks, assets, tickers)
  BY <1>1, <1>2, <1>4, <1>5, <1>6, <1>7, <1>8 DEF Item
<1>. QED BY <1>4, <1>9

LEMMA HandleMicroblockIInv ==
  ASSUME IInv, NEW id \in Ids,
         NEW us \in Touches(<<id>>, MaxUps), NEW ts \in Touches(<<id>>, MaxTickerUps),
         HandleMicroblock(id, us, ts)
  PROVE  IInv'
<1>1. PICK bs :
        /\ Item(bs, us, ts, blocks, assets, tickers)
        /\ Len(bs) = 1 /\ bs[1].height = cursor - 1 /\ ~ bs[1].key
  BY HandleMicroblockItem
<1>2. /\ Batch(bs, Ids) /\ NewIds(blocks, bs)
      /\ us \in Touches(bs, MaxUps) /\ ts \in Touches(bs, MaxTickerUps)
      /\ Table(assets, assetSeq, Uids(blocks))
      /\ Table(tickers, tickerSeq, Uids(blocks))
      /\ Appends(bs, us, ts, blocks, assets, tickers)
  BY <1>1 DEF Item
<1>3. /\ cursor \in Nat /\ blockSeq \in Nat
      /\ blocks \in SUBSET BlockRows(Ids)
      /\ InChainOrder(blocks)
      /\ \A b \in blocks : b.uid < blockSeq /\ b.height < cursor
      /\ TypeOK
  BY DEF IInv, TypeOK, OneChain
<1>4. blocks # {} /\ CurrentHeight(blocks) = cursor - 1 /\ cursor' = cursor
  BY DEF HandleMicroblock
<1>5. /\ \A b \in blocks : b.height <= cursor - 1
      /\ \E b \in blocks : b.height = cursor - 1
  BY <1>3, <1>4, CurrentHeightIsGreatest
<1>6. \A d \in dcc : d.block \in Uids(Keys(blocks))
  BY DEF IInv, DccRefers
<1>7. /\ Table(assets', assetSeq', Uids(blocks'))
      /\ Table(tickers', tickerSeq', Uids(blocks'))
      /\ blocks' = Upsert(blocks, bs, blockSeq)
      /\ blocks' \in SUBSET BlockRows(Ids)
      /\ \A b \in blocks' : b.uid < blockSeq'
      /\ blockSeq' \in Nat /\ assetSeq' \in Nat /\ tickerSeq' \in Nat
      /\ origins' \subseteq [asset : Assets, first : Nat]
      /\ dcc' \subseteq [height : Nat, block : Nat]
      /\ DccRefers'
  BY <1>2, <1>3, <1>6, AppendsKeepTables
<1>8. InChainOrder(blocks')
  BY <1>1, <1>2, <1>3, <1>5, <1>7, UpsertMicroInOrder
<1>9. \A b \in blocks' : b.height < cursor'
  <2>1. Appended(bs, blockSeq, 1).height = cursor - 1
    BY <1>1 DEF Appended
  <2>2. DOMAIN bs = {1}
    BY <1>1, <1>2 DEF Batch
  <2>3. blocks' = blocks \cup {Appended(bs, blockSeq, i) : i \in {1}}
    BY <1>2, <1>7, <2>2, UpsertRows
  <2>. QED BY <1>3, <1>4, <2>1, <2>3
<1>10. TypeOK' /\ OneChain'
  BY <1>3, <1>4, <1>7, <1>8, <1>9 DEF TypeOK, OneChain, Table
<1>. QED BY <1>7, <1>10
         DEF IInv, VersionChain, RowsInBlockOrder, UidsBelow, RowsRefer, Table

LEMMA RollBackToIInv ==
  ASSUME IInv, NEW rs \in SUBSET blocks, rs # {}, RollBackTo(rs)
  PROVE  IInv'
<1>. DEFINE row == LowestRow(rs)
<1>0. row \in blocks /\ row.uid \in Nat /\ row.height \in Nat
  BY RowsRolledBackTo DEF IInv, TypeOK
<1>1. /\ blocks \in SUBSET BlockRows(Ids) /\ InChainOrder(blocks)
      /\ \A b \in blocks : b.uid < blockSeq
      /\ Table(assets, assetSeq, Uids(blocks)) /\ Table(tickers, tickerSeq, Uids(blocks))
      /\ assetSeq \in Nat /\ tickerSeq \in Nat /\ blockSeq \in Nat
  BY TablesOfInvariant DEF IInv, TypeOK, OneChain
<1>2. /\ assets' = RollBack(assets, row.uid) /\ tickers' = RollBack(tickers, row.uid)
      /\ blocks' = CutAbove(blocks, row.uid)
      /\ origins' \subseteq origins
      /\ dcc' = {d \in dcc : d.block \in Uids(blocks')}
      /\ cursor' = row.height + 1
      /\ blockSeq' = blockSeq /\ assetSeq' = assetSeq /\ tickerSeq' = tickerSeq
  BY RollBackEndsAt DEF RollBackTo
<1>. HIDE DEF row
<1>3. Uids(blocks') = {u \in Uids(blocks) : u <= row.uid}
  BY <1>2 DEF CutAbove, Uids
<1>4. /\ Table(assets', assetSeq', Uids(blocks'))
      /\ Table(tickers', tickerSeq', Uids(blocks'))
  BY <1>0, <1>1, <1>2, <1>3, RollBackTable
<1>5. InChainOrder(blocks') /\ \A b \in blocks' : b.height <= row.height
  BY <1>0, <1>1, <1>2, CutAboveInOrder
<1>6. blocks' \subseteq blocks
  BY <1>2 DEF CutAbove
<1>7. OneChain'
  <2>1. \A b \in blocks' : b.height \in Nat
    BY <1>1, <1>6 DEF BlockRows
  <2>2. \A b \in blocks' : b.height < cursor'
    BY <1>0, <1>1, <1>2, <1>5, <2>1
  <2>. QED BY <1>1, <1>2, <1>5, <1>6, <2>2 DEF OneChain
<1>8. TypeOK'
  BY <1>0, <1>1, <1>2, <1>4, <1>6 DEF IInv, TypeOK, Table
<1>9. DccRefers'
  <2>1. ASSUME NEW d \in dcc' PROVE d.block \in Uids(Keys(blocks'))
    <3>1. d \in dcc /\ d.block \in Uids(Keys(blocks)) /\ d.block \in Uids(blocks')
      BY <1>2 DEF IInv, DccRefers
    <3>2. PICK k \in Keys(blocks) : k.uid = d.block
      BY <3>1 DEF Uids
    <3>3. k.uid <= row.uid
      BY <1>3, <3>1, <3>2
    <3>4. k \in Keys(blocks')
      BY <1>2, <3>2, <3>3 DEF Keys, CutAbove
    <3>. QED BY <3>2, <3>4 DEF Uids
  <2>. QED BY <2>1 DEF DccRefers
<1>. QED BY <1>4, <1>7, <1>8, <1>9
         DEF IInv, VersionChain, RowsInBlockOrder, UidsBelow, RowsRefer, Table

LEMMA HandleRollbackIInv ==
  ASSUME IInv, NEW id \in Ids, HandleRollback(id)
  PROVE  IInv'
BY OneRow, RollBackToIInv DEF HandleRollback

LEMMA UnchangedIInv ==
  ASSUME IInv, UNCHANGED vars
  PROVE  IInv'
BY DEF IInv, TypeOK, OneChain, VersionChain, RowsInBlockOrder, UidsBelow, RowsRefer,
       DccRefers, vars

LEMMA NextIInv ==
  ASSUME ~ Redelivery, IInv, [Next]_vars
  PROVE  IInv'
<1>1. ASSUME NEW ids \in IdBatches,
             NEW us \in Touches(ids, MaxUps), NEW ts \in Touches(ids, MaxTickerUps),
             HandleBlocks(ids, us, ts)
      PROVE  IInv'
  BY <1>1, HandleBlocksIInv
<1>2. ASSUME NEW ids \in IdBatches,
             NEW us \in Touches(ids, MaxUps), NEW ts \in Touches(ids, MaxTickerUps),
             RedeliverBlocks(ids, us, ts)
      PROVE  IInv'
  BY <1>2 DEF RedeliverBlocks
<1>3. ASSUME NEW id \in Ids,
             NEW us \in Touches(<<id>>, MaxUps), NEW ts \in Touches(<<id>>, MaxTickerUps),
             HandleMicroblock(id, us, ts) \/ RedeliverMicroblock(id, us, ts)
      PROVE  IInv'
  BY <1>3, HandleMicroblockIInv DEF RedeliverMicroblock
<1>4. ASSUME NEW id \in Ids, HandleRollback(id) PROVE IInv'
  BY <1>4, HandleRollbackIInv
<1>5. CASE Resume
  BY <1>5, ResumeRollsBack, UnchangedIInv, RollBackToIInv
<1>6. CASE UNCHANGED vars
  BY <1>6, UnchangedIInv
<1>. QED BY <1>1, <1>2, <1>3, <1>4, <1>5, <1>6 DEF Next

(* The inductive invariant holds in every reachable state. *)
THEOREM IndexInvariant ==
  ASSUME ~ Redelivery PROVE Spec => []IInv
<1>1. IInv /\ [Next]_vars => IInv'
  BY NextIInv
<1>. QED BY <1>1, InitIInv, PTL DEF Spec

(* handle_base_asset_info_updates, handle_asset_tickers_updates, squash    *)
(* and rollback together keep the versions of every asset and ticker       *)
(* chained.                                                                *)
THEOREM VersionsChained ==
  ASSUME ~ Redelivery PROVE Spec => []VersionChain
<1>1. IInv => VersionChain
  BY DEF IInv
<1>. QED BY <1>1, IndexInvariant, PTL

(* The rows a rollback deletes are the newest versions of their assets.    *)
THEOREM NewestRowsAbove ==
  ASSUME ~ Redelivery PROVE Spec => []RowsInBlockOrder
<1>1. IInv => RowsInBlockOrder
  BY DEF IInv
<1>. QED BY <1>1, IndexInvariant, PTL

LEMMA ChainedKeyed ==
  ASSUME NEW rows \in SUBSET Rows(Assets), Chained(rows)
  PROVE  Keyed(rows)
<1>1. ASSUME NEW r \in rows, NEW s \in rows, r.asset = s.asset, r.sup = s.sup, r.uid < s.uid
      PROVE  FALSE
  <2>1. /\ r.uid \in Nat /\ s.uid \in Nat /\ r.sup \in Nat /\ s.sup \in Nat
        /\ s.uid < MaxUid
    BY DEF Rows, Chained
  <2>2. r.sup <= s.uid
    BY <1>1 DEF Chained
  <2>3. s.uid < s.sup
    BY <2>1 DEF Chained
  <2>. QED BY <1>1, <2>1, <2>2, <2>3
<1>2. ASSUME NEW r \in rows, NEW s \in rows, r.asset = s.asset, r.sup = s.sup
      PROVE  r = s
  <2>1. r.uid \in Nat /\ s.uid \in Nat
    BY DEF Rows
  <2>2. r.uid = s.uid
    BY <1>1, <1>2, <2>1
  <2>. QED BY <2>2 DEF Chained
<1>. QED BY <1>2 DEF Keyed

(* Whatever block the node rolls back to, no primary key stands in the     *)
(* way: rollback never aborts a transaction.                               *)
THEOREM RollbacksApply ==
  ASSUME ~ Redelivery PROVE Spec => []RollbackApplies
<1>1. IInv => RollbackApplies
  <2>. SUFFICES ASSUME IInv, NEW b \in blocks
                PROVE  Keyed(RollBack(assets, b.uid)) /\ Keyed(RollBack(tickers, b.uid))
    BY DEF RollbackApplies
  <2>1. /\ assets \in SUBSET Rows(Assets) /\ Chained(assets) /\ InBlockOrder(assets)
        /\ tickers \in SUBSET Rows(Assets) /\ Chained(tickers) /\ InBlockOrder(tickers)
    BY DEF IInv, TypeOK, VersionChain, RowsInBlockOrder
  <2>2. b.uid \in Nat
    BY DEF IInv, TypeOK, BlockRows
  <2>3. RollBack(assets, b.uid) \in SUBSET Rows(Assets) /\ Chained(RollBack(assets, b.uid))
    BY <2>1, <2>2, RollBackType, RollBackChained
  <2>4. RollBack(tickers, b.uid) \in SUBSET Rows(Assets) /\ Chained(RollBack(tickers, b.uid))
    BY <2>1, <2>2, RollBackType, RollBackChained
  <2>. QED BY <2>3, <2>4, ChainedKeyed
<1>. QED BY <1>1, IndexInvariant, PTL

-----------------------------------------------------------------------------
(***************************************************************************)
(* A stream that repeats blocks.  The versions of an asset may then come   *)
(* out of the order of their blocks, so IInv does not hold.  The chain of  *)
(* blocks, everything that refers to it and the origins do not depend on   *)
(* that order.                                                             *)
(*                                                                         *)
(* The insert skips the ids it has: the rows of a batch are those of its   *)
(* new ids.                                                                *)
(***************************************************************************)
New(stored, bs) == {k \in DOMAIN bs : IsNew(stored, bs, k)}

LEMMA UpsertNewRows ==
  ASSUME NEW stored, NEW bs, NEW seq
  PROVE  Upsert(stored, bs, seq) = stored \cup {Appended(bs, seq, i) : i \in New(stored, bs)}
  BY DEF Upsert, Appended, New

LEMMA UpsertNew ==
  ASSUME NEW stored \in SUBSET BlockRows(Ids), NEW bs, Batch(bs, Ids), NEW seq \in Nat
  PROVE  /\ Upsert(stored, bs, seq) = stored \cup {Appended(bs, seq, i) : i \in New(stored, bs)}
         /\ Upsert(stored, bs, seq) \in SUBSET BlockRows(Ids)
         /\ (\A b \in stored : b.uid < seq)
              => \A b \in Upsert(stored, bs, seq) : b.uid < seq + Len(bs)
<1>1. Upsert(stored, bs, seq) = stored \cup {Appended(bs, seq, i) : i \in New(stored, bs)}
  BY UpsertNewRows
<1>2. ASSUME NEW i \in New(stored, bs)
      PROVE  Appended(bs, seq, i) \in BlockRows(Ids) /\ Appended(bs, seq, i).uid < seq + Len(bs)
  BY AppendedFields DEF New
<1>3. Len(bs) \in Nat /\ \A b \in stored : b.uid \in Nat
  BY DEF Batch, BlockRows
<1>. QED BY <1>1, <1>2, <1>3

(* Every id of the batch is stored after the insert.                       *)
LEMMA ReadBack ==
  ASSUME NEW stored \in SUBSET BlockRows(Ids), NEW bs, Batch(bs, Ids), NEW seq \in Nat,
         NEW k \in DOMAIN bs
  PROVE  /\ RowOf(Upsert(stored, bs, seq), bs[k].id) \in Upsert(stored, bs, seq)
         /\ RowOf(Upsert(stored, bs, seq), bs[k].id).id = bs[k].id
<1>. DEFINE Same == {j \in DOMAIN bs : bs[j].id = bs[k].id}
<1>1. \E b \in Upsert(stored, bs, seq) : b.id = bs[k].id
  <2>1. CASE bs[k].id \in StoredIds(stored)
    BY <2>1 DEF StoredIds, Upsert
  <2>2. CASE bs[k].id \notin StoredIds(stored)
    <3>1. Same \subseteq Nat /\ k \in Same
      BY DEF Batch
    <3>2. PICK j \in Same : \A i \in Same : j <= i
      <4>. HIDE DEF Same
      <4>. QED BY <3>1, LeastExists
    <3>3. ASSUME NEW i \in DOMAIN bs, i < j PROVE bs[i].id # bs[j].id
      <4>1. i \in Nat /\ j \in Nat /\ ~ (j <= i)
        BY <3>1, <3>3 DEF Batch
      <4>. QED BY <3>2, <4>1
    <3>4. j \in New(stored, bs)
      BY <2>2, <3>3 DEF New, IsNew
    <3>5. Appended(bs, seq, j) \in Upsert(stored, bs, seq)
      BY <3>4, UpsertNew
    <3>. QED BY <3>5 DEF Appended
  <2>. QED BY <2>1, <2>2
<1>. QED BY <1>1 DEF RowOf

(* New key blocks at growing heights above a chain without microblocks     *)
(* continue the chain.                                                     *)
LEMMA UpsertNewInOrder ==
  ASSUME NEW stored \in SUBSET BlockRows(Ids), NEW bs, Batch(bs, Ids), NEW seq \in Nat,
         InChainOrder(stored), Micros(stored) = {},
         \A b \in stored : b.uid < seq,
         \A b \in stored, i \in New(stored, bs) : b.height < bs[i].height,
         \A i, j \in New(stored, bs) : i < j => bs[i].height < bs[j].height,
         \A i \in DOMAIN bs : bs[i].key
  PROVE  /\ InChainOrder(Upsert(stored, bs, seq))
         /\ Micros(Upsert(stored, bs, seq)) = {}
<1>. DEFINE A(i) == Appended(bs, seq, i)
            Ns == New(stored, bs)
            Added == {A(i) : i \in Ns}
<1>1. Upsert(stored, bs, seq) = stored \cup Added
  BY UpsertNewRows
<1>2. ASSUME NEW i \in Ns
      PROVE  /\ i \in Nat /\ A(i).uid = seq + i - 1 /\ seq <= A(i).uid /\ A(i).uid \in Nat
             /\ A(i).id = bs[i].id /\ A(i).height = bs[i].height /\ A(i).key
             /\ A(i).height \in Nat /\ A(i).id \notin StoredIds(stored)
  <2>1. i \in Nat /\ i \in DOMAIN bs /\ bs[i].id \notin StoredIds(stored)
    BY DEF Batch, New, IsNew
  <2>2. A(i) \in BlockRows(Ids) /\ seq <= A(i).uid
    BY <2>1, AppendedFields
  <2>3. /\ A(i).uid = seq + i - 1 /\ A(i).id = bs[i].id
        /\ A(i).height = bs[i].height /\ A(i).key = bs[i].key
    BY DEF Appended
  <2>. QED BY <2>1, <2>2, <2>3 DEF BlockRows
<1>3. ASSUME NEW b \in stored
      PROVE  b.uid \in Nat /\ b.height \in Nat /\ b.uid < seq /\ b.key
  BY DEF BlockRows, Micros
<1>4. ASSUME NEW i \in Ns, NEW j \in Ns, bs[i].id = bs[j].id PROVE i = j
  <2>1. i \in Nat /\ j \in Nat /\ i \in DOMAIN bs /\ j \in DOMAIN bs /\ ~ (i < j) /\ ~ (j < i)
    BY <1>4 DEF Batch, New, IsNew
  <2>. QED BY <2>1
<1>. HIDE DEF A, Ns
<1>5. ASSUME NEW b \in stored \cup Added, NEW c \in stored \cup Added, b.uid = c.uid \/ b.id = c.id
      PROVE  b = c
  <2>1. ASSUME b \in stored, c \in stored PROVE b = c
    BY <1>5, <2>1 DEF InChainOrder
  <2>2. ASSUME NEW x \in stored, NEW i \in Ns PROVE x.uid # A(i).uid /\ x.id # A(i).id
    BY <1>2, <1>3 DEF StoredIds
  <2>3. ASSUME NEW i \in Ns, NEW j \in Ns, A(i).uid = A(j).uid \/ A(i).id = A(j).id
        PROVE  i = j
    BY <1>2, <1>4, <2>3
  <2>. QED BY <1>5, <2>1, <2>2, <2>3
<1>6. ASSUME NEW b \in stored \cup Added, NEW c \in stored \cup Added, b.uid < c.uid
      PROVE  b.height < c.height
  <2>1. ASSUME b \in stored, c \in stored PROVE b.height < c.height
    BY <1>3, <1>6, <2>1 DEF InChainOrder, Keys
  <2>2. ASSUME NEW i \in Ns, NEW j \in Ns, A(i).uid < A(j).uid
        PROVE  A(i).height < A(j).height
    BY <1>2, <2>2 DEF Ns
  <2>3. ASSUME NEW x \in stored, NEW i \in Ns
        PROVE  x.height < A(i).height /\ ~ (A(i).uid < x.uid)
    BY <1>2, <1>3 DEF Ns
  <2>. QED BY <1>6, <2>1, <2>2, <2>3
<1>7. Micros(stored \cup Added) = {}
  BY <1>2, <1>3 DEF Micros
<1>. HIDE DEF Added
<1>. QED BY <1>1, <1>5, <1>6, <1>7 DEF InChainOrder, Keys

(* What the batch touches, located in the rows after the insert.           *)
LEMMA LocatedRepeats ==
  ASSUME NEW stored \in SUBSET BlockRows(Ids), NEW bs, Batch(bs, Ids), NEW seq \in Nat,
         NEW max \in Nat, NEW us \in Touches(bs, max)
  PROVE  LET ls == Located(us, bs, Upsert(stored, bs, seq))
         IN  /\ Updates(ls, Assets)
             /\ Len(ls) = Len(us) /\ DOMAIN ls = DOMAIN us
             /\ \A i \in DOMAIN ls :
                  /\ ls[i].asset = us[i].asset
                  /\ ls[i].block = RowOf(Upsert(stored, bs, seq), bs[us[i].at].id).uid
                  /\ ls[i].block \in Uids(Upsert(stored, bs, seq))
<1>. DEFINE rows == Upsert(stored, bs, seq)
            ls == Located(us, bs, rows)
<1>1. /\ Len(us) \in Nat /\ DOMAIN us = 1..Len(us)
      /\ \A i \in DOMAIN us : us[i].asset \in Assets /\ us[i].at \in DOMAIN bs
  BY TouchesType, Zenon
<1>2. ASSUME NEW k \in DOMAIN bs
      PROVE  /\ RowOf(rows, bs[k].id).uid \in Uids(rows)
             /\ RowOf(rows, bs[k].id).uid \in Nat
  <2>1. RowOf(rows, bs[k].id) \in rows /\ rows \in SUBSET BlockRows(Ids)
    BY ReadBack, UpsertNew
  <2>. HIDE DEF rows
  <2>. QED BY <2>1 DEF Uids, BlockRows
<1>. HIDE DEF rows
<1>3. DOMAIN ls = DOMAIN us
  BY DEF Located
<1>4. ASSUME NEW i \in DOMAIN us
      PROVE  /\ ls[i].asset = us[i].asset /\ ls[i].asset \in Assets
             /\ ls[i].block = RowOf(rows, bs[us[i].at].id).uid
             /\ ls[i].block \in Nat /\ ls[i].block \in Uids(rows)
  <2>1. us[i].at \in DOMAIN bs /\ us[i].asset \in Assets
    BY <1>1
  <2>2. ls[i] = [asset |-> us[i].asset, block |-> RowOf(rows, bs[us[i].at].id).uid]
    BY DEF Located
  <2>. QED BY <1>2, <2>1, <2>2
<1>5. Len(ls) = Len(us)
  <2>1. ls \in [1..Len(us) -> {ls[i] : i \in DOMAIN us}]
    BY <1>1, <1>3 DEF Located
  <2>. QED BY <1>1, <2>1, LenOfFunction
<1>7. Updates(ls, Assets)
  BY <1>1, <1>3, <1>4, <1>5 DEF Updates
<1>. HIDE DEF ls
<1>. QED BY <1>3, <1>4, <1>5, <1>7 DEF ls, rows

(* Rows of a versioned table that refer to stored blocks, in whatever      *)
(* order.                                                                  *)
Refers(rows, uids) == rows \in SUBSET Rows(Assets) /\ \A r \in rows : r.block \in uids

LEMMA ExtendRefers ==
  ASSUME NEW stored \in SUBSET BlockRows(Ids), NEW bs, Batch(bs, Ids), NEW seq \in Nat,
         NEW max \in Nat, NEW us \in Touches(bs, max),
         NEW rows, NEW base \in Nat, Refers(rows, Uids(stored))
  PROVE  Refers(Extend(rows, Located(us, bs, Upsert(stored, bs, seq)), base),
                Uids(Upsert(stored, bs, seq)))
<1>. DEFINE kept == Upsert(stored, bs, seq)
            ls == Located(us, bs, kept)
<1>1. Updates(ls, Assets) /\ \A i \in DOMAIN ls : ls[i].block \in Uids(kept)
  BY LocatedRepeats
<1>2. Uids(stored) \subseteq Uids(kept)
  BY DEF Upsert, Uids
<1>. HIDE DEF ls, kept
<1>3. rows \in SUBSET Rows(Assets)
  BY DEF Refers
<1>4. Extend(rows, ls, base) \in SUBSET Rows(Assets)
  BY <1>1, <1>3, ExtendType
<1>5. ASSUME NEW r \in rows PROVE Closed(r, ls, base).block \in Uids(kept)
  <2>1. Closed(r, ls, base).block = r.block
    BY <1>1, <1>3, ClosedFields
  <2>. QED BY <1>2, <2>1 DEF Refers
<1>6. ASSUME NEW i \in DOMAIN ls PROVE NewRow(ls, base, i).block \in Uids(kept)
  BY <1>1 DEF NewRow
<1>7. \A r \in Extend(rows, ls, base) : r.block \in Uids(kept)
  BY <1>5, <1>6, ExtendRows
<1>. QED BY <1>4, <1>7 DEF Refers, ls, kept

LEMMA RepointRefers ==
  ASSUME NEW rows, NEW uids, Refers(rows, uids), NEW kept, NEW block \in kept, block \in Nat,
         \A u \in uids : u \in Nat /\ (u <= block => u \in kept)
  PROVE  Refers(Repoint(rows, block), kept)
<1>1. rows \in SUBSET Rows(Assets)
  BY DEF Refers
<1>2. ASSUME NEW x \in Repoint(rows, block) PROVE x.block \in kept
  <2>1. PICK r \in rows : x = Repointed(r, block)
    BY DEF Repoint, Repointed
  <2>2. x.block = IF r.block > block THEN block ELSE r.block
    BY <1>1, <2>1, RepointRows
  <2>3. r.block \in uids /\ r.block \in Nat
    BY DEF Refers
  <2>. QED BY <2>2, <2>3
<1>3. Repoint(rows, block) \in SUBSET Rows(Assets)
  BY <1>1, RepointType
<1>. QED BY <1>2, <1>3 DEF Refers

LEMMA RollBackRefers ==
  ASSUME NEW rows, NEW uids, Refers(rows, uids),
         NEW targets \in SUBSET Nat, NEW last \in targets
  PROVE  Refers(RollBackThrough(rows, targets), {u \in uids : u <= last})
<1>. DEFINE D(r) == Made(r, ReopenedUids(rows, targets))
<1>1. RollBackThrough(rows, targets) = {D(r) : r \in KeptOf(rows, targets)}
  BY ThroughRows
<1>2. ASSUME NEW r \in KeptOf(rows, targets)
      PROVE  D(r) \in Rows(Assets) /\ D(r).block \in uids /\ D(r).block <= last
  <2>1. r \in Rows(Assets) /\ r.block \in uids /\ r.block <= last
    BY DEF Refers, KeptOf
  <2>2. D(r) \in Rows(Assets) /\ D(r).block = r.block
    BY <2>1, MadeFields
  <2>. QED BY <2>1, <2>2
<1>. HIDE DEF D
<1>. QED BY <1>1, <1>2 DEF Refers

(* What survives a stream that repeats blocks: the chain of blocks and     *)
(* every reference to it.                                                  *)
ChainInv ==
  /\ TypeOK
  /\ OneChain
  /\ Refers(assets, Uids(blocks)) /\ Refers(tickers, Uids(blocks))
  /\ DccRefers

LEMMA OriginsTyped ==
  ASSUME TypeOK, NEW bs, NEW us \in Touches(bs, MaxUps)
  PROVE  NewOrigins(us) \subseteq [asset : Assets, first : Nat]
<1>1. /\ Len(us) \in Nat /\ DOMAIN us = 1..Len(us) /\ assetSeq \in Nat
      /\ \A i \in DOMAIN us : us[i].asset \in Assets
  BY IndexAssumption, TouchesType DEF TypeOK
<1>2. ASSUME NEW i \in DOMAIN us
      PROVE  [asset |-> us[i].asset, first |-> SupersededBy(us, us[i].asset, 0, assetSeq)]
               \in [asset : Assets, first : Nat]
  <2>1. Later(us, us[i].asset, 0) # {} /\ Later(us, us[i].asset, 0) \subseteq Nat
    BY <1>1 DEF Later
  <2>2. Min(Later(us, us[i].asset, 0)) \in Later(us, us[i].asset, 0)
    BY <2>1, MinIsLeast
  <2>3. Min(Later(us, us[i].asset, 0)) \in Nat /\ Min(Later(us, us[i].asset, 0)) > 0
    BY <1>1, <2>2 DEF Later
  <2>4. SupersededBy(us, us[i].asset, 0, assetSeq) \in Nat
    BY <1>1, <2>1, <2>3 DEF SupersededBy
  <2>. QED BY <1>1, <2>4
<1>. QED BY <1>2 DEF NewOrigins

LEMMA AppendsKeepReferences ==
  ASSUME TypeOK, NEW bs, Batch(bs, Ids),
         NEW stored \in SUBSET BlockRows(Ids), \A b \in stored : b.uid < blockSeq,
         NEW assets0, Refers(assets0, Uids(stored)),
         NEW tickers0, Refers(tickers0, Uids(stored)),
         \A d \in dcc : d.block \in Uids(Keys(stored)),
         \A i \in Minting(bs) : RowOf(Upsert(stored, bs, blockSeq), bs[i].id).key,
         NEW us \in Touches(bs, MaxUps), NEW ts \in Touches(bs, MaxTickerUps),
         Appends(bs, us, ts, stored, assets0, tickers0)
  PROVE  /\ Refers(assets', Uids(blocks')) /\ Refers(tickers', Uids(blocks'))
         /\ blocks' = Upsert(stored, bs, blockSeq)
         /\ blocks' \in SUBSET BlockRows(Ids)
         /\ \A b \in blocks' : b.uid < blockSeq'
         /\ blockSeq' \in Nat /\ assetSeq' \in Nat /\ tickerSeq' \in Nat
         /\ origins' \subseteq [asset : Assets, first : Nat]
         /\ dcc' \subseteq [height : Nat, block : Nat]
         /\ DccRefers'
<1>1. /\ blockSeq \in Nat /\ assetSeq \in Nat /\ tickerSeq \in Nat
      /\ MaxUps \in Nat /\ MaxTickerUps \in Nat
  BY IndexAssumption DEF TypeOK
<1>2. Len(us) \in Nat /\ Len(ts) \in Nat /\ Len(bs) \in Nat
  BY <1>1, TouchesType DEF Batch
<1>3. /\ blocks' = Upsert(stored, bs, blockSeq) /\ blockSeq' = blockSeq + Len(bs)
      /\ assets' = Extend(assets0, Located(us, bs, blocks'), assetSeq)
      /\ assetSeq' = assetSeq + Len(us)
      /\ tickers' = Extend(tickers0, Located(ts, bs, blocks'), tickerSeq)
      /\ tickerSeq' = tickerSeq + Len(ts)
      /\ origins' = origins \cup NewOrigins(us)
      /\ dcc' = IF AssetsOnly THEN dcc ELSE MintedDcc(bs, blocks')
  BY DEF Appends
<1>4. Refers(assets', Uids(blocks'))
  BY <1>1, <1>3, ExtendRefers
<1>5. Refers(tickers', Uids(blocks'))
  BY <1>1, <1>3, ExtendRefers
<1>6. blockSeq' \in Nat /\ assetSeq' \in Nat /\ tickerSeq' \in Nat
  BY <1>1, <1>2, <1>3
<1>7. blocks' \in SUBSET BlockRows(Ids) /\ \A b \in blocks' : b.uid < blockSeq'
  BY <1>1, <1>3, UpsertNew
<1>8. origins' \subseteq [asset : Assets, first : Nat]
  BY <1>3, OriginsTyped DEF TypeOK
<1>9. ASSUME NEW d \in dcc'
      PROVE  d \in [height : Nat, block : Nat] /\ d.block \in Uids(Keys(blocks'))
  <2>1. CASE d \in dcc
    <3>1. d \in [height : Nat, block : Nat] /\ d.block \in Uids(Keys(stored))
      BY <2>1 DEF TypeOK
    <3>2. Keys(stored) \subseteq Keys(blocks')
      BY <1>3 DEF Upsert, Keys
    <3>. QED BY <3>1, <3>2 DEF Uids
  <2>2. ASSUME NEW k \in Minting(bs),
               d = [height |-> bs[k].height, block |-> RowOf(blocks', bs[k].id).uid]
        PROVE  d \in [height : Nat, block : Nat] /\ d.block \in Uids(Keys(blocks'))
    <3>1. k \in DOMAIN bs /\ bs[k].height \in Nat
      BY DEF Minting, Batch
    <3>2. RowOf(blocks', bs[k].id) \in Keys(blocks')
      BY <1>1, <1>3, <3>1, ReadBack DEF Keys
    <3>3. RowOf(blocks', bs[k].id).uid \in Nat
      BY <1>7, <3>2 DEF Keys, BlockRows
    <3>. QED BY <2>2, <3>1, <3>2, <3>3 DEF Uids
  <2>. QED BY <1>3, <2>1, <2>2 DEF MintedDcc
<1>. QED BY <1>3, <1>4, <1>5, <1>6, <1>7, <1>8, <1>9 DEF DccRefers

(* What squashing leaves refers to the key blocks.                         *)
LEMMA SquashedRefers ==
  ASSUME ChainInv, NEW rows, Refers(rows, Uids(blocks))
  PROVE  Refers(Squashed(rows), Uids(Squash(blocks)))
<1>1. /\ blocks \in SUBSET BlockRows(Ids) /\ InChainOrder(blocks) /\ blockSeq \in Nat
      /\ \A b \in blocks : b.uid < blockSeq
  BY DEF ChainInv, TypeOK, OneChain
<1>2. Uids(Squash(blocks)) = Uids(Keys(blocks))
  BY <1>1, SquashInOrder
<1>3. CASE Micros(blocks) = {}
  <2>1. Keys(blocks) = blocks
    BY <1>3 DEF Keys, Micros
  <2>. QED BY <1>2, <1>3, <2>1 DEF Squashed
<1>4. CASE Micros(blocks) # {}
  <2>1. Keys(blocks) # {}
    BY <1>1, <1>4 DEF InChainOrder
  <2>2. /\ KeyUid(blocks) \in Uids(Keys(blocks)) /\ KeyUid(blocks) \in Nat
        /\ \A k \in Keys(blocks) : k.uid <= KeyUid(blocks)
    BY <1>1, <2>1, KeyUidIsGreatest
  <2>3. ASSUME NEW b \in blocks PROVE b.uid \in Nat /\ (b.uid <= KeyUid(blocks) => b.key)
    <3>1. PICK k \in Keys(blocks) : k.uid = KeyUid(blocks)
      BY <2>2 DEF Uids
    <3>2. ~ b.key => k.uid < b.uid
      BY <1>1, <3>1 DEF InChainOrder, Micros
    <3>3. b.uid \in Nat /\ k.uid \in Nat
      BY <1>1, <3>1 DEF Keys, BlockRows
    <3>. QED BY <3>1, <3>2, <3>3
  <2>4. \A u \in Uids(blocks) : u \in Nat /\ (u <= KeyUid(blocks) => u \in Uids(Keys(blocks)))
    BY <2>3 DEF Uids, Keys
  <2>. QED BY <1>2, <1>4, <2>2, <2>4, RepointRefers DEF Squashed
<1>. QED BY <1>3, <1>4

(* A batch of key blocks, stored ones, new ones and repeated ones, whose   *)
(* new ones come at growing heights from cursor on.                        *)
Repeats(bs, stored) ==
  /\ Batch(bs, Ids)
  /\ \A i \in DOMAIN bs : bs[i].key
  /\ \A i \in New(stored, bs) : cursor <= bs[i].height /\ bs[i].height < cursor'
  /\ \A i, j \in New(stored, bs) : i < j => bs[i].height < bs[j].height
  /\ cursor' \in Nat /\ cursor <= cursor'

LEMMA RepeatsKeepChain ==
  ASSUME ChainInv, NEW bs, Repeats(bs, Squash(blocks)),
         NEW us \in Touches(bs, MaxUps), NEW ts \in Touches(bs, MaxTickerUps),
         Appends(bs, us, ts, Squash(blocks), Squashed(assets), Squashed(tickers))
  PROVE  ChainInv' /\ blocks' = Upsert(Squash(blocks), bs, blockSeq)
<1>. DEFINE stored == Squash(blocks)
<1>1. /\ blocks \in SUBSET BlockRows(Ids) /\ InChainOrder(blocks)
      /\ blockSeq \in Nat /\ cursor \in Nat
      /\ \A b \in blocks : b.uid < blockSeq /\ b.height < cursor
      /\ TypeOK
      /\ \A d \in dcc : d.block \in Uids(Keys(blocks))
  BY DEF ChainInv, TypeOK, OneChain, DccRefers
<1>2. /\ stored \in SUBSET BlockRows(Ids) /\ InChainOrder(stored) /\ Micros(stored) = {}
      /\ Uids(stored) = Uids(Keys(blocks))
      /\ \A b \in stored : \E c \in Keys(blocks) : c.uid = b.uid /\ c.height = b.height
  BY <1>1, SquashInOrder
<1>3. /\ Refers(Squashed(assets), Uids(stored)) /\ Refers(Squashed(tickers), Uids(stored))
  BY SquashedRefers DEF ChainInv
<1>. HIDE DEF stored
<1>4. \A b \in stored : b.uid < blockSeq /\ b.height < cursor
  BY <1>1, <1>2 DEF Keys
<1>5. Keys(stored) = stored
  BY <1>2 DEF Keys, Micros
<1>6. Batch(bs, Ids) /\ \A i \in DOMAIN bs : bs[i].key /\ bs[i].height \in Nat
  BY DEF Repeats, Batch
<1>7. InChainOrder(Upsert(stored, bs, blockSeq)) /\ Micros(Upsert(stored, bs, blockSeq)) = {}
  <2>1. \A b \in stored, i \in New(stored, bs) : b.height < bs[i].height
    <3>1. \A b \in stored : b.height \in Nat
      BY <1>2 DEF BlockRows
    <3>2. \A i \in New(stored, bs) : cursor <= bs[i].height /\ bs[i].height \in Nat
      BY <1>6 DEF Repeats, New, stored
    <3>. QED BY <1>1, <1>4, <3>1, <3>2
  <2>2. \A i, j \in New(stored, bs) : i < j => bs[i].height < bs[j].height
    BY DEF Repeats, stored
  <2>. QED BY <1>1, <1>2, <1>4, <1>6, <2>1, <2>2, UpsertNewInOrder
<1>8. \A i \in Minting(bs) : RowOf(Upsert(stored, bs, blockSeq), bs[i].id).key
  <2>1. \A i \in DOMAIN bs : RowOf(Upsert(stored, bs, blockSeq), bs[i].id)
                               \in Upsert(stored, bs, blockSeq)
    BY <1>1, <1>2, <1>6, ReadBack
  <2>. QED BY <1>7, <2>1 DEF Minting, Micros
<1>9. Appends(bs, us, ts, stored, Squashed(assets), Squashed(tickers))
  BY DEF stored
<1>10. /\ Refers(assets', Uids(blocks')) /\ Refers(tickers', Uids(blocks'))
       /\ blocks' = Upsert(stored, bs, blockSeq)
       /\ blocks' \in SUBSET BlockRows(Ids)
       /\ \A b \in blocks' : b.uid < blockSeq'
       /\ blockSeq' \in Nat /\ assetSeq' \in Nat /\ tickerSeq' \in Nat
       /\ origins' \subseteq [asset : Assets, first : Nat]
       /\ dcc' \subseteq [height : Nat, block : Nat]
       /\ DccRefers'
  BY <1>1, <1>2, <1>3, <1>4, <1>5, <1>6, <1>8, <1>9, AppendsKeepReferences
<1>11. ASSUME NEW b \in blocks' PROVE b.height < cursor'
  <2>1. cursor' \in Nat /\ cursor <= cursor' /\ b.height \in Nat
    BY <1>10 DEF Repeats, BlockRows
  <2>2. CASE b \in stored
    BY <1>1, <1>4, <2>1, <2>2
  <2>3. ASSUME NEW i \in New(stored, bs), b = Appended(bs, blockSeq, i) PROVE b.height < cursor'
    <3>1. b.height = bs[i].height
      BY <2>3 DEF Appended
    <3>. QED BY <3>1 DEF Repeats, stored
  <2>. QED BY <1>10, <2>2, <2>3, UpsertNewRows
<1>12. OneChain'
  BY <1>7, <1>10, <1>11 DEF OneChain
<1>13. TypeOK'
  BY <1>10 DEF TypeOK, Refers, Repeats
<1>. QED BY <1>10, <1>12, <1>13 DEF ChainInv, stored

(* Every block of the batch is stored at the height the stream gives it.   *)
AtHeights(bs, stored) ==
  \A i \in DOMAIN bs : RowOf(Upsert(stored, bs, blockSeq), bs[i].id).height = bs[i].height

LEMMA RowOfStored ==
  ASSUME NEW stored, NEW b \in stored, NEW bs, NEW seq \in Nat,
         InChainOrder(Upsert(stored, bs, seq))
  PROVE  RowOf(Upsert(stored, bs, seq), b.id) = b
<1>1. b \in Upsert(stored, bs, seq)
  BY DEF Upsert
<1>2. \A c \in Upsert(stored, bs, seq) : c.id = b.id => c = b
  BY <1>1 DEF InChainOrder
<1>. QED BY <1>1, <1>2 DEF RowOf

(* HandleBlocks: all ids are new.                                          *)
LEMMA HandleBlocksRepeats ==
  ASSUME ChainInv, NEW ids \in IdBatches, NEW us, NEW ts, HandleBlocks(ids, us, ts)
  PROVE  LET bs == [i \in DOMAIN ids |->
                      [id |-> ids[i], height |-> cursor + i - 1, key |-> TRUE]]
         IN  Repeats(bs, Squash(blocks)) /\ DOMAIN bs = DOMAIN ids
<1>. DEFINE bs == [i \in DOMAIN ids |->
                     [id |-> ids[i], height |-> cursor + i - 1, key |-> TRUE]]
<1>1. PICK n \in 1..MaxBatch : ids \in [1..n -> Ids]
  BY DEF IdBatches
<1>2. n \in Nat /\ n >= 1 /\ cursor \in Nat
  BY <1>1, IndexAssumption DEF ChainInv, TypeOK
<1>3. Len(ids) = n /\ DOMAIN ids = 1..n
  BY <1>1, <1>2, LenOfFunction
<1>4. ASSUME NEW i \in 1..n
      PROVE  /\ bs[i].id \in Ids /\ bs[i].key /\ bs[i].height = cursor + i - 1
             /\ bs[i].height \in Nat /\ bs[i].key \in BOOLEAN
             /\ cursor <= bs[i].height /\ bs[i].height < cursor + n
  <2>1. bs[i] = [id |-> ids[i], height |-> cursor + i - 1, key |-> TRUE]
    BY <1>3
  <2>. HIDE DEF bs
  <2>2. bs[i].id = ids[i] /\ bs[i].height = cursor + i - 1 /\ bs[i].key = TRUE
    BY <2>1
  <2>3. i \in Nat /\ 1 <= i /\ i <= n
    BY <1>2
  <2>4. ids[i] \in Ids
    BY <1>1
  <2>5. bs[i].id \in Ids /\ bs[i].key /\ bs[i].key \in BOOLEAN
    BY <2>2, <2>4
  <2>6. cursor + i - 1 \in Nat /\ cursor <= cursor + i - 1 /\ cursor + i - 1 < cursor + n
    BY <1>2, <2>3
  <2>. QED BY <2>2, <2>5, <2>6
<1>5. DOMAIN bs = 1..n /\ Len(bs) = n
  <2>1. DOMAIN bs = 1..n
    BY <1>3
  <2>2. bs \in [1..n -> {bs[i] : i \in 1..n}]
    BY <1>3
  <2>. QED BY <1>2, <2>1, <2>2, LenOfFunction
<1>6. cursor' = cursor + n
  BY <1>3 DEF HandleBlocks
<1>. HIDE DEF bs
<1>7. Batch(bs, Ids)
  BY <1>2, <1>4, <1>5 DEF Batch
<1>8. Repeats(bs, Squash(blocks))
  BY <1>2, <1>4, <1>5, <1>6, <1>7 DEF Repeats, New
<1>. QED BY <1>3, <1>5, <1>8 DEF bs

(* RedeliverBlocks: the new ids before a place are finitely many, and more *)
(* at every further new id.                                                *)
LEMMA NewBeforeFinite ==
  ASSUME NEW ids, NEW i \in Nat
  PROVE  /\ IsFiniteSet(NewBefore(ids, i)) /\ Cardinality(NewBefore(ids, i)) \in Nat
<1>. DEFINE T == {ids[j] : j \in 1..(i - 1)}
            f == [j \in 1..(i - 1) |-> ids[j]]
<1>1. IsFiniteSet(1..(i - 1))
  BY FS_Interval
<1>2. f \in Surjection(1..(i - 1), T)
  BY DEF Surjection
<1>3. IsFiniteSet(T)
  BY <1>1, <1>2, FS_Surjection
<1>4. NewBefore(ids, i) \in SUBSET T
  BY DEF NewBefore
<1>5. IsFiniteSet(NewBefore(ids, i))
  BY <1>3, <1>4, FS_Subset
<1>. QED BY <1>5, FS_CardinalityType

LEMMA NewBeforeGrows ==
  ASSUME NEW ids, NEW i \in Nat, NEW j \in Nat, i >= 1, i < j,
         ids[i] \notin NewBefore(ids, i), ids[i] \notin StoredIds(Squash(blocks))
  PROVE  Cardinality(NewBefore(ids, i)) < Cardinality(NewBefore(ids, j))
<1>. DEFINE U == NewBefore(ids, i) \cup {ids[i]}
<1>1. U \in SUBSET NewBefore(ids, j)
  BY DEF NewBefore
<1>2. /\ IsFiniteSet(NewBefore(ids, i)) /\ Cardinality(NewBefore(ids, i)) \in Nat
      /\ IsFiniteSet(NewBefore(ids, j)) /\ Cardinality(NewBefore(ids, j)) \in Nat
  BY NewBeforeFinite
<1>3. Cardinality(U) = Cardinality(NewBefore(ids, i)) + 1
  BY <1>2, FS_AddElement
<1>4. Cardinality(U) <= Cardinality(NewBefore(ids, j))
  <2>. HIDE DEF U
  <2>. QED BY <1>1, <1>2, FS_Subset
<1>. QED BY <1>2, <1>3, <1>4

LEMMA FirstInIs ==
  ASSUME NEW n \in Nat, NEW ids, DOMAIN ids = 1..n, NEW i \in 1..n
  PROVE  /\ FirstIn(ids, i) \in 1..n /\ FirstIn(ids, i) <= i
         /\ ids[FirstIn(ids, i)] = ids[i]
         /\ \A j \in 1..n : ids[j] = ids[i] => FirstIn(ids, i) <= j
<1>. DEFINE Same == {j \in DOMAIN ids : ids[j] = ids[i]}
<1>1. Same \subseteq Nat /\ i \in Same
  OBVIOUS
<1>2. Min(Same) \in Same /\ \A j \in Same : Min(Same) <= j
  <2>. HIDE DEF Same
  <2>. QED BY <1>1, MinIsLeast
<1>. QED BY <1>1, <1>2 DEF FirstIn

Redelivered(ids) ==
  [i \in DOMAIN ids |-> [id |-> ids[i], height |-> HeightIn(ids, i), key |-> TRUE]]

LEMMA RedeliverRepeats ==
  ASSUME ChainInv, NEW ids \in IdBatches, NEW us, NEW ts, RedeliverBlocks(ids, us, ts)
  PROVE  /\ Repeats(Redelivered(ids), Squash(blocks))
         /\ DOMAIN Redelivered(ids) = DOMAIN ids
         /\ InChainOrder(Upsert(Squash(blocks), Redelivered(ids), blockSeq))
              => AtHeights(Redelivered(ids), Squash(blocks))
<1>. DEFINE bs == Redelivered(ids)
            stored == Squash(blocks)
            Before(i) == Cardinality(NewBefore(ids, i))
<1>1. PICK n \in 1..MaxBatch : ids \in [1..n -> Ids]
  BY DEF IdBatches
<1>2. n \in Nat /\ n >= 1 /\ cursor \in Nat /\ blockSeq \in Nat
  BY <1>1, IndexAssumption DEF ChainInv, TypeOK
<1>3. Len(ids) = n /\ DOMAIN ids = 1..n
  BY <1>1, <1>2, LenOfFunction
<1>4. stored \in SUBSET BlockRows(Ids)
  BY SquashInOrder DEF ChainInv, TypeOK, OneChain
<1>5. cursor' = cursor + Before(n + 1)
  BY <1>3 DEF RedeliverBlocks
<1>. HIDE DEF stored
<1>6. \A i \in Nat : Before(i) \in Nat
  BY NewBeforeFinite
<1>. HIDE DEF Before
<1>7. ASSUME NEW i \in 1..n
      PROVE  /\ bs[i].id = ids[i] /\ bs[i].id \in Ids /\ bs[i].key /\ bs[i].key \in BOOLEAN
             /\ bs[i].height = HeightIn(ids, i) /\ bs[i].height \in Nat
  <2>1. bs[i] = [id |-> ids[i], height |-> HeightIn(ids, i), key |-> TRUE]
    BY <1>3 DEF Redelivered
  <2>2. ASSUME ids[i] \in StoredIds(stored) PROVE HeightIn(ids, i) \in Nat
    <3>1. HeightIn(ids, i) = RowOf(stored, ids[i]).height
      BY <2>2 DEF HeightIn, stored
    <3>2. RowOf(stored, ids[i]) \in stored
      BY <2>2 DEF RowOf, StoredIds
    <3>. QED BY <1>4, <3>1, <3>2 DEF BlockRows
  <2>3. ASSUME ids[i] \notin StoredIds(stored) PROVE HeightIn(ids, i) \in Nat
    <3>1. HeightIn(ids, i) = cursor + Before(FirstIn(ids, i))
      BY <2>3 DEF HeightIn, stored, Before
    <3>2. FirstIn(ids, i) \in Nat
      BY <1>2, <1>3, FirstInIs
    <3>. QED BY <1>2, <1>6, <3>1, <3>2
  <2>. HIDE DEF bs
  <2>4. bs[i].id = ids[i] /\ bs[i].height = HeightIn(ids, i) /\ bs[i].key = TRUE
    BY <2>1
  <2>5. HeightIn(ids, i) \in Nat /\ ids[i] \in Ids
    BY <1>1, <2>2, <2>3
  <2>. QED BY <2>4, <2>5
<1>8. DOMAIN bs = 1..n /\ Len(bs) = n
  <2>1. DOMAIN bs = 1..n
    BY <1>3 DEF Redelivered
  <2>2. bs \in [1..n -> {bs[i] : i \in 1..n}]
    BY <1>3 DEF Redelivered
  <2>. QED BY <1>2, <2>1, <2>2, LenOfFunction
<1>. HIDE DEF bs
<1>9. Batch(bs, Ids)
  BY <1>2, <1>7, <1>8 DEF Batch
<1>10. ASSUME NEW i \in New(stored, bs)
       PROVE  /\ i \in 1..n /\ bs[i].height = cursor + Before(i)
              /\ ids[i] \notin StoredIds(stored) /\ ids[i] \notin NewBefore(ids, i)
  <2>1. i \in 1..n /\ bs[i].id \notin StoredIds(stored)
        /\ \A j \in 1..n : j < i => bs[j].id # bs[i].id
    BY <1>8 DEF New, IsNew
  <2>2. ids[i] \notin StoredIds(stored) /\ \A j \in 1..n : j < i => ids[j] # ids[i]
    BY <1>7, <2>1
  <2>3. FirstIn(ids, i) = i
    <3>1. FirstIn(ids, i) \in 1..n /\ FirstIn(ids, i) <= i /\ ids[FirstIn(ids, i)] = ids[i]
      BY <1>2, <1>3, <2>1, FirstInIs
    <3>2. ~ (FirstIn(ids, i) < i)
      BY <2>2, <3>1
    <3>. QED BY <2>1, <3>1, <3>2
  <2>4. ids[i] \notin NewBefore(ids, i)
    <3>1. \A j \in 1..(i - 1) : j \in 1..n /\ j < i
      BY <2>1
    <3>. QED BY <2>2, <3>1 DEF NewBefore
  <2>. QED BY <1>7, <2>1, <2>2, <2>3, <2>4 DEF HeightIn, stored, Before
<1>11. ASSUME NEW i \in New(stored, bs), NEW j \in Nat, i < j PROVE Before(i) < Before(j)
  <2>1. i \in Nat /\ i >= 1 /\ ids[i] \notin StoredIds(stored) /\ ids[i] \notin NewBefore(ids, i)
    BY <1>10
  <2>. QED BY <1>11, <2>1, NewBeforeGrows DEF Before, stored
<1>12. ASSUME NEW i \in New(stored, bs)
       PROVE  cursor <= bs[i].height /\ bs[i].height < cursor'
  <2>1. i \in Nat /\ n + 1 \in Nat /\ i < n + 1 /\ bs[i].height = cursor + Before(i)
    BY <1>2, <1>10
  <2>2. Before(i) < Before(n + 1) /\ Before(i) \in Nat /\ Before(n + 1) \in Nat
    BY <1>6, <1>11, <2>1
  <2>. QED BY <1>2, <1>5, <2>1, <2>2
<1>13. ASSUME NEW i \in New(stored, bs), NEW j \in New(stored, bs), i < j
       PROVE  bs[i].height < bs[j].height
  <2>1. /\ i \in Nat /\ j \in Nat /\ bs[i].height = cursor + Before(i)
        /\ bs[j].height = cursor + Before(j)
    BY <1>10
  <2>2. Before(i) < Before(j) /\ Before(i) \in Nat /\ Before(j) \in Nat
    BY <1>6, <1>11, <1>13, <2>1
  <2>. QED BY <1>2, <2>1, <2>2
<1>14. cursor' \in Nat /\ cursor <= cursor'
  <2>1. Before(n + 1) \in Nat
    BY <1>2, <1>6
  <2>. QED BY <1>2, <1>5, <2>1
<1>15. Repeats(bs, stored)
  BY <1>7, <1>8, <1>9, <1>12, <1>13, <1>14 DEF Repeats
<1>16. ASSUME InChainOrder(Upsert(stored, bs, blockSeq)), NEW i \in 1..n
       PROVE  RowOf(Upsert(stored, bs, blockSeq), bs[i].id).height = bs[i].height
  <2>1. CASE ids[i] \in StoredIds(stored)
    <3>1. RowOf(stored, ids[i]) \in stored /\ RowOf(stored, ids[i]).id = ids[i]
      BY <2>1 DEF RowOf, StoredIds
    <3>2. RowOf(Upsert(stored, bs, blockSeq), RowOf(stored, ids[i]).id) = RowOf(stored, ids[i])
      BY <1>2, <1>16, <3>1, RowOfStored
    <3>3. bs[i].height = RowOf(stored, ids[i]).height /\ bs[i].id = ids[i]
      BY <1>7, <2>1 DEF HeightIn, stored
    <3>. QED BY <3>1, <3>2, <3>3
  <2>2. CASE ids[i] \notin StoredIds(stored)
    <3>. DEFINE f == FirstIn(ids, i)
    <3>1. /\ f \in 1..n /\ ids[f] = ids[i] /\ \A j \in 1..n : ids[j] = ids[i] => f <= j
      BY <1>2, <1>3, FirstInIs
    <3>2. bs[i].height = cursor + Before(f)
      BY <1>7, <2>2 DEF HeightIn, stored, Before
    <3>. HIDE DEF f
    <3>3. f \in New(stored, bs)
      <4>1. bs[f].id \notin StoredIds(stored)
        BY <1>7, <2>2, <3>1
      <4>2. ASSUME NEW j \in 1..n, j < f PROVE bs[j].id # bs[f].id
        BY <1>7, <3>1, <4>2
      <4>. QED BY <1>8, <3>1, <4>1, <4>2 DEF New, IsNew
    <3>4. bs[f].height = bs[i].height /\ bs[f].id = bs[i].id
      BY <1>7, <1>10, <3>1, <3>2, <3>3
    <3>5. Appended(bs, blockSeq, f) \in Upsert(stored, bs, blockSeq)
      BY <3>3, UpsertNewRows
    <3>6. \A c \in Upsert(stored, bs, blockSeq) : c.id = bs[f].id => c = Appended(bs, blockSeq, f)
      BY <1>16, <3>5 DEF InChainOrder, Appended
    <3>7. RowOf(Upsert(stored, bs, blockSeq), bs[f].id) = Appended(bs, blockSeq, f)
      BY <3>5, <3>6 DEF RowOf, Appended
    <3>. QED BY <3>4, <3>7 DEF Appended
  <2>. QED BY <2>1, <2>2
<1>17. InChainOrder(Upsert(stored, bs, blockSeq)) => AtHeights(bs, stored)
  BY <1>8, <1>16 DEF AtHeights
<1>. QED BY <1>3, <1>8, <1>15, <1>17 DEF bs, stored

LEMMA InitChainInv == Init => ChainInv
<1>1. Init => TypeOK /\ OneChain
  BY InitIInv DEF IInv
<1>. QED BY <1>1 DEF Init, ChainInv, Refers, DccRefers

LEMMA SameTouchesOfDomain ==
  ASSUME NEW ids, NEW bs, DOMAIN bs = DOMAIN ids, NEW max
  PROVE  Touches(ids, max) = Touches(bs, max)
  BY DEF Touches

LEMMA HandleBlocksChain ==
  ASSUME ChainInv, NEW ids \in IdBatches,
         NEW us \in Touches(ids, MaxUps), NEW ts \in Touches(ids, MaxTickerUps),
         HandleBlocks(ids, us, ts)
  PROVE  ChainInv'
<1>. DEFINE bs == [i \in DOMAIN ids |->
                     [id |-> ids[i], height |-> cursor + i - 1, key |-> TRUE]]
<1>1. Repeats(bs, Squash(blocks)) /\ DOMAIN bs = DOMAIN ids
  BY HandleBlocksRepeats
<1>2. Appends(bs, us, ts, Squash(blocks), Squashed(assets), Squashed(tickers))
  BY DEF HandleBlocks
<1>. HIDE DEF bs
<1>3. us \in Touches(bs, MaxUps) /\ ts \in Touches(bs, MaxTickerUps)
  BY <1>1, SameTouchesOfDomain
<1>. QED BY <1>1, <1>2, <1>3, RepeatsKeepChain

LEMMA RedeliverBlocksChain ==
  ASSUME ChainInv, NEW ids \in IdBatches,
         NEW us \in Touches(ids, MaxUps), NEW ts \in Touches(ids, MaxTickerUps),
         RedeliverBlocks(ids, us, ts)
  PROVE  ChainInv'
<1>. DEFINE bs == Redelivered(ids)
<1>1. Repeats(bs, Squash(blocks)) /\ DOMAIN bs = DOMAIN ids
  BY RedeliverRepeats
<1>2. Appends(bs, us, ts, Squash(blocks), Squashed(assets), Squashed(tickers))
  BY DEF RedeliverBlocks, Redelivered
<1>. HIDE DEF bs
<1>3. us \in Touches(bs, MaxUps) /\ ts \in Touches(bs, MaxTickerUps)
  BY <1>1, SameTouchesOfDomain
<1>. QED BY <1>1, <1>2, <1>3, RepeatsKeepChain

LEMMA HandleMicroblockChain ==
  ASSUME ChainInv, NEW id \in Ids,
         NEW us \in Touches(<<id>>, MaxUps), NEW ts \in Touches(<<id>>, MaxTickerUps),
         HandleMicroblock(id, us, ts)
  PROVE  ChainInv'
<1>. DEFINE bs == <<[id |-> id, height |-> cursor - 1, key |-> FALSE]>>
<1>1. /\ cursor \in Nat /\ blockSeq \in Nat
      /\ blocks \in SUBSET BlockRows(Ids)
      /\ InChainOrder(blocks)
      /\ \A b \in blocks : b.uid < blockSeq /\ b.height < cursor
      /\ \A d \in dcc : d.block \in Uids(Keys(blocks))
      /\ Refers(assets, Uids(blocks)) /\ Refers(tickers, Uids(blocks))
      /\ TypeOK
  BY DEF ChainInv, TypeOK, OneChain, DccRefers
<1>2. /\ blocks # {} /\ id \notin StoredIds(blocks)
      /\ CurrentHeight(blocks) = cursor - 1
      /\ Appends(bs, us, ts, blocks, assets, tickers)
      /\ cursor' = cursor
  BY DEF HandleMicroblock
<1>3. /\ cursor - 1 \in Nat
      /\ \A b \in blocks : b.height <= cursor - 1
      /\ \E b \in blocks : b.height = cursor - 1
  BY <1>1, <1>2, CurrentHeightIsGreatest
<1>4. /\ Len(bs) = 1 /\ DOMAIN bs = 1..1 /\ DOMAIN bs = {1}
      /\ bs[1].id = id /\ bs[1].height = cursor - 1 /\ bs[1].key = FALSE
  OBVIOUS
<1>5. us \in Touches(bs, MaxUps) /\ ts \in Touches(bs, MaxTickerUps)
  BY DEF Touches
<1>. HIDE DEF bs
<1>6. Batch(bs, Ids)
  <2>1. Len(bs) \in Nat /\ DOMAIN bs = 1..Len(bs)
    BY <1>4
  <2>2. ASSUME NEW i \in DOMAIN bs
        PROVE  bs[i].id \in Ids /\ bs[i].height \in Nat /\ bs[i].key \in BOOLEAN
    <3>1. i = 1
      BY <1>4
    <3>. QED BY <1>3, <1>4, <3>1
  <2>. QED BY <2>1, <2>2 DEF Batch
<1>7. NewIds(blocks, bs)
  BY <1>2, <1>4 DEF NewIds
<1>8. Minting(bs) = {}
  BY <1>4 DEF Minting
<1>9. /\ Refers(assets', Uids(blocks')) /\ Refers(tickers', Uids(blocks'))
      /\ blocks' = Upsert(blocks, bs, blockSeq)
      /\ blocks' \in SUBSET BlockRows(Ids)
      /\ \A b \in blocks' : b.uid < blockSeq'
      /\ blockSeq' \in Nat /\ assetSeq' \in Nat /\ tickerSeq' \in Nat
      /\ origins' \subseteq [asset : Assets, first : Nat]
      /\ dcc' \subseteq [height : Nat, block : Nat]
      /\ DccRefers'
  BY <1>1, <1>2, <1>5, <1>6, <1>8, AppendsKeepReferences
<1>10. InChainOrder(blocks')
  BY <1>1, <1>3, <1>4, <1>6, <1>7, <1>9, UpsertMicroInOrder
<1>11. \A b \in blocks' : b.height < cursor'
  <2>1. Appended(bs, blockSeq, 1).height = cursor - 1
    BY <1>4 DEF Appended
  <2>2. blocks' = blocks \cup {Appended(bs, blockSeq, i) : i \in {1}}
    BY <1>1, <1>4, <1>6, <1>7, <1>9, UpsertRows
  <2>. QED BY <1>1, <1>2, <2>1, <2>2
<1>12. TypeOK' /\ OneChain'
  BY <1>1, <1>2, <1>9, <1>10, <1>11 DEF TypeOK, OneChain, Refers
<1>. QED BY <1>9, <1>12 DEF ChainInv

(* A microblock that comes again finds its row.                            *)
Again(m) == <<[id |-> m.id, height |-> m.height, key |-> FALSE]>>

LEMMA AgainIsStored ==
  ASSUME ChainInv, NEW m \in Micros(blocks)
  PROVE  /\ Batch(Again(m), Ids) /\ Minting(Again(m)) = {} /\ Len(Again(m)) = 1
         /\ DOMAIN Again(m) = {1} /\ Again(m)[1].id = m.id
         /\ Upsert(blocks, Again(m), blockSeq) = blocks
         /\ RowOf(blocks, m.id) = m
<1>1. /\ m \in blocks /\ m.id \in Ids /\ m.height \in Nat
      /\ \A b, c \in blocks : b.id = c.id => b = c
  BY DEF ChainInv, TypeOK, OneChain, InChainOrder, Micros, BlockRows
<1>2. /\ Len(Again(m)) = 1 /\ DOMAIN Again(m) = 1..1 /\ DOMAIN Again(m) = {1}
      /\ Again(m)[1].id = m.id /\ Again(m)[1].height = m.height /\ Again(m)[1].key = FALSE
  BY DEF Again
<1>3. Batch(Again(m), Ids)
  <2>1. ASSUME NEW i \in DOMAIN Again(m)
        PROVE  /\ Again(m)[i].id \in Ids /\ Again(m)[i].height \in Nat
               /\ Again(m)[i].key \in BOOLEAN
    BY <1>1, <1>2
  <2>. QED BY <1>2, <2>1 DEF Batch
<1>4. Minting(Again(m)) = {}
  BY <1>2 DEF Minting
<1>5. New(blocks, Again(m)) = {}
  BY <1>1, <1>2 DEF New, IsNew, StoredIds
<1>6. Upsert(blocks, Again(m), blockSeq) = blocks
  BY <1>5, UpsertNewRows
<1>7. RowOf(blocks, m.id) = m
  BY <1>1 DEF RowOf
<1>. QED BY <1>2, <1>3, <1>4, <1>6, <1>7

LEMMA RedeliverMicroblockItem ==
  ASSUME NEW id,
         NEW us \in Touches(<<id>>, MaxUps), NEW ts \in Touches(<<id>>, MaxTickerUps),
         RedeliverMicroblock(id, us, ts)
  PROVE  \E m \in Micros(blocks) :
           /\ Appends(Again(m), us, ts, blocks, assets, tickers)
           /\ us \in Touches(Again(m), MaxUps) /\ ts \in Touches(Again(m), MaxTickerUps)
           /\ \A i \in DOMAIN us : \E q \in assets : q.asset = us[i].asset /\ q.block = m.uid
           /\ cursor' = cursor
<1>1. PICK m \in Micros(blocks) :
        /\ m.id = id
        /\ {us[i].asset : i \in DOMAIN us}
             = {r.asset : r \in {q \in assets : q.block = m.uid}}
        /\ Appends(<<[id |-> id, height |-> m.height, key |-> FALSE]>>,
                   us, ts, blocks, assets, tickers)
  BY DEF RedeliverMicroblock
<1>2. Appends(Again(m), us, ts, blocks, assets, tickers)
  BY <1>1 DEF Again
<1>3. DOMAIN Again(m) = DOMAIN <<id>>
  BY DEF Again
<1>4. us \in Touches(Again(m), MaxUps) /\ ts \in Touches(Again(m), MaxTickerUps)
  BY <1>3 DEF Touches
<1>5. \A i \in DOMAIN us : \E q \in assets : q.asset = us[i].asset /\ q.block = m.uid
  BY <1>1
<1>. QED BY <1>2, <1>4, <1>5 DEF RedeliverMicroblock

LEMMA RedeliverMicroblockChain ==
  ASSUME ChainInv, NEW id,
         NEW us \in Touches(<<id>>, MaxUps), NEW ts \in Touches(<<id>>, MaxTickerUps),
         RedeliverMicroblock(id, us, ts)
  PROVE  ChainInv' /\ blocks' = blocks
<1>1. PICK m \in Micros(blocks) :
        /\ Appends(Again(m), us, ts, blocks, assets, tickers)
        /\ us \in Touches(Again(m), MaxUps) /\ ts \in Touches(Again(m), MaxTickerUps)
        /\ cursor' = cursor
  BY RedeliverMicroblockItem
<1>2. /\ Batch(Again(m), Ids) /\ Minting(Again(m)) = {}
      /\ Upsert(blocks, Again(m), blockSeq) = blocks
  BY AgainIsStored
<1>3. /\ TypeOK /\ OneChain /\ blocks \in SUBSET BlockRows(Ids)
      /\ \A b \in blocks : b.uid < blockSeq
      /\ Refers(assets, Uids(blocks)) /\ Refers(tickers, Uids(blocks))
      /\ \A d \in dcc : d.block \in Uids(Keys(blocks))
  BY DEF ChainInv, TypeOK, OneChain, DccRefers
<1>4. /\ Refers(assets', Uids(blocks')) /\ Refers(tickers', Uids(blocks'))
      /\ blocks' = Upsert(blocks, Again(m), blockSeq)
      /\ \A b \in blocks' : b.uid < blockSeq'
      /\ blockSeq' \in Nat /\ assetSeq' \in Nat /\ tickerSeq' \in Nat
      /\ origins' \subseteq [asset : Assets, first : Nat]
      /\ dcc' \subseteq [height : Nat, block : Nat]
      /\ DccRefers'
  BY <1>1, <1>2, <1>3, AppendsKeepReferences
<1>5. blocks' = blocks
  BY <1>2, <1>4
<1>6. OneChain' /\ TypeOK'
  BY <1>1, <1>3, <1>4, <1>5 DEF OneChain, TypeOK, Refers
<1>. QED BY <1>4, <1>5, <1>6 DEF ChainInv

LEMMA RollBackToChain ==
  ASSUME ChainInv, NEW rs \in SUBSET blocks, rs # {}, RollBackTo(rs)
  PROVE  ChainInv'
<1>. DEFINE row == LowestRow(rs)
<1>0. /\ row \in blocks /\ row.uid \in Nat /\ row.height \in Nat
      /\ Uids(rs) \in SUBSET Nat /\ row.uid \in Uids(rs)
  BY RowsRolledBackTo DEF ChainInv, TypeOK
<1>1. /\ blocks \in SUBSET BlockRows(Ids) /\ InChainOrder(blocks)
      /\ \A b \in blocks : b.uid < blockSeq
      /\ Refers(assets, Uids(blocks)) /\ Refers(tickers, Uids(blocks))
      /\ assetSeq \in Nat /\ tickerSeq \in Nat /\ blockSeq \in Nat
  BY DEF ChainInv, TypeOK, OneChain
<1>2. /\ assets' = RollBackThrough(assets, Uids(rs))
      /\ tickers' = RollBackThrough(tickers, Uids(rs))
      /\ blocks' = CutAbove(blocks, row.uid)
      /\ origins' \subseteq origins
      /\ dcc' = {d \in dcc : d.block \in Uids(blocks')}
      /\ cursor' = row.height + 1
      /\ blockSeq' = blockSeq /\ assetSeq' = assetSeq /\ tickerSeq' = tickerSeq
  BY DEF RollBackTo
<1>. HIDE DEF row
<1>3. Uids(blocks') = {u \in Uids(blocks) : u <= row.uid}
  BY <1>2 DEF CutAbove, Uids
<1>4. Refers(assets', Uids(blocks')) /\ Refers(tickers', Uids(blocks'))
  BY <1>0, <1>1, <1>2, <1>3, RollBackRefers
<1>5. InChainOrder(blocks') /\ \A b \in blocks' : b.height <= row.height
  BY <1>0, <1>1, <1>2, CutAboveInOrder
<1>6. blocks' \subseteq blocks
  BY <1>2 DEF CutAbove
<1>7. OneChain'
  <2>1. \A b \in blocks' : b.height \in Nat
    BY <1>1, <1>6 DEF BlockRows
  <2>2. \A b \in blocks' : b.height < cursor'
    BY <1>0, <1>1, <1>2, <1>5, <2>1
  <2>. QED BY <1>1, <1>2, <1>5, <1>6, <2>2 DEF OneChain
<1>8. TypeOK'
  BY <1>0, <1>1, <1>2, <1>4, <1>6 DEF ChainInv, TypeOK, Refers
<1>9. DccRefers'
  <2>1. ASSUME NEW d \in dcc' PROVE d.block \in Uids(Keys(blocks'))
    <3>1. d \in dcc /\ d.block \in Uids(Keys(blocks)) /\ d.block \in Uids(blocks')
      BY <1>2 DEF ChainInv, DccRefers
    <3>2. PICK k \in Keys(blocks) : k.uid = d.block
      BY <3>1 DEF Uids
    <3>3. k.uid <= row.uid
      BY <1>3, <3>1, <3>2
    <3>4. k \in Keys(blocks')
      BY <1>2, <3>2, <3>3 DEF Keys, CutAbove
    <3>. QED BY <3>2, <3>4 DEF Uids
  <2>. QED BY <2>1 DEF DccRefers
<1>. QED BY <1>4, <1>7, <1>8, <1>9 DEF ChainInv

LEMMA UnchangedChain ==
  ASSUME ChainInv, UNCHANGED vars
  PROVE  ChainInv'
BY DEF ChainInv, TypeOK, OneChain, DccRefers, vars

LEMMA NextChainInv ==
  ASSUME ChainInv, [Next]_vars
  PROVE  ChainInv'
<1>1. ASSUME NEW ids \in IdBatches,
             NEW us \in Touches(ids, MaxUps), NEW ts \in Touches(ids, MaxTickerUps),
             HandleBlocks(ids, us, ts) \/ RedeliverBlocks(ids, us, ts)
      PROVE  ChainInv'
  BY <1>1, HandleBlocksChain, RedeliverBlocksChain
<1>2. ASSUME NEW id \in Ids,
             NEW us \in Touches(<<id>>, MaxUps), NEW ts \in Touches(<<id>>, MaxTickerUps),
             HandleMicroblock(id, us, ts) \/ RedeliverMicroblock(id, us, ts)
      PROVE  ChainInv'
  BY <1>2, HandleMicroblockChain, RedeliverMicroblockChain
<1>3. ASSUME NEW id \in Ids, HandleRollback(id) PROVE ChainInv'
  BY <1>3, OneRow, RollBackToChain DEF HandleRollback
<1>4. CASE Resume
  BY <1>4, ResumeRollsBack, UnchangedChain, RollBackToChain
<1>5. CASE UNCHANGED vars
  BY <1>5, UnchangedChain
<1>. QED BY <1>1, <1>2, <1>3, <1>4, <1>5 DEF Next

(* The invariant holds in every reachable state. *)
THEOREM ChainInvariant ==
  Spec => []ChainInv
<1>1. ChainInv /\ [Next]_vars => ChainInv'
  BY NextChainInv
<1>. QED BY <1>1, InitChainInv, PTL DEF Spec

(* Type correctness. *)
THEOREM TypeCorrect ==
  Spec => []TypeOK
<1>1. ChainInv => TypeOK
  BY DEF ChainInv
<1>. QED BY <1>1, ChainInvariant, PTL

(* blocks_microblocks is one chain below the next block of the stream,     *)
(* whatever stored ids the stream repeats: the insert skips them.          *)
THEOREM BlocksAreOneChain ==
  Spec => []OneChain
<1>1. ChainInv => OneChain
  BY DEF ChainInv
<1>. QED BY <1>1, ChainInvariant, PTL

(* The order of statements in squash_microblocks and rollback keeps every  *)
(* foreign key.                                                            *)
THEOREM ReferencesKept ==
  Spec => []References
<1>1. ChainInv => References
  BY DEF ChainInv, Refers, DccRefers, References, Uids, Keys
<1>. QED BY <1>1, ChainInvariant, PTL

-----------------------------------------------------------------------------
(* dcc_data has the rows of the minting heights of the stored chain.       *)
Minted(bl) ==
  {[height |-> k.height, block |-> k.uid] : k \in {b \in Keys(bl) : b.height \in Mints}}

LEMMA AllNewAtHeights ==
  ASSUME NEW stored \in SUBSET BlockRows(Ids), NEW bs, Batch(bs, Ids), blockSeq \in Nat,
         NewIds(stored, bs)
  PROVE  AtHeights(bs, stored)
<1>1. ASSUME NEW i \in DOMAIN bs
      PROVE  RowOf(Upsert(stored, bs, blockSeq), bs[i].id).height = bs[i].height
  <2>1. RowOf(Upsert(stored, bs, blockSeq), bs[i].id) = Appended(bs, blockSeq, i)
    BY AppendedUid
  <2>. QED BY <2>1, AppendedFields
<1>. QED BY <1>1 DEF AtHeights

LEMMA HandleBlocksAtHeights ==
  ASSUME ChainInv, NEW ids \in IdBatches, NEW us, NEW ts, HandleBlocks(ids, us, ts)
  PROVE  AtHeights([i \in DOMAIN ids |->
                      [id |-> ids[i], height |-> cursor + i - 1, key |-> TRUE]],
                   Squash(blocks))
<1>. DEFINE bs == [i \in DOMAIN ids |->
                     [id |-> ids[i], height |-> cursor + i - 1, key |-> TRUE]]
<1>1. Batch(bs, Ids) /\ DOMAIN bs = DOMAIN ids
  BY HandleBlocksRepeats DEF Repeats
<1>2. /\ Squash(blocks) \in SUBSET BlockRows(Ids) /\ blockSeq \in Nat
      /\ StoredIds(Squash(blocks)) \subseteq StoredIds(blocks)
  BY SquashInOrder DEF ChainInv, TypeOK, OneChain
<1>3. \A i \in DOMAIN ids : bs[i].id = ids[i]
  OBVIOUS
<1>4. /\ \A i \in DOMAIN ids : ids[i] \notin StoredIds(blocks)
      /\ \A i, j \in DOMAIN ids : ids[i] = ids[j] => i = j
  BY DEF HandleBlocks
<1>. HIDE DEF bs
<1>5. NewIds(Squash(blocks), bs)
  BY <1>1, <1>2, <1>3, <1>4 DEF NewIds
<1>6. AtHeights(bs, Squash(blocks))
  BY <1>1, <1>2, <1>5, AllNewAtHeights
<1>. QED BY <1>6 DEF bs

(* The last block of the batch at a height is the stored one.              *)
LEMMA RepeatsMinted ==
  ASSUME NEW stored \in SUBSET BlockRows(Ids), NEW bs, Batch(bs, Ids), blockSeq \in Nat,
         \A i \in DOMAIN bs : bs[i].key,
         InChainOrder(Upsert(stored, bs, blockSeq)), Micros(stored) = {},
         Micros(Upsert(stored, bs, blockSeq)) = {},
         AtHeights(bs, stored), dcc = Minted(stored)
  PROVE  MintedDcc(bs, Upsert(stored, bs, blockSeq)) = Minted(Upsert(stored, bs, blockSeq))
<1>. DEFINE rows == Upsert(stored, bs, blockSeq)
            R(i) == RowOf(rows, bs[i].id)
            D(b) == [height |-> b.height, block |-> b.uid]
            Left == {d \in dcc : \A i \in Minting(bs) : d.height # bs[i].height}
            Last == {k \in Minting(bs) :
                       \A j \in Minting(bs) : bs[j].height = bs[k].height => j <= k}
<1>1. rows \in SUBSET BlockRows(Ids) /\ \A i \in DOMAIN bs : R(i) \in rows
  BY UpsertNew, ReadBack
<1>2. \A i \in DOMAIN bs : R(i).height = bs[i].height
  BY DEF AtHeights
<1>3. rows = stored \cup {Appended(bs, blockSeq, i) : i \in New(stored, bs)}
  BY UpsertNewRows
<1>4. Keys(rows) = rows /\ Keys(stored) = stored
  BY DEF Keys, Micros
<1>. HIDE DEF rows
<1>5. ASSUME NEW b \in rows, NEW c \in rows, b.height = c.height PROVE b = c
  <2>1. b.uid \in Nat /\ c.uid \in Nat /\ b.height \in Nat /\ c.height \in Nat
    BY <1>1 DEF BlockRows
  <2>2. ~ (b.uid < c.uid) /\ ~ (c.uid < b.uid)
    BY <1>4, <1>5, <2>1 DEF InChainOrder, rows
  <2>3. b.uid = c.uid
    BY <2>1, <2>2
  <2>. QED BY <2>3 DEF InChainOrder, rows
<1>. HIDE DEF R
<1>6. MintedDcc(bs, rows) = Left \cup {[height |-> bs[i].height, block |-> R(i).uid] : i \in Last}
  BY DEF MintedDcc, R
<1>7. Minted(rows) = {D(b) : b \in {c \in rows : c.height \in Mints}}
  BY <1>4 DEF Minted
<1>8. dcc = {D(b) : b \in {c \in stored : c.height \in Mints}}
  BY <1>4 DEF Minted
<1>9. ASSUME NEW i \in Minting(bs)
      PROVE  /\ i \in DOMAIN bs /\ i \in Nat /\ i <= Len(bs) /\ Len(bs) \in Nat
             /\ R(i) \in rows /\ R(i).height = bs[i].height /\ R(i).height \in Mints
             /\ [height |-> bs[i].height, block |-> R(i).uid] = D(R(i))
  <2>1. i \in DOMAIN bs /\ bs[i].height \in Mints
    BY DEF Minting
  <2>. QED BY <1>1, <1>2, <2>1 DEF Batch
<1>. HIDE DEF D
<1>10. ASSUME NEW d \in MintedDcc(bs, rows) PROVE d \in Minted(rows)
  <2>1. CASE d \in Left
    <3>1. PICK b \in stored : b.height \in Mints /\ d = D(b)
      BY <1>8, <2>1
    <3>. QED BY <1>3, <1>7, <3>1
  <2>2. ASSUME NEW i \in Last, d = [height |-> bs[i].height, block |-> R(i).uid]
        PROVE  d \in Minted(rows)
    BY <1>7, <1>9, <2>2
  <2>. QED BY <1>6, <2>1, <2>2
<1>11. ASSUME NEW b \in rows, b.height \in Mints PROVE D(b) \in MintedDcc(bs, rows)
  <2>. DEFINE At == {i \in Minting(bs) : bs[i].height = b.height}
  <2>1. CASE At = {}
    <3>1. b \in stored
      <4>1. ASSUME NEW i \in New(stored, bs), b = Appended(bs, blockSeq, i) PROVE FALSE
        <5>1. i \in DOMAIN bs /\ b.height = bs[i].height
          BY <4>1 DEF New, Appended
        <5>2. i \in Minting(bs)
          BY <1>11, <5>1 DEF Minting
        <5>. QED BY <2>1, <5>1, <5>2
      <4>. QED BY <1>3, <4>1
    <3>2. D(b) \in dcc
      BY <1>8, <1>11, <3>1
    <3>3. D(b).height = b.height
      BY DEF D
    <3>. QED BY <1>6, <2>1, <3>2, <3>3
  <2>2. CASE At # {}
    <3>1. At \subseteq Nat /\ \A i \in At : i <= Len(bs)
      BY <1>9
    <3>2. Len(bs) \in Nat
      BY DEF Batch
    <3>3. PICK k \in At : \A i \in At : i <= k
      <4>. HIDE DEF At
      <4>1. Max(At) \in At /\ \A i \in At : i <= Max(At)
        BY <2>2, <3>1, <3>2, MaxIsGreatest
      <4>. QED BY <4>1
    <3>4. k \in Last
      BY <3>3
    <3>5. R(k) = b
      BY <1>5, <1>9, <3>3
    <3>6. [height |-> bs[k].height, block |-> R(k).uid] = D(b)
      BY <1>9, <3>3, <3>5
    <3>. QED BY <1>6, <3>4, <3>6
  <2>. QED BY <2>1, <2>2
<1>12. MintedDcc(bs, rows) = Minted(rows)
  <2>. HIDE DEF Left, Last
  <2>. QED BY <1>7, <1>10, <1>11
<1>. QED BY <1>12 DEF rows

(* Squashing renames the last key block; heights and uids stay.            *)
LEMMA SquashMintsSame ==
  ASSUME ChainInv
  PROVE  Minted(Squash(blocks)) = Minted(blocks)
<1>. DEFINE stored == Squash(blocks)
<1>1. /\ blocks \in SUBSET BlockRows(Ids) /\ InChainOrder(blocks) /\ blockSeq \in Nat
      /\ \A b \in blocks : b.uid < blockSeq
  BY DEF ChainInv, TypeOK, OneChain
<1>2. /\ Micros(stored) = {}
      /\ Uids(stored) = Uids(Keys(blocks))
      /\ \A b \in stored : \E c \in Keys(blocks) : c.uid = b.uid /\ c.height = b.height
  BY <1>1, SquashInOrder
<1>. HIDE DEF stored
<1>3. ASSUME NEW c \in Keys(blocks) PROVE \E b \in stored : b.uid = c.uid /\ b.height = c.height
  <2>1. PICK b \in stored : b.uid = c.uid
    BY <1>2 DEF Uids
  <2>2. PICK d \in Keys(blocks) : d.uid = b.uid /\ d.height = b.height
    BY <1>2
  <2>3. d = c
    BY <1>1, <2>1, <2>2 DEF InChainOrder, Keys
  <2>. QED BY <2>1, <2>2, <2>3
<1>4. Keys(stored) = stored
  BY <1>2 DEF Keys, Micros
<1>. QED BY <1>2, <1>3, <1>4 DEF Minted, stored

LEMMA KeyBatchMints ==
  ASSUME ChainInv, ~ AssetsOnly, dcc = Minted(blocks),
         NEW bs, Repeats(bs, Squash(blocks)), AtHeights(bs, Squash(blocks)),
         NEW us \in Touches(bs, MaxUps), NEW ts \in Touches(bs, MaxTickerUps),
         Appends(bs, us, ts, Squash(blocks), Squashed(assets), Squashed(tickers))
  PROVE  dcc' = Minted(blocks')
<1>. DEFINE stored == Squash(blocks)
<1>1. ChainInv' /\ blocks' = Upsert(stored, bs, blockSeq)
  BY RepeatsKeepChain
<1>2. stored \in SUBSET BlockRows(Ids) /\ Micros(stored) = {} /\ blockSeq \in Nat
  BY SquashInOrder DEF ChainInv, TypeOK, OneChain
<1>3. Batch(bs, Ids) /\ \A i \in DOMAIN bs : bs[i].key
  BY DEF Repeats
<1>4. InChainOrder(blocks') /\ Micros(blocks') = {}
  <2>1. InChainOrder(blocks')
    BY <1>1 DEF ChainInv, OneChain
  <2>2. \A i \in New(stored, bs) : Appended(bs, blockSeq, i).key
    BY <1>3 DEF New, Appended
  <2>. HIDE DEF stored
  <2>. QED BY <1>1, <1>2, <2>1, <2>2, UpsertNewRows DEF Micros
<1>5. dcc = Minted(stored)
  BY SquashMintsSame
<1>6. dcc' = MintedDcc(bs, blocks')
  BY DEF Appends
<1>7. AtHeights(bs, stored)
  OBVIOUS
<1>. HIDE DEF stored
<1>. QED BY <1>1, <1>2, <1>3, <1>4, <1>5, <1>6, <1>7, RepeatsMinted

LEMMA DccStep ==
  ASSUME ChainInv, [Next]_vars, DccFollowsChain
  PROVE  DccFollowsChain'
<1>. SUFFICES ASSUME ~ AssetsOnly, dcc = Minted(blocks) PROVE dcc' = Minted(blocks')
  BY DEF DccFollowsChain, Minted
<1>1. ASSUME NEW ids \in IdBatches,
             NEW us \in Touches(ids, MaxUps), NEW ts \in Touches(ids, MaxTickerUps),
             HandleBlocks(ids, us, ts)
      PROVE  dcc' = Minted(blocks')
  <2>. DEFINE bs == [i \in DOMAIN ids |->
                       [id |-> ids[i], height |-> cursor + i - 1, key |-> TRUE]]
  <2>1. Repeats(bs, Squash(blocks)) /\ DOMAIN bs = DOMAIN ids /\ AtHeights(bs, Squash(blocks))
    BY <1>1, HandleBlocksRepeats, HandleBlocksAtHeights
  <2>2. Appends(bs, us, ts, Squash(blocks), Squashed(assets), Squashed(tickers))
    BY <1>1 DEF HandleBlocks
  <2>. HIDE DEF bs
  <2>3. us \in Touches(bs, MaxUps) /\ ts \in Touches(bs, MaxTickerUps)
    BY <2>1, SameTouchesOfDomain
  <2>. QED BY <2>1, <2>2, <2>3, KeyBatchMints
<1>2. ASSUME NEW ids \in IdBatches,
             NEW us \in Touches(ids, MaxUps), NEW ts \in Touches(ids, MaxTickerUps),
             RedeliverBlocks(ids, us, ts)
      PROVE  dcc' = Minted(blocks')
  <2>. DEFINE bs == Redelivered(ids)
  <2>1. Repeats(bs, Squash(blocks)) /\ DOMAIN bs = DOMAIN ids
    BY <1>2, RedeliverRepeats
  <2>2. Appends(bs, us, ts, Squash(blocks), Squashed(assets), Squashed(tickers))
    BY <1>2 DEF RedeliverBlocks, Redelivered
  <2>3. InChainOrder(Upsert(Squash(blocks), bs, blockSeq)) => AtHeights(bs, Squash(blocks))
    BY <1>2, RedeliverRepeats
  <2>. HIDE DEF bs
  <2>4. us \in Touches(bs, MaxUps) /\ ts \in Touches(bs, MaxTickerUps)
    BY <2>1, SameTouchesOfDomain
  <2>5. InChainOrder(Upsert(Squash(blocks), bs, blockSeq))
    <3>1. ChainInv' /\ blocks' = Upsert(Squash(blocks), bs, blockSeq)
      BY <2>1, <2>2, <2>4, RepeatsKeepChain
    <3>. QED BY <3>1 DEF ChainInv, OneChain
  <2>. QED BY <2>1, <2>2, <2>3, <2>4, <2>5, KeyBatchMints
<1>3. ASSUME NEW id \in Ids, NEW us, NEW ts, HandleMicroblock(id, us, ts)
      PROVE  dcc' = Minted(blocks')
  <2>. DEFINE bs == <<[id |-> id, height |-> cursor - 1, key |-> FALSE]>>
  <2>1. blocks' = Upsert(blocks, bs, blockSeq) /\ dcc' = MintedDcc(bs, blocks')
    BY <1>3 DEF HandleMicroblock, Appends
  <2>2. DOMAIN bs = {1} /\ ~ bs[1].key
    OBVIOUS
  <2>. HIDE DEF bs
  <2>3. Minting(bs) = {}
    BY <2>2 DEF Minting
  <2>4. dcc' = dcc
    BY <2>1, <2>3 DEF MintedDcc
  <2>5. Keys(blocks') = Keys(blocks)
    BY <2>1, <2>2, UpsertNewRows DEF Keys, New, Appended
  <2>. QED BY <2>4, <2>5 DEF Minted
<1>4. ASSUME NEW id \in Ids,
             NEW us \in Touches(<<id>>, MaxUps), NEW ts \in Touches(<<id>>, MaxTickerUps),
             RedeliverMicroblock(id, us, ts)
      PROVE  dcc' = Minted(blocks')
  <2>1. PICK m \in Micros(blocks) : Appends(Again(m), us, ts, blocks, assets, tickers)
    BY <1>4, RedeliverMicroblockItem
  <2>2. blocks' = blocks /\ Minting(Again(m)) = {}
    BY <1>4, RedeliverMicroblockChain, AgainIsStored
  <2>3. dcc' = MintedDcc(Again(m), blocks')
    BY <2>1 DEF Appends
  <2>. QED BY <2>2, <2>3 DEF MintedDcc
<1>5. ASSUME NEW rs \in SUBSET blocks, rs # {}, RollBackTo(rs) PROVE dcc' = Minted(blocks')
  <2>1. /\ blocks' = CutAbove(blocks, LowestRow(rs).uid)
        /\ dcc' = {d \in dcc : d.block \in Uids(blocks')}
    BY <1>5 DEF RollBackTo
  <2>2. ASSUME NEW k \in Keys(blocks) PROVE k.uid \in Uids(blocks') <=> k \in Keys(blocks')
    BY <2>1 DEF Uids, CutAbove, Keys
  <2>3. Keys(blocks') \subseteq Keys(blocks)
    BY <2>1 DEF Keys, CutAbove
  <2>. QED BY <2>1, <2>2, <2>3 DEF Minted
<1>6. ASSUME NEW id \in Ids, HandleRollback(id) PROVE dcc' = Minted(blocks')
  BY <1>5, <1>6, OneRow DEF HandleRollback
<1>7. CASE UNCHANGED vars
  BY <1>7 DEF vars
<1>8. CASE Resume
  BY <1>5, <1>7, <1>8, ResumeRollsBack
<1>. QED BY <1>1, <1>2, <1>3, <1>4, <1>6, <1>7, <1>8 DEF Next

(* dcc_data has exactly the rows of the minting heights of the stored      *)
(* chain, whatever replaced the blocks of a height, and whatever stored    *)
(* ids the stream repeated.                                                *)
THEOREM DccRowsFollowChain ==
  Spec => []DccFollowsChain
<1>1. Init => DccFollowsChain
  BY DEF Init, DccFollowsChain, Keys
<1>2. ChainInv /\ DccFollowsChain /\ [Next]_vars => DccFollowsChain'
  BY DccStep
<1>. QED BY <1>1, <1>2, ChainInvariant, PTL DEF Spec

-----------------------------------------------------------------------------
(* asset_origins, without the minimum: the origin of an asset is a version *)
(* of it, and no version is older.                                         *)
FirstVersions(os, rows) ==
  /\ \A r \in rows : \E o \in os : o.asset = r.asset
  /\ \A o \in os : \E r \in rows :
       /\ r.asset = o.asset /\ r.uid = o.first
       /\ \A s \in rows : s.asset = o.asset => o.first <= s.uid

LEMMA LeastIsMin ==
  ASSUME NEW S, S \subseteq Nat, S # {}, NEW n
  PROVE  n = Min(S) <=> n \in S /\ \A y \in S : n <= y
<1>1. Min(S) \in S /\ \A y \in S : Min(S) <= y
  BY MinIsLeast
<1>. DEFINE m == Min(S)
<1>. HIDE DEF m
<1>2. ASSUME n \in S, \A y \in S : n <= y PROVE n = m
  <2>1. n \in Nat /\ m \in Nat /\ n <= m /\ m <= n
    BY <1>1, <1>2 DEF m
  <2>. QED BY <2>1
<1>. QED BY <1>1, <1>2 DEF m

LEMMA OriginsWithoutMin ==
  ASSUME TypeOK
  PROVE  OriginIsFirst <=> FirstVersions(origins, assets)
<1>. DEFINE U(a) == {r.uid : r \in {s \in assets : s.asset = a}}
            Older(o) == \E r \in assets :
                          /\ r.asset = o.asset /\ r.uid = o.first
                          /\ \A s \in assets : s.asset = o.asset => o.first <= s.uid
<1>1. ASSUME NEW o \in origins, \E r \in assets : r.asset = o.asset
      PROVE  o.first = Min(U(o.asset)) <=> Older(o)
  <2>1. U(o.asset) # {} /\ U(o.asset) \subseteq Nat
    BY <1>1 DEF TypeOK, Rows
  <2>2. o.first = Min(U(o.asset))
          <=> o.first \in U(o.asset) /\ \A u \in U(o.asset) : o.first <= u
    <3>. HIDE DEF U
    <3>. QED BY <2>1, LeastIsMin
  <2>3. Older(o) <=> o.first \in U(o.asset) /\ \A u \in U(o.asset) : o.first <= u
    OBVIOUS
  <2>. QED BY <2>2, <2>3
<1>2. OriginIsFirst <=> /\ {o.asset : o \in origins} = {r.asset : r \in assets}
                        /\ \A o \in origins : o.first = Min(U(o.asset))
  BY DEF OriginIsFirst
<1>3. FirstVersions(origins, assets) <=> /\ \A r \in assets : \E o \in origins : o.asset = r.asset
                                         /\ \A o \in origins : Older(o)
  BY DEF FirstVersions
<1>4. ASSUME NEW o \in origins, Older(o) PROVE \E r \in assets : r.asset = o.asset
  BY <1>4
<1>5. {o.asset : o \in origins} = {r.asset : r \in assets}
        <=> /\ \A r \in assets : \E o \in origins : o.asset = r.asset
            /\ \A o \in origins : \E r \in assets : r.asset = o.asset
  <2>1. ASSUME {o.asset : o \in origins} = {r.asset : r \in assets}
        PROVE  /\ \A r \in assets : \E o \in origins : o.asset = r.asset
               /\ \A o \in origins : \E r \in assets : r.asset = o.asset
    <3>1. \A r \in assets : r.asset \in {o.asset : o \in origins}
      BY <2>1
    <3>2. \A o \in origins : o.asset \in {r.asset : r \in assets}
      BY <2>1
    <3>. QED BY <3>1, <3>2
  <2>. QED BY <2>1
<1>. HIDE DEF U, Older
<1>. QED BY <1>1, <1>2, <1>3, <1>4, <1>5

(* A batch gives the assets it issues their first uid; the others have an  *)
(* older one.                                                              *)
LEMMA ExtendFirst ==
  ASSUME NEW rows \in SUBSET Rows(Assets), NEW us, NEW ls, Updates(ls, Assets),
         DOMAIN us = DOMAIN ls, \A i \in DOMAIN us : us[i].asset = ls[i].asset,
         NEW base \in Nat, \A r \in rows : r.uid < base,
         NEW os, FirstVersions(os, rows)
  PROVE  FirstVersions(
           os \cup {[asset |-> us[i].asset, first |-> SupersededBy(us, us[i].asset, 0, base)]
                      : i \in {k \in DOMAIN us : \A o \in os : o.asset # us[k].asset}},
           Extend(rows, ls, base))
<1>. DEFINE First(i) == [asset |-> us[i].asset, first |-> SupersededBy(us, us[i].asset, 0, base)]
            Issued == {k \in DOMAIN us : \A o \in os : o.asset # us[k].asset}
            C(r) == Closed(r, ls, base)
            N(i) == NewRow(ls, base, i)
            ext == Extend(rows, ls, base)
            all == os \cup {First(i) : i \in Issued}
<1>1. ext = {C(r) : r \in rows} \cup {N(i) : i \in DOMAIN ls}
  BY ExtendRows
<1>2. ASSUME NEW r \in rows PROVE C(r).uid = r.uid /\ C(r).asset = r.asset /\ r.uid \in Nat
  BY DEF Closed, Rows
<1>3. ASSUME NEW i \in DOMAIN ls
      PROVE  N(i).uid = base + i - 1 /\ N(i).asset = ls[i].asset /\ i \in Nat /\ i >= 1
  BY DEF NewRow, Updates
<1>4. ASSUME NEW i \in Issued
      PROVE  \E j \in DOMAIN ls :
               /\ First(i).asset = ls[j].asset /\ First(i).first = base + j - 1
               /\ \A k \in DOMAIN ls : ls[k].asset = First(i).asset => j <= k
  <2>1. i \in DOMAIN ls /\ ls[i].asset = us[i].asset /\ i \in Later(ls, us[i].asset, 0)
    BY <1>3 DEF Later
  <2>2. Later(us, us[i].asset, 0) = Later(ls, us[i].asset, 0)
    BY DEF Later
  <2>3. SupersededBy(us, us[i].asset, 0, base) = SupersededBy(ls, us[i].asset, 0, base)
    BY <2>2 DEF SupersededBy
  <2>4. PICK j \in DOMAIN ls :
          /\ ls[j].asset = us[i].asset
          /\ SupersededBy(ls, us[i].asset, 0, base) = base + j - 1
          /\ \A k \in DOMAIN ls : 0 < k /\ ls[k].asset = us[i].asset => j <= k
    BY <2>1, SupersededByCases
  <2>. QED BY <1>3, <2>3, <2>4
<1>. HIDE DEF C, N, First, ext
<1>5. ASSUME NEW x \in ext PROVE \E o \in all : o.asset = x.asset
  <2>1. ASSUME NEW r \in rows, x = C(r) PROVE \E o \in all : o.asset = x.asset
    BY <1>2, <2>1 DEF FirstVersions
  <2>2. ASSUME NEW i \in DOMAIN ls, x = N(i) PROVE \E o \in all : o.asset = x.asset
    <3>1. CASE i \in Issued
      <4>1. First(i) \in all /\ First(i).asset = us[i].asset
        BY <3>1 DEF First
      <4>. QED BY <1>3, <2>2, <4>1
    <3>2. CASE i \notin Issued
      BY <1>3, <2>2, <3>2
    <3>. QED BY <3>1, <3>2
  <2>. QED BY <1>1, <2>1, <2>2
<1>6. ASSUME NEW o \in os
      PROVE  \E x \in ext : /\ x.asset = o.asset /\ x.uid = o.first
                            /\ \A y \in ext : y.asset = o.asset => o.first <= y.uid
  <2>1. PICK r \in rows : /\ r.asset = o.asset /\ r.uid = o.first
                          /\ \A s \in rows : s.asset = o.asset => o.first <= s.uid
    BY DEF FirstVersions
  <2>2. r.uid \in Nat /\ r.uid < base
    BY <1>2
  <2>3. ASSUME NEW y \in ext, y.asset = o.asset PROVE o.first <= y.uid
    BY <1>1, <1>2, <1>3, <2>1, <2>2, <2>3
  <2>. QED BY <1>1, <1>2, <2>1, <2>3
<1>7. ASSUME NEW i \in Issued
      PROVE  \E x \in ext :
               /\ x.asset = First(i).asset /\ x.uid = First(i).first
               /\ \A y \in ext : y.asset = First(i).asset => First(i).first <= y.uid
  <2>1. PICK j \in DOMAIN ls :
          /\ First(i).asset = ls[j].asset /\ First(i).first = base + j - 1
          /\ \A k \in DOMAIN ls : ls[k].asset = First(i).asset => j <= k
    BY <1>4
  <2>2. ASSUME NEW y \in ext, y.asset = First(i).asset PROVE First(i).first <= y.uid
    <3>1. ASSUME NEW r \in rows, y = C(r) PROVE FALSE
      <4>1. PICK o \in os : o.asset = r.asset
        BY DEF FirstVersions
      <4>. QED BY <1>2, <2>2, <3>1, <4>1 DEF First
    <3>2. ASSUME NEW k \in DOMAIN ls, y = N(k) PROVE First(i).first <= y.uid
      BY <1>3, <2>1, <2>2, <3>2
    <3>. QED BY <1>1, <3>1, <3>2
  <2>3. N(j) \in ext
    BY <1>1
  <2>. QED BY <1>3, <2>1, <2>2, <2>3
<1>8. FirstVersions(all, ext)
  <2>. HIDE DEF Issued
  <2>. QED BY <1>5, <1>6, <1>7 DEF FirstVersions
<1>. QED BY <1>8 DEF First, ext

LEMMA RepointFirst ==
  ASSUME NEW rows \in SUBSET Rows(Assets), NEW block \in Nat, NEW os, FirstVersions(os, rows)
  PROVE  FirstVersions(os, Repoint(rows, block))
<1>. DEFINE P(r) == Repointed(r, block)
<1>1. /\ Repoint(rows, block) = {P(r) : r \in rows}
      /\ \A r \in rows : P(r).uid = r.uid /\ P(r).asset = r.asset
  BY DEF Repoint, Repointed, Rows
<1>. HIDE DEF P
<1>. QED BY <1>1 DEF FirstVersions

(* asset_origins.  A stream that repeats blocks may give an asset a later  *)
(* version that belongs to an earlier block than the one before it, but    *)
(* never one that belongs to a block before the first version's: a block   *)
(* touches the same assets each time it comes.  So a rollback deletes the  *)
(* first version of an asset only with all the others.                     *)
FirstsLeast(os, rows) ==
  \A o \in os, r, s \in rows : r.uid = o.first /\ s.asset = o.asset => r.block <= s.block

Firsts(os, rows, next) ==
  /\ \A r, s \in rows : r.uid = s.uid => r = s
  /\ \A r \in rows : r.uid < next
  /\ FirstVersions(os, rows)
  /\ FirstsLeast(os, rows)

(* Updates that keep the first versions at the least blocks: an asset that *)
(* has versions comes with none below all of them, another comes with its  *)
(* least block first.                                                      *)
LeastFirst(rows, ls) ==
  \A i \in DOMAIN ls :
    \/ \E q \in rows : q.asset = ls[i].asset /\ q.block <= ls[i].block
    \/ /\ \A q \in rows : q.asset # ls[i].asset
       /\ \A j \in DOMAIN ls :
            (ls[j].asset = ls[i].asset /\ \A k \in DOMAIN ls : ls[k].asset = ls[i].asset => j <= k)
              => ls[j].block <= ls[i].block

LEMMA ExtendFirsts ==
  ASSUME NEW rows \in SUBSET Rows(Assets), NEW us, NEW ls, Updates(ls, Assets),
         DOMAIN us = DOMAIN ls, \A i \in DOMAIN us : us[i].asset = ls[i].asset,
         NEW base \in Nat, NEW os, Firsts(os, rows, base), LeastFirst(rows, ls)
  PROVE  Firsts(
           os \cup {[asset |-> us[i].asset, first |-> SupersededBy(us, us[i].asset, 0, base)]
                      : i \in {k \in DOMAIN us : \A o \in os : o.asset # us[k].asset}},
           Extend(rows, ls, base), base + Len(ls))
<1>. DEFINE C(r) == Closed(r, ls, base)
            N(i) == NewRow(ls, base, i)
            ext == Extend(rows, ls, base)
            all == os \cup {[asset |-> us[i].asset,
                             first |-> SupersededBy(us, us[i].asset, 0, base)]
                              : i \in {k \in DOMAIN us : \A o \in os : o.asset # us[k].asset}}
<1>1. /\ FirstVersions(os, rows) /\ FirstsLeast(os, rows)
      /\ \A r \in rows : r.uid < base
      /\ \A r, s \in rows : r.uid = s.uid => r = s
  BY DEF Firsts
<1>2. FirstVersions(all, ext)
  BY <1>1, ExtendFirst
<1>3. ext = {C(r) : r \in rows} \cup {N(i) : i \in DOMAIN ls}
  BY ExtendRows
<1>4. ASSUME NEW r \in rows
      PROVE  /\ C(r).uid = r.uid /\ C(r).asset = r.asset /\ C(r).block = r.block
             /\ r.uid \in Nat /\ r.block \in Nat /\ r.uid < base
  <2>1. C(r).uid = r.uid /\ C(r).asset = r.asset /\ C(r).block = r.block
    BY ClosedFields
  <2>2. r.uid \in Nat /\ r.block \in Nat
    BY DEF Rows
  <2>. QED BY <1>1, <2>1, <2>2
<1>5. ASSUME NEW i \in DOMAIN ls
      PROVE  /\ N(i).uid = base + i - 1 /\ N(i).asset = ls[i].asset /\ N(i).block = ls[i].block
             /\ i \in Nat /\ i >= 1 /\ i <= Len(ls) /\ Len(ls) \in Nat /\ ls[i].block \in Nat
             /\ N(i).uid \in Nat /\ base <= N(i).uid /\ N(i).uid < base + Len(ls)
  <2>1. /\ i \in Nat /\ i >= 1 /\ i <= Len(ls) /\ Len(ls) \in Nat /\ ls[i].block \in Nat
    BY DEF Updates
  <2>2. N(i).uid = base + i - 1 /\ N(i).asset = ls[i].asset /\ N(i).block = ls[i].block
    BY DEF NewRow
  <2>. QED BY <2>1, <2>2
<1>. HIDE DEF C, N, ext, all
<1>6. ASSUME NEW x \in ext, NEW y \in ext, x.uid = y.uid PROVE x = y
  <2>1. ASSUME NEW r \in rows, NEW s \in rows, x = C(r), y = C(s) PROVE x = y
    BY <1>1, <1>4, <1>6, <2>1
  <2>2. ASSUME NEW r \in rows, NEW i \in DOMAIN ls PROVE C(r).uid # N(i).uid
    BY <1>4, <1>5
  <2>3. ASSUME NEW i \in DOMAIN ls, NEW j \in DOMAIN ls, x = N(i), y = N(j) PROVE x = y
    <3>1. i = j
      BY <1>5, <1>6, <2>3
    <3>. QED BY <2>3, <3>1
  <2>. QED BY <1>3, <1>6, <2>1, <2>2, <2>3
<1>7. ASSUME NEW x \in ext PROVE x.uid < base + Len(ls)
  <2>1. Len(ls) \in Nat
    BY DEF Updates
  <2>. QED BY <1>3, <1>4, <1>5, <2>1
<1>8. ASSUME NEW o \in all, NEW x \in ext, NEW y \in ext, x.uid = o.first, y.asset = o.asset
      PROVE  x.block <= y.block
  <2>1. x.asset = o.asset /\ \A z \in ext : z.asset = o.asset => o.first <= z.uid
    <3>1. PICK w \in ext : /\ w.asset = o.asset /\ w.uid = o.first
                           /\ \A z \in ext : z.asset = o.asset => o.first <= z.uid
      BY <1>2 DEF FirstVersions
    <3>2. w = x
      BY <1>6, <1>8, <3>1
    <3>. QED BY <3>1, <3>2
  <2>2. ASSUME NEW r \in rows, x = C(r) PROVE x.block <= y.block
    <3>1. ASSUME NEW s \in rows, s.asset = o.asset PROVE r.block <= s.block
      <4>1. PICK p \in os : p.asset = o.asset
        BY <1>1, <3>1 DEF FirstVersions
      <4>2. PICK f \in rows : /\ f.asset = p.asset /\ f.uid = p.first
                              /\ \A z \in rows : z.asset = p.asset => p.first <= z.uid
        BY <1>1 DEF FirstVersions
      <4>3. r.asset = o.asset /\ f.uid <= r.uid
        BY <1>4, <2>1, <2>2, <4>1, <4>2
      <4>4. C(f) \in ext /\ C(f).asset = o.asset /\ C(f).uid = f.uid
        BY <1>3, <1>4, <4>1, <4>2
      <4>5. r.uid <= f.uid
        BY <1>4, <1>8, <2>1, <2>2, <4>4
      <4>6. r = f
        BY <1>1, <1>4, <4>3, <4>5
      <4>. QED BY <1>1, <3>1, <4>1, <4>2, <4>6 DEF FirstsLeast
    <3>2. ASSUME NEW s \in rows, y = C(s) PROVE x.block <= y.block
      BY <1>4, <1>8, <2>2, <3>1, <3>2
    <3>3. ASSUME NEW i \in DOMAIN ls, y = N(i) PROVE x.block <= y.block
      <4>1. r.asset = ls[i].asset /\ r \in rows
        BY <1>4, <1>5, <1>8, <2>1, <2>2, <3>3
      <4>2. PICK q \in rows : q.asset = ls[i].asset /\ q.block <= ls[i].block
        BY <4>1 DEF LeastFirst
      <4>3. r.block <= q.block
        BY <1>5, <1>8, <3>1, <3>3, <4>2
      <4>4. /\ x.block = r.block /\ y.block = ls[i].block
            /\ r.block \in Nat /\ q.block \in Nat /\ ls[i].block \in Nat
        BY <1>4, <1>5, <2>2, <3>3
      <4>. QED BY <4>2, <4>3, <4>4
    <3>. QED BY <1>3, <3>2, <3>3
  <2>3. ASSUME NEW j \in DOMAIN ls, x = N(j) PROVE x.block <= y.block
    <3>1. ls[j].asset = o.asset
      BY <1>5, <2>1, <2>3
    <3>2. ASSUME NEW s \in rows PROVE s.asset # o.asset
      <4>1. SUFFICES ASSUME s.asset = o.asset PROVE FALSE
        OBVIOUS
      <4>2. C(s) \in ext /\ C(s).asset = o.asset /\ C(s).uid < base
        BY <1>3, <1>4, <4>1
      <4>3. o.first <= C(s).uid
        BY <2>1, <4>2
      <4>4. base <= o.first /\ o.first \in Nat /\ C(s).uid \in Nat
        BY <1>4, <1>5, <1>8, <2>3
      <4>. QED BY <4>2, <4>3, <4>4
    <3>3. ASSUME NEW k \in DOMAIN ls, ls[k].asset = o.asset PROVE j <= k
      <4>1. N(k) \in ext /\ N(k).asset = o.asset
        BY <1>3, <1>5, <3>3
      <4>2. N(j).uid <= N(k).uid
        BY <1>8, <2>1, <2>3, <4>1
      <4>. QED BY <1>5, <4>2
    <3>4. PICK i \in DOMAIN ls : y = N(i)
      BY <1>3, <1>4, <1>8, <3>2
    <3>5. ls[i].asset = o.asset
      BY <1>5, <1>8, <3>4
    <3>6. ls[j].block <= ls[i].block
      BY <3>1, <3>2, <3>3, <3>5 DEF LeastFirst
    <3>. QED BY <1>5, <2>3, <3>4, <3>6
  <2>. QED BY <1>3, <2>2, <2>3
<1>9. Firsts(all, ext, base + Len(ls))
  BY <1>2, <1>6, <1>7, <1>8 DEF Firsts, FirstsLeast
<1>. QED BY <1>9 DEF all, ext

LEMMA RepointFirsts ==
  ASSUME NEW rows \in SUBSET Rows(Assets), NEW block \in Nat, NEW os, NEW next,
         Firsts(os, rows, next)
  PROVE  Firsts(os, Repoint(rows, block), next)
<1>. DEFINE P(r) == Repointed(r, block)
            new == Repoint(rows, block)
<1>1. /\ new = {P(r) : r \in rows}
      /\ \A r \in rows : /\ P(r).uid = r.uid /\ P(r).asset = r.asset
                         /\ P(r).block = IF r.block > block THEN block ELSE r.block
  BY DEF Repoint, Repointed, Rows
<1>2. \A r \in rows : r.block \in Nat
  BY DEF Rows
<1>3. FirstVersions(os, new)
  BY RepointFirst DEF Firsts
<1>. HIDE DEF P, new
<1>4. FirstsLeast(os, new)
  <2>1. ASSUME NEW o \in os, NEW r \in rows, NEW s \in rows,
               P(r).uid = o.first, P(s).asset = o.asset
        PROVE  P(r).block <= P(s).block
    <3>1. r.block <= s.block
      BY <1>1, <2>1 DEF Firsts, FirstsLeast
    <3>. QED BY <1>1, <1>2, <3>1
  <2>. QED BY <1>1, <2>1 DEF FirstsLeast
<1>5. /\ \A x, y \in new : x.uid = y.uid => x = y
      /\ \A x \in new : x.uid < next
  BY <1>1 DEF Firsts
<1>6. Firsts(os, new, next)
  BY <1>3, <1>4, <1>5 DEF Firsts
<1>. QED BY <1>6 DEF new

LEMMA RollBackFirsts ==
  ASSUME NEW rows \in SUBSET Rows(Assets), NEW os, NEW next, Firsts(os, rows, next),
         NEW targets \in SUBSET Nat, NEW block \in targets, \A u \in targets : block <= u
  PROVE  Firsts({o \in os : \E r \in RollBackThrough(rows, targets) : r.uid = o.first},
                RollBackThrough(rows, targets), next)
<1>. DEFINE K(r) == Made(r, ReopenedUids(rows, targets))
            kept == RollBackThrough(rows, targets)
            left == {o \in os : \E r \in kept : r.uid = o.first}
            Low  == {r \in rows : r.block <= block}
<1>1. kept = {K(r) : r \in Low}
  <2>1. KeptOf(rows, targets) = Low
    BY DEF KeptOf, Rows
  <2>. QED BY <2>1, ThroughRows
<1>2. ASSUME NEW r \in rows
      PROVE  /\ K(r).uid = r.uid /\ K(r).asset = r.asset /\ K(r).block = r.block
             /\ r.uid \in Nat /\ r.block \in Nat
  <2>1. r \in Rows(Assets)
    OBVIOUS
  <2>. QED BY <2>1, MadeFields DEF Rows
<1>. HIDE DEF K, kept
<1>3. /\ \A r, s \in rows : r.uid = s.uid => r = s
      /\ \A r \in rows : r.uid < next
      /\ FirstVersions(os, rows) /\ FirstsLeast(os, rows)
  BY DEF Firsts
<1>4. ASSUME NEW r \in Low, NEW o \in os, o.asset = r.asset
      PROVE  \E x \in kept : x.uid = o.first
  <2>1. PICK f \in rows : f.uid = o.first
    BY <1>3 DEF FirstVersions
  <2>2. f.block <= r.block
    BY <1>3, <1>4, <2>1 DEF FirstsLeast
  <2>3. f \in Low
    BY <1>2, <2>2
  <2>. QED BY <1>1, <1>2, <2>1, <2>3
<1>5. ASSUME NEW x \in kept PROVE \E o \in left : o.asset = x.asset
  <2>1. PICK r \in Low : x = K(r)
    BY <1>1
  <2>2. PICK o \in os : o.asset = r.asset
    BY <1>3 DEF FirstVersions
  <2>. QED BY <1>2, <1>4, <2>1, <2>2
<1>6. ASSUME NEW o \in os, NEW x \in kept, x.uid = o.first
      PROVE  x.asset = o.asset /\ \A y \in kept : y.asset = o.asset => o.first <= y.uid
  <2>1. PICK r \in Low : x = K(r)
    BY <1>1
  <2>2. PICK f \in rows : /\ f.asset = o.asset /\ f.uid = o.first
                          /\ \A s \in rows : s.asset = o.asset => o.first <= s.uid
    BY <1>3 DEF FirstVersions
  <2>3. f = r
    BY <1>2, <1>3, <1>6, <2>1, <2>2
  <2>. QED BY <1>1, <1>2, <2>1, <2>2, <2>3
<1>7. FirstVersions(left, kept)
  BY <1>5, <1>6 DEF FirstVersions
<1>8. FirstsLeast(left, kept)
  <2>1. ASSUME NEW o \in left, NEW r \in Low, NEW s \in Low,
               K(r).uid = o.first, K(s).asset = o.asset
        PROVE  K(r).block <= K(s).block
    <3>1. r.block <= s.block
      BY <1>2, <1>3, <2>1 DEF FirstsLeast
    <3>. QED BY <1>2, <3>1
  <2>. QED BY <1>1, <2>1 DEF FirstsLeast
<1>9. /\ \A x, y \in kept : x.uid = y.uid => x = y
      /\ \A x \in kept : x.uid < next
  BY <1>1, <1>2, <1>3
<1>10. Firsts(left, kept, next)
  BY <1>7, <1>8, <1>9 DEF Firsts
<1>. QED BY <1>10 DEF kept

LEMMA RowOfRepeated ==
  ASSUME NEW n \in Nat, NEW ids, DOMAIN ids = 1..n, NEW bs, DOMAIN bs = 1..n,
         \A i \in 1..n : bs[i].id = ids[i],
         NEW stored, NEW seq \in Nat, InChainOrder(Upsert(stored, bs, seq)), NEW i \in 1..n
  PROVE  /\ ids[i] \in StoredIds(stored)
              => /\ RowOf(Upsert(stored, bs, seq), ids[i]) = RowOf(stored, ids[i])
                 /\ RowOf(stored, ids[i]) \in stored
         /\ ids[i] \notin StoredIds(stored)
              => RowOf(Upsert(stored, bs, seq), ids[i]) = Appended(bs, seq, FirstIn(ids, i))
<1>1. ASSUME ids[i] \in StoredIds(stored)
      PROVE  /\ RowOf(Upsert(stored, bs, seq), ids[i]) = RowOf(stored, ids[i])
             /\ RowOf(stored, ids[i]) \in stored
  <2>1. RowOf(stored, ids[i]) \in stored /\ RowOf(stored, ids[i]).id = ids[i]
    BY <1>1 DEF RowOf, StoredIds
  <2>2. RowOf(Upsert(stored, bs, seq), RowOf(stored, ids[i]).id) = RowOf(stored, ids[i])
    BY <2>1, RowOfStored
  <2>. QED BY <2>1, <2>2
<1>2. ASSUME ids[i] \notin StoredIds(stored)
      PROVE  RowOf(Upsert(stored, bs, seq), ids[i]) = Appended(bs, seq, FirstIn(ids, i))
  <2>. DEFINE f == FirstIn(ids, i)
  <2>1. f \in 1..n /\ ids[f] = ids[i] /\ \A j \in 1..n : ids[j] = ids[i] => f <= j
    <3>1. /\ FirstIn(ids, i) \in 1..n /\ FirstIn(ids, i) <= i
          /\ ids[FirstIn(ids, i)] = ids[i]
          /\ \A j \in 1..n : ids[j] = ids[i] => FirstIn(ids, i) <= j
      BY FirstInIs, Zenon
    <3>. QED BY <3>1
  <2>. HIDE DEF f
  <2>2. ASSUME NEW j \in 1..n, j < f PROVE bs[j].id # bs[f].id
    BY <2>1, <2>2
  <2>3. f \in New(stored, bs)
    BY <1>2, <2>1, <2>2 DEF New, IsNew
  <2>4. Appended(bs, seq, f) \in Upsert(stored, bs, seq) /\ Appended(bs, seq, f).id = ids[i]
    BY <2>1, <2>3, UpsertNewRows DEF Appended
  <2>5. \A c \in Upsert(stored, bs, seq) : c.id = ids[i] => c = Appended(bs, seq, f)
    BY <2>4 DEF InChainOrder
  <2>6. RowOf(Upsert(stored, bs, seq), ids[i]) = Appended(bs, seq, f)
    BY <2>4, <2>5 DEF RowOf
  <2>. QED BY <2>6 DEF f
<1>. QED BY <1>1, <1>2

LEMMA NewLeastFirst ==
  ASSUME NEW stored \in SUBSET BlockRows(Ids), NEW bs, Batch(bs, Ids), NEW seq \in Nat,
         \A b \in stored : b.uid < seq, NewIds(stored, bs),
         NEW max \in Nat, NEW us \in Touches(bs, max),
         NEW rows, Refers(rows, Uids(stored))
  PROVE  LeastFirst(rows, Located(us, bs, Upsert(stored, bs, seq)))
<1>. DEFINE ls == Located(us, bs, Upsert(stored, bs, seq))
<1>1. /\ DOMAIN us = 1..Len(us) /\ Len(us) \in Nat
      /\ \A i \in DOMAIN us : us[i].at \in DOMAIN bs
      /\ \A i, j \in DOMAIN us : i <= j => us[i].at <= us[j].at
  BY TouchesType, Zenon
<1>2. DOMAIN ls = DOMAIN us
  BY DEF Located
<1>3. ASSUME NEW i \in DOMAIN us
      PROVE  /\ ls[i].asset = us[i].asset /\ ls[i].block = seq + us[i].at - 1
             /\ us[i].at \in Nat /\ us[i].at >= 1
  <2>1. us[i].at \in DOMAIN bs
    BY <1>1
  <2>2. RowOf(Upsert(stored, bs, seq), bs[us[i].at].id) = Appended(bs, seq, us[i].at)
    BY <2>1, AppendedUid
  <2>3. Appended(bs, seq, us[i].at).uid = seq + us[i].at - 1
    BY <2>1, AppendedFields
  <2>4. us[i].at \in Nat /\ us[i].at >= 1
    BY <2>1 DEF Batch
  <2>. QED BY <2>2, <2>3, <2>4 DEF Located
<1>4. ASSUME NEW q \in rows PROVE q.block \in Nat /\ q.block < seq
  BY DEF Refers, Uids, BlockRows
<1>. HIDE DEF ls
<1>5. ASSUME NEW i \in DOMAIN us, NEW q \in rows PROVE q.block <= ls[i].block
  BY <1>3, <1>4
<1>6. ASSUME NEW i \in DOMAIN us, NEW j \in DOMAIN us, j <= i PROVE ls[j].block <= ls[i].block
  <2>1. us[j].at <= us[i].at
    BY <1>1, <1>6
  <2>. QED BY <1>3, <2>1
<1>7. LeastFirst(rows, ls)
  BY <1>2, <1>5, <1>6 DEF LeastFirst
<1>. QED BY <1>7 DEF ls

(* The blocks a stream repeats touch the assets they touched before.       *)
LEMMA RepeatLeastFirst ==
  ASSUME NEW n \in Nat, NEW ids, DOMAIN ids = 1..n, NEW bs, Batch(bs, Ids), DOMAIN bs = 1..n,
         \A i \in 1..n : bs[i].id = ids[i],
         Squash(blocks) \in SUBSET BlockRows(Ids), blockSeq \in Nat,
         \A b \in Squash(blocks) : b.uid < blockSeq,
         InChainOrder(Upsert(Squash(blocks), bs, blockSeq)),
         NEW max \in Nat, NEW us \in Touches(bs, max),
         NEW rows, Refers(rows, Uids(Squash(blocks))), SameTouches(us, ids, rows)
  PROVE  LeastFirst(rows, Located(us, bs, Upsert(Squash(blocks), bs, blockSeq)))
<1>. DEFINE stored == Squash(blocks)
            kept   == Upsert(stored, bs, blockSeq)
            ls     == Located(us, bs, kept)
            At(i)  == {us[k].asset : k \in {m \in DOMAIN us : us[m].at = i}}
<1>1. /\ DOMAIN us = 1..Len(us) /\ Len(us) \in Nat
      /\ \A i \in DOMAIN us : us[i].at \in DOMAIN bs
      /\ \A i, j \in DOMAIN us : i <= j => us[i].at <= us[j].at
  BY TouchesType, Zenon
<1>2. DOMAIN ls = DOMAIN us
  BY DEF Located
<1>3. \A i \in 1..n :
        At(i) = IF ids[i] \in StoredIds(stored)
                  THEN {r.asset : r \in {q \in rows : q.block = RowOf(stored, ids[i]).uid}}
                  ELSE At(FirstIn(ids, i))
  BY DEF SameTouches
<1>4. ASSUME NEW i \in DOMAIN us
      PROVE  /\ us[i].at \in 1..n /\ us[i].at \in Nat
             /\ ls[i].asset = us[i].asset /\ ls[i].asset \in At(us[i].at)
             /\ ls[i].block = RowOf(kept, ids[us[i].at]).uid
  <2>1. us[i].at \in 1..n /\ us[i].at \in Nat
    BY <1>1
  <2>2. ls[i].asset = us[i].asset /\ ls[i].block = RowOf(kept, bs[us[i].at].id).uid
    BY DEF Located
  <2>3. us[i].asset \in At(us[i].at)
    OBVIOUS
  <2>. QED BY <2>1, <2>2, <2>3
<1>5. \A q \in rows : q.block \in Nat /\ q.block < blockSeq
  BY DEF Refers, Uids, BlockRows
<1>6. ASSUME NEW p \in 1..n, ids[p] \in StoredIds(stored), NEW a \in At(p)
      PROVE  \E q \in rows : q.asset = a /\ q.block = RowOf(kept, ids[p]).uid
  <2>1. At(p) = {r.asset : r \in {q \in rows : q.block = RowOf(stored, ids[p]).uid}}
    BY <1>3, <1>6
  <2>2. RowOf(kept, ids[p]) = RowOf(stored, ids[p])
    BY <1>6, RowOfRepeated
  <2>. HIDE DEF At, kept, stored
  <2>. QED BY <1>6, <2>1, <2>2
<1>7. ASSUME NEW p \in 1..n, ids[p] \notin StoredIds(stored)
      PROVE  /\ RowOf(kept, ids[p]).uid = blockSeq + FirstIn(ids, p) - 1
             /\ FirstIn(ids, p) \in 1..n /\ FirstIn(ids, p) <= p
             /\ At(p) = At(FirstIn(ids, p))
  <2>1. FirstIn(ids, p) \in 1..n /\ FirstIn(ids, p) <= p
    BY FirstInIs
  <2>2. RowOf(kept, ids[p]) = Appended(bs, blockSeq, FirstIn(ids, p))
    BY <1>7, RowOfRepeated
  <2>3. Appended(bs, blockSeq, FirstIn(ids, p)).uid = blockSeq + FirstIn(ids, p) - 1
    BY DEF Appended
  <2>4. At(p) = At(FirstIn(ids, p))
    BY <1>3, <1>7
  <2>. QED BY <2>1, <2>2, <2>3, <2>4
<1>8. ASSUME NEW p \in 1..n, NEW a \in At(p)
      PROVE  \E k \in DOMAIN us : us[k].at = p /\ us[k].asset = a
  BY <1>8
<1>. HIDE DEF At, stored, kept, ls
<1>9. ASSUME NEW i \in DOMAIN us, \A q \in rows : q.asset # ls[i].asset,
             NEW j \in DOMAIN us, ls[j].asset = ls[i].asset,
             \A k \in DOMAIN us : ls[k].asset = ls[i].asset => j <= k
      PROVE  ls[j].block <= ls[i].block
  <2>. DEFINE p == us[i].at
              o == us[j].at
  <2>1. /\ p \in 1..n /\ o \in 1..n /\ ls[i].asset \in At(p) /\ ls[i].asset \in At(o)
        /\ ls[i].block = RowOf(kept, ids[p]).uid /\ ls[j].block = RowOf(kept, ids[o]).uid
    BY <1>4, <1>9
  <2>. HIDE DEF p, o
  <2>2. ids[p] \notin StoredIds(stored) /\ ids[o] \notin StoredIds(stored)
    BY <1>6, <1>9, <2>1
  <2>3. ls[i].asset \in At(FirstIn(ids, p)) /\ FirstIn(ids, p) \in 1..n
    BY <1>7, <2>1, <2>2
  <2>4. PICK k \in DOMAIN us : us[k].at = FirstIn(ids, p) /\ us[k].asset = ls[i].asset
    BY <1>8, <2>3
  <2>5. j <= k
    BY <1>4, <1>9, <2>4
  <2>6. o <= FirstIn(ids, p)
    BY <1>1, <2>4, <2>5 DEF o
  <2>7. FirstIn(ids, o) <= o /\ FirstIn(ids, o) \in 1..n
    BY <1>7, <2>1, <2>2
  <2>8. /\ ls[i].block = blockSeq + FirstIn(ids, p) - 1
        /\ ls[j].block = blockSeq + FirstIn(ids, o) - 1
    BY <1>7, <2>1, <2>2
  <2>9. o \in Nat /\ FirstIn(ids, o) \in Nat /\ FirstIn(ids, p) \in Nat
    BY <2>1, <2>3, <2>7
  <2>. QED BY <2>6, <2>7, <2>8, <2>9
<1>10. ASSUME NEW i \in DOMAIN us, NEW q \in rows, q.asset = ls[i].asset
       PROVE  \E r \in rows : r.asset = ls[i].asset /\ r.block <= ls[i].block
  <2>1. us[i].at \in 1..n /\ ls[i].asset \in At(us[i].at)
        /\ ls[i].block = RowOf(kept, ids[us[i].at]).uid
    BY <1>4
  <2>2. CASE ids[us[i].at] \in StoredIds(stored)
    <3>1. PICK r \in rows : r.asset = ls[i].asset /\ r.block = ls[i].block
      BY <1>6, <2>1, <2>2
    <3>2. r.block \in Nat
      BY <1>5
    <3>. QED BY <3>1, <3>2
  <2>3. CASE ids[us[i].at] \notin StoredIds(stored)
    <3>1. ls[i].block = blockSeq + FirstIn(ids, us[i].at) - 1 /\ FirstIn(ids, us[i].at) \in 1..n
      BY <1>7, <2>1, <2>3
    <3>2. q.block \in Nat /\ q.block < blockSeq
      BY <1>5
    <3>3. q.block <= ls[i].block
      BY <3>1, <3>2
    <3>. QED BY <1>10, <3>3
  <2>. QED BY <2>2, <2>3
<1>11. LeastFirst(rows, ls)
  BY <1>2, <1>9, <1>10 DEF LeastFirst
<1>. QED BY <1>11 DEF ls, kept, stored

LEMMA AppendsFirsts ==
  ASSUME TypeOK, NEW bs, Batch(bs, Ids), NEW stored \in SUBSET BlockRows(Ids),
         NEW us \in Touches(bs, MaxUps), NEW ts, NEW assets0, NEW tickers0,
         Refers(assets0, Uids(stored)), Firsts(origins, assets0, assetSeq),
         Appends(bs, us, ts, stored, assets0, tickers0),
         LeastFirst(assets0, Located(us, bs, Upsert(stored, bs, blockSeq)))
  PROVE  Firsts(origins', assets', assetSeq')
<1>. DEFINE ls == Located(us, bs, Upsert(stored, bs, blockSeq))
<1>1. /\ blockSeq \in Nat /\ assetSeq \in Nat /\ MaxUps \in Nat
  BY IndexAssumption DEF TypeOK
<1>2. /\ assets' = Extend(assets0, ls, assetSeq)
      /\ origins' = origins \cup NewOrigins(us)
      /\ assetSeq' = assetSeq + Len(us)
  BY DEF Appends
<1>3. /\ Updates(ls, Assets) /\ Len(ls) = Len(us) /\ DOMAIN ls = DOMAIN us
      /\ \A i \in DOMAIN ls : ls[i].asset = us[i].asset
  BY <1>1, LocatedRepeats
<1>4. assets0 \in SUBSET Rows(Assets)
  BY DEF Refers
<1>5. LeastFirst(assets0, ls)
  OBVIOUS
<1>. HIDE DEF ls
<1>. QED BY <1>1, <1>2, <1>3, <1>4, <1>5, ExtendFirsts DEF NewOrigins

LEMMA SquashedFirsts ==
  ASSUME ChainInv, Firsts(origins, assets, assetSeq)
  PROVE  Firsts(origins, Squashed(assets), assetSeq)
<1>1. /\ blocks \in SUBSET BlockRows(Ids) /\ InChainOrder(blocks)
      /\ blockSeq \in Nat /\ \A b \in blocks : b.uid < blockSeq
      /\ assets \in SUBSET Rows(Assets)
  BY DEF ChainInv, TypeOK, OneChain
<1>2. CASE Micros(blocks) = {}
  BY <1>2 DEF Squashed
<1>3. CASE Micros(blocks) # {}
  <2>1. Keys(blocks) # {}
    BY <1>1, <1>3 DEF InChainOrder
  <2>2. KeyUid(blocks) \in Nat
    BY <1>1, <2>1, KeyUidIsGreatest
  <2>. QED BY <1>1, <1>3, <2>2, RepointFirsts DEF Squashed
<1>. QED BY <1>2, <1>3

LEMMA OriginStep ==
  ASSUME ChainInv, [Next]_vars, Firsts(origins, assets, assetSeq)
  PROVE  Firsts(origins', assets', assetSeq')
<1>. DEFINE stored == Squash(blocks)
<1>0. /\ TypeOK /\ blocks \in SUBSET BlockRows(Ids) /\ InChainOrder(blocks)
      /\ blockSeq \in Nat /\ \A b \in blocks : b.uid < blockSeq
      /\ assets \in SUBSET Rows(Assets) /\ MaxUps \in Nat
      /\ Refers(assets, Uids(blocks)) /\ Refers(Squashed(assets), Uids(stored))
      /\ Firsts(origins, Squashed(assets), assetSeq)
  BY SquashedRefers, SquashedFirsts, IndexAssumption DEF ChainInv, TypeOK, OneChain
<1>1. /\ stored \in SUBSET BlockRows(Ids) /\ StoredIds(stored) \subseteq StoredIds(blocks)
      /\ \A b \in stored : b.uid < blockSeq
  <2>1. /\ stored \in SUBSET BlockRows(Ids) /\ StoredIds(stored) \subseteq StoredIds(blocks)
        /\ \A b \in stored : \E c \in Keys(blocks) : c.uid = b.uid
    BY <1>0, SquashInOrder
  <2>. QED BY <1>0, <2>1 DEF Keys
<1>2. ASSUME NEW ids \in IdBatches,
             NEW us \in Touches(ids, MaxUps), NEW ts \in Touches(ids, MaxTickerUps),
             HandleBlocks(ids, us, ts)
      PROVE  Firsts(origins', assets', assetSeq')
  <2>. DEFINE bs == [i \in DOMAIN ids |->
                       [id |-> ids[i], height |-> cursor + i - 1, key |-> TRUE]]
  <2>1. Batch(bs, Ids) /\ DOMAIN bs = DOMAIN ids
    BY <1>2, HandleBlocksRepeats DEF Repeats
  <2>2. /\ \A i \in DOMAIN ids : ids[i] \notin StoredIds(blocks)
        /\ \A i, j \in DOMAIN ids : ids[i] = ids[j] => i = j
        /\ Appends(bs, us, ts, stored, Squashed(assets), Squashed(tickers))
    BY <1>2 DEF HandleBlocks
  <2>3. \A i \in DOMAIN ids : bs[i].id = ids[i]
    OBVIOUS
  <2>. HIDE DEF bs, stored
  <2>4. NewIds(stored, bs)
    BY <1>1, <2>1, <2>2, <2>3 DEF NewIds
  <2>5. us \in Touches(bs, MaxUps)
    BY <2>1, SameTouchesOfDomain
  <2>6. LeastFirst(Squashed(assets), Located(us, bs, Upsert(stored, bs, blockSeq)))
    BY <1>0, <1>1, <2>1, <2>4, <2>5, NewLeastFirst
  <2>. QED BY <1>0, <1>1, <2>1, <2>2, <2>5, <2>6, AppendsFirsts
<1>3. ASSUME NEW ids \in IdBatches,
             NEW us \in Touches(ids, MaxUps), NEW ts \in Touches(ids, MaxTickerUps),
             RedeliverBlocks(ids, us, ts)
      PROVE  Firsts(origins', assets', assetSeq')
  <2>. DEFINE bs == Redelivered(ids)
  <2>1. Repeats(bs, stored) /\ Batch(bs, Ids) /\ DOMAIN bs = DOMAIN ids
    BY <1>3, RedeliverRepeats DEF Repeats
  <2>2. /\ Appends(bs, us, ts, stored, Squashed(assets), Squashed(tickers))
        /\ SameTouches(us, ids, Squashed(assets))
    BY <1>3 DEF RedeliverBlocks, Redelivered
  <2>3. \A i \in DOMAIN ids : bs[i].id = ids[i]
    BY DEF Redelivered
  <2>4. PICK n \in Nat : DOMAIN ids = 1..n
    BY IndexAssumption DEF IdBatches
  <2>. HIDE DEF bs
  <2>5. us \in Touches(bs, MaxUps) /\ ts \in Touches(bs, MaxTickerUps)
    BY <2>1, SameTouchesOfDomain
  <2>6. InChainOrder(Upsert(stored, bs, blockSeq))
    <3>1. ChainInv' /\ blocks' = Upsert(stored, bs, blockSeq)
      BY <2>1, <2>2, <2>5, RepeatsKeepChain
    <3>. QED BY <3>1 DEF ChainInv, OneChain
  <2>7. LeastFirst(Squashed(assets), Located(us, bs, Upsert(stored, bs, blockSeq)))
    BY <1>0, <1>1, <2>1, <2>2, <2>3, <2>4, <2>5, <2>6, RepeatLeastFirst
  <2>. HIDE DEF stored
  <2>. QED BY <1>0, <1>1, <2>1, <2>2, <2>5, <2>7, AppendsFirsts
<1>4. ASSUME NEW id \in Ids,
             NEW us \in Touches(<<id>>, MaxUps), NEW ts \in Touches(<<id>>, MaxTickerUps),
             HandleMicroblock(id, us, ts)
      PROVE  Firsts(origins', assets', assetSeq')
  <2>. DEFINE bs == <<[id |-> id, height |-> cursor - 1, key |-> FALSE]>>
  <2>1. /\ blocks # {} /\ id \notin StoredIds(blocks) /\ CurrentHeight(blocks) = cursor - 1
        /\ Appends(bs, us, ts, blocks, assets, tickers)
    BY <1>4 DEF HandleMicroblock
  <2>2. cursor - 1 \in Nat
    <3>1. cursor \in Nat /\ \A b \in blocks : b.height \in Nat /\ b.height < cursor
      BY DEF ChainInv, TypeOK, OneChain, BlockRows
    <3>. QED BY <2>1, <3>1
  <2>3. /\ Len(bs) = 1 /\ DOMAIN bs = 1..1 /\ DOMAIN bs = {1}
        /\ bs[1].id = id /\ bs[1].height = cursor - 1 /\ bs[1].key = FALSE
    OBVIOUS
  <2>4. us \in Touches(bs, MaxUps)
    BY <1>4 DEF Touches
  <2>. HIDE DEF bs
  <2>5. Batch(bs, Ids)
    <3>1. Len(bs) \in Nat /\ DOMAIN bs = 1..Len(bs)
      BY <2>3
    <3>2. ASSUME NEW i \in DOMAIN bs
          PROVE  bs[i].id \in Ids /\ bs[i].height \in Nat /\ bs[i].key \in BOOLEAN
      <4>1. i = 1
        BY <2>3
      <4>. QED BY <2>2, <2>3, <4>1
    <3>. QED BY <3>1, <3>2 DEF Batch
  <2>6. NewIds(blocks, bs)
    BY <2>1, <2>3 DEF NewIds
  <2>7. LeastFirst(assets, Located(us, bs, Upsert(blocks, bs, blockSeq)))
    BY <1>0, <2>4, <2>5, <2>6, NewLeastFirst
  <2>. QED BY <1>0, <2>1, <2>4, <2>5, <2>7, AppendsFirsts
<1>5. ASSUME NEW id \in Ids,
             NEW us \in Touches(<<id>>, MaxUps), NEW ts \in Touches(<<id>>, MaxTickerUps),
             RedeliverMicroblock(id, us, ts)
      PROVE  Firsts(origins', assets', assetSeq')
  <2>1. PICK m \in Micros(blocks) :
          /\ Appends(Again(m), us, ts, blocks, assets, tickers)
          /\ us \in Touches(Again(m), MaxUps)
          /\ \A i \in DOMAIN us : \E q \in assets : q.asset = us[i].asset /\ q.block = m.uid
    BY <1>5, RedeliverMicroblockItem
  <2>2. /\ Batch(Again(m), Ids) /\ DOMAIN Again(m) = {1} /\ Again(m)[1].id = m.id
        /\ Upsert(blocks, Again(m), blockSeq) = blocks /\ RowOf(blocks, m.id) = m
    BY AgainIsStored
  <2>. DEFINE ls == Located(us, Again(m), blocks)
  <2>3. ASSUME NEW i \in DOMAIN us
        PROVE  \E q \in assets : q.asset = ls[i].asset /\ q.block <= ls[i].block
    <3>1. us[i].at \in DOMAIN Again(m)
      BY <1>0, <2>1, TouchesType
    <3>2. ls[i].asset = us[i].asset /\ ls[i].block = m.uid
      BY <2>2, <3>1 DEF Located
    <3>3. PICK q \in assets : q.asset = us[i].asset /\ q.block = m.uid
      BY <2>1
    <3>4. q.block \in Nat
      BY <1>0 DEF Rows
    <3>. QED BY <3>2, <3>3, <3>4
  <2>4. DOMAIN ls = DOMAIN us
    BY DEF Located
  <2>5. LeastFirst(assets, ls)
    BY <2>3, <2>4 DEF LeastFirst
  <2>. QED BY <1>0, <2>1, <2>2, <2>5, AppendsFirsts
<1>6. ASSUME NEW rs \in SUBSET blocks, rs # {}, RollBackTo(rs)
      PROVE  Firsts(origins', assets', assetSeq')
  <2>1. /\ Uids(rs) \in SUBSET Nat /\ LowestRow(rs).uid \in Uids(rs)
        /\ \A u \in Uids(rs) : LowestRow(rs).uid <= u
    BY <1>0, <1>6, RowsRolledBackTo
  <2>2. /\ assets' = RollBackThrough(assets, Uids(rs)) /\ assetSeq' = assetSeq
        /\ origins' = {o \in origins : \E r \in assets' : r.uid = o.first}
    BY <1>6 DEF RollBackTo
  <2>. QED BY <1>0, <2>1, <2>2, RollBackFirsts
<1>7. ASSUME NEW id \in Ids, HandleRollback(id) PROVE Firsts(origins', assets', assetSeq')
  BY <1>6, <1>7, OneRow DEF HandleRollback
<1>8. CASE UNCHANGED vars
  BY <1>8 DEF vars
<1>9. CASE Resume
  BY <1>6, <1>8, <1>9, ResumeRollsBack
<1>. QED BY <1>2, <1>3, <1>4, <1>5, <1>7, <1>8, <1>9 DEF Next

(* asset_origins names the first version that exists of exactly the assets *)
(* that exist, after rollbacks below an issue and re-issues too, and after *)
(* blocks that came twice.                                                 *)
THEOREM OriginsAreFirst ==
  Spec => []OriginIsFirst
<1>. DEFINE Inv == Firsts(origins, assets, assetSeq)
<1>1. Init => Inv
  BY DEF Init, Firsts, FirstVersions, FirstsLeast
<1>2. ChainInv /\ Inv /\ [Next]_vars => Inv'
  BY OriginStep
<1>3. ChainInv /\ Inv => OriginIsFirst
  BY OriginsWithoutMin DEF ChainInv, Firsts
<1>. HIDE DEF Inv
<1>. QED BY <1>1, <1>2, <1>3, ChainInvariant, PTL DEF Spec

-----------------------------------------------------------------------------
(***************************************************************************)
(* What readers see of the index, for any chain in stream order: it        *)
(* implements SnapshotLedger.  Uids grow with the batches, and the rows    *)
(* above a block are the newest of their assets.                           *)
(***************************************************************************)

-----------------------------------------------------------------------------
(* The views of a table.  The view as of a block is made of the versions   *)
(* that belong to it or an older block, and of nothing else in the rows.   *)
Versions(rows, u, a) == {r.uid : r \in {s \in rows : s.asset = a /\ s.block <= u}}

LEMMA AsOfVersions ==
  ASSUME NEW rows \in SUBSET Rows(Assets), NEW u \in Nat
  PROVE  AsOf(rows, u) = [a \in Assets |-> Max(Versions(rows, u, a) \cup {0})]
<1>1. rows \ Above(rows, u) = {r \in rows : r.block <= u}
  BY DEF Above, Rows
<1>2. ASSUME NEW a
      PROVE  {r.uid : r \in {s \in rows \ Above(rows, u) : s.asset = a}} = Versions(rows, u, a)
  BY <1>1 DEF Versions
<1>. QED BY <1>2 DEF AsOf, Newest, NoVersion

LEMMA SameView ==
  ASSUME NEW rows \in SUBSET Rows(Assets), NEW u \in Nat,
         NEW rows2 \in SUBSET Rows(Assets), NEW u2 \in Nat,
         \A a \in Assets : Versions(rows2, u2, a) = Versions(rows, u, a)
  PROVE  AsOf(rows2, u2) = AsOf(rows, u)
<1>1. AsOf(rows, u) = [a \in Assets |-> Max(Versions(rows, u, a) \cup {0})]
  BY AsOfVersions
<1>2. AsOf(rows2, u2) = [a \in Assets |-> Max(Versions(rows2, u2, a) \cup {0})]
  BY AsOfVersions
<1>. QED BY <1>1, <1>2

(* An append adds nothing to the view as of an older block. *)
LEMMA ExtendView ==
  ASSUME NEW rows \in SUBSET Rows(Assets), NEW us, Updates(us, Assets), NEW base \in Nat,
         NEW u \in Nat, \A i \in DOMAIN us : u < us[i].block
  PROVE  AsOf(Extend(rows, us, base), u) = AsOf(rows, u)
<1>. DEFINE C(r) == Closed(r, us, base)
            N(i) == NewRow(us, base, i)
            ext == Extend(rows, us, base)
<1>1. ext = {C(r) : r \in rows} \cup {N(i) : i \in DOMAIN us}
  BY ExtendRows
<1>2. ext \in SUBSET Rows(Assets)
  BY ExtendType
<1>3. ASSUME NEW r \in rows
      PROVE  C(r).uid = r.uid /\ C(r).asset = r.asset /\ C(r).block = r.block
  BY DEF Closed, Rows
<1>4. ASSUME NEW i \in DOMAIN us PROVE ~ (N(i).block <= u)
  BY DEF NewRow, Updates
<1>. HIDE DEF C, N, ext
<1>5. ASSUME NEW a \in Assets PROVE Versions(ext, u, a) = Versions(rows, u, a)
  BY <1>1, <1>3, <1>4 DEF Versions
<1>. QED BY <1>2, <1>5, SameView DEF ext

(* Neither does a rollback take anything from the view as of a block it    *)
(* keeps.                                                                  *)
LEMMA RollBackView ==
  ASSUME NEW rows \in SUBSET Rows(Assets), Chained(rows), InBlockOrder(rows),
         NEW block \in Nat, NEW u \in Nat, u <= block
  PROVE  AsOf(RollBack(rows, block), u) = AsOf(rows, u)
<1>. DEFINE D(r) == Reopened(r, rows, block)
            kept == RollBack(rows, block)
<1>1. kept = {D(r) : r \in {q \in rows : q.block <= block}} /\ kept \in SUBSET Rows(Assets)
  BY RollBackRows, RollBackType
<1>2. ASSUME NEW r \in rows
      PROVE  /\ D(r).uid = r.uid /\ D(r).asset = r.asset /\ D(r).block = r.block
             /\ r.block \in Nat
  BY DEF Reopened, Rows
<1>. HIDE DEF D, kept
<1>3. ASSUME NEW a \in Assets PROVE Versions(kept, u, a) = Versions(rows, u, a)
  <2>1. \A r \in rows : r.block <= u => r.block <= block
    BY <1>2
  <2>. QED BY <1>1, <1>2, <2>1 DEF Versions
<1>. QED BY <1>1, <1>3, SameView DEF kept

(* Squashing moves the versions above the key block into its view. *)
LEMMA RepointView ==
  ASSUME NEW rows \in SUBSET Rows(Assets), NEW block \in Nat, NEW u \in Nat
  PROVE  /\ u < block => AsOf(Repoint(rows, block), u) = AsOf(rows, u)
         /\ (\A r \in rows : r.block <= u) =>
              AsOf(Repoint(rows, block), block) = AsOf(rows, u)
<1>. DEFINE P(r) == Repointed(r, block)
            new == Repoint(rows, block)
<1>1. new = {P(r) : r \in rows}
  BY DEF Repoint, Repointed
<1>2. new \in SUBSET Rows(Assets)
  BY RepointType
<1>3. ASSUME NEW r \in rows
      PROVE  /\ P(r).uid = r.uid /\ P(r).asset = r.asset /\ r.block \in Nat
             /\ P(r).block = IF r.block > block THEN block ELSE r.block
  BY DEF Repointed, Rows
<1>. HIDE DEF P, new
<1>4. ASSUME u < block PROVE AsOf(new, u) = AsOf(rows, u)
  <2>1. \A r \in rows : P(r).block <= u <=> r.block <= u
    BY <1>3, <1>4
  <2>2. ASSUME NEW a \in Assets PROVE Versions(new, u, a) = Versions(rows, u, a)
    BY <1>1, <1>3, <2>1 DEF Versions
  <2>. QED BY <1>2, <2>2, SameView
<1>5. ASSUME \A r \in rows : r.block <= u PROVE AsOf(new, block) = AsOf(rows, u)
  <2>1. \A r \in rows : P(r).block <= block
    BY <1>3
  <2>2. ASSUME NEW a \in Assets PROVE Versions(new, block, a) = Versions(rows, u, a)
    BY <1>1, <1>3, <1>5, <2>1 DEF Versions
  <2>. QED BY <1>2, <2>2, SameView
<1>. QED BY <1>4, <1>5 DEF new

(* The view readers see, superseded_by = MAX_UID, is the view as of the    *)
(* last block: the chains end in their newest rows.                        *)
LEMMA GreatestIsMax ==
  ASSUME NEW S, S \subseteq Nat, NEW m \in S, \A x \in S : x <= m
  PROVE  Max(S) = m
<1>1. Max(S) \in S /\ \A y \in S : y <= Max(S)
  BY MaxIsGreatest
<1>. DEFINE n == Max(S)
<1>. HIDE DEF n
<1>2. n = m
  <2>1. n \in Nat /\ m \in Nat /\ n <= m /\ m <= n
    BY <1>1 DEF n
  <2>. QED BY <2>1
<1>. QED BY <1>2 DEF n

LEMMA CurrentIsNewest ==
  ASSUME NEW rows \in SUBSET Rows(Assets), Chained(rows),
         NEW u \in Nat, \A r \in rows : r.block <= u
  PROVE  [a \in Assets |-> Newest(Current(rows), a)] = AsOf(rows, u)
<1>1. ASSUME NEW a \in Assets
      PROVE  Newest(Current(rows), a) = Max(Versions(rows, u, a) \cup {0})
  <2>. DEFINE All == Versions(rows, u, a)
              Open == {r.uid : r \in {s \in Current(rows) : s.asset = a}}
  <2>1. /\ All = {r.uid : r \in {s \in rows : s.asset = a}}
        /\ Newest(Current(rows), a) = Max(Open \cup {0})
    BY DEF Versions, Newest, NoVersion
  <2>2. All \subseteq Nat /\ Open \subseteq All /\ \A x \in All : x <= MaxUid
    <3>1. \A r \in rows : r.uid \in Nat /\ r.uid <= MaxUid
      BY MaxUidAssumption DEF Rows, Chained
    <3>2. Open \subseteq All
      BY <2>1 DEF Current
    <3>. QED BY <2>1, <3>1, <3>2
  <2>3. CASE All = {}
    BY <2>1, <2>2, <2>3
  <2>4. CASE All # {}
    <3>1. Max(All) \in All /\ \A x \in All : x <= Max(All)
      <4>. HIDE DEF All
      <4>. QED BY <2>2, <2>4, MaxUidAssumption, MaxIsGreatest
    <3>2. PICK r \in rows : r.asset = a /\ r.uid = Max(All)
      BY <2>1, <3>1
    <3>3. ASSUME NEW s \in rows, s.asset = a PROVE s.uid <= r.uid /\ s.uid \in Nat
      BY <2>1, <3>1, <3>2, <3>3 DEF Rows
    <3>4. r.sup = MaxUid
      <4>1. ASSUME NEW s \in rows, s.asset = r.asset, r.uid < s.uid PROVE FALSE
        BY <3>2, <3>3, <4>1
      <4>. QED BY <4>1 DEF Chained
    <3>5. r.uid \in Open
      BY <3>2, <3>4 DEF Current
    <3>. HIDE DEF All, Open
    <3>6. r.uid \in All /\ r.uid \in Nat /\ \A x \in All : x <= r.uid
      BY <2>2, <3>1, <3>2
    <3>7. Max(All \cup {0}) = r.uid
      <4>1. All \cup {0} \subseteq Nat /\ \A x \in All \cup {0} : x <= r.uid
        BY <2>2, <3>6
      <4>. QED BY <3>6, <4>1, GreatestIsMax
    <3>8. Max(Open \cup {0}) = r.uid
      <4>1. Open \cup {0} \subseteq Nat /\ \A x \in Open \cup {0} : x <= r.uid
        BY <2>2, <3>6
      <4>. QED BY <3>5, <4>1, GreatestIsMax
    <3>. QED BY <2>1, <3>7, <3>8 DEF All
  <2>. QED BY <2>3, <2>4
<1>2. AsOf(rows, u) = [a \in Assets |-> Max(Versions(rows, u, a) \cup {0})]
  BY AsOfVersions
<1>. QED BY <1>1, <1>2

-----------------------------------------------------------------------------
(* The ledger a chain of blocks and two tables stand for: Taken, of any    *)
(* blocks and tables.                                                      *)
View(as, tk, u) == [assets |-> AsOf(as, u), tickers |-> AsOf(tk, u)]

Entry(bl, as, tk, u) == [key |-> \E b \in Keys(bl) : b.uid = u, view |-> View(as, tk, u)]

LedgerOf(bl, as, tk) == [u \in Uids(bl) |-> Entry(bl, as, tk, u)]

LEMMA TakenIsLedger == Taken = LedgerOf(blocks, assets, tickers)
BY DEF Taken, LedgerOf, Entry, View

LEMMA CurrentIsView ==
  ASSUME NEW as \in SUBSET Rows(Assets), Chained(as),
         NEW tk \in SUBSET Rows(Assets), Chained(tk),
         NEW u \in Nat, \A r \in as \cup tk : r.block <= u
  PROVE  [assets  |-> [a \in Assets |-> Newest(Current(as), a)],
          tickers |-> [a \in Assets |-> Newest(Current(tk), a)]] = View(as, tk, u)
<1>1. [a \in Assets |-> Newest(Current(as), a)] = AsOf(as, u)
  BY CurrentIsNewest
<1>2. [a \in Assets |-> Newest(Current(tk), a)] = AsOf(tk, u)
  BY CurrentIsNewest
<1>. QED BY <1>1, <1>2 DEF View

LEMMA LedgerMax == \A S : Ledger!Max(S) = Max(S)
BY DEF Ledger!Max, Max

(* handle_appends is an append to the ledger of what squashing left. *)
LEMMA ItemAppendsToLedger ==
  ASSUME NEW bs, NEW us, NEW ts, NEW stored, NEW assets0, NEW tickers0,
         Item(bs, us, ts, stored, assets0, tickers0), IInv, IInv'
  PROVE  Ledger!AppendTo(LedgerOf(stored, assets0, tickers0))
<1>. DEFINE base == LedgerOf(stored, assets0, tickers0)
            A(i) == Appended(bs, blockSeq, i)
            las == Located(us, bs, Upsert(stored, bs, blockSeq))
            ltk == Located(ts, bs, Upsert(stored, bs, blockSeq))
<1>1. /\ blockSeq \in Nat /\ assetSeq \in Nat /\ tickerSeq \in Nat
      /\ MaxUps \in Nat /\ MaxTickerUps \in Nat
  BY IndexAssumption DEF IInv, TypeOK
<1>2. /\ Batch(bs, Ids) /\ NewIds(stored, bs) /\ Len(bs) >= 1
      /\ us \in Touches(bs, MaxUps) /\ ts \in Touches(bs, MaxTickerUps)
      /\ stored \in SUBSET BlockRows(Ids)
      /\ \A b \in stored : b.uid < blockSeq
      /\ assets0 \in SUBSET Rows(Assets) /\ tickers0 \in SUBSET Rows(Assets)
      /\ blocks' = Upsert(stored, bs, blockSeq)
      /\ assets' = Extend(assets0, las, assetSeq)
      /\ tickers' = Extend(tickers0, ltk, tickerSeq)
  BY DEF Item, Appends, Table
<1>3. /\ Updates(las, Assets) /\ \A i \in DOMAIN las : blockSeq <= las[i].block
      /\ Updates(ltk, Assets) /\ \A i \in DOMAIN ltk : blockSeq <= ltk[i].block
  BY <1>1, <1>2, LocatedUpdates
<1>. HIDE DEF las, ltk
<1>4. blocks' = stored \cup {A(i) : i \in DOMAIN bs}
  BY <1>2, UpsertRows
<1>5. ASSUME NEW i \in DOMAIN bs PROVE blockSeq <= A(i).uid /\ A(i).uid \in Nat
  BY <1>1, <1>2, AppendedFields DEF BlockRows
<1>6. A(1) \in blocks'
  BY <1>2, <1>4 DEF Batch
<1>. HIDE DEF A
<1>7. ASSUME NEW u \in Uids(stored)
      PROVE  u \in Nat /\ u < blockSeq /\ u \in Uids(blocks')
  BY <1>2, <1>4 DEF Uids, BlockRows
<1>8. ASSUME NEW u \in Uids(blocks') \ Uids(stored) PROVE u \in Nat /\ blockSeq <= u
  BY <1>4, <1>5 DEF Uids
<1>9. ASSUME NEW u \in Uids(stored)
      PROVE  Entry(blocks', assets', tickers', u) = Entry(stored, assets0, tickers0, u)
  <2>1. (\E b \in Keys(blocks') : b.uid = u) <=> (\E b \in Keys(stored) : b.uid = u)
    BY <1>1, <1>4, <1>5, <1>7 DEF Keys
  <2>2. \A i \in DOMAIN las : u < las[i].block
    BY <1>1, <1>3, <1>7 DEF Updates
  <2>3. \A i \in DOMAIN ltk : u < ltk[i].block
    BY <1>1, <1>3, <1>7 DEF Updates
  <2>4. AsOf(assets', u) = AsOf(assets0, u)
    BY <1>1, <1>2, <1>3, <1>7, <2>2, ExtendView
  <2>5. AsOf(tickers', u) = AsOf(tickers0, u)
    BY <1>1, <1>2, <1>3, <1>7, <2>3, ExtendView
  <2>. QED BY <2>1, <2>4, <2>5 DEF Entry, View
<1>10. /\ Taken' = LedgerOf(blocks', assets', tickers')
       /\ DOMAIN Taken' = Uids(blocks') /\ DOMAIN base = Uids(stored)
       /\ \A u \in Uids(blocks') : Taken'[u] = Entry(blocks', assets', tickers', u)
       /\ \A u \in Uids(stored) : base[u] = Entry(stored, assets0, tickers0, u)
  <2>1. Taken' = LedgerOf(blocks', assets', tickers')
    BY DEF Taken, LedgerOf, Entry, View
  <2>. QED BY <2>1 DEF LedgerOf
<1>11. /\ Max(Uids(blocks')) \in Uids(blocks') /\ Max(Uids(blocks')) \in Nat
       /\ \A u \in Uids(blocks') : u <= Max(Uids(blocks'))
  <2>1. blockSeq' \in Nat /\ \A u \in Uids(blocks') : u \in Nat /\ u <= blockSeq'
    BY DEF IInv, TypeOK, OneChain, Uids, BlockRows
  <2>2. Uids(blocks') # {} /\ Uids(blocks') \subseteq Nat
    BY <1>6, <2>1 DEF Uids
  <2>. QED BY <2>1, <2>2, MaxIsGreatest
<1>12. CurrentView' = View(assets', tickers', Max(Uids(blocks')))
  <2>1. /\ assets' \in SUBSET Rows(Assets) /\ Chained(assets')
        /\ tickers' \in SUBSET Rows(Assets) /\ Chained(tickers')
        /\ \A r \in assets' \cup tickers' : r.block \in Uids(blocks')
    BY DEF IInv, TypeOK, VersionChain, RowsRefer
  <2>. QED BY <1>11, <2>1, CurrentIsView DEF CurrentView
<1>13. DOMAIN Taken' # DOMAIN base
  <2>1. A(1).uid \in Uids(blocks')
    BY <1>6 DEF Uids
  <2>2. 1 \in DOMAIN bs
    BY <1>2 DEF Batch
  <2>. QED BY <1>1, <1>5, <1>7, <1>10, <2>1, <2>2
<1>14. \A u \in DOMAIN base : u \in DOMAIN Taken' /\ Taken'[u] = base[u]
  BY <1>7, <1>9, <1>10
<1>15. \A u \in DOMAIN Taken' \ DOMAIN base : \A v \in DOMAIN base : v < u
  BY <1>1, <1>7, <1>8, <1>10
<1>16. CurrentView' = Taken'[Max(DOMAIN Taken')].view
  BY <1>10, <1>11, <1>12 DEF Entry
<1>. HIDE DEF base
<1>17. Ledger!AppendTo(base)
  BY <1>13, <1>14, <1>15, <1>16, LedgerMax DEF Ledger!AppendTo
<1>. QED BY <1>17 DEF base

(* Squashing folds the microblocks of the ledger into their key block. *)
LEMMA SquashFolds ==
  ASSUME IInv
  PROVE  Ledger!Folded = LedgerOf(Squash(blocks), Squashed(assets), Squashed(tickers))
<1>. DEFINE stored == Squash(blocks)
            k == KeyUid(blocks)
            keys == {u \in DOMAIN Taken : Taken[u].key}
            new == LedgerOf(stored, Squashed(assets), Squashed(tickers))
<1>1. /\ blocks \in SUBSET BlockRows(Ids) /\ InChainOrder(blocks)
      /\ blockSeq \in Nat /\ \A b \in blocks : b.uid < blockSeq
      /\ assets \in SUBSET Rows(Assets) /\ Chained(assets)
      /\ tickers \in SUBSET Rows(Assets) /\ Chained(tickers)
      /\ \A r \in assets \cup tickers : r.block \in Uids(blocks)
      /\ \A u \in Uids(blocks) : u \in Nat
  BY DEF IInv, TypeOK, OneChain, VersionChain, RowsRefer, BlockRows, Uids
<1>2. /\ Taken = LedgerOf(blocks, assets, tickers) /\ DOMAIN Taken = Uids(blocks)
      /\ \A u \in Uids(blocks) : Taken[u] = Entry(blocks, assets, tickers, u)
  BY DEF Taken, LedgerOf, Entry, View
<1>3. CASE blocks = {}
  <2>1. stored = blocks /\ Squashed(assets) = assets /\ Squashed(tickers) = tickers
    BY <1>3 DEF Squash, Squashed, Micros
  <2>2. Taken = <<>>
    BY <1>2, <1>3 DEF LedgerOf, Uids
  <2>. QED BY <1>2, <2>1, <2>2 DEF Ledger!Folded
<1>4. CASE blocks # {}
  <2>1. Keys(blocks) # {}
    BY <1>1, <1>4 DEF InChainOrder, Keys, Micros
  <2>2. /\ k \in Uids(Keys(blocks)) /\ k \in Nat
        /\ \A u \in Uids(Keys(blocks)) : u <= k
    BY <1>1, <2>1, KeyUidIsGreatest DEF Uids
  <2>3. /\ Uids(stored) = Uids(Keys(blocks))
        /\ Micros(stored) = {}
    BY <1>1, SquashInOrder
  <2>4. Uids(Keys(blocks)) \subseteq Uids(blocks)
    BY DEF Uids, Keys
  <2>5. keys = Uids(Keys(blocks))
    <3>1. ASSUME NEW u \in Uids(blocks)
          PROVE  Taken[u].key <=> u \in Uids(Keys(blocks))
      <4>1. u \in Uids(Keys(blocks)) <=> \E b \in Keys(blocks) : b.uid = u
        BY DEF Uids
      <4>2. CASE u \in Uids(Keys(blocks))
        <5>1. (\E b \in Keys(blocks) : b.uid = u) = TRUE
          BY <4>1, <4>2
        <5>2. Taken[u] = [key |-> TRUE, view |-> View(assets, tickers, u)]
          BY <1>2, <5>1 DEF Entry
        <5>. QED BY <4>2, <5>2
      <4>3. CASE u \notin Uids(Keys(blocks))
        <5>1. (\E b \in Keys(blocks) : b.uid = u) = FALSE
          BY <4>1, <4>3
        <5>2. Taken[u] = [key |-> FALSE, view |-> View(assets, tickers, u)]
          BY <1>2, <5>1 DEF Entry
        <5>. QED BY <4>3, <5>2
      <4>. QED BY <4>2, <4>3
    <3>. QED BY <1>2, <2>4, <3>1
  <2>6. Taken # <<>>
    <3>1. k \in DOMAIN Taken
      BY <1>2, <2>2, <2>4
    <3>. QED BY <3>1
  <2>7. PICK last \in Uids(blocks) : last \in Nat /\ \A u \in Uids(blocks) : u <= last
    <3>1. /\ Uids(blocks) \subseteq Nat /\ Uids(blocks) # {}
          /\ \A u \in Uids(blocks) : u <= blockSeq
      BY <1>1, <1>4 DEF Uids
    <3>. QED BY <1>1, <3>1, MaxIsGreatest
  <2>8. CurrentView = View(assets, tickers, last)
    BY <1>1, <2>7, CurrentIsView DEF CurrentView
  <2>9. Micros(blocks) = {} => last = k
    <3>1. Micros(blocks) = {} => Keys(blocks) = blocks
      BY DEF Micros, Keys
    <3>. QED BY <2>2, <2>7, <3>1
  <2>10. View(Squashed(assets), Squashed(tickers), k) = CurrentView
    <3>1. CASE Micros(blocks) = {}
      BY <2>8, <2>9, <3>1 DEF Squashed
    <3>2. CASE Micros(blocks) # {}
      <4>1. /\ AsOf(Repoint(assets, k), k) = AsOf(assets, last)
            /\ AsOf(Repoint(tickers, k), k) = AsOf(tickers, last)
        BY <1>1, <2>2, <2>7, RepointView
      <4>. QED BY <2>8, <3>2, <4>1 DEF Squashed, View
    <3>. QED BY <3>1, <3>2
  <2>11. ASSUME NEW u \in Uids(Keys(blocks)), u # k
         PROVE  View(Squashed(assets), Squashed(tickers), u) = View(assets, tickers, u)
    <3>1. CASE Micros(blocks) = {}
      BY <3>1 DEF Squashed
    <3>2. CASE Micros(blocks) # {}
      <4>1. u \in Nat /\ u < k
        BY <1>1, <2>2, <2>4, <2>11
      <4>2. /\ AsOf(Repoint(assets, k), u) = AsOf(assets, u)
            /\ AsOf(Repoint(tickers, k), u) = AsOf(tickers, u)
        BY <1>1, <2>2, <4>1, RepointView
      <4>. QED BY <3>2, <4>2 DEF Squashed, View
    <3>. QED BY <3>1, <3>2
  <2>12. ASSUME NEW u \in Uids(Keys(blocks))
         PROVE  Entry(stored, Squashed(assets), Squashed(tickers), u)
                  = IF u = k THEN [key |-> TRUE, view |-> CurrentView] ELSE Taken[u]
    <3>1. (\E b \in Keys(stored) : b.uid = u) = TRUE
      BY <2>3 DEF Keys, Micros, Uids
    <3>2. (\E b \in Keys(blocks) : b.uid = u) = TRUE
      BY DEF Uids
    <3>3. Taken[u] = Entry(blocks, assets, tickers, u)
      BY <1>2, <2>4
    <3>. QED BY <2>10, <2>11, <3>1, <3>2, <3>3 DEF Entry
  <2>13. Ledger!Folded = [u \in keys |-> IF u = Max(keys)
                                           THEN [key |-> TRUE, view |-> CurrentView]
                                           ELSE Taken[u]]
    BY <2>6, LedgerMax DEF Ledger!Folded, Ledger!Keyed
  <2>14. Max(keys) = k
    BY <2>5 DEF KeyUid
  <2>15. new = [u \in Uids(Keys(blocks)) |->
                  Entry(stored, Squashed(assets), Squashed(tickers), u)]
    BY <2>3 DEF LedgerOf
  <2>. HIDE DEF keys, k, stored, new
  <2>16. Ledger!Folded = [u \in Uids(Keys(blocks)) |->
                            IF u = k THEN [key |-> TRUE, view |-> CurrentView] ELSE Taken[u]]
    BY <2>5, <2>13, <2>14
  <2>17. Ledger!Folded = new
    BY <2>12, <2>15, <2>16
  <2>. QED BY <2>17 DEF new, stored
<1>. QED BY <1>3, <1>4

LEMMA HandleBlocksRefines ==
  ASSUME IInv, IInv', NEW ids \in IdBatches,
         NEW us \in Touches(ids, MaxUps), NEW ts \in Touches(ids, MaxTickerUps),
         HandleBlocks(ids, us, ts)
  PROVE  Ledger!AppendBlocks
<1>1. PICK bs :
        /\ Item(bs, us, ts, Squash(blocks), Squashed(assets), Squashed(tickers))
        /\ KeyBlocks(bs, Len(ids))
  BY HandleBlocksItem
<1>2. Ledger!AppendTo(Ledger!Folded)
  BY <1>1, ItemAppendsToLedger, SquashFolds
<1>3. \A b \in blocks' : b.key
  <2>1. Micros(Squash(blocks)) = {}
    BY SquashInOrder DEF IInv, TypeOK, OneChain
  <2>2. blocks' = Squash(blocks) \cup {Appended(bs, blockSeq, i) : i \in DOMAIN bs}
    BY <1>1, UpsertRows DEF Item, Appends
  <2>. QED BY <1>1, <2>1, <2>2 DEF Micros, KeyBlocks, Appended
<1>4. \A u \in DOMAIN Taken' : Taken'[u].key
  <2>1. \A u \in Uids(blocks') : \E b \in Keys(blocks') : b.uid = u
    BY <1>3 DEF Uids, Keys
  <2>. QED BY <2>1 DEF Taken
<1>. QED BY <1>2, <1>4 DEF Ledger!AppendBlocks

LEMMA HandleMicroblockRefines ==
  ASSUME IInv, IInv', NEW id \in Ids,
         NEW us \in Touches(<<id>>, MaxUps), NEW ts \in Touches(<<id>>, MaxTickerUps),
         HandleMicroblock(id, us, ts)
  PROVE  Ledger!AppendMicroblock
<1>1. PICK bs : Item(bs, us, ts, blocks, assets, tickers)
  BY HandleMicroblockItem
<1>2. Ledger!AppendTo(Taken)
  BY <1>1, ItemAppendsToLedger, TakenIsLedger
<1>3. DOMAIN Taken # {}
  BY DEF Taken, HandleMicroblock, Uids
<1>. QED BY <1>2, <1>3 DEF Ledger!AppendMicroblock

(* Rolling back to a block brings its view back. *)
LEMMA RollBackToRefines ==
  ASSUME IInv, IInv', NEW rs \in SUBSET blocks, rs # {}, RollBackTo(rs)
  PROVE  Ledger!Next
<1>. DEFINE u == LowestRow(rs).uid
<1>0. LowestRow(rs) \in blocks
  BY RowsRolledBackTo DEF IInv, TypeOK
<1>1. /\ u \in Nat /\ u \in Uids(blocks) /\ \A v \in Uids(blocks) : v \in Nat
      /\ assets \in SUBSET Rows(Assets) /\ Chained(assets) /\ InBlockOrder(assets)
      /\ tickers \in SUBSET Rows(Assets) /\ Chained(tickers) /\ InBlockOrder(tickers)
      /\ assets' = RollBack(assets, u) /\ tickers' = RollBack(tickers, u)
      /\ blocks' = CutAbove(blocks, u)
  BY <1>0, RollBackEndsAt
     DEF IInv, TypeOK, VersionChain, RowsInBlockOrder, RollBackTo, BlockRows, Uids
<1>. HIDE DEF u
<1>2. Uids(blocks') = {v \in Uids(blocks) : v <= u}
  BY <1>1 DEF CutAbove, Uids
<1>3. ASSUME NEW v \in Uids(blocks')
      PROVE  Entry(blocks', assets', tickers', v) = Entry(blocks, assets, tickers, v)
  <2>1. v \in Nat /\ v <= u
    BY <1>1, <1>2
  <2>2. AsOf(assets', v) = AsOf(assets, v) /\ AsOf(tickers', v) = AsOf(tickers, v)
    BY <1>1, <2>1, RollBackView
  <2>3. (\E b \in Keys(blocks') : b.uid = v) <=> (\E b \in Keys(blocks) : b.uid = v)
    BY <1>1, <2>1 DEF Keys, CutAbove
  <2>. QED BY <2>2, <2>3 DEF Entry, View
<1>4. /\ DOMAIN Taken = Uids(blocks)
      /\ Taken' = [v \in Uids(blocks') |-> Entry(blocks', assets', tickers', v)]
      /\ \A v \in Uids(blocks) : Taken[v] = Entry(blocks, assets, tickers, v)
  BY DEF Taken, Entry, View
<1>5. Taken' = [v \in Ledger!UpTo(u) |-> Taken[v]]
  <2>1. Ledger!UpTo(u) = Uids(blocks')
    BY <1>2, <1>4 DEF Ledger!UpTo
  <2>. QED BY <1>2, <1>3, <1>4, <2>1
<1>6. CurrentView' = Taken[u].view
  <2>1. /\ assets' \in SUBSET Rows(Assets) /\ Chained(assets')
        /\ tickers' \in SUBSET Rows(Assets) /\ Chained(tickers')
        /\ \A r \in assets' \cup tickers' : r.block \in Uids(blocks')
    BY DEF IInv, TypeOK, VersionChain, RowsRefer
  <2>2. \A r \in assets' \cup tickers' : r.block <= u
    BY <1>2, <2>1
  <2>3. CurrentView' = View(assets', tickers', u)
    BY <1>1, <2>1, <2>2, CurrentIsView DEF CurrentView
  <2>4. u \in Uids(blocks')
    BY <1>1, <1>2
  <2>. QED BY <1>1, <1>3, <1>4, <2>3, <2>4 DEF Entry
<1>7. Ledger!RollBackTo(u)
  BY <1>5, <1>6 DEF Ledger!RollBackTo
<1>. QED BY <1>1, <1>4, <1>7 DEF Ledger!Next

LEMMA InitRefines == Init => Ledger!Init
<1>. SUFFICES ASSUME Init
              PROVE  /\ Taken = <<>>
                     /\ CurrentView = [assets |-> NoVersions, tickers |-> NoVersions]
  BY DEF Ledger!Init
<1>1. Taken = <<>>
  BY DEF Init, Taken, Uids
<1>2. \A a : Newest(Current({}), a) = 0
  <2>1. Max({0}) = 0
    BY GreatestIsMax
  <2>2. \A a : {r.uid : r \in {s \in Current({}) : s.asset = a}} \cup {NoVersion} = {0}
    BY DEF Current, NoVersion
  <2>. QED BY <2>1, <2>2 DEF Newest
<1>. QED BY <1>1, <1>2 DEF Init, CurrentView, NoVersions, NoVersion

LEMMA NextRefines ==
  ASSUME ~ Redelivery, IInv, IInv', [Next]_vars
  PROVE  [Ledger!Next]_<<Taken, CurrentView>>
<1>1. ASSUME NEW ids \in IdBatches,
             NEW us \in Touches(ids, MaxUps), NEW ts \in Touches(ids, MaxTickerUps),
             HandleBlocks(ids, us, ts)
      PROVE  Ledger!Next
  BY <1>1, HandleBlocksRefines DEF Ledger!Next
<1>2. ASSUME NEW id \in Ids,
             NEW us \in Touches(<<id>>, MaxUps), NEW ts \in Touches(<<id>>, MaxTickerUps),
             HandleMicroblock(id, us, ts)
      PROVE  Ledger!Next
  BY <1>2, HandleMicroblockRefines DEF Ledger!Next
<1>3. ASSUME NEW id \in Ids, HandleRollback(id) PROVE Ledger!Next
  BY <1>3, OneRow, RollBackToRefines DEF HandleRollback
<1>4. ASSUME NEW ids \in IdBatches, NEW us, NEW ts, RedeliverBlocks(ids, us, ts) PROVE FALSE
  BY <1>4 DEF RedeliverBlocks
<1>5. ASSUME UNCHANGED <<blocks, assets, tickers>> PROVE UNCHANGED <<Taken, CurrentView>>
  BY <1>5 DEF Taken, CurrentView
<1>6. ASSUME NEW id \in Ids, NEW us, NEW ts, RedeliverMicroblock(id, us, ts) PROVE FALSE
  BY <1>6 DEF RedeliverMicroblock
<1>7. CASE UNCHANGED vars
  BY <1>5, <1>7 DEF vars
<1>8. ASSUME Resume PROVE Ledger!Next \/ UNCHANGED <<Taken, CurrentView>>
  <2>1. UNCHANGED vars => UNCHANGED <<blocks, assets, tickers>>
    BY DEF vars
  <2>. QED BY <1>5, <1>8, <2>1, ResumeRollsBack, RollBackToRefines
<1>. QED BY <1>1, <1>2, <1>3, <1>4, <1>6, <1>7, <1>8 DEF Next

(* Every step of the index is a step of the ledger: whatever the batches,  *)
(* squashes, rollbacks and resumes so far, rolling back to a block makes   *)
(* current exactly the versions that were current when it was the last.    *)
THEOREM IndexImplementsLedger ==
  ASSUME ~ Redelivery PROVE Spec => RollbackRestoresView
<1>1. Init => Ledger!Init
  BY InitRefines
<1>2. IInv /\ IInv' /\ [Next]_vars => [Ledger!Next]_(Ledger!snapshots)
  BY NextRefines DEF Ledger!snapshots
<1>. QED BY IndexInvariant, <1>1, <1>2, PTL DEF Spec, RollbackRestoresView, Ledger!Spec

=============================================================================
