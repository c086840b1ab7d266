----------------------------- MODULE ChainIndex -----------------------------
(***************************************************************************)
(* The PostgreSQL index that blockchain-postgres-sync keeps of the chain:  *)
(* blocks_microblocks, the two versioned tables (asset_updates and         *)
(* asset_tickers), asset_origins and dcc_data.  Every action is one item   *)
(* of handle_updates, or the rollback start() makes before it subscribes,  *)
(* with everything the item does to these tables.  The transactions of the *)
(* blocks are in TxIndex; the process and the stream are in Consumer.      *)
(*                                                                         *)
(* A batch of items commits as one database transaction, but the splitter  *)
(* of the stream may cut a batch after any block, so every item is also a  *)
(* transaction of its own in some execution: one action per item shows     *)
(* the readers every state they may see, and more.                         *)
(*                                                                         *)
(* The chain is an open environment: the next blocks carry any fresh ids   *)
(* at the heights that follow, touch any assets and tickers, and the node  *)
(* may roll back to any block the index holds.                             *)
(***************************************************************************)
EXTENDS BlockTable, VersionedTable

CONSTANTS
  Assets,          \* asset ids
  Ids,             \* block and microblock ids
  Mints,           \* heights whose key block carries a positive updated_dcc_amount
  AssetsOnly,      \* config: index assets and tickers only
  StartingHeight,  \* config: first height of an empty index
  Depth,           \* config: start_rollback_depth
  Step,            \* config: rollback_step
  Redelivery,      \* may the stream repeat blocks the index holds?
  MaxBatch,        \* bound: key blocks in an item
  MaxUps,          \* bound: asset updates in an item
  MaxTickerUps,    \* bound: ticker updates in an item
  MaxBlockUid      \* bound: block uids

ASSUME IndexAssumption ==
  /\ Mints \subseteq Nat
  /\ {AssetsOnly, Redelivery} \subseteq BOOLEAN
  /\ StartingHeight \in Nat \ {0}
  /\ Depth \in Nat \ {0}
  /\ Step \in Nat \ {0}
  /\ MaxBatch \in Nat \ {0}
  /\ {MaxUps, MaxTickerUps, MaxBlockUid} \subseteq Nat

VARIABLES
  blocks, blockSeq,     \* blocks_microblocks and its identity column
  assets, assetSeq,     \* asset_updates and its sequence
  tickers, tickerSeq,   \* asset_tickers and its sequence
  origins,              \* asset_origins: [asset, first]
  dcc,                  \* dcc_data: [height, block]
  cursor                \* height of the next key block the index does not hold

vars == <<blocks, blockSeq, assets, assetSeq, tickers, tickerSeq,
          origins, dcc, cursor>>

TypeOK ==
  /\ blocks \subseteq BlockRows(Ids)
  /\ assets \subseteq Rows(Assets)
  /\ tickers \subseteq Rows(Assets)
  /\ origins \subseteq [asset : Assets, first : Nat]
  /\ dcc \subseteq [height : Nat, block : Nat]
  /\ blockSeq \in Nat
  /\ assetSeq \in Nat
  /\ tickerSeq \in Nat
  /\ cursor \in Nat

Init ==
  /\ blocks = {} /\ blockSeq = 1
  /\ assets = {} /\ assetSeq = 1
  /\ tickers = {} /\ tickerSeq = 1
  /\ origins = {}
  /\ dcc = {}
  /\ cursor = StartingHeight

-----------------------------------------------------------------------------
(* What an item brings: appends [id, height, key], and the assets and      *)
(* tickers their transactions touch, each with the place of its append.    *)
Touches(bs, max) ==
  {us \in UNION {[1..n -> [asset : Assets, at : DOMAIN bs]] : n \in 0..max} :
     \A i, j \in DOMAIN us : i <= j => us[i].at <= us[j].at}

Located(us, bs, rows) ==
  [i \in DOMAIN us |->
     [asset |-> us[i].asset, block |-> RowOf(rows, bs[us[i].at].id).uid]]

(* insert_asset_origins: on conflict do nothing. *)
AllOrigins(us) ==   \* mutant: no ON CONFLICT clause, and no primary key
  {[asset |-> us[i].asset, first |-> SupersededBy(us, us[i].asset, 0, assetSeq)]
     : i \in DOMAIN us}

NewOrigins(us) ==
  {[asset |-> us[i].asset, first |-> SupersededBy(us, us[i].asset, 0, assetSeq)]
     : i \in {k \in DOMAIN us : \A o \in origins : o.asset # us[k].asset}}

(* insert_dcc_data: the last row of a height in the batch replaces the     *)
(* stored one.                                                             *)
Minting(bs) == {i \in DOMAIN bs : bs[i].key /\ bs[i].height \in Mints}

MintedDcc(bs, rows) ==
  {d \in dcc : \A i \in Minting(bs) : d.height # bs[i].height}
    \cup {[height |-> bs[i].height, block |-> RowOf(rows, bs[i].id).uid]
            : i \in {k \in Minting(bs) :
                       \A j \in Minting(bs) : bs[j].height = bs[k].height => j <= k}}

(* handle_appends over the tables the item found or squashing left. *)
Appends(bs, us, ts, blocks0, assets0, tickers0) ==
  /\ blockSeq + Len(bs) <= MaxBlockUid + 1
  /\ assetSeq + Len(us) <= MaxUid
  /\ tickerSeq + Len(ts) <= MaxUid
  /\ blocks' = Upsert(blocks0, bs, blockSeq)
  /\ blockSeq' = blockSeq + Len(bs)
  /\ assets' = Extend(assets0, Located(us, bs, blocks'), assetSeq)
  /\ assetSeq' = assetSeq + Len(us)
  /\ tickers' = Extend(tickers0, Located(ts, bs, blocks'), tickerSeq)
  /\ tickerSeq' = tickerSeq + Len(ts)
  /\ origins' = origins \cup NewOrigins(us)
  /\ dcc' = IF AssetsOnly THEN dcc ELSE MintedDcc(bs, blocks')

(* squash_microblocks, the versioned tables: nothing to do without         *)
(* microblocks.                                                            *)
NotSquashed(rows) == rows   \* mutant: no update_*_block_references

Squashed(rows) ==
  IF Micros(blocks) = {} THEN rows ELSE Repoint(rows, KeyUid(blocks))

-----------------------------------------------------------------------------
(* UpdatesItem::Blocks: squash, then append. *)
HandleBlocks(ids, us, ts) ==
  LET bs == [i \in DOMAIN ids |->
               [id |-> ids[i], height |-> cursor + i - 1, key |-> TRUE]]
  IN  /\ \A i \in DOMAIN ids : ids[i] \notin StoredIds(blocks)
      /\ \A i, j \in DOMAIN ids : ids[i] = ids[j] => i = j
      /\ Appends(bs, us, ts, Squash(blocks), Squashed(assets), Squashed(tickers))
      /\ cursor' = cursor + Len(ids)

(* The same item when the stream repeats blocks under the ids of stored    *)
(* rows or of earlier blocks of the item: a block comes with the height    *)
(* and the transactions it came with the first time, so it touches the     *)
(* same assets.  An id that is not stored is a new block.  (A key block    *)
(* that is repeated under the id it had before a squash renamed its row    *)
(* would be a second row at its height; that is left out.)                 *)
FirstIn(ids, i) == Min({j \in DOMAIN ids : ids[j] = ids[i]})

NewBefore(ids, i) == {ids[j] : j \in 1..(i - 1)} \ StoredIds(Squash(blocks))

HeightIn(ids, i) ==
  IF ids[i] \in StoredIds(Squash(blocks))
    THEN RowOf(Squash(blocks), ids[i]).height
    ELSE cursor + Cardinality(NewBefore(ids, FirstIn(ids, i)))

SameTouches(us, ids, rows) ==
  LET At(i) == {us[k].asset : k \in {n \in DOMAIN us : us[n].at = i}}
  IN  \A i \in DOMAIN ids :
        At(i) = IF ids[i] \in StoredIds(Squash(blocks))
                  THEN {r.asset : r \in {q \in rows :
                                           q.block = RowOf(Squash(blocks), ids[i]).uid}}
                  ELSE At(FirstIn(ids, i))

RedeliverBlocks(ids, us, ts) ==
  LET bs == [i \in DOMAIN ids |->
               [id |-> ids[i], height |-> HeightIn(ids, i), key |-> TRUE]]
  IN  /\ Redelivery
      /\ \E i \in DOMAIN ids : \/ ids[i] \in StoredIds(Squash(blocks))
                               \/ FirstIn(ids, i) # i
      /\ SameTouches(us, ids, Squashed(assets))
      /\ SameTouches(ts, ids, Squashed(tickers))
      /\ Appends(bs, us, ts, Squash(blocks), Squashed(assets), Squashed(tickers))
      /\ cursor' = cursor + Cardinality(NewBefore(ids, Len(ids) + 1))

(* UpdatesItem::Microblock: the node extends its liquid tip block. *)
HandleMicroblock(id, us, ts) ==
  /\ blocks # {}
  /\ id \notin StoredIds(blocks)
  /\ CurrentHeight(blocks) = cursor - 1
  /\ Appends(<<[id |-> id, height |-> cursor - 1, key |-> FALSE]>>,
             us, ts, blocks, assets, tickers)
  /\ UNCHANGED cursor

(* The same item again, while its row is there: the insert skips it and    *)
(* its updates are applied once more, to the block of the row.             *)
RedeliverMicroblock(id, us, ts) ==
  /\ Redelivery
  /\ \E m \in Micros(blocks) :
       /\ m.id = id
       /\ {us[i].asset : i \in DOMAIN us} = {r.asset : r \in {q \in assets : q.block = m.uid}}
       /\ {ts[i].asset : i \in DOMAIN ts} = {r.asset : r \in {q \in tickers : q.block = m.uid}}
       /\ Appends(<<[id |-> id, height |-> m.height, key |-> FALSE]>>,
                  us, ts, blocks, assets, tickers)
  /\ UNCHANGED cursor

(* rollback() to rows of blocks_microblocks in turn, in one transaction.   *)
(* Deleting rows cascades to asset_origins, and deleting blocks to         *)
(* dcc_data.  Each reopening has to keep the primary keys of the tables,   *)
(* (superseded_by, asset_id): one that does not aborts the transaction,    *)
(* which then leaves everything as it was, and the caller tries again.     *)
Keyed(rows) ==
  \A r, s \in rows : r.asset = s.asset /\ r.sup = s.sup => r = s

Reopens(rows, targets) ==
  \A u \in targets : Keyed(RollBackThrough(rows, {v \in targets : v >= u}))

RollBackKeepingDcc(rs) ==   \* mutant: dcc_data without the cascade
  /\ Reopens(assets, Uids(rs)) /\ Reopens(tickers, Uids(rs))
  /\ assets' = RollBackThrough(assets, Uids(rs))
  /\ tickers' = RollBackThrough(tickers, Uids(rs))
  /\ blocks' = CutAbove(blocks, LowestRow(rs).uid)
  /\ origins' = {o \in origins : \E r \in assets' : r.uid = o.first}
  /\ cursor' = LowestRow(rs).height + 1
  /\ UNCHANGED <<dcc, blockSeq, assetSeq, tickerSeq>>

RollBackTo(rs) ==
  /\ Reopens(assets, Uids(rs)) /\ Reopens(tickers, Uids(rs))
  /\ assets' = RollBackThrough(assets, Uids(rs))
  /\ tickers' = RollBackThrough(tickers, Uids(rs))
  /\ blocks' = CutAbove(blocks, LowestRow(rs).uid)
  /\ origins' = {o \in origins : \E r \in assets' : r.uid = o.first}
  /\ dcc' = {d \in dcc : d.block \in Uids(blocks')}
  /\ cursor' = LowestRow(rs).height + 1
  /\ UNCHANGED <<blockSeq, assetSeq, tickerSeq>>

(* UpdatesItem::Rollback *)
HandleRollback(id) ==
  /\ id \in StoredIds(blocks)
  /\ RollBackTo({RowOf(blocks, id)})

(* start(): roll back Depth heights and subscribe from there.  An index    *)
(* that is not that high finds no row and subscribes from StartingHeight:  *)
(* a stream that then repeats what is stored (RedeliverBlocks) before it   *)
(* comes to the cursor.                                                    *)
Resume ==
  IF ResumeRows(blocks, Depth, Step) = {}
    THEN /\ blocks = {} \/ Redelivery
         /\ UNCHANGED vars
    ELSE RollBackTo(ResumeRows(blocks, Depth, Step))

IdBatches == UNION {[1..n -> Ids] : n \in 1..MaxBatch}

Next ==
  \/ \E ids \in IdBatches :
       \E us \in Touches(ids, MaxUps), ts \in Touches(ids, MaxTickerUps) :
          \/ HandleBlocks(ids, us, ts)
          \/ RedeliverBlocks(ids, us, ts)
  \/ \E id \in Ids :
       \/ \E us \in Touches(<<id>>, MaxUps), ts \in Touches(<<id>>, MaxTickerUps) :
             HandleMicroblock(id, us, ts) \/ RedeliverMicroblock(id, us, ts)
       \/ HandleRollback(id)
  \/ Resume

Spec == Init /\ [][Next]_vars

-----------------------------------------------------------------------------
(* The block rows are one chain: one key block per height, in uid order,   *)
(* microblocks only on top of the last, and the next new block goes above  *)
(* all of them (a repeated block that is taken for a new one, or a         *)
(* rollback that leaves a row of the abandoned branch, breaks it).         *)
OneChain ==
  /\ InChainOrder(blocks)
  /\ \A b \in blocks : b.uid < blockSeq /\ b.height < cursor

(* The versions of every asset and ticker chain up across any mix of       *)
(* batches, squashes and rollbacks: each row ends where its successor      *)
(* begins and the last is current.  Close, reopen and the uid sequences    *)
(* have to agree for it.                                                   *)
VersionChain == Chained(assets) /\ Chained(tickers)

(* Rows above a block are exactly the newest versions, which is what lets  *)
(* a rollback find them by block_uid: squashing and uid order agree.       *)
RowsInBlockOrder == InBlockOrder(assets) /\ InBlockOrder(tickers)

(* The foreign keys that the code keeps by its order of statements: no row *)
(* points at a block a squash or a rollback removed.                       *)
References ==
  /\ \A r \in assets \cup tickers : r.block \in Uids(blocks)
  /\ \A d \in dcc : d.block \in Uids(blocks)

(* asset_origins names the first version that still exists of exactly the  *)
(* assets that exist, after rollbacks below an issue and re-issues too.    *)
OriginIsFirst ==
  /\ {o.asset : o \in origins} = {r.asset : r \in assets}
  /\ \A o \in origins :
       o.first = Min({r.uid : r \in {s \in assets : s.asset = o.asset}})

(* dcc_data has exactly one row per minting height of the stored chain,    *)
(* and it points at the key block of that height, never at a block of an   *)
(* abandoned branch (migration 2026-10-19-000002 was written because rows  *)
(* were lost and never removed).                                           *)
DccFollowsChain ==
  ~AssetsOnly =>
    dcc = {[height |-> k.height, block |-> k.uid] :
             k \in {b \in Keys(blocks) : b.height \in Mints}}

(* Any rollback the node may ask for next keeps the primary keys: the      *)
(* transaction that handles it cannot abort.                               *)
RollbackApplies ==
  \A b \in blocks : /\ Keyed(RollBack(assets, b.uid))
                    /\ Keyed(RollBack(tickers, b.uid))
-----------------------------------------------------------------------------
(* The index implements SnapshotLedger.  The view of a table as of a block *)
(* is the newest version of each asset that belongs to it or an older      *)
(* block; the view readers see is the rows with superseded_by = MAX_UID.   *)
NoVersion == 0

Newest(rows, asset) ==
  Max({r.uid : r \in {s \in rows : s.asset = asset}} \cup {NoVersion})

AsOf(rows, uid) == [a \in Assets |-> Newest(rows \ Above(rows, uid), a)]

Taken ==
  [u \in Uids(blocks) |->
     [key  |-> \E b \in Keys(blocks) : b.uid = u,
      view |-> [assets |-> AsOf(assets, u), tickers |-> AsOf(tickers, u)]]]

CurrentView ==
  [assets  |-> [a \in Assets |-> Newest(Current(assets), a)],
   tickers |-> [a \in Assets |-> Newest(Current(tickers), a)]]

NoVersions == [a \in Assets |-> NoVersion]

Ledger == INSTANCE SnapshotLedger WITH
            EmptyView <- [assets |-> NoVersions, tickers |-> NoVersions],
            taken <- Taken, current <- CurrentView

(* Every step of the index is a step of the ledger: whatever the batches,  *)
(* squashes, rollbacks and resumes so far, rolling back to a block makes   *)
(* current exactly the versions that were current when it was the last.    *)
RollbackRestoresView == Ledger!Spec
=============================================================================
