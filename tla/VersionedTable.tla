--------------------------- MODULE VersionedTable ---------------------------
(***************************************************************************)
(* The row algebra of asset_updates and asset_tickers.  Both tables keep   *)
(* every version of a value per asset: a row is valid from its uid until   *)
(* superseded_by, and superseded_by = MAX_UID marks the current version.   *)
(* Nothing here is a state machine; ChainIndex applies these operators to  *)
(* its tables, and the proofs about them are in TableProofs.               *)
(*                                                                         *)
(* A row is [uid, asset, block, sup].  An update is [asset, block]: an     *)
(* asset touched by a block, with the block's uid.                         *)
(***************************************************************************)
EXTENDS Integers, Sequences, FiniteSetsExt

CONSTANT MaxUid   \* repo/pg.rs MAX_UID = i64::MAX - 1, above every uid

ASSUME MaxUidAssumption == MaxUid \in Nat

Rows(Assets) == [uid : Nat, asset : Assets, block : Nat, sup : Nat]

Current(rows) == {r \in rows : r.sup = MaxUid}

-----------------------------------------------------------------------------
(* What the i-th update of a batch is superseded by: the uid of the next   *)
(* update of the same asset in the batch, or MAX_UID.  With i = 0 it is    *)
(* the uid of the first update of the asset, if the batch has one.         *)
LaterOrSame(us, asset, i) == {j \in DOMAIN us : j >= i /\ us[j].asset = asset}   \* mutant

Later(us, asset, i) == {j \in DOMAIN us : j > i /\ us[j].asset = asset}

SupersededBy(us, asset, i, base) ==
  IF Later(us, asset, i) = {} THEN MaxUid
                              ELSE base + Min(Later(us, asset, i)) - 1

NewRows(us, base) ==
  {[uid |-> base + i - 1, asset |-> us[i].asset, block |-> us[i].block,
    sup |-> SupersededBy(us, us[i].asset, i, base)] : i \in DOMAIN us}

(* close_*_superseded_by: the current row of every touched asset ends at   *)
(* the asset's first uid in the batch.                                     *)
NothingClosed(rows, us, base) == rows   \* mutant: no close_*_superseded_by

CloseSuperseded(rows, us, base) ==
  {IF r.sup = MaxUid
     THEN [r EXCEPT !.sup = SupersededBy(us, r.asset, 0, base)]
     ELSE r : r \in rows}

(* handle_base_asset_info_updates and handle_asset_tickers_updates: the    *)
(* batch takes the uids base, base + 1, ...                                *)
Extend(rows, us, base) == CloseSuperseded(rows, us, base) \cup NewRows(us, base)

-----------------------------------------------------------------------------
(* rollback_assets and rollback_asset_tickers: delete the rows above the   *)
(* block, then make current every row that ended at the lowest deleted uid *)
(* of some asset.                                                          *)
Above(rows, block) == {r \in rows : r.block > block}

HighestUids(deleted) ==   \* mutant: max_by_key for min_by_key
  {r.uid : r \in {d \in deleted : \A e \in deleted : e.asset = d.asset => d.uid >= e.uid}}

LowestUids(deleted) ==
  {r.uid : r \in {d \in deleted : \A e \in deleted : e.asset = d.asset => d.uid <= e.uid}}

RollBack(rows, block) ==
  {IF r.sup \in LowestUids(Above(rows, block)) THEN [r EXCEPT !.sup = MaxUid]
                                               ELSE r
     : r \in rows \ Above(rows, block)}

(* rollback() over several blocks, the newest first: what the rollback to  *)
(* block u deletes is what those to newer blocks left above it, and a row  *)
(* reopened once stays current.  That this is one RollBack after the other *)
(* is a theorem (TableProofs!RollBackStepwise).                            *)
DeletedAt(rows, targets, u) ==
  {r \in rows : r.block > u /\ \A v \in targets : v > u => r.block <= v}

RollBackThrough(rows, targets) ==
  LET reopened == UNION {LowestUids(DeletedAt(rows, targets, u)) : u \in targets}
      kept     == {r \in rows : \A u \in targets : r.block <= u}
  IN  {IF r.sup \in reopened THEN [r EXCEPT !.sup = MaxUid] ELSE r : r \in kept}

(* update_*_block_references: squashing points the rows of the microblocks *)
(* at the key block.                                                       *)
Repoint(rows, block) ==
  {IF r.block > block THEN [r EXCEPT !.block = block] ELSE r : r \in rows}

-----------------------------------------------------------------------------
(* The versions of one asset form a chain: a row ends exactly where the    *)
(* next row of its asset begins, and the last one is current.              *)
Chained(rows) ==
  /\ \A r, s \in rows : r.uid = s.uid => r = s
  /\ \A r \in rows : r.uid < MaxUid
  /\ \A r \in rows : \/ r.sup = MaxUid
                     \/ \E s \in rows : /\ s.uid = r.sup
                                        /\ s.asset = r.asset
                                        /\ r.uid < s.uid
  /\ \A r, s \in rows : r.asset = s.asset /\ r.uid < s.uid => r.sup <= s.uid

(* Newer versions never belong to older blocks: what makes the rows above  *)
(* a block a suffix of every chain.                                        *)
InBlockOrder(rows) == \A r, s \in rows : r.uid < s.uid => r.block <= s.block
=============================================================================
