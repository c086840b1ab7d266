----------------------------- MODULE BlockTable -----------------------------
(***************************************************************************)
(* The row algebra of blocks_microblocks.  A row is [uid, id, height, key]:*)
(* key blocks carry a time_stamp, microblocks do not (time_stamp NULL),    *)
(* and a microblock has the height of the key block it extends.            *)
(***************************************************************************)
EXTENDS Integers, Sequences, FiniteSetsExt

BlockRows(Ids) == [uid : Nat, id : Ids, height : Nat, key : BOOLEAN]

Uids(blocks) == {b.uid : b \in blocks}
StoredIds(blocks) == {b.id : b \in blocks}
Heights(blocks) == {b.height : b \in blocks}
Keys(blocks) == {b \in blocks : b.key}
Micros(blocks) == {b \in blocks : ~b.key}

(* get_current_height: 0 for an empty index. *)
CurrentHeight(blocks) == Max(Heights(blocks) \cup {0})

(* get_key_block_uid, and the row get_total_block_id reads its id from. *)
KeyUid(blocks) == Max(Uids(Keys(blocks)))
LastMicro(blocks) ==
  CHOOSE m \in Micros(blocks) : \A n \in Micros(blocks) : n.uid <= m.uid

(* get_block_uid_height. *)
RowOf(blocks, id) == CHOOSE b \in blocks : b.id = id

-----------------------------------------------------------------------------
(* insert_blocks_or_microblocks: one row per id that is neither stored nor *)
(* earlier in the batch; uids come from an identity column, so they grow   *)
(* along the batch (gaps do not matter and are not modelled).  The uid of  *)
(* an append is read back by id, for a repeated id the stored row's.       *)
NewInTable(blocks, bs, i) == bs[i].id \notin StoredIds(blocks)   \* mutant: no dedup in the batch

IsNew(blocks, bs, i) ==
  /\ bs[i].id \notin StoredIds(blocks)
  /\ \A j \in DOMAIN bs : j < i => bs[j].id # bs[i].id

Upsert(blocks, bs, seq) ==
  blocks \cup {[uid |-> seq + i - 1, id |-> bs[i].id,
                height |-> bs[i].height, key |-> bs[i].key]
                 : i \in {k \in DOMAIN bs : IsNew(blocks, bs, k)}}

(* squash_microblocks, the block rows: the microblocks disappear and the   *)
(* last key block takes the id of the last one (the block's total id).     *)
SquashKeepingMicros(blocks) ==   \* mutant: no delete_microblocks
  IF Micros(blocks) = {} THEN blocks
  ELSE {IF b.uid = KeyUid(blocks)
          THEN [b EXCEPT !.id = LastMicro(blocks).id]
          ELSE b : b \in blocks}

Squash(blocks) ==
  IF Micros(blocks) = {} THEN blocks
  ELSE {IF b.uid = KeyUid(blocks)
          THEN [b EXCEPT !.id = LastMicro(blocks).id]
          ELSE b : b \in Keys(blocks)}

(* rollback_blocks_microblocks. *)
CutAboveLoose(blocks, uid) == {b \in blocks : b.uid <= uid + 1}   \* mutant: off by one

CutAbove(blocks, uid) == {b \in blocks : b.uid <= uid}

-----------------------------------------------------------------------------
(* The heights get_blocks_rollback_to looks for: every step below the      *)
(* current height down to depth, and current - depth itself.  Subtraction  *)
(* saturates at 0.                                                         *)
SatSub(a, b) == IF a < b THEN 0 ELSE a - b

ResumeHeights(blocks, depth, step) ==
  LET current == CurrentHeight(blocks)
      by      == IF step < depth THEN step ELSE depth
      final   == SatSub(current, depth)
      start   == SatSub(current, by)
  IN  {final} \cup {h \in (final + 1)..start : (start - h) % by = 0}

(* The rows it finds, which start() rolls back to in turn, the highest uid *)
(* first, and the one it ends at and resumes from.                         *)
ResumeRows(blocks, depth, step) ==
  {b \in blocks : b.height \in ResumeHeights(blocks, depth, step)}

LowestRow(rows) == CHOOSE b \in rows : \A c \in rows : b.uid <= c.uid

ResumeRow(blocks, depth, step) == LowestRow(ResumeRows(blocks, depth, step))

-----------------------------------------------------------------------------
(* Rows are in chain order: heights grow with the uid over the key blocks, *)
(* and the microblocks extend the last key block.                          *)
InChainOrder(blocks) ==
  /\ \A b, c \in blocks : b.uid = c.uid \/ b.id = c.id => b = c
  /\ \A b, c \in Keys(blocks) : b.uid < c.uid => b.height < c.height
  /\ \A m \in Micros(blocks) :
       /\ \A k \in Keys(blocks) : k.uid < m.uid /\ k.height <= m.height
       /\ \E k \in Keys(blocks) : k.height = m.height
=============================================================================
