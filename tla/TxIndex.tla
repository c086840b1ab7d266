------------------------------ MODULE TxIndex ------------------------------
(***************************************************************************)
(* The transaction tables of the index.  A transaction gets its uid from   *)
(* UID_GENERATOR, a static of the process that lives through rollbacks and *)
(* in-process resubscribes and is zero again in a new process, while the   *)
(* rows outlive the process.  Readers page and sort by uid, so uids have   *)
(* to follow the chain.                                                    *)
(*                                                                         *)
(* A row of txs is [uid, block, height] with its place in the chain, the   *)
(* nth transaction of the block with uid born, and the process that wrote  *)
(* it: the table has neither, they are there for the properties.  The      *)
(* environment is ChainIndex's.                                            *)
(***************************************************************************)
EXTENDS BlockTable

CONSTANTS
  Ids,             \* block and microblock ids
  Multiplier,      \* uids per height (100_000 in mod.rs)
  StartingHeight,  \* config: first height of an empty index
  Depth,           \* config: start_rollback_depth
  Step,            \* config: rollback_step
  MaxBatch,        \* bound: key blocks in an item
  MaxTxs,          \* bound: transactions in a block
  MaxBlockUid      \* bound: block uids

ASSUME TxAssumption ==
  /\ {Multiplier, StartingHeight, Depth, Step, MaxBatch} \subseteq Nat \ {0}
  /\ {MaxTxs, MaxBlockUid} \subseteq Nat

VARIABLES
  blocks, blockSeq,   \* blocks_microblocks and its identity column
  txs,                \* the rows of txs
  gen,                \* UID_GENERATOR: [height, last]
  since,              \* first block uid this subscription can deliver
  cursor,             \* height of the next key block the stream delivers
  process             \* history: the process, by the first block uid it could give

vars == <<blocks, blockSeq, txs, gen, since, cursor, process>>

TxRows ==
  [uid : Nat, block : Nat, height : Nat, born : Nat, nth : Nat, by : Nat]

TypeOK ==
  /\ blocks \subseteq BlockRows(Ids)
  /\ txs \subseteq TxRows
  /\ gen \in [height : Nat, last : Nat]
  /\ {blockSeq, since, cursor, process} \subseteq Nat

NewGenerator == [height |-> 0, last |-> 0]

Init ==
  /\ blocks = {} /\ blockSeq = 1
  /\ txs = {}
  /\ gen = NewGenerator
  /\ since = 1
  /\ cursor = StartingHeight
  /\ process = 1

-----------------------------------------------------------------------------
(* TxUidGenerator: maybe_update_height ignores lower heights. *)
AtHeightAlways(g, height) == [height |-> height, last |-> 0]   \* mutant: no guard

AtHeightMinusOne(g, height) ==   \* mutant: a counter that is incremented first
  IF g.height < height THEN [height |-> height, last |-> -1] ELSE g

AtHeight(g, height) ==
  IF g.height < height THEN [height |-> height, last |-> 0] ELSE g

NextUid(g) == g.height * Multiplier + g.last

(* handle_txs over the appends of a batch, whose heights never fall.       *)
(* loads[i][k] says whether the k-th transaction of the i-th append        *)
(* converts; one that does not is skipped and still takes a uid.           *)
Places(loads) == UNION {{i} \X DOMAIN loads[i] : i \in DOMAIN loads}

Precedes(p, q) == p[1] < q[1] \/ (p[1] = q[1] /\ p[2] < q[2])

\* The generator when the i-th append begins its height, and what it
\* numbers at that height.
Begun(bs, i) == AtHeight(gen, bs[i].height)
AtSameHeight(bs, loads, i) ==
  {p \in Places(loads) : Begun(bs, p[1]).height = Begun(bs, i).height}

UidOf(bs, loads, p) ==
  NextUid(Begun(bs, p[1]))
    + Cardinality({q \in AtSameHeight(bs, loads, p[1]) : Precedes(q, p)})

Ended(bs, loads, i) ==
  [Begun(bs, i) EXCEPT !.last = @ + Cardinality(AtSameHeight(bs, loads, i))]

NewTxs(bs, loads, rows) ==
  {LET block == RowOf(rows, bs[p[1]].id).uid
   IN  [uid |-> UidOf(bs, loads, p), block |-> block, height |-> bs[p[1]].height,
        born |-> block, nth |-> p[2], by |-> process]
     : p \in {q \in Places(loads) : loads[q[1]][q[2]]}}

(* The code counts on heights with at most Multiplier transactions.        *)
Appends(bs, loads, blocks0, txs0) ==
  /\ blockSeq + Len(bs) <= MaxBlockUid + 1
  /\ \A i \in DOMAIN bs : Ended(bs, loads, i).last <= Multiplier
  /\ blocks' = Upsert(blocks0, bs, blockSeq)
  /\ blockSeq' = blockSeq + Len(bs)
  /\ txs' = txs0 \cup NewTxs(bs, loads, blocks')
  /\ gen' = Ended(bs, loads, Len(bs))

(* update_transactions_references *)
NotSquashed(rows) == rows   \* mutant: squashing forgets the table

Squashed(rows) ==
  IF Micros(blocks) = {} THEN rows
  ELSE {IF t.block > KeyUid(blocks) THEN [t EXCEPT !.block = KeyUid(blocks)]
                                     ELSE t : t \in rows}

-----------------------------------------------------------------------------
HandleBlocks(ids, loads) ==
  LET bs == [i \in DOMAIN ids |->
               [id |-> ids[i], height |-> cursor + i - 1, key |-> TRUE]]
  IN  /\ \A i \in DOMAIN ids : ids[i] \notin StoredIds(blocks)
      /\ \A i, j \in DOMAIN ids : ids[i] = ids[j] => i = j
      /\ Appends(bs, loads, Squash(blocks), Squashed(txs))
      /\ cursor' = cursor + Len(ids)
      /\ UNCHANGED <<since, process>>

(* A microblock extends a key block that this subscription delivered.      *)
HandleMicroblock(id, load) ==
  /\ Keys(blocks) # {} /\ KeyUid(blocks) >= since
  /\ id \notin StoredIds(blocks)
  /\ Appends(<<[id |-> id, height |-> cursor - 1, key |-> FALSE]>>, <<load>>,
             blocks, txs)
  /\ UNCHANGED <<since, cursor, process>>

RollBackAtBlock(row) ==   \* mutant: rollback_transactions with >= for >
  /\ txs' = {t \in txs : t.block < row.uid}
  /\ blocks' = CutAbove(blocks, row.uid)
  /\ cursor' = row.height + 1
  /\ UNCHANGED blockSeq

(* rollback: rollback_transactions, then the block rows. *)
RollBackTo(row) ==
  /\ txs' = {t \in txs : t.block <= row.uid}
  /\ blocks' = CutAbove(blocks, row.uid)
  /\ cursor' = row.height + 1
  /\ UNCHANGED blockSeq

HandleRollback(id) ==
  /\ id \in StoredIds(blocks)
  /\ RollBackTo(RowOf(blocks, id))
  /\ UNCHANGED <<gen, since, process>>

(* The rollback start() makes.  An index too short to have a row to roll   *)
(* back to gets its own blocks again: that is in ChainIndex only.          *)
RollBackToResume ==
  /\ IF ResumeRows(blocks, Depth, Step) = {}
       THEN /\ blocks = {}
            /\ cursor' = StartingHeight
            /\ UNCHANGED <<blocks, blockSeq, txs>>
       ELSE RollBackTo(ResumeRow(blocks, Depth, Step))
  /\ since' = blockSeq

(* run_with_resubscribe calls start() again after a stream error ... *)
Resubscribe ==
  /\ RollBackToResume
  /\ UNCHANGED <<gen, process>>

(* ... and any other end of the process makes its supervisor start a new   *)
(* one.                                                                    *)
Restart ==
  /\ RollBackToResume
  /\ gen' = NewGenerator
  /\ process' = blockSeq

Loads == UNION {[1..n -> BOOLEAN] : n \in 0..MaxTxs}

Next ==
  \/ \E n \in 1..MaxBatch :
       \E ids \in [1..n -> Ids], loads \in [1..n -> Loads] : HandleBlocks(ids, loads)
  \/ \E id \in Ids, load \in Loads : HandleMicroblock(id, load)
  \/ \E id \in Ids : HandleRollback(id)
  \/ Resubscribe
  \/ Restart

Spec == Init /\ [][Next]_vars

-----------------------------------------------------------------------------
Before(t, u) == t.born < u.born \/ (t.born = u.born /\ t.nth < u.nth)

(* A process whose generator stands above the height of a block, since the *)
(* node abandoned higher blocks or the process resubscribed, numbers the   *)
(* transactions of the block beyond that height.                           *)
NumberedAtHeight(t) == t.uid < (t.height + 1) * Multiplier

(* Sorting by uid is sorting by chain order and by block row, so that      *)
(* cutting at a block cuts a suffix, and no uid is taken twice: a repeated *)
(* uid of one type breaks the primary key of its table and the consumer    *)
(* dies on it.  That holds for what one process wrote, whatever was rolled *)
(* back and resubscribed meanwhile, and across processes when the older    *)
(* one numbered the transaction at its own height.                         *)
UidsFollowChain ==
  \A t, u \in txs :
    Before(t, u) =>
      /\ t.block <= u.block
      /\ t.by = u.by \/ NumberedAtHeight(t) => t.uid < u.uid

(* Every transaction belongs to a stored row of its own height, through    *)
(* squashes that re-point it and rollbacks that delete rows: the rows of a *)
(* removed block never stay behind.                                        *)
TxsOfStoredBlocks ==
  \A t \in txs : \E b \in blocks : b.uid = t.block /\ b.height = t.height

(* A transaction disappears only with its block: a step that drops one     *)
(* leaves no row as new as the row the transaction belonged to, so neither *)
(* squashing nor appending nor a rollback to its own block loses it.       *)
LostOnlyWithBlock ==
  [][\A t \in txs :
       \/ \E u \in txs' : u.born = t.born /\ u.nth = t.nth
       \/ \A b \in blocks' : b.uid < t.block]_vars
=============================================================================
