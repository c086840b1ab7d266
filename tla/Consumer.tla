------------------------------ MODULE Consumer ------------------------------
(***************************************************************************)
(* The consumer process of blockchain-postgres-sync and the node it reads. *)
(* start() verifies the ancestry of the index, rolls it back and           *)
(* subscribes; a task batches the node's updates into a channel of one;    *)
(* the loop commits a batch, stores the synced height and publishes to     *)
(* Redis.  A lost stream runs start() again in the same process, a crash   *)
(* in a fresh one.  Only the block rows of the index are here; what an     *)
(* item does to the other tables is in ChainIndex and TxIndex.             *)
(*                                                                         *)
(* The node is external.  A block id is the key block and the number of    *)
(* its microblocks that are applied: the id of a liquid block changes with *)
(* every microblock, and the next key block refers to the last one.        *)
(***************************************************************************)
EXTENDS BlockTable, SequencesExt

CONSTANTS
  StartingHeight,     \* config
  Depth, Step,        \* config: start_rollback_depth, rollback_step
  UpdatesPerRequest,  \* config: longest batch of key blocks
  Reorgs,             \* how many blocks a reorganisation may replace
  Silent,             \* key blocks whose transactions write no state entry
  RedisFails,         \* may a publication be lost?
  MaxForged,          \* bound: key blocks the node ever forges
  MaxMicros,          \* bound: microblocks per key block
  MaxLost,            \* bound: streams lost or refused
  MaxCrashes          \* bound: crashes of the process

ASSUME ConsumerAssumption ==
  /\ {StartingHeight, Depth, Step, UpdatesPerRequest, MaxForged} \subseteq Nat \ {0}
  /\ {MaxMicros, MaxLost, MaxCrashes} \subseteq Nat
  /\ Reorgs \subseteq Nat /\ Silent \subseteq Nat
  /\ RedisFails \in BOOLEAN

BlockIds == [block : 0..MaxForged, micros : 0..MaxMicros]
Nothing == [block |-> 0, micros |-> 0]

VARIABLES
  node, parents,     \* the node's chain of ids, and the parent of every key block
  blocks, blockSeq,  \* blocks_microblocks and its identity column
  redis,             \* the value of a state key: the id whose transactions wrote it
  phase, from,       \* where start() is, and the height it subscribes from
  open, queue,       \* the gRPC stream: alive, and the updates in it
  pending, channel,  \* the batch in the making, and the batch handed over
  unpublished,       \* [height, ids] of a batch that is committed only
  synced,            \* last_synced_height
  lost, crashes      \* counters for the bounds

nodeVars == <<node, parents>>
database == <<blocks, blockSeq>>
stream == <<open, queue, pending, channel>>
counters == <<lost, crashes>>
vars == <<nodeVars, database, redis, phase, from, stream, unpublished,
          synced, counters>>

Kinds == {"block", "micro", "rollback"}
StreamUpdates == [kind : Kinds, id : BlockIds, height : Nat]
Phases == {"down", "verified", "resumed", "streaming", "committed", "failed"}
Update(kind, id, height) == [kind |-> kind, id |-> id, height |-> height]

TypeOK ==
  /\ node \in Seq(BlockIds) /\ parents \in Seq(BlockIds)
  /\ blocks \subseteq BlockRows(BlockIds)
  /\ redis \in BlockIds
  /\ phase \in Phases
  /\ open \in BOOLEAN
  /\ queue \in Seq(StreamUpdates) /\ pending \in Seq(StreamUpdates)
  /\ Len(pending) < UpdatesPerRequest
  /\ channel \in Seq(Seq(StreamUpdates)) /\ Len(channel) <= 1
  /\ unpublished \in [height : Nat, ids : UNION {[S -> BlockIds] : S \in SUBSET (1..UpdatesPerRequest)}]
  /\ {blockSeq, from, synced, lost, crashes} \subseteq Nat

Unsent == [height |-> 0, ids |-> <<>>]

Init ==
  /\ node = <<[block |-> 1, micros |-> 0]>> /\ parents = <<Nothing>>
  /\ blocks = {} /\ blockSeq = 1
  /\ redis = Nothing
  /\ phase = "down" /\ from = StartingHeight
  /\ open = FALSE /\ queue = <<>> /\ pending = <<>> /\ channel = <<>>
  /\ unpublished = Unsent
  /\ synced = 0
  /\ lost = 0 /\ crashes = 0

-----------------------------------------------------------------------------
(* The node.  It grows by a key block or a microblock, or a key block      *)
(* arrives that refers to an earlier block or microblock: then subscribers *)
(* see a rollback to what it refers to, and the block.                     *)
Height == Len(node)
Tip == node[Height]

Send(updates) ==
  /\ queue' = IF open THEN queue \o updates ELSE queue
  /\ UNCHANGED <<database, redis, phase, from, open, pending, channel,
                 unpublished, synced, counters>>

Forged(parent) ==
  /\ Len(parents) < MaxForged
  /\ parents' = Append(parents, parent)

NewBlock == [block |-> Len(parents) + 1, micros |-> 0]

Forge ==
  /\ Forged(Tip)
  /\ node' = Append(node, NewBlock)
  /\ Send(<<Update("block", NewBlock, Height + 1)>>)

ForgeMicro ==
  LET id == [Tip EXCEPT !.micros = @ + 1]
  IN  /\ Height > 1 /\ Tip.micros < MaxMicros
      /\ node' = [node EXCEPT ![Height] = id]
      /\ UNCHANGED parents
      /\ Send(<<Update("micro", id, Height)>>)

(* Replace n blocks, or with n = 0 all microblocks after the first m. *)
Reorg(n, m) ==
  LET h    == Height - n
      base == [node[h] EXCEPT !.micros = m]
  IN  /\ h > 0
      /\ IF n = 0 THEN m < Tip.micros ELSE m = node[h].micros
      /\ Forged(base)
      /\ node' = Append([SubSeq(node, 1, h) EXCEPT ![h] = base], NewBlock)
      /\ Send(<<Update("rollback", base, h), Update("block", NewBlock, h + 1)>>)

NodeSteps ==
  \/ Forge
  \/ ForgeMicro
  \/ \E n \in Reorgs, m \in 0..MaxMicros : n < Height /\ Reorg(n, m)

(* What a new subscriber is sent: solid blocks whole, the liquid block as  *)
(* its key block and its microblocks.                                      *)
History(height) ==
  LET liquid == [Tip EXCEPT !.micros = 0]
  IN  [i \in 1..(Height - height) |->
         Update("block", node[height + i - 1], height + i - 1)]
      \o (IF height > Height THEN <<>>
          ELSE <<Update("block", liquid, Height)>>
               \o [i \in 1..Tip.micros |->
                     Update("micro", [liquid EXCEPT !.micros = i], Height)])

-----------------------------------------------------------------------------
(* ancestry::verify.  A node that is not at a checked height yet answers   *)
(* with a stream error, and start() is tried again.                        *)
HeightsWithTip(current) ==   \* mutant: the liquid tip is checked too
  IF current = 0 THEN {} ELSE {1, current}

HeightsToCheck(current) ==
  IF current = 0 THEN {} ELSE {1, SatSub(current, 2) + 1}

KeyRowsAt(height) == {b \in Keys(blocks) : b.height = height}

StoredAt(height) ==
  CHOOSE b \in KeyRowsAt(height) : \A c \in KeyRowsAt(height) : c.uid <= b.uid

Verify ==
  LET heights == {h \in HeightsToCheck(CurrentHeight(blocks)) : KeyRowsAt(h) # {}}
  IN  /\ phase = "down"
      /\ \A h \in heights : h <= Height
      /\ phase' = IF \A h \in heights : StoredAt(h).id = node[h]
                    THEN "verified" ELSE "failed"
      /\ UNCHANGED <<nodeVars, database, redis, from, stream, unpublished,
                     synced, counters>>

(* The rollback of start(), a transaction of its own. *)
Resume ==
  /\ phase = "verified"
  /\ IF ResumeRows(blocks, Depth, Step) = {}
       THEN /\ from' = StartingHeight
            /\ UNCHANGED blocks
       ELSE LET row == ResumeRow(blocks, Depth, Step)
            IN  /\ from' = row.height + 1
                /\ blocks' = CutAbove(blocks, row.uid)
  /\ phase' = "resumed"
  /\ UNCHANGED <<nodeVars, blockSeq, redis, stream, unpublished, synced, counters>>

Subscribe ==
  /\ phase = "resumed"
  /\ from <= Height + 1
  /\ phase' = "streaming"
  /\ open' = TRUE /\ queue' = History(from)
  /\ UNCHANGED <<nodeVars, database, redis, from, pending, channel, unpublished,
                 synced, counters>>

SubscribeFails ==
  /\ phase = "resumed"
  /\ lost < MaxLost /\ lost' = lost + 1
  /\ phase' = "down"
  /\ UNCHANGED <<nodeVars, database, redis, from, stream, unpublished, synced, crashes>>

-----------------------------------------------------------------------------
(* UpdatesSourceImpl::run: a batch ends with a microblock or a rollback,   *)
(* with its last permitted block, or with a block that arrives when the    *)
(* wait time has elapsed (flush).  Sending waits for room in the channel.  *)
ReceiveUnbounded(flush) ==   \* mutant: no longest batch
  LET update == Head(queue)
      batch  == Append(pending, update)
  IN  /\ phase \in {"streaming", "committed"} /\ queue # <<>>
      /\ update.kind # "block" => flush
      /\ flush => channel = <<>>
      /\ queue' = Tail(queue)
      /\ pending' = IF flush THEN <<>> ELSE batch
      /\ channel' = IF flush THEN <<batch>> ELSE channel
      /\ UNCHANGED <<nodeVars, database, redis, phase, from, open, unpublished,
                     synced, counters>>

Receive(flush) ==
  LET update == Head(queue)
      batch  == Append(pending, update)
  IN  /\ phase \in {"streaming", "committed"} /\ queue # <<>>
      /\ update.kind # "block" \/ Len(batch) >= UpdatesPerRequest => flush
      /\ flush => channel = <<>>
      /\ queue' = Tail(queue)
      /\ pending' = IF flush THEN <<>> ELSE batch
      /\ channel' = IF flush THEN <<batch>> ELSE channel
      /\ UNCHANGED <<nodeVars, database, redis, phase, from, open, unpublished,
                     synced, counters>>

(* The stream breaks: the batch in the making is gone, the one in the      *)
(* channel is not.                                                         *)
StreamLost ==
  /\ open /\ lost < MaxLost
  /\ open' = FALSE /\ queue' = <<>> /\ pending' = <<>>
  /\ lost' = lost + 1
  /\ UNCHANGED <<nodeVars, database, redis, phase, from, channel, unpublished,
                 synced, crashes>>

(* handle_updates on the block rows.  A batch is key blocks and at most one *)
(* microblock or rollback after them, so at most two items: the blocks,    *)
(* before which the stored microblocks are squashed, and the last update.  *)
BlockMicroblock(update) ==
  [id |-> update.id, height |-> update.height, key |-> update.kind = "block"]

LeadingBlocks(batch) ==
  IF Last(batch).kind = "block" THEN Len(batch) ELSE Len(batch) - 1

AppendBlocks(batch) ==
  LET n == LeadingBlocks(batch)
  IN  IF n = 0 THEN blocks
      ELSE Upsert(Squash(blocks), [i \in 1..n |-> BlockMicroblock(batch[i])], blockSeq)

(* get_block_uid_height finds the row, or the transaction fails. *)
Known(rows, update) == update.kind = "rollback" => update.id \in StoredIds(rows)

HandleLast(rows, update, seq) ==
  CASE update.kind = "block" -> rows
    [] update.kind = "micro" -> Upsert(rows, <<BlockMicroblock(update)>>, seq)
    [] update.kind = "rollback" -> CutAbove(rows, RowOf(rows, update.id).uid)

(* The state entries a batch wrote, by position: rollbacks publish nothing, *)
(* and take nothing back.                                                  *)
Writes(batch) ==
  [i \in {j \in DOMAIN batch : batch[j].kind # "rollback" /\ batch[j].id.block \notin Silent}
     |-> batch[i].id]

HandleBatch ==
  LET batch == channel[1]
      rows  == AppendBlocks(batch)
  IN  /\ phase = "streaming" /\ channel # <<>>
      /\ channel' = <<>>
      /\ IF Known(rows, Last(batch))
           THEN /\ blocks' = HandleLast(rows, Last(batch), blockSeq + LeadingBlocks(batch))
                /\ blockSeq' = blockSeq + Len(batch)
                /\ unpublished' = [height |-> Last(batch).height, ids |-> Writes(batch)]
                /\ phase' = "committed"
           ELSE /\ phase' = "failed"
                /\ UNCHANGED <<database, unpublished>>
      /\ UNCHANGED <<nodeVars, redis, from, open, queue, pending, synced, counters>>

(* After the commit: the metric, then Redis.  A value that is not          *)
(* published is logged and forgotten.                                      *)
FirstWritten(ids) == ids[Min(DOMAIN ids)]   \* mutant: events out of order

LastWritten(ids) == ids[Max(DOMAIN ids)]

AfterCommit ==
  /\ phase = "committed"
  /\ synced' = unpublished.height
  /\ \/ redis' = IF DOMAIN unpublished.ids = {} THEN redis ELSE LastWritten(unpublished.ids)
     \/ RedisFails /\ redis' = redis
  /\ unpublished' = Unsent
  /\ phase' = "streaming"
  /\ UNCHANGED <<nodeVars, database, from, stream, counters>>

(* rx.recv() returns None: StreamClosed, which run_with_resubscribe        *)
(* answers with another start().                                           *)
StreamClosedEnds ==   \* mutant: not a stream error
  /\ phase = "streaming" /\ ~open /\ channel = <<>>
  /\ phase' = "failed"
  /\ UNCHANGED <<nodeVars, database, redis, from, stream, unpublished, synced, counters>>

StreamClosed ==
  /\ phase = "streaming" /\ ~open /\ channel = <<>>
  /\ phase' = "down"
  /\ UNCHANGED <<nodeVars, database, redis, from, stream, unpublished, synced, counters>>

Crash ==
  /\ crashes < MaxCrashes /\ crashes' = crashes + 1
  /\ phase' = "down" /\ from' = StartingHeight
  /\ open' = FALSE /\ queue' = <<>> /\ pending' = <<>> /\ channel' = <<>>
  /\ unpublished' = Unsent
  /\ synced' = 0
  /\ UNCHANGED <<nodeVars, database, redis, lost>>

ProcessSteps ==
  \/ Verify
  \/ Resume
  \/ Subscribe
  \/ \E flush \in BOOLEAN : Receive(flush)
  \/ HandleBatch
  \/ AfterCommit
  \/ StreamClosed

Next ==
  \/ NodeSteps
  \/ ProcessSteps
  \/ SubscribeFails
  \/ StreamLost
  \/ Crash

Spec == Init /\ [][Next]_vars

(* The process runs on when it can; streams and the node do as they like.  *)
Fairness ==
  /\ WF_vars(Verify) /\ WF_vars(Resume) /\ WF_vars(Subscribe)
  /\ WF_vars(\E flush \in BOOLEAN : Receive(flush))
  /\ WF_vars(HandleBatch) /\ WF_vars(AfterCommit) /\ WF_vars(StreamClosed)

FairSpec == Spec /\ Fairness
-----------------------------------------------------------------------------
(* What is stored is a path of the node's block tree: every key block      *)
(* refers to the id the row below it carries, and the microblocks extend   *)
(* the last key block one by one.  Resuming on a chain that is not the     *)
(* stored one, a gap or a repeat in what is streamed, or a squash under    *)
(* the wrong id breaks it ("resuming silently mixes two chains",           *)
(* ancestry.rs).                                                           *)
StoredPath ==
  /\ \A b, c \in Keys(blocks) :
       /\ c.height = b.height + 1 => parents[c.id.block] = b.id
       /\ c.height = b.height => c = b
  /\ \A b \in Keys(blocks) :
       b.height = StartingHeight \/ \E c \in Keys(blocks) : c.height = b.height - 1
  /\ \A m \in Micros(blocks) :
       /\ m.id.block = RowOf(blocks, [m.id EXCEPT !.micros = @ - 1]).id.block
       /\ m.height = CurrentHeight(Keys(blocks))

(* A node that never replaces a solid block is never refused, and every    *)
(* rollback it sends names a stored row: nothing but a crash or an         *)
(* operator ends the process.                                              *)
NeverFails == phase # "failed"

Stored(id) ==
  \E b \in blocks : b.id.block = id.block /\ b.id.micros >= id.micros

(* What SET leaves in Redis for new subscribers (publisher.rs): with       *)
(* nothing under way and nothing lost in a crash, the value of the last    *)
(* writing block of the index, or one whose block was rolled back since    *)
(* ("rollbacks publish nothing", mod.rs), but never an older value of the  *)
(* stored chain.                                                           *)
Idle == /\ phase = "streaming" /\ open
        /\ queue = <<>> /\ pending = <<>> /\ channel = <<>>

LastWriter ==
  LET writers == {b \in blocks : b.id.block \notin Silent}
  IN  IF writers = {} THEN Nothing
      ELSE (CHOOSE b \in writers : \A c \in writers : c.uid <= b.uid).id

RedisIsNewest ==
  Idle /\ crashes = 0 => redis = LastWriter \/ (redis # Nothing /\ ~Stored(redis))

(* Whatever was lost, the index ends up with the node's chain once the     *)
(* node and the stream stay quiet, except for the key blocks at the end    *)
(* that the batch in the making holds back.                                *)
KeyIds(chain) == {chain[i].block : i \in DOMAIN chain}

CaughtUp ==
  /\ phase = "streaming" /\ queue = <<>> /\ channel = <<>>
  /\ KeyIds(node) = {b.id.block : b \in blocks} \cup {u.id.block : u \in Range(pending)}
  /\ pending = <<>> => \E b \in blocks : b.id = Tip

EventuallyCaughtUp == <>[]CaughtUp
=============================================================================
