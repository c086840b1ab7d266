# DecentralChain: TLA+ models and proofs

This directory models the stateful and concurrent parts of the repository:

* the service that indexes the chain into PostgreSQL and publishes it to Redis
  (`apps/blockchain-postgres-sync`, *bps* below);
* the WebSocket gateway that serves what Redis holds (`apps/websocket-api`);
* the process that keeps the pairs table up to date (`apps/data-service`);
* the signing requests of web pages in the wallet extension
  (`apps/cubensis-connect`);
* the message bus between browser windows (`packages/sdk/browser-bus`);
* the arithmetic of the constant-product pool (`packages/sdk/amm`).

Everything else in the repository is inventoried below, with the reason why it
is not modelled or the place it has in the plan.

Contents

1. The system: components, state, interactions, what is hard
2. The modules
3. The runs, their bounds and what they show
4. The proofs
5. Disagreements between the code and its documentation
6. What is abstracted, and what is not modelled
7. Plan
8. Running it

---

## 1. The system

```
  node (external)                                   clients
    | gRPC stream: blocks, microblocks, rollbacks      ^
    v                                                  | WebSocket frames
  bps consumer --SQL--> PostgreSQL --SQL--> data-service --HTTP--> exchange,
    |                        ^                                     scanner
    |                        +--SQL-- pairs daemon
    +--SET/SADD/PUBLISH--> Redis --PUBSUB/GET--> websocket-api

  web page --port--> cubensis-connect background --sign, broadcast--> node
  window <--postMessage, browser-bus--> window
```

### Components, their state and operations

| component | state | operations | hard parts |
|---|---|---|---|
| **bps: chain index** (`consumer/mod.rs`, `repo/pg.rs`) | `blocks_microblocks`; `asset_updates` and `asset_tickers`, every version of a value with the uid that superseded it; `asset_origins`; `dcc_data` | append blocks (squash first), append a microblock, roll back, roll back on start | a rollback must undo any mix of batches and squashes exactly; foreign keys kept by statement order; duplicates |
| **bps: transactions** (`mod.rs` `handle_txs`, `models/txs/convert.rs`) | 19 `txs_*` tables; the process-wide uid generator | append, squash, roll back | the generator lives in the process, its uids in the database |
| **bps: consumer process** (`start`, `updates.rs`, `ancestry.rs`, `resubscribe.rs`) | phase of `start()`, gRPC stream, batch in the making, channel of one batch, synced height | verify ancestry, roll back, subscribe, batch, commit, publish, resubscribe | the node moves between these steps; streams break; the process dies between commit and publication |
| **bps: Redis publisher** (`publisher.rs`) | last value per state key, index set per address | SET, SADD, PUBLISH after the commit | publication is fire-and-forget; rollbacks publish nothing |
| **bps: candles** (`repo/pg.rs`) | candles per pair and interval | recompute from a block, delete after a rollback | aggregates of rolled-back trades |
| **websocket-api: hub** (`websocket.rs`, `client.rs`, `updater.rs`) | per connection: direct and indirect subscriptions and their count; shared: `ClientIdsByTopics` with subscribers, indirect subscribers and each multi-topic's resolved subtopics | subscribe (check, resolve, fetch, register), unsubscribe, disconnect, expand multi-topics, broadcast | two locks and lock-free Redis reads between steps; both sides of every subscription must agree |
| **websocket-api: limits, keep-alive, refresher** (`limits.rs`, `server.rs`, `refresher.rs`) | permits per process and address, pending pings, expiry times | acquire/release, ping/pong, refresh | permits returned on every end of a connection |
| **data-service: pairs daemon and shutdown** (`daemons/presets/daemon.ts`, `daemons/pairs`, `shutdown.ts`) | the iteration in flight or the timer of the next one, open transactions, the stages of the shutdown | iterate, time out, reschedule; stop, close the pool, exit or give up after the grace period | a timed-out transaction goes on; stop meets a pending timer, a running iteration or a second signal |
| **data-service: HTTP read API** | none of its own (reads the index) | queries | relies on what `ChainIndex` and `TxIndex` check |
| **cubensis-connect: message controller** (`controllers/message.ts`, `permissions.ts`, the page and user methods of `background.ts`) | messages with a status, the requests that await them, permissions and pending access messages per origin, the vault's lock | request, approve (sign, broadcast), reject, update the fee, expire, clear, allow or forbid an origin, sign automatically, disconnect, lock, restart | approve and update-fee hold a message across awaits while others finish or delete it; a requester waits for an event that is sent once |
| **cubensis-connect: other controllers, UI, hardware wallet** | vault, accounts, networks | | key derivation and I/O |
| **sdk: browser-bus** (`Bus.ts`, `WindowAdapter.ts`, `WindowProtocol.ts`) | active requests with timers, request handlers, event handler lists, adapters being created | request, answer, timeout, on/once/off, dispatch, change adapter, destroy | late and second answers; answers that cannot be sent; handlers that change the list being walked |
| **sdk: amm** (`core/pool-math.ts`, `core/math.ts`) | the reserves, LP supply and fee the formulas are applied to | first deposit, deposit, removal, swap | floor division at every step, in the pool's favor |
| **exchange, scanner, admin-dashboard** | user-interface state | | polling and queue hooks of the exchange |
| **load-tester, end-to-end tests, docker, scripts** | | | |
| **other sdk packages, JVM libraries, RIDE** | none that outlives a call | encodings, cryptography, HTTP clients, a compiler | data, not control |

The pairs daemon and most read queries of data-service sort by transaction uid
(`daemons/pairs/sql/fillTable.ts` takes the first and last price by `uid`) and
select current versions by `superseded_by`: what `TxIndex` and `ChainIndex`
check is what these readers rely on.

### What makes each modelled part correct

* **Chain index**: readers see, at every block, the newest version of every
  asset and ticker of the stored chain; rolling back to a block brings exactly
  its view back (`SnapshotLedger`); no row refers to a removed block; the
  rollback transaction never aborts on a primary key; origins and DCC amounts
  follow the stored chain.
* **Transactions**: sorting by uid is sorting by chain order, uids are unique,
  a transaction exists exactly as long as its block (the order has an exception
  across processes, section 5).
* **Consumer**: what is stored is always a path of the node's block tree; the
  process never refuses to resume unless the chain really was replaced; after
  any disturbance the index ends up with the node's chain; Redis never holds
  an outdated value of the stored chain.
* **Hub**: the shared map and the connections say the same; limits hold;
  a connection keeps no key of a multi-topic it has left; a subscriber ends up
  with the current value.
* **Message controller**: a page request gets one outcome, and a result only
  from an approval of its own message (`Reply`); no requester is left waiting
  for a message that was decided or deleted; an origin is never answered with
  an old decision; what the user decided about one website leaves the others
  alone.
* **Bus**: a request is settled once and in the end, with a value only from a
  handler that ran (`Reply`); nothing of it stays behind; `once` fires once.
* **Pairs daemon**: it goes on after every failed or timed-out iteration,
  nothing begins after `stop()`, the pool is not closed under an iteration, and
  a signal ends the process.
* **Pool**: no sequence of operations drains it, depositing and withdrawing
  never pays, swaps and removals never lower what one LP stands for.

`PROJECT.json` lists the single hazards, each at the line where it bites, with
the properties that cover it.

---

## 2. The modules

| module | models | correspondence |
|---|---|---|
| `VersionedTable` | the row algebra of `asset_updates` / `asset_tickers` | `Extend` is insert + `close_*_superseded_by`; `RollBack` is delete + `reopen_*_superseded_by`, `RollBackThrough` the loop of `rollback()` over several blocks; `Repoint` is `update_*_block_references` |
| `BlockTable` | the row algebra of `blocks_microblocks` | `Upsert` is the insert with its conflict clause, `Squash`, `CutAbove`, and `ResumeHeights`/`ResumeRow` for `get_blocks_rollback_to` |
| `ChainIndex` | the index without transactions | one action per item of `handle_updates` (`HandleBlocks`, `HandleMicroblock`, `HandleRollback`), `RedeliverBlocks` and `RedeliverMicroblock` for a stream that repeats stored blocks, `Resume` for the rollback in `start()` |
| `SnapshotLedger` | what the index promises its readers | a remembered view per block: append, fold microblocks into their key block, return to a block |
| `TxIndex` | transaction rows and `UID_GENERATOR` | the same items over transactions; `UidOf` says what the loop of `handle_txs` numbers a transaction; `Resubscribe` keeps the generator, `Restart` makes a new one |
| `Consumer` | the process and the node it reads | `Verify`, `Resume`, `Subscribe` are the three awaits of `start()`; `Receive` is `UpdatesSourceImpl::run`; `HandleBatch` the transaction of the loop; `AfterCommit` the metric and the publication; `StreamClosed` and `Crash` its ends |
| `SubscriptionHub` | subscriptions of websocket-api | `Write`, `Index`, `Publish` are the SET, SADD and PUBLISH of the publisher; `Ask`, `Scan`, `Resolve`, `Fetch`, `Register` are the phases of a subscribe; `Unsubscribe`; `Close`, `OnDisconnect`; `Expand`, `Collect`, `Deliver` are `updates_handler` |
| `PermissionStore` | `PermissionsController` | one operator per method, on the value of the store |
| `MessageController` | `MessageController` and the methods of `background.ts` that drive it | `CallPage`, `ResumeAccess`, `Generated`, `GeneratedAutoSigned`, `ResumeSigning` are the awaits of a page call; `Approve`, `WalletSigned`, `Broadcast`, `RejectedOnLedger`, `ApproveFails` those of `approve()`; `UpdateFee`/`FeeUpdated` those of `updateTransactionFee()`; `Expire` the alarm; `Lock` the vault's subscriber; `Disconnect`, `ClearMessages`, `AllowOrigin`, `ChangeOrigin`, `Restart` |
| `Reply` | what callers are promised by parts that answer through messages | `Grant`, `Settle`, `GiveUp`; implemented by `MessageController` and by `Bus` |
| `Bus` | `Bus`, `WindowAdapter` and `WindowProtocol` of browser-bus | `Request`, `RequestThrows`, `Timeout`, `CreateResponse`, `HandlerSettles`, `FireEndAction`; `FireEvent`, `FireNext`, `FireEnds` are one call of `_fireEvent` handler by handler; `Open`, `ChangeAdapter`, `Destroy` |
| `PairsDaemon` | the loop and shutdown of the pairs daemon | `NextIteration`, `TransactionEnds`, `IterationTimeout` are `presets/daemon.ts`; `Signal`, `CloseResources`, `PoolEnds`, `PoolEndFails`, `GraceExpires` are `shutdown.ts` |
| `Pool` | the formulas of sdk/amm over one pool | operators with the functions' names, of `pool-math.ts` and, for the first deposit, of the deployed `ride-formulas.ts`; `InitialLiquidity`, `AddLiquidity`, `RemoveLiquidity`, `SwapAForB`, `SwapBForA` apply them |
| `MC...` | instances for TLC | model values, symmetry, who is connected to whom |
| `TableProofs` | theorems about `VersionedTable` and `BlockTable` | see section 4 |
| `ProcessProofs` | theorems about `Consumer` and `PairsDaemon` | see section 4 |
| other `...Proofs` | theorems about the module of that name | see section 4 |

`ChainIndex`, `TxIndex` and `Consumer` share `BlockTable`, so the three see the
same block rows; `ChainIndex` and `TxIndex` take the stream as an open
environment (fresh ids at the heights that follow, a rollback to any stored
block), `Consumer` composes a node that reorganises with the process and checks
which streams really arise. `SubscriptionHub` starts where `Consumer` ends, at
the SET, SADD and PUBLISH of a state key. `MessageController` composes the
message list with the permission store, whose pending access messages refer to
the list, and with the lock of the vault.

Why one action per item is enough although a batch is one transaction: the
splitter may cut the stream after any block, so each item is also a transaction
of its own in some execution; what holds after every item holds at every commit.
In `Consumer`, where the batch matters (the publication, the lost batch), a
batch is one step.

The JavaScript components are single threaded: an action is what one event, or
one resumed await, runs before it yields. Promises that a handler resolves run
before the next event; `MessageController` keeps this with `Quiet`, `Bus` keeps
the walk over the event handlers with `Calm`.

A few definitions in the modules carry the comment `mutant`: each is a faulty
variant of the definition that follows it (a dropped guard, a forgotten table, a
wrong order). `PROJECT.json` pairs every property with the variant that breaks
it, as evidence that the property depends on the code.

---

## 3. The runs, their bounds and what they show

All runs use breadth-first search with two workers. Distinct states are up to
symmetry where the configuration declares it.

| run (cfg) | states | what it shows |
|---|---|---|
| `index_assets` (`ChainIndexAssets`) | 93,653 | two assets and their tickers: chains of versions, rollbacks that apply, and the refinement of `SnapshotLedger` |
| `index_redelivery` (`ChainIndexRedelivery`) | 13,185 | the chain of blocks, references, origins and DCC rows, with a stream that may repeat stored blocks and microblocks, in an index that starts above height 1, resumes through two blocks in steps of one, and resumes without a rollback while it is shorter than that |
| `tx_process` (`TxIndexProcess`) | 239,472 | uid order, references and lifetime of transactions through rollbacks of any depth, in-process resubscribes and restarts, all in one behaviour |
| `consumer_reorg1` (`ConsumerReorg1`) | 578,178 | the stored path, no refused resume, Redis and the catch-up (liveness), with a node that replaces at most the liquid tip |
| `consumer_reorg2` (`ConsumerReorg2`) | violated | a deeper reorganisation between check and subscription mixes two chains |
| `hub` (`SubscriptionHub`) | 5,128,320 | agreement of both sides, exact counts and limits, no key without its multi-topic, current values |
| `messages` (`MessageController`) | 415,542 | no lost waiter, no stale access message, every request answered (liveness), and the refinement of `Reply` |
| `permissions_trust` (`MessageControllerTrust`) | violated | writing one origin's permissions drops those of the others |
| `bus` (`Bus`) | 812,058 | entries and timers match promises, `once` fires once, requests are settled (liveness), and the refinement of `Reply` |
| `daemon` (`PairsDaemon`) | 387 | the pool outlives the loop, nothing after `stop()`, and two liveness properties: the daemon goes on, and a signal ends it |
| `pool` (`Pool`) | 30,180 | never drained, no free value, rounding of swaps and removals, the first supply of both sets of formulas |
| `pool_rounding` (`PoolAdd`) | violated | a deposit may lower what one LP stands for |

### Bounds, and why they are enough

* `ChainIndex`: two assets; three or four ids (block ids and microblock ids
  together); at most two blocks and two updates in an item; four uids
  per versioned table; five or six block uids. Two updates of one asset in an
  item, an asset touched by two blocks of an item, a squash of two microblocks, a
  rollback across a squash, an asset that is issued, rolled back and issued
  again, and a block that replaces one at a minting height all occur. `MaxUid`
  bounds the table uids and is at the same time the code's `MAX_UID`, the mark
  of a current row, as in the code. Ids of deleted rows may come back, so the
  same id can name a block of two branches.
* `TxIndex`: a multiplier of 10 instead of 100,000 with at most one transaction
  per block and seven block uids: a counter never reaches the next
  height, as with 100,000. A height of more than `Multiplier` transactions,
  over all blocks numbered at it, is out of scope (a guard of `Appends`, which
  is never false in the run); the theorems have the same guard and any
  multiplier. `born` and `nth` of a row are not columns: they remember, for the
  properties, where in the chain the transaction was read.
* `Consumer`: four or five key blocks, one microblock each, batches of three,
  reorganisations of the liquid block, or of one or two blocks; two lost
  streams and one crash. The channel holds one batch, as in the code, and with
  three blocks per batch the states "batch in the making", "batch in the
  channel" and "batch being committed" coexist.
* `SubscriptionHub`: two connections, two keys, two multi-topics that overlap
  in one key, two writes in total, each in three steps, four requests. At most two direct
  and two indirect subscriptions, which the multi-topics exceed together, so
  the limits refuse. `MAX_MULTITOPIC_SUBTOPICS` is two and is not exceeded by
  two keys: its refusal is modelled, but no run reaches it.
* `MessageController`: two requests over two connections, of one website or of
  two of which the remote configuration trusts one (`Layouts`, `Whitelist`), one
  that is broadcast and one that is only signed; one call of `approve()` and
  one of `updateTransactionFee()` that are in flight while everything else
  happens, one change of an origin's settings (`MaxChanges`), one restart
  (`MaxRestarts`). An approval whose message was rejected, expired, locked
  away, deleted with its connection or made pending again, two requests that
  share an access message, and a message that is approved after its fee update
  began all occur. `permissions_trust` has no trusted website, since those keep
  their permission without an entry.
* `Bus`: a page and two windows that both hear its request, so an answer can
  come twice; one request with a timeout, two event handlers of which one is
  subscribed by `once`, two events. `Uses` keeps the request and the second
  handler apart: a behaviour has the request and one handler, or two handlers,
  because requests and events share only the adapters and destroy.
* `PairsDaemon`: four transactions that may be open at a time (three timed out
  and one in flight), both signals. The number is not a limit of the code: with
  all of them open, the next iteration waits.
* `Pool`: reserves and supply up to 20, amounts up to 12, the default fee of
  35 and the maximal one of 1000 of 10,000. `MINIMUM_LIQUIDITY` is 2 instead of
  1000, so that pools near the locked minimum, where rounding matters most, are
  reached; the theorems hold for any positive value. `MAX_RESERVE` of
  `ride-formulas.ts` is 20 as well, and bounds the reserves in every run. A
  pool works with one set of formulas or the other (`deployed`); its operations
  after the first deposit are the same. `MCPool` also evaluates the deployed root
  on both sides of the first two places where its start value changes.

### Environments

* `ChainIndex`: `index_assets` has no redelivery; `index_redelivery` has, and
  checks what survives it (the theorems of section 4 say the same for every
  size). A repeated block or microblock comes with an id that is stored, with
  the height and the assets it came with the first time. `VersionChain` and
  `RollbackApplies` are not among what survives: section 5.
* A resume over an index of at most `Depth` heights finds no row at the
  saturated height, rolls nothing back and streams from `StartingHeight`.
  `index_redelivery` takes it, and the stream that repeats the stored blocks
  follows as `RedeliverBlocks`. Two things are left out, and section 5 says what
  happens then: the node has replaced one of those blocks meanwhile, or it
  repeats a key block under the id it had before a squash renamed its row.
* `TxIndex` has no redelivery. Rollbacks go to any stored block, and in-process
  resubscribes and restarts come in any order.
* `SubscriptionHub` chooses when keys are set and indexed (`environment`): at any
  time, or never between a subscribe's first read and its registration
  (`windowless`; the PUBLISH may come then too). The structural properties hold in
  both. `DetachedWithMultitopic` and `WindowlessIsCurrent` need `windowless` (the
  code's comment at `websocket.rs:330` documents the window for multi-topics).
  The listener may lose messages in the first environment only, where no
  property speaks of delivery. A scan of the index returns what was there when
  it began and any part of what came while it ran, which covers its pages and
  the sets of several addresses. No single command of the publisher fails.
* `Bus`: between two windows the browser neither loses nor repeats messages, but
  a window hears nothing before its adapter is complete nor after `destroy()`,
  and messages arrive in any order, which is more than windows do.

### Fairness

Liveness is checked in four modules, each with weak fairness of what the
runtime guarantees and of nothing a user, a peer or a fault has to do:

* `Consumer` (`FairSpec`): the steps of the process (`Verify`, `Resume`,
  `Subscribe`, `Receive`, `HandleBatch`, `AfterCommit`, `StreamClosed`). Each is
  the continuation of an await that the runtime resumes once it can, and
  `run_with_resubscribe` loops after every stream error. The node, lost
  streams, refused subscriptions and crashes have none; their number is bounded,
  so every behaviour becomes quiet. `EventuallyCaughtUp` then says that the index
  holds the node's chain except for the key blocks at the end that the batch in
  the making holds back: a batch is cut only when an update arrives, so these may
  wait for ever, and the property allows it.
* `MessageController`: a resolved promise resumes (`ResumeAccess`,
  `ResumeSigning`), and the expiry alarm, which `#rejectAllByTime` creates again
  as long as there are pending messages, comes when all of them are old
  (`Expire(Pending)`). No user action, no wallet and no broadcast is fair: an
  approval may hang for ever, and its request is still answered.
* `Bus`: the timer of a request that has one fires unless it is cleared, and a
  delivery that has begun ends (`FireNext`, `FireEnds`). Peers are not fair.
* `PairsDaemon`: timers fire (`NextIteration`, `IterationTimeout`,
  `GraceExpires`), and PostgreSQL settles every transaction
  (`TransactionEnds`), because the pool is created with a `statement_timeout`.
  Closing the pool is not fair: `Exits` holds through the grace timer.

`CHECK_DEADLOCK FALSE` is set where the system, or its bounded environment,
really stops: a bounded node that has nothing left to do (`Consumer`),
connections that are all closed (`SubscriptionHub`), page requests that are all
answered (`MessageController`), a bus that is destroyed (`Bus`), a process that
has exited (`PairsDaemon`), a pool at the bound of its reserves (`Pool`).

---

## 4. The proofs

16,687 obligations, in eight modules, all checked by TLAPS without gaps. The only
assumptions are those the modules state about their constants (`ASSUME`, which
TLC evaluates in the runs) and the hypotheses `~ Redelivery` (the order of
versions in the chain index), `Shallow` and, for Redis, a Redis that does not
fail (consumer). Every safety property that a run checks and finds true is also a
theorem, but for one: what the deployed formula mints on the first deposit.

### The chain index (`ChainIndexProofs`, over `TableProofs`)

For every set of assets and ids, every `Depth`, `Step`, `StartingHeight`,
`AssetsOnly`, set of minting heights, and every size of batches,

```
THEOREM IndexInvariant == ASSUME ~ Redelivery PROVE Spec => []IInv
```

with, as corollaries, `VersionsChained`, `NewestRowsAbove` and `RollbacksApply`.
`~ Redelivery` is a stream that repeats no block; with repeated blocks
`VersionChain` and `RollbackApplies` are false (section 5). What does not depend
on the order of versions is proved for every stream, by an invariant of its own:
see *A stream that repeats blocks* below.

*Why the invariant is what it is.* `VersionChain` (each version ends where the
next of its asset begins) is not inductive. A rollback deletes the rows above a
block and reopens the rows that ended at the lowest deleted uid of each asset;
that repairs the chains only if the deleted rows are a suffix of every chain,
i.e. if newer versions never belong to older blocks (`RowsInBlockOrder`). An
append keeps that order only if the new blocks' uids are above the blocks of all
rows (`RowsRefer` with the uid bound of `OneChain`), and keeps uids unique only
if all rows are below the sequence (`UidsBelow`). A squash re-points rows to the
last key block, which keeps the order because microblocks are above every key
block (`OneChain`). `DccRefers` is stronger than what `References` asks: the DCC
rows belong to key blocks, which is why a squash cannot leave one dangling.

*Layout.* `TableProofs` states what the row operators of `VersionedTable` and
`BlockTable` preserve, without any state: `ExtendChained`, `RollBackChained`,
`RepointChained`, `UpsertKeysInOrder`, `SquashInOrder`, `CutAboveInOrder`,
`ResumeRowStored`, ... `ChainIndexProofs` bundles them per table (`Table`,
`ExtendTable`, `RollBackTable`, `RepointTable`) and has one lemma per action.

`start()` may roll back to several rows in turn. `RollBackThrough` says in one
expression what is left, and the theorem `RollBackStepwise` (`TableProofs`) that it
is one `RollBack` after the other, for any rows, chained or not. On chained
versions it is the rollback to the last of the rows (`RollBackThroughLast`), which
is how the lemmas about one rollback carry over.

### A stream that repeats blocks (`ChainIndexProofs`, second part)

```
THEOREM ChainInvariant == Spec => []ChainInv
```

`ChainInv` keeps of `IInv` what survives repetition: the types, `OneChain`, and
rows of every table that refer to stored blocks (`Refers`, `DccRefers`). It gives
`TypeCorrect`, `BlocksAreOneChain` and `ReferencesKept`, for every stream that
repeats stored blocks and microblocks, and for a resume that finds no row to roll
back to.

*Why a repeated block does no harm here.* The insert of a batch adds the rows of
its new ids only (`UpsertNewRows`), and every id of the batch can be read back
after it (`ReadBack`), so whatever the item inserts next refers to a stored block.
The new ids of an item come at growing heights from the cursor on
(`RedeliverRepeats`: the height of a new block is the cursor plus the number of
new ids before its first occurrence, which grows), so they continue the chain.

* `DccRowsFollowChain` (`DccFollowsChain`): a block is stored at the height the
  stream gives it, when it comes again too (`AtHeights`), and no two stored key
  blocks have one height. So the row that the conflict clause of `dcc_data` puts
  at a height is the row of the stored key block (`RepeatsMinted`); squashing
  renames a key block and keeps its uid and height; the cascade of a rollback
  removes the rows of the removed key blocks and no other.
* `OriginsAreFirst` (`OriginIsFirst`): the origin of an asset is a version of it
  and none is older (`FirstVersions`, which says it without a minimum). With
  repeated blocks a rollback no longer deletes a suffix of the versions of an
  asset: a later one may belong to an earlier block. The invariant that carries
  the property is that the *first* version belongs to the least block
  (`FirstsLeast`), so it goes only with all the others (`RollBackFirsts`). It holds
  because a block touches the same assets each time it comes (`RepeatLeastFirst`).

### What readers see of the index (`ChainIndexProofs`, third part)

From `IInv`, for a stream in order: `IndexImplementsLedger`, the index implements
`SnapshotLedger` (`RollbackRestoresView`). The view as of a block is made of the
uids of the versions that belong to it or an older block (`AsOfVersions`), so an
append above the block (`ExtendView`), a rollback to it or a newer one
(`RollBackView`) and a squash above it (`RepointView`) leave it alone; and the rows
with `superseded_by` = MAX_UID are the view as of the last block, because every
chain ends in its newest version (`CurrentIsNewest`). `SquashFolds` shows that
squashing is what the ledger calls folding.

### The transaction tables (`TxIndexProofs`)

For any ids, batches, transactions, multiplier, `Depth` and `Step`:
`TypeCorrect`, `TransactionsHaveBlocks` (`TxsOfStoredBlocks`) and
`LostWithItsBlock` (`LostOnlyWithBlock`), however subscriptions end; and

```
THEOREM UidsAscend == Spec => []UidsFollowChain
```

with no hypothesis: behaviours mix rollbacks of any depth, in-process resubscribes
and restarts. `UidsFollowChain` itself says for which transactions the order holds
across processes (`NumberedAtHeight`), and section 5 what happens to the others.

*How the uids are numbered.* `handle_txs` is a loop that carries the generator
from transaction to transaction. `TxIndex` says what it computes: a transaction
gets the generator's next uid at its height, plus the number of transactions
before it that were numbered at the same height. What the loop does to every
batch is then a matter of counting: `UidsInOrder` (a later transaction has a
greater uid, at the same height because it has more before it, at a greater
one because of `TimesAbove`), `UidBounds`, and `EndedFacts` (the generator that
is left is above all of them).

*The invariant* has two parts. `Base` is what the lifetime of rows rests on:
`Chain` (the block rows are in chain order and below the next block),
`InTime` (a squash points a row at an older block only) and `TxsOfStoredBlocks`
itself; a squash keeps it because the last key block has the height of every
microblock on it (`SquashedRows`). `Ascending` is about the order. `UidsFollowChain`
is not inductive: a batch extends it only if the next uid is above those stored
transactions that it speaks of. For what the same process numbered that follows
from the generator (`Numbered`: it never goes back, whatever the node abandons).
For what an older process numbered at its own height the argument is another:
the next key block is above all stored heights, and a process writes only to
blocks that it stored itself (`Written`). A microblock comes only after a key block
of the same subscription, which has raised the generator (`Delivered`).

### The consumer (`ProcessProofs`, first part)

`ConsumerTypeCorrect` (`TypeOK`) holds for every value of the constants. For any
number of blocks, microblocks, lost streams, refused subscriptions and crashes,
any length of batches and any blocks that write nothing,

```
THEOREM StoredPathHolds  == ASSUME Shallow PROVE Spec => []StoredPath
THEOREM NeverFailsHolds  == ASSUME Shallow PROVE Spec => []NeverFails
THEOREM RedisHoldsNewest == ASSUME Shallow, RedisFails = FALSE
                            PROVE  Spec => []RedisIsNewest
```

`Shallow` is the code's default configuration (`config/consumer.rs:184`: the
index starts at height 1, `start_rollback_depth` is 1; or else the rows that a
resume rolls back to lie one height apart) with a node that replaces at most its
liquid tip. It is needed: with a node that may replace two blocks
`consumer_reorg2` violates `StoredPath`, and with a deeper and coarser resume
(`Depth` and `Step` above 1) a young index finds no row to roll back to and
streams from `StartingHeight` although rows are stored (section 5).

*The invariant* `PathInv`. That the rows are a path of the block tree says
nothing about the next batch, so neither `StoredPath` nor `NeverFails` is
inductive. What is on its way to the index is one sequence, `Flight`: the batch
that was handed over, the batch in the making and what the node has queued. The
invariant follows it from end to end:

* `NodePath`: the node's chain is a path of the tree. `IndexPath`: so are the
  rows, one key row per height and above the last one its microblocks, each on
  the one below; and the parent of every row is on the node's chain (`Settled`).
* `Streamed`: the first update of `Flight` continues the newest row, and each
  update joins the one before it, whether block, microblock or rollback.
  `UpToDate`: while the stream is open, its last update is the node's tip. A
  reorganisation of the tip appends a rollback that joins what is in flight
  (`PathReorg`), whatever was queued before; a lost stream or a crash cuts the
  sequence at the front of the queue, or drops all of it, which needs only
  the rows.
* `IsBatch`, `AllBlocks`: a batch is key blocks in order and at most one
  microblock or rollback after them. This is what makes the batch as one step
  provable without a recursion over its updates: a lemma for the blocks
  (`BlocksOnTop`), one for a microblock (`MicroOnTop`), one for a
  rollback (`RollbackIsKnown`: its target is stored; `CutKeepsPath`), after the
  squash (`SquashKeepsPath`).
* `Steps`: what each phase of `start()` has established. After a resume the first
  height to ask for continues a key row that is on the node's chain (`Resumed`).
  The node may replace its tip between the check and the resume, and between the
  resume and the subscription; with one block, the row that is resumed from
  stays on the chain.

`RedisInv` adds what Redis *will* hold: once a batch is committed and before it
is published, `RedisIsNewest` speaks of values still to be set, so the invariant
is stated for `ToPublish`. `Published` says of it that it was written by the
newest row that writes, or by a block that is no longer stored; the second case is
kept because a rolled-back id comes back only with a batch that publishes.
A lemma for each kind of change carries it: `PublishedCut` (a rollback takes the
newest writing row with all above it, and then the value is of no stored block), `PublishedSquash` (the last
microblock becomes its key block: more microblocks are newer, `SameBlockOrder`),
`PublishedSilent` and `PublishedBlocks`. Like the property, it speaks of
behaviours without a crash between a commit and its publication.

### The hub (`SubscriptionHubProofs`)

For any connections, keys, multi-topics, filters and limits (`HubAssumption`):
`TypeCorrect`; `SidesAlwaysAgree`; `CountsAlwaysExact`; `AlwaysDetached`;
`AlwaysCurrent`. The operators that loop over topics and
subscribers are stated as set comprehensions (`Remove`, `Register`, `Gain`), so
that the theorems need no induction over the loops.

The invariant has six parts, and each needs those before it:

* `Sides` says more than `SidesAgree`: the map may hold keys of connections that
  are gone (a stale resolution leaves them, section 5), and nothing else that the
  connections do not hold themselves.
* `Limits`. The count of a connection is the number of its pairs of a key and a
  multi-topic. A subscribe compares with the limits when it is asked and when it
  registers. An expansion compares per multi-topic, in turn: the last
  one that gains (`GreatestExists`) found room after all the earlier ones had
  taken theirs, so all of them fit together (`NewFits`).
* `Order`. The values of a key are queued in the order in which they were
  written, what is queued is indexed, and none is newer than Redis; the value
  that the publisher is about to queue comes after them all (`Publishing`).
* `Resolved`. What a multi-topic was resolved to is in the index.
* `Windowless`, when no key is set or indexed between a subscribe's reads and its
  registration: what was read is still so (`Fresh`); every indirect subscription
  has its multi-topic and its key (`Attached`, which is what `Remove` relies on);
  the newest value of a key that is queued at all is queued
  (`Newest`); and whoever subscribes to a key holds its value, or that value is
  on its way to him: being published, queued, or being expanded, or being sent and he is
  among its receivers (`Current`). `WindowlessIsCurrent` is the last part once
  nothing is on its way. A listener that drops messages is excluded there.

### The message controller (`MessageControllerProofs`)

For any requests, connections, origins, approvals and bounds: `TypeCorrect`;
`NoWaiterLost` (`NoLostWaiter`); `PendingNeverDecided` (`PendingIsUndecided`);
`ControllerImplementsReply`, the refinement of `Reply` (`KeepsPromise`).

`NoLostWaiter` speaks of states in which no resolved promise is waiting to run;
the invariant says for every state that a request that waits was told, or its
message is pending, or its message was cleared (`NotLost`). It is not inductive
without knowing which message a request can wait for: `GeneratedAutoSigned` may
create a signing message that has already failed, and no other request must be
waiting for it (`WaitsWell`: an access message, perhaps of another request, or
its own signing message); and an origin's pending message must be an access
message (`StateTypes`, stronger than `TypeOK`). For the refinement,
`Results` says that a signing message in the list is signed or published only
if an approval of it began, and `Working` that an approval in flight holds a
signing message. One event may answer many requests at once (locking,
restarting), which is why `Reply` has `GiveUp` for sets of calls.

`PendingIsUndecided` has an invariant of its own, `PendingWell`. An origin with a
pending message has no permission, and the message is one of its own requests
(so the permission that a decision sets is new, and setting a new permission is
what resets `inPending`). While the message is listed, a request
of the origin awaits it and is told as soon as it is decided (`Awaited`); nothing
but resumed awaits runs before that request clears `inPending`. The exception is
an approval that finds the wallet locked: its awaiters leave `inPending` alone
(`Spoiled`). `FeesWell` keeps a late fee update from making an access message
pending again.

### The bus (`BusProofs`)

For any windows, peers, requests, timeouts and handlers: `EntriesKept`
(`EntriesMatchPromises`), `OnceIsOnce` (`OnceFiresOnce`) and `BusImplementsReply`
(`KeepsPromise`). That entries
match promises is not inductive: the entry that a send which threw leaves behind
must not be met by an answer. So the invariant knows that nothing was sent for
such a request (`Unsent`: no message, no running handler), and for the refinement
that a value in the network comes from a handler that ran (`Served`).
`OnceFiresOnce` needs an invariant of its own (`EventInv`): a `once` handler that
is still on the copy a delivery goes through was not called, and the same holds
of the list of a bus that delivers nothing; while a bus delivers, its list may
hold handlers that were called, which is harmless because the handlers kept from
the copy replace it and none of them is of `once`. That `off` takes exactly its
handler off a list, which holds each handler once, is the lemma `WithoutFacts`.

### The pairs daemon (`ProcessProofs`, second part)

For any number of transactions and any signals: `DaemonTypeCorrect`,
`PoolClosedLast` (`PoolOutlivesLoop`) and `NothingAfterStop` (`StopIsFinal`). The
invariant says what `stop()` waits for: while the shutdown drains, exactly an
iteration in flight, and no timer is pending once the daemon is stopping.

### The pool (`PoolProofs`)

For all reserves, supplies, amounts and fees below 100 %: `TypeCorrect`,
`PoolNeverDrained`, `DepositsAreNotProfitable` (`NoFreeValue`),
`SwapsAndRemovalsFavorPool` (`RoundsForPool`) and `IsqrtIsFloorRoot`. `NeverDrained` is inductive by
itself, but only through arithmetic: each formula has a lemma that turns floor
division into one inequality between products (`SwapFacts`, `RemoveFacts`,
`FullSideFacts`, `ShareSideFacts`, `AddFacts`), and `SharesMultiply` puts two of
them together. TLC checks the formulas on small numbers, the theorems hold for
the numbers of the code.

`IsqrtIsFloorRoot` is about `isqrt` of `math.ts`, by which `pool-math.ts` mints the
first LP; it says nothing of the deployed `sqrtProduct`. That `isqrt` is the
square root rounded down takes the place of an induction over Newton's iteration. `StepIs` is its arithmetic: a step stays
positive and never gets below the root, and once it does not descend the value
is at most the root. The recursive function that the loop computes exists because
the least number up to which there is none would have one (`NewtonIs`), and it
gives the root because the least start where it did not would have a smaller one
(`NewtonRoot`).

### Only model-checked

All liveness (`EventuallyCaughtUp`, the answers of the message controller
and of the bus, the daemon that goes on and ends), which is out of reach of the
prover; `FirstSupplyNearRoot` for the deployed formula; and the three violations of
section 5. Outside the hypotheses above nothing is claimed: the version chains and
the rollbacks that apply, which fail, and the refinement for a stream that repeats
blocks; a node that replaces more than its tip.
Z3 and Zenon get finite minima through explicit lemmas (`MinIsLeast`,
`MaxIsGreatest`), because `Min` and `Max` are `CHOOSE` expressions.

---

## 5. Disagreements between the code and its documentation

`PROJECT.json` quotes the lines. Three are runs that TLC ends with a
counterexample:

* **The chain may be replaced after the check** (`consumer_reorg2`).
  `ancestry.rs` exists because resuming silently mixes two chains; a
  reorganisation of two blocks between the check and the subscription still
  does, because nothing compares a block's parent with the stored tip.
* **Allowing one website forgets the others** (`permissions_trust`). The store
  of `permissions.ts` merges the top level of its state only, so writing the
  permissions of one origin drops the entries of all others; the README of
  cubensis-connect says that a website the user allowed is trusted, and one he
  refused is blocked, until he changes that in the interface.
* **A deposit may round against the pool** (`pool_rounding`). `pool-math.ts`
  says that all outputs round in favor of the pool; the share of the token that
  does not constrain a deposit is rounded down, which lowers what one LP stands
  for by less than one unit. `NoFreeValue` shows that nobody gains by it.

Three more are visible in a run that passes, because its property is about what
the code does:

* **The deployed first deposit** (`pool`). `pool-math.ts:7` says that the RIDE
  contract implements the same formulas, and mints the root of the product
  rounded down. `ride-formulas.ts` ports "the arithmetic actually deployed", "NOT
  the older Pool.ride design": `sqrtProduct` multiplies the two rounded roots and
  may add one. For amounts 5 and 1 it mints 3 where `pool-math.ts` mints 2, for 8
  and 8 it mints 5 instead of 8. `FirstSupplyNearRoot` holds each to its own
  promise, for the deployed formula the one of `test/ride-formulas.spec.ts`.
* **Resubscribing is not a restart** (`tx_process`). `resubscribe.rs` says that
  calling `start()` again in-process is exactly what a container restart did. The
  uid generator survives the first and not the second. A rollback or a
  resubscribe that ends below the generator's height numbers a block from the
  counter of the greater height, and a process that is started later gives that
  height's uids a second time, which can break a primary key, or smaller ones to
  later blocks. `UidsFollowChain` leaves exactly the transactions that an older
  process numbered beyond their height out of the order across processes
  (`NumberedAtHeight`); without that, TLC refutes it.
* **A timeout does not end the daemon** (`daemon`). The README of the pairs daemon
  says that the daemon terminates if an update exceeds its timeout; the preset
  schedules the next iteration (`KeepsGoing`).

Met while modelling, without a run or a property of their own:

* **Duplicates.** The README of bps says that duplicate deliveries are silently
  absorbed. Only `blocks_microblocks` has a conflict clause; the asset updates of
  a repeated block are inserted again. `RollbackApplies` fails if it is added to
  `ChainIndexRedelivery.cfg`: the current version of an asset then belongs to an
  old block that was repeated, a rollback that keeps this block reopens the
  version before those it deletes, and with two current versions the primary key (superseded_by, asset_id) aborts the transaction. `start()` makes
  the same rollback on every attempt, so the consumer does not get past it. The
  guards `Reopens` of `RollBackTo` are that abort, which leaves the state as it
  was. Where the rollback does apply, a version may stay that ends at a deleted
  one: `VersionChain` fails as well, with one more version (`MaxUid = 5`).
* **A short index resumes without a rollback.** With at most
  `start_rollback_depth` heights stored, the saturated height has no row and
  `start()` streams from the first height. `bin/consumer.rs:121` says that each
  attempt resumes from the height recorded in Postgres. The blocks it gets again
  are the repeated ones of `RedeliverBlocks`; but if the node has replaced one
  of them meanwhile, nothing rolls it back and its height gets a second key block,
  against `OneChain`. That is left out of the model.
* **A block that was renamed.** `squash_microblocks` gives the key block the id of
  its last microblock. If the stream repeats the key block under the id it had,
  the insert sees no conflict and adds a second key block at its height. Left out
  likewise, and so is a repeated microblock whose row a squash has deleted.
* **Publishing what was never committed.** A batch that ends with the rollback of
  its own blocks publishes their values; a comment in `mod.rs` says that Redis
  only reflects committed state. `RedisIsNewest` is about what is left in Redis
  for the stored chain.
* **New keys that are already known.** A second connection resolves a
  multi-topic after a new key was indexed, and registers before the key's
  PUBLISH is handled. The key is now among the shared subtopics, does not count
  as new, and the first connection is not subscribed to it, also when it
  subscribed to the multi-topic long before. The README of websocket-api says that
  new matching keys arrive as `update` frames. The model takes these steps; no
  property is stated that would have to assume them away.
* **Changes inside the subscribe window.** A change between a subscribe's read of
  a key and its registration reaches nobody; the README of websocket-api promises
  the current value and every change. The comment in the code documents the window
  for multi-topics only.
* A multi-topic registration replaces the shared subtopics with its own, possibly
  older, resolution. A connection whose key is missing from it is not detached
  from that key by unsubscribe or disconnect, so the map entry stays and the key
  keeps being sent. `DetachedWithMultitopic` holds only in the environments where
  no key is written in the window.
* A connection at its indirect limit is skipped when a key is new. If another
  connection accepts the key, it becomes a known subtopic and is not offered
  again.
* Every time the vault is locked, and every five seconds while its timer does so,
  each message of the list is rejected, the finished ones included: a message
  that was published shows as rejected afterwards. Its requester was answered
  before, and `KeepsPromise` shows that the answer stands. In the same way an
  approval that returns after a rejection shows a rejected message as signed or
  published: a rejection does not stop a broadcast, so a page may be told that its
  request was refused while the transaction is on its way.
* `updateTransactionFee` makes the message pending again when it returns, whatever
  was decided meanwhile, so it can be approved and broadcast a second time. Its
  requester keeps the first answer.
* `off()` and `destroy()` inside an event handler are undone for a handler that
  the delivery keeps, and a handler added meanwhile is lost, because the list is
  replaced at the end of the delivery by what was filtered from the old one.
  `OnceFiresOnce` shows that subscriptions by `once` are not repeated by it.
* When the promise of a request handler resolves to a value that cannot be sent,
  nothing answers the requester; its timeout settles the request, and a request
  without one stays pending.

---

## 6. Abstractions, and what is not modelled

* **Data**: asset and ticker values, transaction contents and converted columns,
  state values, message wording and signatures are not represented. A version is
  its uid; a published value is the block, or the write, that set it; a message is
  the request that made it and its status.
* **bps**: candles (aggregation over time buckets). After a rollback to a block
  without exchange transactions `rollback_candles` deletes nothing, so stale
  candles may stay: listed as a hazard. The 19 transaction tables are one.
  Signals, backoff durations, the health server and the batch's wait time as a
  duration (a batch may be cut at any block instead) are left out. The synced
  height is in the model but has no property: between the commit of a rollback
  and the store of the metric it is too high, by design of the two steps. A crash
  between the commit and the publication loses the events; nothing promises
  their delivery, so `RedisIsNewest` is stated for behaviours without one.
* **websocket-api**: whether a value is sent as `subscribed` or `update`,
  leasing-balance differences, the clock of the rate limit, resolution permits
  (a refusal is an action, `Refuse`), ping and pong, and the topic grammar.
  Updates on the channel of a multi-topic are left out because the publisher
  never sends one. A command of the publisher that fails alone, which it logs and skips, is left
  out. The refresher renews keys that no component of the repository
  reads. The locks are the grain of atomicity: what runs under the topics lock
  is one step.
* **cubensis-connect**: the contents of messages and how they are generated from
  a transaction, several selected accounts, notifications, hardware wallets and
  the encrypted vault (a flag that is locked or not). The amounts and intervals
  of automatic signing are a choice. The user interface reads the list through
  its own copy; the hook that shows the queue is not modelled. What the browser
  stores is restored with the messages cleared, as `setupBackgroundService` does.
* **browser-bus**: one request name and one event name; origin and channel
  filters, message schema and the conversion of errors. What handlers compute is a
  choice between a value, an error, a promise and something that cannot be sent.
* **data-service**: time, so any timer that is set may fire; the SQL of an
  iteration is a transaction that ends in some way. The HTTP servers are
  stateless.
* **sdk/amm**: the price impact and other display values, slippage limits, the
  transaction builder and the reading of pool state. `RemoveLiquidity` burns at most what is not
  locked: the function of `pool-math.ts` takes up to the whole supply, and a test
  withdraws all of it, but the `MINIMUM_LIQUIDITY` of the first deposit belong to an
  virtual address, `LOCKED` (`constants.ts`), so no sequence of operations gets there.
  The contract is not in the repository; the pool's steps are the formulas with the transfers that go with
  them. `bigint` does not overflow, and neither do the numbers of the model.
* **External**: the node (its block tree, its stream and its answers to the
  ancestry check), PostgreSQL transactions (atomic, serial) and Redis commands
  (atomic each) are modelled by how the code uses them, and so are ports, alarms
  and the storage of the browser.
* **Not modelled at all**: the components marked `not_modelled` in
  `PROJECT.json`, each with its reason: user interfaces, stateless encodings and
  clients, cryptography, the RIDE compiler, test tools and deployment files. They
  are most of the repository's lines (word lists, React views, generated types,
  byte-level marshalling), which is why the modelled lines, the ones that change
  state which outlives a call, are a small share of all.

---

## 7. Plan

Done, in this order: `VersionedTable` and `BlockTable` (pure, so that they can be
proved about), `ChainIndex` with `SnapshotLedger` as its abstract
specification, `TxIndex`, `Consumer`, their proofs, `SubscriptionHub`;
`PermissionStore` and `MessageController`, `Bus` with `Reply` as the abstract
specification of both, `PairsDaemon`, `Pool`, and their proofs; then the proofs
about `SubscriptionHub`, `PendingIsUndecided` and those about `TxIndex`; last the
proofs about `Consumer`, the root of the first deposit, and what the chain index
keeps when the stream repeats blocks; the deployed formulas of the first deposit,
the commands of the publisher one by one, and all ends of a subscription in one
behaviour of `TxIndex`.

Next, more of the system:

1. Connection limits of websocket-api: permits on every way a connection ends,
   composed with the hub's `Close`/`OnDisconnect`.
2. Candles over the exchange rows of `TxIndex`, with the gap of
   `rollback_candles` as the first question.
3. The exchange's broadcast and polling hooks, where a late answer meets a newer
   request.

4. Repeated key blocks under their earlier id, and a node that replaces blocks
   during a resume without a rollback: with both, the block rows are no longer
   one chain, and the question becomes what still holds.

Next, more proofs: the consumer without `Shallow`, for an index that starts above
height 1. Its first stored block then has a parent outside the index, so
`IndexPath` would have to be stated from the lowest row instead of the root.

---

## 8. Running it

```
tlc -workers 2 -config ChainIndexAssets.cfg       MCChainIndex
tlc -workers 2 -config ChainIndexRedelivery.cfg   MCChainIndex
tlc -workers 2 -config TxIndexProcess.cfg         MCTxIndex
tlc -workers 2 -config ConsumerReorg1.cfg         MCConsumer
tlc -workers 2 -config ConsumerReorg2.cfg         MCConsumer           # violated
tlc -workers 2 -config SubscriptionHub.cfg        MCSubscriptionHub
tlc -workers 2 -config MessageController.cfg      MCMessageController
tlc -workers 2 -config MessageControllerTrust.cfg MCMessageController  # violated
tlc -workers 2 -config Bus.cfg                    MCBus
tlc -workers 2 -config PairsDaemon.cfg            MCPairsDaemon
tlc -workers 2 -config Pool.cfg                   MCPool
tlc -workers 2 -config PoolAdd.cfg                MCPool               # violated

tlapm TableProofs.tla
tlapm ChainIndexProofs.tla
tlapm TxIndexProofs.tla
tlapm SubscriptionHubProofs.tla
tlapm MessageControllerProofs.tla
tlapm BusProofs.tla
tlapm ProcessProofs.tla
tlapm PoolProofs.tla
```

Each run ends within three minutes on two cores.

`PROJECT.json` names every run with its module, configuration, properties and
expected result, maps every definition to the lines it models, and lists
hazards, findings and theorems. The community modules `SequencesExt`,
`FiniteSetsExt`, `Folds` and `Functions` are needed by TLC and TLAPS.
