# TLA+ models of coinquery V2

These modules model the block-ingestion side of coinquery V2 (`src/V2`):
- the Postgres block store and its reorg reconciliation, with an abstract
  specification it refines;
- the indexer: initial sync, then live tip-following over ZMQ, composed as
  `main` runs them;
- the block validator, on its own and against the real store;
- pending transactions: the indexer's mempool loop and the tx validator;
- the monitor's orphan cleanup;
- the concurrent core of the insight transaction endpoints.

TLC checks them. The component list, the runs, the definition-to-source map,
the findings and the hazards are in `PROJECT.json`; this file explains them.
All paths below are under `src/V2`.

## 1. Inventory

### Components and their state

| Component | Source | State | Operations that change state |
|---|---|---|---|
| Block store | `pkg/postgres/postgres.go`, stored procedures not in the repo | block rows (`is_orphaned`, `next_block_hash`), tx rows (`block_id` NULL = pending), metadata (`validatedBlock`, `validatedTransaction`, `orphanCount`) | `InsertBlock` (`block_insert`), `InsertTx` (`transaction_insert`), `DeleteOrphans`, `DeleteInvalidTxs`, `Set` |
| Node RPC adapter | `pkg/blockchain/utxo`, `pkg/http` | none (the node holds the chain) | reads only: `GetChainInfo`, `GetBlocks`, `GetMempool`, `GetRawTransactions` |
| ZMQ adapter | `pkg/zmq/zmq.go` | SUB socket, `blockChan`/`txChan`, forwarding goroutines | `Connect`, `Start`, `listen` (receive, and reconnect on timeout) |
| Indexer, initial sync | `cmd/indexer/main.go` 164-237, 325-447 | start/end height, orderer buffer | `processBlockHeights`, `getBlocks`, `orderBlock`, `writeBlock` |
| Indexer, live sync | `cmd/indexer/main.go` 240-270, 391-489 | `blockHashChan`, `blockChan`, `txResultChan` | `syncToTip`, `writeBlock`, `writeTx` |
| Indexer, mempool | `cmd/indexer/main.go` 273-322 | `mempoolTxChan`, per-tx fail count | `processMempool`, `getMempoolTxs` |
| Block validator | `cmd/blockvalidator/main.go` | `startBlock`, `totalBlocks`, `blocksValidated`, channels, the orderer's map | pipeline stages, `repairBlock`, `blockValidated` |
| Tx validator | `cmd/txvalidator/main.go` | sampled mempool set, invalid ids; the `validatedTransaction` cursor in metadata | sampling, classification, `DeleteInvalidTxs`, cursor `Set` |
| Monitor | `cmd/monitor/main.go` | none in memory; `orphanCount` metadata | `handleOrphans` per `newBlock` POST, `compareHeights` every 30 s |
| Insight API | `pkg/api/insight` | per request: goroutines and channels of `getTxs` | none in the store (reads only) |
| Helpers, V1, utilities | `internal/*`, `cmd/util`, `V1`, `services` | none | pure functions and tools (not modelled, see section 6) |

### How they interact

All of them share one store per coin. The indexer is the only writer in
normal operation:
- `main` runs the initial sync to the node's height, then connects to ZMQ
  and follows the tip; live sync inserts each new block with
  `recover = false`, then its transactions;
- the mempool loop inserts pending transactions.

The block validator is a separate batch process. It re-inserts blocks with
`recover = true` where the store differs from the node. The tx validator
deletes pending transactions that are in no mempool sample. The monitor
deletes the transactions of orphaned blocks whenever the indexer posts a
new block. The API only reads. Because of this sharing, most questions
about correctness are in the end questions about the store's canonical
chain, and that is why the store is modelled first.

### The hard behaviours

- **Reorg reconciliation.** This is a stored procedure: branch walk,
  orphaning, relinking, and refusal below the tip.
- **Concurrency inside one process:**
  - goroutine stages joined by unbuffered channels (initial sync, validator,
    `getTxs`);
  - the live walk racing the block writer;
  - the repair requeue goroutines racing the in-order checker;
  - one `handleOrphans` goroutine per POST, with no lock.
- **Concurrency between processes:** the indexer, the validator, the tx
  validator and the monitor all write the same store.
- **Lost messages:** the ZMQ SUB socket drops messages, and only its
  receive timeout resynchronises.
- **Restart:** exits through `log.Fatal`, with resumption from persisted
  cursors.

### Properties per component

| Component | Property | Status |
|---|---|---|
| Store | one canonical chain, linked by `next_block_hash` (`CanonicalChainLinked`) | checked |
| Store | refines the abstract canonical chain (`ImplementsCanonicalChain`) | checked |
| Initial sync | no fatal refused insert (`NoFatalInitialInsert`) | checked |
| Initial sync | every height up to the last end height is stored on return (`AllHeightsWritten`) | checked |
| Initial sync | returns (`InitialSyncReturns`) | checked |
| Indexer | eventual convergence to the node's chain after the initial sync (`EventuallyConverged`) | checked |
| Live sync | no fatal refused insert (`NoFatalInsert`) | violated |
| Validator | a finished run has passed every height it covers to `blockValidated` once (`FinishedMeansAllCounted`) | checked |
| Validator | runs end (`RunTerminates`) | checked (fixed tip) |
| Validator | cursor monotone (`CursorMonotone`) | checked |
| Validator | cursor is a safe resume point (`CursorResumeSafe`) | violated |
| Validator on the store | every height of a run is stored when read (`RunHeightsStored`) | violated |
| Monitor | `orphanCount` never regresses (`OrphanCountMonotone`) | violated |
| Mempool and tx validator | a dropped pending transaction is eventually deleted (`DroppedDeletedOnceRunsComplete`) | checked |
| Mempool and tx validator | only dropped transactions are deleted (`OnlyDroppedDeleted`) | violated |
| Tx validator | the tx cursor only moves over rows a run examined (`TxCursorAdvancesOverChecked`) | violated |
| Insight `getTxs` | no send on a closed channel (`NoPanic`) | checked |
| Insight `getTxs` | success means every transaction is complete (`SuccessMeansComplete`) | checked |
| Insight `getTxs` | every call returns (`RequestReturns`) | checked |
| Insight `getTxs` | its goroutines exit once it returns (`GoroutinesExit`) | violated |

## 2. Modules

### `BlockStore.tla`: the block table and `block_insert`

The node's blocks form a fixed tree, `Parent` (`PrevHash`). `Height` and
`ChainOf` are recursive operators tabulated once over the tree
(`HeightTable`, `ChainTable`), because TLC evaluates them in every state of
every module that instantiates the store. The store has three variables:
- `stored` (rows);
- `canonical` (rows with `is_orphaned = FALSE`);
- `nextHash` (`next_block_hash`).

`LastBlock` and `TipHeight` are `Database.LastBlock`. `InsertBlock` is
`Database.InsertBlock`, whose whole effect is the stored procedure
`_SCHEMA_.block_insert`.

That procedure's SQL is not in the repository. `block_insert` is written
from spec.md 4.2 and checked by hand against every scenario in
`postgres_integration_test.go` and `indexer_integration_test.go`:
- **Branch walk.** Walk back from the block through stored orphaned rows
  (`BranchRoot`).
- **Connected.** If the root's parent is canonical (`Connected`), orphan
  the canonical rows from the root's height up, make the branch canonical
  and relink `next_block_hash`.
- **Disconnected.** Otherwise, orphan the canonical rows from the root's
  parent height up and store the block as an orphan, to be completed when
  the gap is backfilled.
- **Refused.** Without `recover`, a block below the tip that is not
  canonical is refused (`Rejected`).

These definitions are marked `spec_modelled` in the map. `retry.Simple`
adds nothing here: a refused insert changes nothing, so a retry with no
other writer in between is refused again.

`MCBlockStore` checks `StoreNext` on a tree with three branches. Every
block is inserted, in every order, with and without `recover`.

### `CanonicalChain.tla`: what the store promises

The abstract specification has two variables: `rows`, the blocks ever
written, and `tip`, the last canonical block. An insert of `b` adds `b`'s
row and then does one of three things:
- `Adopt`: `b`'s whole chain is stored and `b` becomes the tip;
- `Rewrite`: `b` is already on the canonical chain and nothing else
  changes;
- `RecordOrphan`: `b`'s chain has a gap, and the tip moves to a block of
  the current canonical chain (it may move down).

`BlockStore` refines it with `rows <- stored` and `tip <- LastBlock`
(`Abstract == INSTANCE CanonicalChain WITH ...`). The `blockstore_chain`
run checks `Abstract!Spec` as the property `ImplementsCanonicalChain`.
A refused insert is a stuttering step.

### `LiveSync.tla`: `staySynced` against a reorganising node

It instantiates `BlockStore` for the store and runs four processes against
a node whose tip moves to any block off its chain that is no lower
(`NodeMove`, the environment, at most `MaxNodeMoves` times):

- **ZMQ.** `ZmqReceive` is `listen` receiving a `hashblock` message plus
  the `Start` goroutine that forwards it on `blockHashChan`.
  `NodeMove` may drop a message, as a SUB socket does. `ZmqTimeout` is the
  receive timeout set by `Connect`: `listen` reconnects and sends a
  wake-up itself.
- **`syncToTip`**, one goroutine, with a program counter `pc`. Its steps:
  - `SyncReceive`: a wake-up arrives and `GetChainInfo` is read.
  - `SyncLastBlock`: `LastBlock` is read and the loop starts.
  - `SyncFetch`: `GetBlocks([]int{i})`.
  - `SyncSend`: the unbuffered send on `blockChan`, which completes only
    when `writeBlock` takes the block.
- **`writeBlock`.** `WriteBlock` is `InsertBlock(block, false)`; a refused
  insert is `log.Fatal` (`crashed`).

`LocalInit` is the state `staySynced` creates: empty channels, no queued
message. Transactions are left to `PendingTxs`.

### `InitialSync.tla`: the `--sync` pipeline

It instantiates `BlockStore`. `Init` is a store synced by an earlier run
to any block (`SyncedTo`) and a node on any block, so a sync may start
behind, ahead of, or on another branch than the node. `NodeMove` lets the
node's tip grow or reorganise. The processes are:
- `processBlockHeights`, one loop iteration per step. On the final
  batches it re-reads `endBlock` from the node. A batch is handed over
  only while a worker is free (`Workers`). `closeHeights` is the loop's
  end.
- `getBlocks`, one step per `GetBlocks` call, returning the node's
  blocks at those heights at that moment.
- `orderBlock`: `orderReceive` takes a batch only while no buffered block
  has height `nextBlock`; `orderEmit` sends that block.
- `writeBlock`: `InsertBlock(block, false)`; a refused insert is
  `log.Fatal`.

`Finished` is the state in which `initialSync`'s WaitGroups are done and it
returns.

### `Indexer.tla`: the indexer process

It composes `InitialSync` and `LiveSync` by `INSTANCE`, sharing the store,
the node and the exit flag `crashed`; each keeps its goroutines' variables
(renamed `si`, `sfetched`, `sInFlight` and `li`, `lfetched`, `lInFlight`).
A variable `phase` says which goroutines exist:
- `InInitial(A)` is a step of the initial sync while `phase = "initial"`,
  `InLive(A)` a step of live sync while `phase = "live"`;
- `StartLive` is `main` after `initialSync` returns: `mq.Connect`, which may
  fail (`log.Fatal`), then `staySynced`.

The ZMQ subscription exists only from `StartLive` on, so node moves before
it publish nothing anyone receives; live sync must catch up from
`LastBlock` on its first wake-up. `Init` requires the node's tip to be at
least as high as the store's, because the store was filled from this node
and `NodeMove` never lowers the node (see the hazard at `main.go:403`).

### `BlockValidator.tla`: the validator, run after run

Every stage is an action:
- `getBlock`, with at most `RpcThreads` heights held;
- `readBlock`, with at most `DbThreads`;
- `orderReceive` (the map of `orderResults`);
- `checkResult`, which emits `nextBlock` in order and queues a differing
  block for repair;
- `repairBlock`, the insert, which on failure is requeued by a goroutine;
- `repairDone`, the waiter after the tx workers, which on failure is
  requeued and otherwise calls `blockValidated`. The re-insert fixes its
  height only through a canonical parent (`RepairLands`): while the
  height below still differs, the node's block may be stored orphaned
  (`TestDatabase_ReorgSkipBlock`), and the height keeps differing although
  it is counted. Repairs land in any order, so a run can finish with a
  height still wrong; `validator_reorg` shows the consequence on the real
  store.

`blockValidated` is translated line by line:
- the cursor guard with `revalidateOffset`;
- `startBlock + blocksValidated`;
- the count;
- `close(doneChan)` at `totalBlocks`.

The run-level actions are:
- `Crash`: any `log.Fatal`, or the job being stopped, ends the run and
  loses its memory.
- `StartRun`: a new run starts from the persisted cursor.

The store is abstracted to `mismatch`, the heights whose block or
transactions differ from the node, and the tip is fixed. This keeps the
pipeline and cursor logic small enough to check with failures and
restarts.

### `ValidatorReorg.tla`: the validator against the real store

The same pipeline, without transactions and repair failures, over
`BlockStore`:
- `getBlock` fetches the node's block at a height as the node is at that
  moment;
- `readReceive` and `readBlock` are `readBlock`'s receive and its
  `GetBlock(height)`, which reads the canonical row at that height
  (`RowsAt`, `CanonicalAt`); with no such row `GetBlock` returns an error
  and the only step left is `Crash`;
- `checkResult` compares the node block with the row;
- `repairBlock` is `InsertBlock(nodeBlock, true)`, which may move the tip
  down;
- `StartRun` computes `totalBlocks = LastBlock.Height - validatedBlock + 1`:
  a negative value panics in `make` and a zero leaves the run waiting on
  `doneChan` forever.

`Init` is a store synced to any block and a node at least as high, so the
store may be on a branch the node has left.

### `Monitor.tla`: `handleOrphans` against the live indexer

It instantiates `BlockStore`. `writeBlock` is a live insert at or just
above the tip, as `syncToTip` sends them. It hands the block's
transactions to the `writeTx` workers (at most `DbThreads` in flight) and
starts a `handleOrphans` goroutine, as the `newBlock` POST does. Each
goroutine (`handler[n]`, with a program counter) takes one step per
database call:
- `handleGet` reads `orphanCount`;
- `handleCount` counts orphaned rows and goes on only if the count grew;
- `handleDelete` runs `DeleteOrphans`;
- `handleSet` stores the count.

Each call may fail: the error is logged and the goroutine returns.
`hasTxs` is the set of blocks whose transaction rows are stored.
`block_insert` may walk back over orphaned rows below an insert and make
them canonical again; the regression in `monitor_regress` needs that.

### `PendingTxs.tla`: pending transactions, indexer and tx validator

The node's transactions arrive in the mempool, and are mined or dropped
(`TxArrive`, `MineBlock`, `TxDrop`). Each announces a `hashtx`, which the
SUB socket may lose. `MineBlock(S)` mines a block holding the mempool
subset `S` (empty or one transaction) and its coinbase; `blocks` is the
node's chain, at most `MaxBlocks` long, and `window` is the first block
whose mined time is at least `numDays` old, which `Tick` moves forward as
time passes. `GetMempool` and `GetRawTransactions` are the node's RPC
answers. Every row gets an id from the table's sequence when it is first
inserted (`ids`, `nextId`, at most `MaxIds`). The indexer's side:
- `processMempool` queues the whole mempool;
- `getMempoolTxs` fetches one transaction and requeues a failure until
  `MaxFails`, then drops it;
- `writeTx` and `writeBlockTx` upsert the row (`transaction_insert`);
- `writeCoinbase(k)` inserts block `k`'s coinbase row; the block's
  transactions go to the `DbThreads` writers, so coinbase rows of
  successive blocks may get ids in either order;
- `writeTxFatal` is the `log.Fatal` of a failed insert.

The tx validator runs one run at a time. `StartRun` begins a run, then:
- `SampleMempool` happens `Samples` times; `SampleFatal` is a failed
  `GetMempool`;
- `ClassifyPending` reads the cursor (`ReadCursor`: `Get` of
  `validatedTransaction`, or 0 when that fails), takes the pending rows
  with an id at or above it (`GetPendingTxs`), and marks those absent
  from the samples (`buildMempool`) as invalid; `examined` is the set it
  read. `PendingTxsFailed` is a failed `GetPendingTxs`, which the code
  only logs;
- `DeleteInvalidTxs` or `DeleteFailed` handles each invalid id;
- `FinishRun` ends the run: `GetTxAtBlockTime` returns the lowest row id
  of block `window` (its coinbase or a mined transaction), and
  `SetValidatedTransaction` stores it as the new cursor, or fails
  silently. With no such row the query errors and the cursor is kept.

The SQL of `transaction_insert` and `delete_invalid_txs` is not in the
repository, so `Init` and the two procedures are `spec_modelled`:
- an upsert sets `block_id` from the call, as spec.md 4.2 states; since
  `hashtx` also announces every transaction of a connected block, a
  pending write landing after the block's write makes the mined row
  pending again (`InsertTx` is the Go wrapper that calls it);
- a delete removes the row by id.

### `InsightTxs.tla`: `getTxs` of the insight API

`getTxs` (`pkg/api/insight/helpers.go`) answers the transaction endpoints.
Each goroutine has a program counter:
- the caller (`mainPc`): `LastBlock`, then it ranges over `errChan`
  (`RangeReceive` returns the first error, `RangeClosed` succeeds);
- the waiter (`waiterPc`): `SpawnTxs`, then `txwg.Wait` and
  `close(errChan)` (`CloseErrChan`);
- one goroutine per txid (`txPc`): `GetTxByTxID` fails (`TxSendErr`) or
  starts one goroutine per input and output, then collects their values
  (`Collect`) until it has `len(Inputs)+len(Outputs)` (`FinishTx`);
- one goroutine per input and output (`procPc`): `ProcessTxInput` and
  `ProcessTxOutput` read the store and convert addresses, any of which
  may fail (`ProcSendErr`).

`errChan` is buffered with capacity `2*len(txids)` (`ErrCap`); a send on a
full buffer blocks. The data (heights, values, addresses) is abstracted
away: only which goroutine has sent what matters.

`TypeOK` is kept as documentation of the state but not checked: each of
its bounds is the guard of the action that moves it (the `errChan`
buffer, the collect count), so no code fault breaks it.

## 3. Runs

| Run | Checks | Result |
|---|---|---|
| `blockstore_chain` | `StoreTypeOK`, `CanonicalChainLinked`, `ImplementsCanonicalChain` | pass, 765 states |
| `indexer` | `TypeOK`, `NoFatalInitialInsert`, `AllHeightsWritten`, `InitialSyncReturns`, `EventuallyConverged` | pass, 74,036 states, about 55 s |
| `livesync_fatal` | `NoFatalInsert` | violated, 21-state trace |
| `validator_runs` | `TypeOK`, `FinishedMeansAllCounted`, `RunTerminates`, `CursorMonotone` | pass, 72,276 states |
| `validator_cursor` | `CursorResumeSafe` | violated, 13-state trace |
| `validator_reorg` | `RunHeightsStored` | violated, 16-state trace |
| `monitor_regress` | `OrphanCountMonotone` | violated, 15-state trace |
| `pendingtxs` | `TypeOK`, `DroppedDeletedOnceRunsComplete` | pass, 247,444 states, about 60 s |
| `pendingtxs_delete` | `OnlyDroppedDeleted` | violated, 9-state trace |
| `pendingtxs_cursor` | `TxCursorAdvancesOverChecked` | violated, 10-state trace |
| `insight_txs` | `NoPanic`, `SuccessMeansComplete`, `RequestReturns` | pass, 36,828 states |
| `insight_leak` | `GoroutinesExit` | violated, 15-state trace |

**`blockstore_chain`.** Whatever blocks are inserted in whatever order, the
store keeps one canonical chain linked by `next_block_hash`, and each
insert is a step of `CanonicalChain`.

**`indexer`.** Whatever the node does during the initial sync, blocks
reach `writeBlock` in ascending, gap-free order from the store's tip
height: no insert is refused, and the sync returns with every height
stored. Then live sync catches up with blocks mined before `Connect`, and
the canonical chain converges to the node's once the node stops moving,
through lost messages, unless `Connect` failed.

**`livesync_fatal`.** A walk hands A2 to `writeBlock` while the store's tip
is still A1. Then:
1. The node reorganises to the branch B1-B2, and a wake-up arrives.
2. `syncToTip` reads `GetChainInfo` (2) and `LastBlock` (height 1, stale),
   and fetches B1.
3. `writeBlock` inserts A2; the tip is now at height 2.
4. B1 reaches `writeBlock`. It is at height 1, below the tip, and not
   canonical, so `block_insert` refuses it and `log.Fatal` ends the
   indexer (`cmd/indexer/main.go:456`).

spec.md 7 says a refused insert is not a process crash, so this is
recorded as a finding. The live indexer depends on a restart to recover.

**`validator_runs`.** With the tip fixed, failed repairs requeued and
runs restarted from the cursor, a run ends only once every height it
covers has been validated or successfully repaired (the count of
`blockValidated` calls matches the set of heights, requeues included),
runs end, and the cursor never moves back. Whether a counted repair
really fixed its height depends on repair order; that is not claimed.

**`validator_cursor`.** Height 0 differs and is queued for repair. Heights 1
and 2 match and are validated. Each call to `blockValidated` writes
`startBlock + blocksValidated`, so after two calls the cursor is 1 while
height 0 is still being repaired. An exit then restarts from 1 and never
checks height 0 again. The comment on `orderResults` says that ordering
makes crash-resumption safe, so this is a finding. The property's second
half, `CursorWithinOffset`, breaks on its own too: the cursor reaches
`tip - revalidateOffset + 1`, one past the margin spec.md 4.3 and 8 state.

**`validator_reorg`.** The store is on A3 and the node on B3 (B2 forks from
A1). The run reads heights 0 to 3. Height 2 differs, and its repair inserts
B2 with `recover = true`, which makes G-A1-B2 canonical. B3, already
fetched, then reaches `readBlock`, and there is no canonical row at height 3:
`GetBlock` errors and `log.Fatal` ends the validator
(`cmd/blockvalidator/main.go:212`). `readBlock`'s comment says a block
missing from the database is repaired. The same property breaks in
another way (21 states) when B3's repair, completing before B2's, leaves
only G-A1 canonical while the cursor has moved to 2. After an exit the
next run gets `totalBlocks = 0`: no height is queued and `doneChan` is
never closed. One height lower, `make` panics on a negative size
(`main.go:182`).

**`monitor_regress`.** One goroutine counts 3 orphans and sets
`orphanCount` to 3. Another goroutine read 0 before that Set. It then
counts 2, because an insert that filled a gap made an orphan canonical
again. Since 2 > 0, it deletes and sets 2 (`cmd/monitor/main.go:182`).
spec.md says the count is updated monotonically, so this is a code bug: a
lost update. The next goroutine compares against the lowered value.

**`pendingtxs`.** A dropped transaction stored as pending is eventually
deleted, even when a fetch made before the drop writes it back after a
deletion, provided runs stop dying in `GetMempool`.

**`pendingtxs_delete`.** A validator run samples the mempool twice. A
transaction then arrives and the indexer stores it as pending. The run
classifies it invalid, because it is in no sample, and deletes it while
it is still in the mempool. The same property also breaks when a
transaction is mined and tied to its block between classification and
deletion, because the delete is by id, or when a late mempool write makes
a mined row pending again (TLC prints one of these paths; they are all
violations). spec.md 3 says only transactions
that permanently disappear are deleted.

**`pendingtxs_cursor`.** t1 arrives and an empty block is mined. The
indexer stores t1 as pending with id 1, then the block's coinbase with
id 2. A run's `GetPendingTxs` fails; the code logs a warning and goes on
(`cmd/txvalidator/main.go:109`), so `FinishRun` moves the cursor from 0
to 2. t1, pending and never examined, is now below the cursor, and no
later run reads it: if the node drops it, it is never deleted. The same
property breaks with no failure at all (14 states): the coinbase rows of
blocks 1 and 2 are written by different `writeTx` workers and get ids 2
and 1, so once `window` moves to block 2 the cursor goes back from 2 to
1 (`cmd/indexer/main.go:480`). The cursor's purpose, per spec.md, is to
skip rows already validated, so this is a divergence.

**`insight_txs`.** With every store read and address conversion able to
fail, no goroutine sends on a closed channel (the waiter closes
`errChan` only after every transaction goroutine has returned, and each
closes its own `inputsChan`/`outputsChan` only after its senders are
done), `getTxs` returns success only with every transaction filled, and
every call returns.

**`insight_leak`.** `processTxInput` sends its error and returns without
sending its input (`helpers.go:150`), but its transaction goroutine waits
for `len(Inputs)+len(Outputs)` values. After `getTxs` has returned the
first error, that goroutine and the waiter in `txwg.Wait` never exit: two
goroutines leak on every such request.

Each property of a passing run has a fault variant in `PROJECT.json` that
TLC catches. A fault variant is an operator defined just before the
definition it replaces, for example:
- the live walk starting above the stored tip;
- the branch taken from above its root;
- a failed transaction repair counted as well as requeued;
- `errChan` closed before the transaction goroutines return.

### Bounds

- **`MCBlockStore`**: 8 blocks on three branches, with same-height forks
  at heights 1 and 2, a fork at the start block and a branch three blocks
  long. Every test scenario needs at most this many.
- **`MCIndexer`**: 6 blocks (A1-A2-A3, and B2-B3 from A1), `Batch = 2`, two
  `getBlocks` workers and `MaxNodeMoves = 2` over both phases. The store
  and node start on any pair with the node at least as high. That gives
  batches completing out of order, an end height that grows during the
  sync, a two-block reorg during either phase or between them, and two
  moves sharing one wake-up or losing their message. Three moves took
  over 15 minutes without adding a path the properties distinguish.
- **`MCLiveSync`**: 6 blocks and `MaxNodeMoves = 2`. The violation needs
  two moves.
- **`MCBlockValidator`**: heights 0-3 with `Offset = 2`, two RPC workers
  and one DB worker, at most two failed repairs (the store recovers, as
  spec.md 4.3 requires for convergence) and two runs. That gives
  out-of-order fetches, a repair overtaken by later validations, a requeue
  of each kind, and a restart from a moved cursor.
- **`MCValidatorReorg`**: `MCIndexer`'s tree, so a repair can connect to a
  stored block (B2) or have a missing parent (B3); heights 0-3, `Offset =
  2`, the same workers, one node move and two runs.
- **`MCMonitor`**: 5 blocks on two branches. The regression needs four
  inserts and two `writeTx` workers.
- **`MCPendingTxs`**: one transaction, one retry and one sample per run (two in the delete run).
  A single transaction already goes through every path. Two blocks and
  three row ids let a coinbase and a transaction row take ids on either
  side of the cursor; the cursor run uses four ids so both coinbases and
  the transaction get one. The liveness check with two transactions took
  minutes without adding a path.
- **`MCInsightTxs`**: two transactions, one with two inputs and an output,
  one with an input and two outputs. That is six processing goroutines, a
  transaction whose inputs outnumber its outputs and the reverse, and an
  `errChan` that can fill.

### Fairness

Runnable goroutines are eventually scheduled, and every RPC and DB call
carries a deadline, so goroutine steps are weakly fair.

In `Indexer`, the fairness is grouped per phase: `WF` of "some initial-sync
goroutine steps", of `StartLive`, and of "some live-sync goroutine steps".
This is weaker than fairness per goroutine, which Go's scheduler gives,
so a pass under it is a stronger result; it also keeps the liveness check
under a minute. `ZmqTimeout` is among the live steps because the SUB
socket's receive timeout fires whenever no message arrives. Without it,
`EventuallyConverged` fails: a dropped last message leaves the store
behind forever.

In `PendingTxs`:
- the validator is started again after each run, because it is
  deployed as a periodic job, so `StartRun` is weakly fair;
- `SampleMempool`, `ClassifyPending` and each `DeleteInvalidTxs` are
  strongly fair, because the failures they race are transient;
- a run may still die in `GetMempool` forever, so the liveness property
  assumes `FatalFinitelyOften`: from some point on no run dies there.

In `InsightTxs`, every goroutine action is weakly fair, per transaction
and per input or output.

The node, process exits and new validator runs have no fairness: nothing
forces the chain to move, a crash or a new run to happen.

`CHECK_DEADLOCK FALSE` appears where the system really stops:
- the indexer has exited through `log.Fatal` and the node has stopped
  moving, or it is synced and waits for the next block;
- the validator is a batch job that exits after its last run;
- the monitor has handled every POST of a bounded number of inserts;
- `getTxs` has returned and its goroutines have exited or leaked.

## 4. Plan

Steps 1, 2, 4-8 are done.

1. **Done.** `BlockStore`, and `LiveSync` composed with it.
2. **Done.** `BlockValidator`.
3. **Partly done** (`ValidatorReorg`). The validator against the real
   store. Still open: `LiveSync` and the validator over one `BlockStore`,
   for a stale repair orphaning the live indexer's newer chain
   (`main.go:318`).
4. **Done.** `InitialSync`, and `Indexer` composing it with `LiveSync`.
5. **Done** (in `PendingTxs`). `writeTx`, the mempool loop with its requeue
   bound, and `transaction_insert`.
6. **Done** (in `PendingTxs`). The tx validator composed with it.
7. **Done.** `Monitor`.
8. **Done.** `CanonicalChain`, refined by `BlockStore`.

## 5. What the model abstracts

- Blocks are model values in a fixed tree: hashes, headers and transactions
  are not represented. `BlockValidator`'s store is the set of differing
  heights.
- RPC batching, JSON encoding, SQL text, logging and metrics are left out.
  `GetBlocks` is two RPC batches (hashes by height, then blocks by hash);
  a block fetched by hash is the block that hash named, so the pair reads
  the node as it was at the first batch, which is what `BlockAt` returns.
- `retry.Simple` is folded into one attempt: with a single writer, a retry
  of a refused or failed insert sees the same state. `retry.Backoff`
  around RPC calls is folded into the call's success or `log.Fatal`.

## 6. Not modelled

- **The other API handlers, etherscan, xpub derivation, script parsing and
  conversion helpers.** The handlers other than `getTxs` parse a request,
  make one store read or node call and format a response, with no shared
  state. `TraditionalPagintion` passes a negative `to` or `from` through
  to `LIMIT`/`OFFSET` (Postgres then errors, so the client gets a 500
  instead of a 422); it is a pure function outside spec.md's scope and
  no run is spent on it. The rest is encoding.
- **`retry.Backoff`'s arithmetic.** `rand.Int63n(sleep)` panics when the
  configured `sleep` is 0 (`sleep` is `omitempty` in the config), and the
  doubled sleep grows without bound; both depend on configuration, not on
  interleavings.
- **The Ethereum client, the utilities and the V1 and blockbuster tools.**
  None of them is on the ingestion path.
- **Configuration and logging.** They do no work after start.
- **Orphaned blocks in `GetTxAtBlockTime`.** The query does not filter
  `is_orphaned`; `PendingTxs`'s node never reorganises, so the cursor is
  only taken from canonical blocks. Reorgs are checked in `LiveSync` and
  `Monitor`.
- **The monitor's `compareHeights`.** It only logs.
- **Eventual orphan cleanup.** `Monitor` has every path that leaves
  orphaned transactions behind, but spec.md promises no eventual cleanup,
  so no run asks for it.
- **A canonical block losing its transactions in `Monitor`.** When an
  insert revives orphaned blocks, `DeleteOrphans` may already have removed
  their transactions, and only the inserted block's are written again.
  This needs a hypothesis about `block_insert`'s SQL, which is not in the
  repository, so no run rests on it.
- **A lost `newBlock` POST.** The indexer's monitor client has no retry
  and its error is ignored (`go CallRest`); a lost POST only delays orphan
  cleanup until the next block.
- **A node reorganising to a lower tip.** Bitcoin's most-work rule allows
  it, rarely. The live walk starts from `LastBlock`'s height, so the store
  stays on the abandoned higher branch until the node passes it again;
  with a node that never moves again, `EventuallyConverged` would fail.
- **`zmq.go:118`.** `listen` may close `doneChan` twice, but only
  `main.go:267` closes it, and `log.Fatal` follows.
- **The `syncToTip` nil block at `main.go:403`.** It is unreachable:
  the initial sync always writes height 0 into an empty store before live
  sync starts.

Coverage of the implementation's lines stays below a third: most unmapped
lines are the API's read queries and handlers (pure reads and
formatting, with pagination the only arithmetic), the RPC transport and
its retry, the
Ethereum client, configuration, logging, test doubles and the V1 tools,
none of which changes shared state.
