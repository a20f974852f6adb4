------------------------------ MODULE PendingTxs ------------------------------
(***************************************************************************)
(* Pending (unconfirmed) transactions: how the live indexer stores them    *)
(* (src/V2/cmd/indexer/main.go: processMempool, getMempoolTxs, writeTx)    *)
(* and how the transaction validator (src/V2/cmd/txvalidator/main.go)      *)
(* deletes the ones that left the node's mempool without being mined.      *)
(*                                                                         *)
(* A transaction row is "none", "pending" (block_id NULL) or "mined".     *)
(* Mined transactions reach writeTx through writeBlock with the block id;  *)
(* which block is left to the block modules.  The validator is a          *)
(* single-shot tool started again and again.  Rows carry the serial id    *)
(* the table assigns on insert; a run examines the pending rows at or      *)
(* above its validatedTransaction cursor and, at the end, sets the cursor  *)
(* to the first transaction id of the first block mined in the last       *)
(* numDays days (GetTxAtBlockTime).  Mined blocks form a sequence, each   *)
(* with a coinbase row of its own; `window` is the first block whose       *)
(* mined_time is within those days, and time passing moves it on.         *)
(***************************************************************************)
EXTENDS Integers, FiniteSets, Sequences

CONSTANTS
  Txs,        \* transaction ids the node may see
  MaxFails,   \* getMempoolTxs requeues a failed fetch while Fails < MaxFails (10)
  Samples,    \* mempoolReqs: GetMempool calls unioned by a validator run (15)
  MaxBlocks,  \* bound on the blocks the node mines
  MaxIds      \* bound on the transaction table's id sequence

VARIABLES
  nodePool,     \* the node's mempool
  nodeMined,    \* transactions the node has mined
  nodeDropped,  \* transactions the node evicted or saw double-spent
  indexerUp,    \* the indexer has not exited through errChan
  mq,           \* mempoolTxChan: MempoolTx records, with retry goroutines
  results,      \* pending transactions fetched and not yet inserted
  blockTxs,     \* mined transactions writeBlock handed to writeTx
  cbQ,          \* blocks whose coinbase writeBlock handed to writeTx
  blocks,       \* blocks[k]: the transactions mined in the k-th block
  window,       \* the first block mined within the last numDays days
  rows,         \* rows[t]: the transaction table
  ids,          \* ids[t]: the row's serial id (0: no row)
  cbId,         \* cbId[k]: the id of block k's coinbase row (0: no row)
  nextId,       \* the id sequence's next value
  cursor,       \* metadata validatedTransaction
  vpc,          \* the validator run's step
  mempool,      \* the validator's union of GetMempool samples
  sampled,      \* GetMempool calls done by this run
  from,         \* the cursor value this run read
  examined,     \* the pending rows GetPendingTxs returned to this run
  invalid       \* ids queued for DeleteInvalidTxs and not yet processed

nodeVars == <<nodePool, nodeMined, nodeDropped, blocks, window>>
indexerVars == <<indexerUp, mq, results, blockTxs, cbQ>>
tableVars == <<rows, ids, cbId, nextId, cursor>>
validatorVars == <<vpc, mempool, sampled, from, examined, invalid>>
vars == <<nodeVars, indexerVars, tableVars, validatorVars>>

MempoolTx == [hash : Txs, fails : 0..MaxFails]

Init ==
  /\ nodePool = {} /\ nodeMined = {} /\ nodeDropped = {}
  /\ blocks = <<>> /\ window = 1
  /\ indexerUp = TRUE
  /\ mq = {} /\ results = {} /\ blockTxs = {} /\ cbQ = {}
  /\ rows = [t \in Txs |-> "none"] /\ ids = [t \in Txs |-> 0]
  /\ cbId = [k \in 1..MaxBlocks |-> 0] /\ nextId = 1
  /\ cursor = 0
  /\ vpc = "idle" /\ mempool = {} /\ sampled = 0 /\ from = 0
  /\ examined = {} /\ invalid = {}

(***************************************************************************)
(* The node.  A transaction enters the mempool once, and leaves it mined   *)
(* or dropped.  On entry ZMQ publishes hashtx, which Start forwards as a   *)
(* MempoolTx with Fails 0, unless the message is lost.                     *)
(***************************************************************************)
TxArrive(t) ==
  /\ t \notin nodePool \cup nodeMined \cup nodeDropped
  /\ nodePool' = nodePool \cup {t}
  /\ \/ mq' = mq \cup {[hash |-> t, fails |-> 0]}
     \/ UNCHANGED mq
  /\ UNCHANGED <<nodeMined, nodeDropped, blocks, window, indexerUp, results,
                 blockTxs, cbQ, tableVars, validatorVars>>

\* The node mines a block holding S (a coinbase and at most one mempool
\* transaction); the live indexer's writeBlock inserts it and sends its
\* coinbase and transactions to writeTx with the block's id, and ZMQ
\* announces the mined transactions again with hashtx.
MineBlock(S) ==
  /\ Len(blocks) < MaxBlocks
  /\ S \subseteq nodePool
  /\ blocks' = Append(blocks, S)
  /\ nodePool' = nodePool \ S
  /\ nodeMined' = nodeMined \cup S
  /\ blockTxs' = blockTxs \cup S
  /\ cbQ' = cbQ \cup {Len(blocks) + 1}
  /\ \/ mq' = mq \cup {[hash |-> t, fails |-> 0] : t \in S}
     \/ UNCHANGED mq
  /\ UNCHANGED <<nodeDropped, window, indexerUp, results, tableVars,
                 validatorVars>>

TxDrop(t) ==
  /\ t \in nodePool
  /\ nodePool' = nodePool \ {t}
  /\ nodeDropped' = nodeDropped \cup {t}
  /\ UNCHANGED <<nodeMined, blocks, window, indexerVars, tableVars,
                 validatorVars>>

\* Time passes: the oldest block still within numDays days leaves them.
Tick ==
  /\ window <= Len(blocks)
  /\ window' = window + 1
  /\ UNCHANGED <<nodePool, nodeMined, nodeDropped, blocks, indexerVars,
                 tableVars, validatorVars>>

(***************************************************************************)
(* The node's RPC answers (pkg/blockchain/utxo).                           *)
(***************************************************************************)
\* GetMempool: getrawmempool, the ids in the node's mempool.
GetMempool == nodePool

\* GetRawTransactions([t]): getrawtransaction answers for a transaction in
\* the mempool or mined, and errors for one the node dropped.
GetRawTransactions(t) == t \in nodePool \cup nodeMined

(***************************************************************************)
(* The indexer.                                                            *)
(***************************************************************************)
\* processMempool on a signal (start of staySynced, ZMQ reconnect):
\* GetMempool, then every id queued with Fails 0; an error goes to errChan
\* and the indexer exits.
processMempool ==
  /\ indexerUp
  /\ \/ mq' = mq \cup {[hash |-> t, fails |-> 0] : t \in GetMempool}
        /\ UNCHANGED indexerUp
     \/ indexerUp' = FALSE /\ UNCHANGED mq
  /\ UNCHANGED <<nodeVars, results, blockTxs, cbQ, tableVars, validatorVars>>

\* getMempoolTxs: GetRawTransactions([hash]).  getrawtransaction answers
\* for mempool and mined transactions; it fails for a dropped one, and any
\* call may fail.  A failure is requeued with Fails+1 while Fails < 10,
\* then dropped with a warning.
\* Fault: a failed fetch is requeued while Fails <= 10.
getMempoolTxsRetryPastBound(m) ==
  /\ indexerUp
  /\ m \in mq
  /\ \/ /\ GetRawTransactions(m.hash)
        /\ results' = results \cup {m.hash}
        /\ mq' = mq \ {m}
     \/ /\ m.fails <= MaxFails
        /\ mq' = (mq \ {m}) \cup {[m EXCEPT !.fails = m.fails + 1]}
        /\ UNCHANGED results
     \/ /\ m.fails > MaxFails
        /\ mq' = mq \ {m}
        /\ UNCHANGED results
  /\ UNCHANGED <<nodeVars, indexerUp, blockTxs, cbQ, tableVars, validatorVars>>

getMempoolTxs(m) ==
  /\ indexerUp
  /\ m \in mq
  /\ \/ /\ GetRawTransactions(m.hash)
        /\ results' = results \cup {m.hash}
        /\ mq' = mq \ {m}
     \/ /\ m.fails < MaxFails
        /\ mq' = (mq \ {m}) \cup {[m EXCEPT !.fails = m.fails + 1]}
        /\ UNCHANGED results
     \/ /\ m.fails >= MaxFails
        /\ mq' = mq \ {m}
        /\ UNCHANGED results
  /\ UNCHANGED <<nodeVars, indexerUp, blockTxs, cbQ, tableVars, validatorVars>>

(***************************************************************************)
(* _SCHEMA_.transaction_insert(blockId, tx, hex, index): upserts the row   *)
(* tied to blockId, NULL (-1) for a pending transaction (spec.md 4.2).  A  *)
(* new row takes the next serial id; an upsert keeps the row's id.  The    *)
(* procedure's SQL is not in the repository; spec.md states a plain upsert *)
(* of block_id, so a pending write landing after its block's write makes   *)
(* the mined row pending again (hashtx also announces every transaction    *)
(* of a connected block).                                                  *)
(***************************************************************************)
NewRow(t) == ids[t] = 0

\* The id sequence is bounded: an insert of a new row needs an id left.
IdLeft(t) == ~NewRow(t) \/ nextId <= MaxIds

transaction_insert(t, mined) ==
  /\ rows' = [rows EXCEPT ![t] = IF mined THEN "mined" ELSE "pending"]
  /\ ids' = [ids EXCEPT ![t] = IF NewRow(t) THEN nextId ELSE @]
  /\ nextId' = IF NewRow(t) THEN nextId + 1 ELSE nextId

\* Database.InsertTx: marshals the transaction and calls the procedure.
InsertTx(t, mined) == transaction_insert(t, mined)

\* writeTx for a mempool result: InsertTx(tx, -1, -1); fatal on error.
writeTx(t) ==
  /\ indexerUp
  /\ t \in results
  /\ IdLeft(t)
  /\ InsertTx(t, FALSE)
  /\ results' = results \ {t}
  /\ UNCHANGED <<nodeVars, indexerUp, mq, blockTxs, cbQ, cbId, cursor,
                 validatorVars>>

\* InsertTx failed after retry.Simple's attempts: log.Fatal ends the indexer.
writeTxFatal ==
  /\ indexerUp
  /\ results \cup blockTxs \cup cbQ # {}
  /\ indexerUp' = FALSE
  /\ UNCHANGED <<nodeVars, mq, results, blockTxs, cbQ, tableVars,
                 validatorVars>>

\* writeTx for a block's transaction: InsertTx(tx, i, blockId).
writeBlockTx(t) ==
  /\ indexerUp
  /\ t \in blockTxs
  /\ IdLeft(t)
  /\ InsertTx(t, TRUE)
  /\ blockTxs' = blockTxs \ {t}
  /\ UNCHANGED <<nodeVars, indexerUp, mq, results, cbQ, cbId, cursor,
                 validatorVars>>

\* writeTx for block k's coinbase: InsertTx(coinbase, 0, blockId), a new row.
writeCoinbase(k) ==
  /\ indexerUp
  /\ k \in cbQ
  /\ nextId <= MaxIds
  /\ cbId' = [cbId EXCEPT ![k] = nextId]
  /\ nextId' = nextId + 1
  /\ cbQ' = cbQ \ {k}
  /\ UNCHANGED <<nodeVars, indexerUp, mq, results, blockTxs, rows, ids, cursor,
                 validatorVars>>

(***************************************************************************)
(* The transaction validator, one run at a time.                           *)
(***************************************************************************)
StartRun ==
  /\ vpc = "idle"
  /\ vpc' = "sample"
  /\ UNCHANGED <<nodeVars, indexerVars, tableVars, mempool, sampled, from,
                 examined, invalid>>

\* The process exits: its in-memory state is gone.
RunEnds ==
  /\ mempool' = {} /\ sampled' = 0 /\ from' = 0 /\ examined' = {}

\* One of the mempoolReqs goroutines: GetMempool, then buildMempool adds
\* the ids to the shared set; a failed call is log.Fatal.
\* buildMempool: the samples' union, under the RWMutex.
buildMempool(pool) == mempool' = mempool \cup pool

SampleMempool ==
  /\ vpc = "sample"
  /\ sampled < Samples
  /\ buildMempool(GetMempool)
  /\ sampled' = sampled + 1
  /\ UNCHANGED <<nodeVars, indexerVars, tableVars, vpc, from, examined, invalid>>

SampleFatal ==
  /\ vpc = "sample"
  /\ sampled < Samples
  /\ vpc' = "idle"
  /\ RunEnds
  /\ UNCHANGED <<nodeVars, indexerVars, tableVars, invalid>>

\* Get("validatedTransaction"): a failed read starts from 0.
ReadCursor == {cursor, 0}

\* GetPendingTxs("AND id >= lo"): the pending rows from id lo on.
GetPendingTxs(lo) == {t \in Txs : rows[t] = "pending" /\ ids[t] >= lo}

\* Fault: the batching loop stops before the last invalid id.
ClassifyPendingSkipLast ==
  /\ vpc = "sample"
  /\ sampled = Samples
  /\ from' \in ReadCursor
  /\ examined' = GetPendingTxs(from')
  /\ LET ids2 == examined' \ mempool
     IN invalid' = IF ids2 = {} THEN {} ELSE ids2 \ {CHOOSE t \in ids2 : TRUE}
  /\ vpc' = "delete"
  /\ UNCHANGED <<nodeVars, indexerVars, tableVars, mempool, sampled>>

\* mwg.Wait(), the cursor read, then GetPendingTxs: every pending row
\* whose txid is absent from the samples is invalid.
ClassifyPending ==
  /\ vpc = "sample"
  /\ sampled = Samples
  /\ from' \in ReadCursor
  /\ examined' = GetPendingTxs(from')
  /\ invalid' = examined' \ mempool
  /\ vpc' = "delete"
  /\ UNCHANGED <<nodeVars, indexerVars, tableVars, mempool, sampled>>

\* GetPendingTxs failed: the error is only logged and txs stays nil.
PendingTxsFailed ==
  /\ vpc = "sample"
  /\ sampled = Samples
  /\ from' \in ReadCursor
  /\ examined' = {}
  /\ invalid' = {}
  /\ vpc' = "delete"
  /\ UNCHANGED <<nodeVars, indexerVars, tableVars, mempool, sampled>>

(***************************************************************************)
(* The delete workers take the ids in batches of deleteSize (1) and call  *)
(* DeleteInvalidTxs, whose _SCHEMA_.delete_invalid_txs deletes the rows   *)
(* with those ids (spec.md 4.4); a failure is logged.                      *)
(***************************************************************************)
delete_invalid_txs(t) ==
  /\ rows' = [rows EXCEPT ![t] = "none"]
  /\ ids' = [ids EXCEPT ![t] = 0]

DeleteInvalidTxs(t) ==
  /\ vpc = "delete"
  /\ t \in invalid
  /\ delete_invalid_txs(t)
  /\ invalid' = invalid \ {t}
  /\ UNCHANGED <<nodeVars, indexerVars, cbId, nextId, cursor, vpc, mempool,
                 sampled, from, examined>>

DeleteFailed(t) ==
  /\ vpc = "delete"
  /\ t \in invalid
  /\ invalid' = invalid \ {t}
  /\ UNCHANGED <<nodeVars, indexerVars, tableVars, vpc, mempool, sampled, from,
                 examined>>

\* The ids of the rows tied to block k: its coinbase and its mined
\* transactions, once writeTx has inserted them.
BlockRowIds(k) ==
  ({cbId[k]} \ {0}) \cup {ids[t] : t \in {u \in blocks[k] : rows[u] = "mined"}}

\* GetTxAtBlockTime(now - numDays): the lowest id among the rows of the
\* first block mined since then; no such block, or no row, is an error.
TxAtBlockTime ==
  IF window <= Len(blocks) /\ BlockRowIds(window) # {}
  THEN {CHOOSE i \in BlockRowIds(window) : \A j \in BlockRowIds(window) : i <= j}
  ELSE {}

\* Set("validatedTransaction", v): an upsert of the metadata row; on an
\* error nothing is written.
SetValidatedTransaction(v) == cursor' \in {v, cursor}

\* dwg.Wait(); GetTxAtBlockTime, whose error ends the run with the cursor
\* unchanged, then Set("validatedTransaction"), whose error is ignored.
FinishRun ==
  /\ vpc = "delete"
  /\ invalid = {}
  /\ vpc' = "idle"
  /\ \/ \E v \in TxAtBlockTime : SetValidatedTransaction(v)
     \/ TxAtBlockTime = {} /\ UNCHANGED cursor
  /\ RunEnds
  /\ UNCHANGED <<nodeVars, indexerVars, rows, ids, cbId, nextId, invalid>>

Next ==
  \/ \E t \in Txs : TxArrive(t) \/ TxDrop(t)
  \/ \E S \in {{}} \cup {{t} : t \in nodePool} : MineBlock(S)
  \/ Tick
  \/ processMempool
  \/ \E m \in mq : getMempoolTxs(m)
  \/ \E t \in results : writeTx(t)
  \/ \E t \in blockTxs : writeBlockTx(t)
  \/ \E k \in cbQ : writeCoinbase(k)
  \/ writeTxFatal
  \/ StartRun \/ SampleMempool \/ SampleFatal
  \/ ClassifyPending \/ PendingTxsFailed
  \/ \E t \in invalid : DeleteInvalidTxs(t) \/ DeleteFailed(t)
  \/ FinishRun

(***************************************************************************)
(* The indexer's goroutines are scheduled.  The validator is started again *)
(* after every run (it is deployed as a periodic job), and the RPC and     *)
(* database failures it tolerates are transient: a call that can succeed   *)
(* infinitely often eventually does.                                        *)
(***************************************************************************)
Fairness ==
  /\ WF_vars(\E m \in mq : getMempoolTxs(m))
  /\ WF_vars(\E t \in results : writeTx(t))
  /\ WF_vars(\E t \in blockTxs : writeBlockTx(t))
  /\ WF_vars(\E k \in cbQ : writeCoinbase(k))
  /\ WF_vars(StartRun)
  /\ SF_vars(SampleMempool)
  /\ SF_vars(ClassifyPending)
  /\ \A t \in Txs : SF_vars(DeleteInvalidTxs(t))
  /\ WF_vars(FinishRun)

Spec == Init /\ [][Next]_vars /\ Fairness

TypeOK ==
  /\ nodePool \cup nodeMined \cup nodeDropped \subseteq Txs
  /\ indexerUp \in BOOLEAN
  /\ mq \subseteq MempoolTx
  /\ results \cup blockTxs \subseteq Txs
  /\ cbQ \subseteq 1..MaxBlocks
  /\ blocks \in Seq(SUBSET Txs) /\ Len(blocks) <= MaxBlocks
  /\ window \in 1..(MaxBlocks + 1)
  /\ rows \in [Txs -> {"none", "pending", "mined"}]
  /\ ids \in [Txs -> 0..MaxIds]
  /\ cbId \in [1..MaxBlocks -> 0..MaxIds]
  /\ nextId \in 1..(MaxIds + 1)
  /\ cursor \in 0..MaxIds
  /\ vpc \in {"idle", "sample", "delete"}
  /\ mempool \subseteq Txs
  /\ sampled \in 0..Samples
  /\ from \in 0..MaxIds
  /\ examined \cup invalid \subseteq Txs

(***************************************************************************)
(* A transaction the node dropped without mining it, and that is stored as *)
(* pending at or above the validatedTransaction cursor, is eventually      *)
(* deleted, or passed by the cursor, once validator runs stop dying in     *)
(* GetMempool: later runs keep classifying it invalid, even when a fetch   *)
(* the indexer made before the drop writes it back after a deletion.      *)
(***************************************************************************)
DroppedEventuallyDeleted ==
  \A t \in Txs :
    (t \in nodeDropped /\ rows[t] = "pending" /\ ids[t] >= cursor)
      ~> (rows[t] = "none" \/ ids[t] < cursor)

\* Runs stop exiting through log.Fatal in GetMempool at some point.
FatalFinitelyOften == <>[][~SampleFatal]_vars

DroppedDeletedOnceRunsComplete ==
  FatalFinitelyOften => DroppedEventuallyDeleted

(***************************************************************************)
(* The validator deletes only transactions that left the network without   *)
(* being mined (spec.md 3, Transaction): DeleteInvalidTxs never removes    *)
(* the row of a transaction that is in the node's mempool, or mined, at    *)
(* that moment.  It acts on ids classified from samples taken earlier.     *)
(***************************************************************************)
OnlyDroppedDeleted ==
  [][\A t \in Txs : rows[t] # "none" /\ rows'[t] = "none" => t \in nodeDropped]_rows

(***************************************************************************)
(* validatedTransaction is the watermark below which no run needs to look  *)
(* again (spec.md 3 and 8: updated monotonically): a run's Set only moves *)
(* it forward, and only past pending rows that run's GetPendingTxs         *)
(* returned and checked against the mempool samples.  The cursor comes     *)
(* from GetTxAtBlockTime, whatever the run saw: a failed GetPendingTxs is  *)
(* only logged, and the first row of a block can be a transaction that    *)
(* was pending long before it was mined.                                   *)
(***************************************************************************)
TxCursorAdvancesOverChecked ==
  [][cursor' # cursor =>
       /\ cursor' > cursor
       /\ \A t \in Txs :
            rows[t] = "pending" /\ cursor <= ids[t] /\ ids[t] < cursor'
              => t \in examined]_cursor

=============================================================================
