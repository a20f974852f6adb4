------------------------------- MODULE Monitor -------------------------------
(***************************************************************************)
(* The monitor's orphan cleanup (src/V2/cmd/monitor/main.go) against the   *)
(* live indexer that feeds it.                                             *)
(*                                                                         *)
(* Every block the live indexer writes (writeBlock) is inserted, its       *)
(* transactions are handed to the writeTx workers, and a newBlock POST     *)
(* makes the monitor start a handleOrphans goroutine.  Each goroutine      *)
(* reads the orphanCount metadata, counts the orphaned block rows, and if  *)
(* the count grew calls DeleteOrphans and stores the count.  Goroutines    *)
(* run concurrently with each other and with further inserts; every step  *)
(* below is one database call.                                             *)
(*                                                                         *)
(* hasTxs is the set of blocks whose transaction rows are in the store.    *)
(***************************************************************************)
EXTENDS Integers, FiniteSets

CONSTANTS
  Blocks, Parent, NoBlock,
  MaxInserts,   \* bound on the blocks the live indexer writes
  DbThreads     \* dbThreads: writeTx workers

VARIABLES
  stored, canonical, nextHash,   \* the block table (BlockStore)
  hasTxs,      \* blocks whose transaction rows are stored
  txQueue,     \* blocks whose transactions writeTx workers are inserting
  inserts,     \* blocks written so far by the live indexer
  meta,        \* the orphanCount metadata value
  handler      \* handler[n]: the handleOrphans goroutine of the n-th POST

Store == INSTANCE BlockStore

storeVars == <<stored, canonical, nextHash>>
vars == <<storeVars, hasTxs, txQueue, inserts, meta, handler>>

Handlers == 1..MaxInserts

Height(b) == Store!Height(b)

\* GetOrphanCount: SELECT COUNT(*) ... WHERE is_orphaned = TRUE.
GetOrphanCount == Cardinality(stored \ canonical)

(***************************************************************************)
(* The store starts with the start block and its transactions, and the     *)
(* orphanCount key seeded with 0.                                          *)
(***************************************************************************)
Init ==
  /\ Store!StoreInit
  /\ hasTxs = {Store!Genesis}
  /\ txQueue = {}
  /\ inserts = 0
  /\ meta = 0
  /\ handler = [n \in Handlers |-> [pc |-> "idle", value |-> 0, count |-> 0]]

(***************************************************************************)
(* writeBlock in live sync: syncToTip sends the node's blocks from the     *)
(* store's tip height upward, so the next block written is at the tip     *)
(* height or extends the tip.  InsertBlock without recover, the block's    *)
(* transactions handed to the writeTx workers (a send on the unbuffered    *)
(* txResultChan completes once a worker takes it), then the POST that     *)
(* starts a handleOrphans goroutine.                                       *)
(***************************************************************************)
writeBlock(b) ==
  /\ inserts < MaxInserts
  /\ Cardinality(txQueue) < DbThreads
  /\ \/ Height(b) = Store!TipHeight
     \/ Height(b) = Store!TipHeight + 1 /\ Parent[b] = Store!LastBlock
  /\ Store!InsertBlock(b, FALSE)
  /\ txQueue' = txQueue \cup {b}
  /\ inserts' = inserts + 1
  /\ handler' = [handler EXCEPT ![inserts + 1].pc = "get"]
  /\ UNCHANGED <<hasTxs, meta>>

\* writeTx: InsertTx for the block's transactions (transaction_insert ties
\* each row to the block id).
writeTx(b) ==
  /\ b \in txQueue
  /\ hasTxs' = hasTxs \cup {b}
  /\ txQueue' = txQueue \ {b}
  /\ UNCHANGED <<storeVars, inserts, meta, handler>>

(***************************************************************************)
(* _SCHEMA_.delete_orphans(): deletes the transactions (with their inputs  *)
(* and outputs) of the orphaned blocks; the block rows stay.               *)
(***************************************************************************)
delete_orphans == hasTxs \ (stored \ canonical)

(***************************************************************************)
(* handleOrphans, one database call per step.  A failed Get, Atoi or       *)
(* GetOrphanCount is logged and the goroutine returns; so is a failed      *)
(* DeleteOrphans (after retry.Simple's attempts) or Set.                   *)
(***************************************************************************)
SetPc(n, pc) == [handler EXCEPT ![n].pc = pc]

handleGet(n) ==
  /\ handler[n].pc = "get"
  /\ \/ handler' = [handler EXCEPT ![n].pc = "count", ![n].value = meta]
     \/ handler' = SetPc(n, "done")
  /\ UNCHANGED <<storeVars, hasTxs, txQueue, inserts, meta>>

handleCount(n) ==
  /\ handler[n].pc = "count"
  /\ \/ /\ GetOrphanCount > handler[n].value
        /\ handler' = [handler EXCEPT ![n].pc = "delete",
                                      ![n].count = GetOrphanCount]
     \/ handler' = SetPc(n, "done")   \* no growth, or the query failed
  /\ UNCHANGED <<storeVars, hasTxs, txQueue, inserts, meta>>

handleDelete(n) ==
  /\ handler[n].pc = "delete"
  /\ \/ /\ hasTxs' = delete_orphans
        /\ handler' = SetPc(n, "set")
     \/ /\ UNCHANGED hasTxs
        /\ handler' = SetPc(n, "done")
  /\ UNCHANGED <<storeVars, txQueue, inserts, meta>>

handleSet(n) ==
  /\ handler[n].pc = "set"
  /\ \/ meta' = handler[n].count
     \/ UNCHANGED meta
  /\ handler' = SetPc(n, "done")
  /\ UNCHANGED <<storeVars, hasTxs, txQueue, inserts>>

Next ==
  \/ \E b \in Blocks : writeBlock(b)
  \/ \E b \in txQueue : writeTx(b)
  \/ \E n \in Handlers :
       handleGet(n) \/ handleCount(n) \/ handleDelete(n) \/ handleSet(n)

\* Goroutines are scheduled and their database calls return; the node,
\* and so writeBlock, need not produce another block.
Fairness ==
  /\ \A b \in Blocks : WF_vars(writeTx(b))
  /\ \A n \in Handlers :
       WF_vars(handleGet(n) \/ handleCount(n) \/ handleDelete(n) \/ handleSet(n))

Spec == Init /\ [][Next]_vars /\ Fairness

TypeOK ==
  /\ Store!StoreTypeOK
  /\ hasTxs \subseteq stored
  /\ txQueue \subseteq stored
  /\ inserts \in 0..MaxInserts
  /\ meta \in 0..Cardinality(Blocks)
  /\ handler \in [Handlers -> [pc : {"idle", "get", "count", "delete", "set",
                                    "done"},
                               value : 0..Cardinality(Blocks),
                               count : 0..Cardinality(Blocks)]]

(***************************************************************************)
(* orphanCount is updated monotonically (spec.md, Cursor): no Set by       *)
(* handleOrphans lowers it.                                                 *)
(***************************************************************************)
OrphanCountMonotone == [][meta' >= meta]_meta

=============================================================================
