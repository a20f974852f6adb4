--------------------------- MODULE ValidatorReorg ---------------------------
(***************************************************************************)
(* The block validator (src/V2/cmd/blockvalidator/main.go) against the     *)
(* block store itself (BlockStore.tla), while the node's chain moves.     *)
(*                                                                         *)
(* BlockValidator.tla abstracts the store to the set of heights that      *)
(* differ from the node and keeps the tip fixed.  Here the rows are        *)
(* BlockStore's: readBlock's GetBlock(height) reads the canonical row at   *)
(* that height, and a repair is block_insert(nodeBlock, recover = TRUE),   *)
(* which may move the tip down (a branch shorter than the one it replaces, *)
(* or a block whose parent is not stored).  Transactions, failed repairs   *)
(* and their requeues are left to BlockValidator.tla.                      *)
(***************************************************************************)
EXTENDS Integers, FiniteSets

CONSTANTS
  Blocks, Parent, NoBlock,
  Offset,        \* revalidateOffset[coin]
  RpcThreads,    \* getBlock workers
  DbThreads,     \* readBlock workers
  MaxNodeMoves,  \* bound on the node's tip moves
  MaxRuns        \* bound on runs (scheduled job, or restart after exit)

VARIABLES
  stored, canonical, nextHash,  \* the store (BlockStore)
  nodeTip, nodeMoves,           \* the node
  cursor,        \* metadata validatedBlock
  running,       \* a run is in progress
  runs,          \* runs started
  startBlock,    \* v.startBlock of the current run
  totalBlocks,   \* v.totalBlocks
  validatedCnt,  \* v.blocksValidated
  nextHeight,    \* next height in blockHeightsChan
  fetched,       \* node blocks held by getBlock workers (send on blocksChan)
  received,      \* node blocks held by readBlock workers
  results,       \* orderResults' map: [node |-> node block, db |-> row]
  nextBlock,     \* orderResults' next height to emit
  repairQ,       \* node blocks with a goroutine sending on repairChan
  repairing      \* node blocks re-inserted, waiter not yet done

Store == INSTANCE BlockStore

storeVars == <<stored, canonical, nextHash>>
nodeVars == <<nodeTip, nodeMoves>>
runVars == <<cursor, running, runs, startBlock, totalBlocks, validatedCnt>>
pipeVars == <<nextHeight, fetched, received, results, nextBlock, repairQ,
              repairing>>
vars == <<storeVars, nodeVars, runVars, pipeVars>>

Height(b) == Store!Height(b)

\* GetBlock(height): SELECT ... WHERE height = $1 AND is_orphaned = FALSE.
RowsAt(h) == {c \in canonical : Height(c) = h}
CanonicalAt(h) == CHOOSE c \in RowsAt(h) : TRUE

\* A store synced earlier to some block s, possibly on a branch the node has
\* since left; the node is at least as high.  The first run starts from the
\* start block.
Init ==
  /\ \E s \in Blocks :
       /\ stored = Store!ChainOf(s)
       /\ canonical = Store!ChainOf(s)
       /\ nextHash = [x \in Blocks |->
                        IF \E y \in Store!ChainOf(s) : Parent[y] = x
                        THEN CHOOSE y \in Store!ChainOf(s) : Parent[y] = x
                        ELSE NoBlock]
  /\ nodeTip \in {b \in Blocks : Height(b) >= Store!TipHeight}
  /\ nodeMoves = 0
  /\ cursor = 0
  /\ running = TRUE
  /\ runs = 1
  /\ startBlock = 0
  /\ totalBlocks = Store!TipHeight + 1
  /\ validatedCnt = 0
  /\ nextHeight = 0
  /\ nextBlock = 0
  /\ fetched = {} /\ received = {} /\ results = {}
  /\ repairQ = {} /\ repairing = {}

\* The node's tip moves to a block off its chain and no lower.
NodeMove(b) ==
  /\ nodeMoves < MaxNodeMoves
  /\ b \notin Store!ChainOf(nodeTip)
  /\ Height(b) >= Height(nodeTip)
  /\ nodeTip' = b
  /\ nodeMoves' = nodeMoves + 1
  /\ UNCHANGED <<storeVars, runVars, pipeVars>>

(***************************************************************************)
(* Runs: generateBlockHeights reads validatedBlock and LastBlock and makes *)
(* blockHeightsChan with capacity totalBlocks; a negative capacity panics. *)
(* With totalBlocks = 0 no height is queued and doneChan is never closed.  *)
(***************************************************************************)
StartRun ==
  /\ ~running
  /\ runs < MaxRuns
  /\ runs' = runs + 1
  /\ startBlock' = cursor
  /\ totalBlocks' = Store!TipHeight - cursor + 1
  /\ running' = (totalBlocks' >= 0)
  /\ validatedCnt' = 0
  /\ nextHeight' = cursor
  /\ nextBlock' = cursor
  /\ fetched' = {} /\ received' = {} /\ results' = {}
  /\ repairQ' = {} /\ repairing' = {}
  /\ UNCHANGED <<storeVars, nodeVars, cursor>>

\* Any log.Fatal (an RPC or store error), or the job being stopped.
Crash ==
  /\ running
  /\ running' = FALSE
  /\ UNCHANGED <<storeVars, nodeVars, cursor, runs, startBlock, totalBlocks,
                 validatedCnt, pipeVars>>

\* blockValidated, as in BlockValidator.tla.
blockValidated ==
  /\ cursor' = IF validatedCnt + Offset <= totalBlocks
                 THEN startBlock + validatedCnt
                 ELSE cursor
  /\ validatedCnt' = validatedCnt + 1
  /\ running' = (validatedCnt + 1 # totalBlocks)

(***************************************************************************)
(* The pipeline.                                                           *)
(***************************************************************************)
\* getBlock: the next height from blockHeightsChan, GetBlocks([]int{h})
\* from the node as it is now (a height above the node's tip is an RPC
\* error, and log.Fatal).
getBlock ==
  /\ running
  /\ nextHeight < startBlock + totalBlocks
  /\ nextHeight <= Height(nodeTip)
  /\ Cardinality(fetched) < RpcThreads
  /\ fetched' = fetched \cup {Store!BlockAt(nodeTip, nextHeight)}
  /\ nextHeight' = nextHeight + 1
  /\ UNCHANGED <<storeVars, nodeVars, runVars, received, results, nextBlock,
                 repairQ, repairing>>

\* readBlock receives a node block from blocksChan.
readReceive(nb) ==
  /\ running
  /\ nb \in fetched
  /\ Cardinality(received) < DbThreads
  /\ fetched' = fetched \ {nb}
  /\ received' = received \cup {nb}
  /\ UNCHANGED <<storeVars, nodeVars, runVars, nextHeight, results, nextBlock,
                 repairQ, repairing>>

\* GetBlock(nb.Height) and the result sent to orderResults; with no
\* canonical row at that height GetBlock returns an error and readBlock
\* calls log.Fatal (Crash).
readBlock(nb) ==
  /\ running
  /\ nb \in received
  /\ RowsAt(Height(nb)) # {}
  /\ received' = received \ {nb}
  /\ results' = results \cup {[node |-> nb, db |-> CanonicalAt(Height(nb))]}
  /\ UNCHANGED <<storeVars, nodeVars, runVars, nextHeight, fetched, nextBlock,
                 repairQ, repairing>>

\* orderResults emits the result at nextBlock; checkResult queues a node
\* block whose hash differs from the row for repair, or validates it.
checkResult ==
  /\ running
  /\ \E r \in results :
       /\ Height(r.node) = nextBlock
       /\ results' = results \ {r}
       /\ nextBlock' = nextBlock + 1
       /\ IF r.node # r.db
            THEN /\ repairQ' = repairQ \cup {r.node}
                 /\ UNCHANGED <<cursor, running, validatedCnt>>
            ELSE /\ blockValidated
                 /\ UNCHANGED repairQ
  /\ UNCHANGED <<storeVars, nodeVars, runs, startBlock, totalBlocks,
                 nextHeight, fetched, received, repairing>>

\* repairBlock: InsertBlock(nodeBlock, true).
repairBlock(nb) ==
  /\ running
  /\ nb \in repairQ
  /\ Store!InsertBlock(nb, TRUE)
  /\ repairQ' = repairQ \ {nb}
  /\ repairing' = repairing \cup {nb}
  /\ UNCHANGED <<nodeVars, runVars, nextHeight, fetched, received, results,
                 nextBlock>>

\* The waiter after the transaction workers: the repair counts as validated.
repairDone(nb) ==
  /\ running
  /\ nb \in repairing
  /\ repairing' = repairing \ {nb}
  /\ blockValidated
  /\ UNCHANGED <<storeVars, nodeVars, runs, startBlock, totalBlocks,
                 nextHeight, fetched, received, results, nextBlock, repairQ>>

Next ==
  \/ \E b \in Blocks : NodeMove(b)
  \/ StartRun
  \/ Crash
  \/ getBlock
  \/ \E nb \in fetched : readReceive(nb)
  \/ \E nb \in received : readBlock(nb)
  \/ checkResult
  \/ \E nb \in repairQ : repairBlock(nb)
  \/ \E nb \in repairing : repairDone(nb)

Spec == Init /\ [][Next]_vars

(***************************************************************************)
(* Every height a run validates is a stored height (readBlock's comment:  *)
(* "If no block is found in the database the block will be repaired"):    *)
(* the run's range [validatedBlock, LastBlock] is not empty, so            *)
(* generateBlockHeights neither panics nor leaves the run waiting forever, *)
(* and each height readBlock receives has a canonical row for GetBlock,   *)
(* although the run's own repairs may have moved the tip down meanwhile.  *)
(***************************************************************************)
RunHeightsStored ==
  /\ totalBlocks >= 1
  /\ \A nb \in received : RowsAt(Height(nb)) # {}

=============================================================================
