----------------------------- MODULE InitialSync -----------------------------
(***************************************************************************)
(* The indexer's initial sync with --sync (src/V2/cmd/indexer/main.go,     *)
(* initialSync): from the store's last canonical height to the node's      *)
(* height, re-read on the final batches, against a node that keeps         *)
(* extending or reorganising its chain.                                     *)
(*                                                                         *)
(* Processes:                                                              *)
(*   processBlockHeights  sends batches of Batch heights on the unbuffered *)
(*                        blockHeightsChan;                                *)
(*   getBlocks x Workers  GetBlocks(batch), then a send on blocksChan;     *)
(*   orderBlock           keeps received blocks sorted and emits them from *)
(*                        startBlock on, in gap-free height order;         *)
(*   writeBlock           InsertBlock(block, recover = FALSE), fatal on    *)
(*                        error.                                           *)
(* writeTx and the transaction rows do not change the block table and are  *)
(* left out here (Transactions.tla models them).                           *)
(***************************************************************************)
EXTENDS Integers, FiniteSets

CONSTANTS
  Blocks, Parent, NoBlock,
  Batch,         \* --batch: heights per GetBlocks request
  Workers,       \* rpcThreads: getBlocks goroutines
  MaxNodeMoves   \* bound on how often the node's tip moves

ASSUME Batch \in Nat \ {0} /\ Workers \in Nat \ {0}

VARIABLES
  stored, canonical, nextHash,   \* the store (BlockStore)
  nodeTip, nodeMoves,            \* the node
  startBlock,    \* idxr.startBlock (setStartBlock)
  endBlock,      \* idxr.endBlock (setEndBlock, re-read on final batches)
  i,             \* processBlockHeights' loop height
  heightsDone,   \* processBlockHeights returned: blockHeightsChan closed
  requested,     \* batches of heights held by getBlocks in GetBlocks
  fetched,       \* block batches held by getBlocks, sending on blocksChan
  pending,       \* orderBlock's blockStore
  nextBlock,     \* orderBlock's next height to emit
  inFlight,      \* writeBlock: block received and not yet inserted
  crashed        \* the process exited through log.Fatal

Store == INSTANCE BlockStore

storeVars == <<stored, canonical, nextHash>>
vars == <<storeVars, nodeTip, nodeMoves, startBlock, endBlock, i, heightsDone,
          requested, fetched, pending, nextBlock, inFlight, crashed>>

Height(b) == Store!Height(b)

\* The store as an earlier sync left it: the chain ending in s, linked.
SyncedTo(s) ==
  /\ stored = Store!ChainOf(s)
  /\ canonical = Store!ChainOf(s)
  /\ nextHash = [x \in Blocks |->
                   IF \E y \in Store!ChainOf(s) : Parent[y] = x
                   THEN CHOOSE y \in Store!ChainOf(s) : Parent[y] = x
                   ELSE NoBlock]

\* Fault: setStartBlock resumes one height below the store's tip.
InitBelowTip ==
  /\ \E s \in Blocks : SyncedTo(s)
  /\ nodeTip \in Blocks
  /\ nodeMoves = 0
  /\ startBlock = IF Store!TipHeight > 0 THEN Store!TipHeight - 1 ELSE 0
  /\ endBlock = Height(nodeTip)
  /\ i = startBlock
  /\ heightsDone = FALSE
  /\ requested = {}
  /\ fetched = {}
  /\ pending = {}
  /\ nextBlock = startBlock
  /\ inFlight = NoBlock
  /\ crashed = FALSE

\* main / initialSync: setStartBlock (LastBlock's height), setEndBlock
\* (GetChainInfo), then the goroutines start.
Init ==
  /\ \E s \in Blocks : SyncedTo(s)
  /\ nodeTip \in Blocks
  /\ nodeMoves = 0
  /\ startBlock = Store!TipHeight
  /\ endBlock = Height(nodeTip)
  /\ i = startBlock
  /\ heightsDone = FALSE
  /\ requested = {}
  /\ fetched = {}
  /\ pending = {}
  /\ nextBlock = startBlock
  /\ inFlight = NoBlock
  /\ crashed = FALSE

\* The node's tip moves to a block no lower, off its current chain.
NodeMove(b) ==
  /\ nodeMoves < MaxNodeMoves
  /\ b \notin Store!ChainOf(nodeTip)
  /\ Height(b) >= Height(nodeTip)
  /\ nodeTip' = b
  /\ nodeMoves' = nodeMoves + 1
  /\ UNCHANGED <<storeVars, startBlock, endBlock, i, heightsDone, requested,
                 fetched, pending, nextBlock, inFlight, crashed>>

(***************************************************************************)
(* processBlockHeights: one loop iteration.  On the final batches          *)
(* (i >= endBlock - batchSize) endBlock is re-read from the node; the      *)
(* batch holds i .. i+batchSize-1 up to endBlock and is handed to a free   *)
(* getBlocks worker.                                                       *)
(***************************************************************************)
\* Fault: the batch stops one height short.
processBlockHeightsShort ==
  /\ ~crashed /\ ~heightsDone
  /\ i <= endBlock
  /\ Cardinality(requested) + Cardinality(fetched) < Workers
  /\ LET end == IF i >= endBlock - Batch THEN Height(nodeTip) ELSE endBlock
     IN /\ endBlock' = end
        /\ requested' = requested \cup {{h \in i..(i + Batch - 2) : h <= end}}
  /\ i' = i + Batch
  /\ UNCHANGED <<storeVars, nodeTip, nodeMoves, startBlock, heightsDone,
                 fetched, pending, nextBlock, inFlight, crashed>>

\* Fault: each batch starts one height early, overlapping the last one.
processBlockHeightsOverlap ==
  /\ ~crashed /\ ~heightsDone
  /\ i <= endBlock
  /\ Cardinality(requested) + Cardinality(fetched) < Workers
  /\ LET end == IF i >= endBlock - Batch THEN Height(nodeTip) ELSE endBlock
     IN /\ endBlock' = end
        /\ requested' = requested \cup {{h \in (i - 1)..(i + Batch - 1) : h <= end}}
  /\ i' = i + Batch
  /\ UNCHANGED <<storeVars, nodeTip, nodeMoves, startBlock, heightsDone,
                 fetched, pending, nextBlock, inFlight, crashed>>

processBlockHeights ==
  /\ ~crashed /\ ~heightsDone
  /\ i <= endBlock
  /\ Cardinality(requested) + Cardinality(fetched) < Workers
  /\ LET end == IF i >= endBlock - Batch THEN Height(nodeTip) ELSE endBlock
     IN /\ endBlock' = end
        /\ requested' = requested \cup {{h \in i..(i + Batch - 1) : h <= end}}
  /\ i' = i + Batch
  /\ UNCHANGED <<storeVars, nodeTip, nodeMoves, startBlock, heightsDone,
                 fetched, pending, nextBlock, inFlight, crashed>>

\* The loop ends: defer close(blockHeightsChan).
closeHeights ==
  /\ ~crashed /\ ~heightsDone
  /\ i > endBlock
  /\ heightsDone' = TRUE
  /\ UNCHANGED <<storeVars, nodeTip, nodeMoves, startBlock, endBlock, i,
                 requested, fetched, pending, nextBlock, inFlight, crashed>>

\* getBlocks: bc.GetBlocks(heights) returns the node's blocks at them.
getBlocks(hs) ==
  /\ ~crashed
  /\ hs \in requested
  /\ requested' = requested \ {hs}
  /\ fetched' = fetched \cup {{Store!BlockAt(nodeTip, h) : h \in hs}}
  /\ UNCHANGED <<storeVars, nodeTip, nodeMoves, startBlock, endBlock, i,
                 heightsDone, pending, nextBlock, inFlight, crashed>>

(***************************************************************************)
(* orderBlock: it receives from blocksChan only once no stored block has   *)
(* height nextBlock; otherwise it is sending that block to writeBlock.     *)
(***************************************************************************)
Emittable == {b \in pending : Height(b) = nextBlock}

\* Fault: a batch is received only once the buffer has drained.
orderReceiveDrained(bs) ==
  /\ ~crashed
  /\ bs \in fetched
  /\ pending = {}
  /\ fetched' = fetched \ {bs}
  /\ pending' = pending \cup bs
  /\ UNCHANGED <<storeVars, nodeTip, nodeMoves, startBlock, endBlock, i,
                 heightsDone, requested, nextBlock, inFlight, crashed>>

orderReceive(bs) ==
  /\ ~crashed
  /\ bs \in fetched
  /\ Emittable = {}
  /\ fetched' = fetched \ {bs}
  /\ pending' = pending \cup bs
  /\ UNCHANGED <<storeVars, nodeTip, nodeMoves, startBlock, endBlock, i,
                 heightsDone, requested, nextBlock, inFlight, crashed>>

orderEmit ==
  /\ ~crashed
  /\ inFlight = NoBlock
  /\ \E b \in Emittable :
       /\ inFlight' = b
       /\ pending' = pending \ {b}
       /\ nextBlock' = Height(b) + 1
  /\ UNCHANGED <<storeVars, nodeTip, nodeMoves, startBlock, endBlock, i,
                 heightsDone, requested, fetched, crashed>>

\* writeBlock: InsertBlock(block, idxr.recover) with recover unset (--sync);
\* log.Fatal on a refused insert.
writeBlock ==
  /\ ~crashed
  /\ inFlight # NoBlock
  /\ inFlight' = NoBlock
  /\ IF Store!Rejected(inFlight, FALSE)
       THEN /\ crashed' = TRUE
            /\ UNCHANGED storeVars
       ELSE /\ Store!InsertBlock(inFlight, FALSE)
            /\ UNCHANGED crashed
  /\ UNCHANGED <<nodeTip, nodeMoves, startBlock, endBlock, i, heightsDone,
                 requested, fetched, pending, nextBlock>>

Next ==
  \/ \E b \in Blocks : NodeMove(b)
  \/ processBlockHeights
  \/ closeHeights
  \/ \E hs \in requested : getBlocks(hs)
  \/ \E bs \in fetched : orderReceive(bs)
  \/ orderEmit
  \/ writeBlock

\* Goroutines are scheduled and RPC and DB calls return; the node need
\* not move.
Fairness ==
  /\ WF_vars(processBlockHeights)
  /\ WF_vars(closeHeights)
  /\ WF_vars(\E hs \in requested : getBlocks(hs))
  /\ WF_vars(\E bs \in fetched : orderReceive(bs))
  /\ WF_vars(orderEmit)
  /\ WF_vars(writeBlock)

Spec == Init /\ [][Next]_vars /\ Fairness

\* blocksChan is closed when every worker has returned, orderBlock then
\* closes orderedBlockChan, and writeBlock returns once idle.
Finished ==
  /\ heightsDone
  /\ requested = {} /\ fetched = {}
  /\ Emittable = {}
  /\ inFlight = NoBlock

TypeOK ==
  /\ Store!StoreTypeOK
  /\ nodeTip \in Blocks
  /\ nodeMoves \in 0..MaxNodeMoves
  /\ {startBlock, endBlock, i, nextBlock} \subseteq Nat
  /\ heightsDone \in BOOLEAN
  /\ requested \subseteq SUBSET Nat
  /\ fetched \subseteq SUBSET Blocks
  /\ pending \subseteq Blocks
  /\ inFlight \in Blocks \cup {NoBlock}
  /\ crashed \in BOOLEAN

(***************************************************************************)
(* Initial sync never hits a refused insert: orderBlock's ascending,       *)
(* gap-free order from the store's tip height means every block reaches    *)
(* writeBlock at or above the tip, whatever the node does meanwhile and    *)
(* however the workers' batches interleave.                                *)
(***************************************************************************)
NoFatalInsert == ~crashed

(***************************************************************************)
(* When initial sync returns, every height from startBlock to the last     *)
(* endBlock read from the node has a stored block: the batches, the        *)
(* end-height re-read and the orderer leave no height behind.              *)
(***************************************************************************)
AllHeightsWritten ==
  Finished => \A h \in startBlock..endBlock : \E b \in stored : Height(b) = h

(***************************************************************************)
(* Initial sync returns (twg.Wait in initialSync) unless it exited.        *)
(***************************************************************************)
Terminates == <>(crashed \/ Finished)

=============================================================================
