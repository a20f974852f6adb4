------------------------------ MODULE LiveSync ------------------------------
(***************************************************************************)
(* Live tip-following of the indexer (src/V2/cmd/indexer/main.go,          *)
(* staySynced) against a node whose chain reorganises, with the ZMQ        *)
(* adapter (src/V2/pkg/zmq/zmq.go) that turns node events into wake-ups.   *)
(*                                                                         *)
(* Processes:                                                              *)
(*   node      the full node: its tip moves to any block of the tree that  *)
(*             is not already on its chain and is no lower (a reorg is     *)
(*             atomic to RPC readers); each move publishes one hashblock   *)
(*             message, which a ZMQ SUB socket may drop.                   *)
(*   listen    zmq.listen + the forwarding goroutines of zmq.Start: a      *)
(*             received hash becomes one pending send on blockHashChan; a  *)
(*             receive timeout reconnects and sends one wake-up itself.    *)
(*   syncToTip one goroutine: per wake-up, GetChainInfo, LastBlock, then   *)
(*             GetBlocks and an unbuffered send per height.                *)
(*   writeBlock one goroutine: InsertBlock(block, recover = FALSE), fatal  *)
(*             on error.  Its transaction fan-out does not touch blocks    *)
(*             and is left out.                                            *)
(***************************************************************************)
EXTENDS Integers, FiniteSets

CONSTANTS
  Blocks, Parent, NoBlock,
  MaxNodeMoves   \* bound on how often the node's tip moves

VARIABLES
  stored, canonical, nextHash,   \* the store (BlockStore)
  nodeTip,       \* the node's best block
  nodeMoves,     \* node tip moves so far (bounded)
  socket,        \* hashblock messages published and not yet received
  blockHashes,   \* goroutines of zmq.Start blocked sending on blockHashChan
  reconnecting,  \* listen blocked in its reconnect send on blockHashChan
  pc,            \* syncToTip: "wait", "lastBlock", "fetch" or "send"
  info,          \* syncToTip: info.Blocks from GetChainInfo
  i,             \* syncToTip: loop height
  fetched,       \* syncToTip: block returned by GetBlocks([]int{i})
  inFlight,      \* writeBlock: block received and not yet inserted
  crashed        \* the process exited through log.Fatal

Store == INSTANCE BlockStore

storeVars == <<stored, canonical, nextHash>>
nodeVars  == <<nodeTip, nodeMoves>>
zmqVars   == <<socket, blockHashes, reconnecting>>
syncVars  == <<pc, info, i, fetched>>
vars == <<storeVars, nodeVars, zmqVars, syncVars, inFlight, crashed>>

Height(b) == Store!Height(b)
ChainOf(b) == Store!ChainOf(b)

\* staySynced starts its goroutines with empty channels; Connect has just
\* subscribed, so no message is queued yet.
LocalInit ==
  /\ socket = 0
  /\ blockHashes = 0
  /\ reconnecting = FALSE
  /\ pc = "wait"
  /\ info = 0
  /\ i = 0
  /\ fetched = NoBlock
  /\ inFlight = NoBlock
  /\ crashed = FALSE

Init ==
  /\ Store!StoreInit
  /\ nodeTip = Store!Genesis
  /\ nodeMoves = 0
  /\ LocalInit

(***************************************************************************)
(* The node (environment).  A SUB socket drops messages it cannot queue.   *)
(***************************************************************************)
NodeMove(b) ==
  /\ nodeMoves < MaxNodeMoves
  /\ b \notin ChainOf(nodeTip)
  /\ Height(b) >= Height(nodeTip)
  /\ nodeTip' = b
  /\ nodeMoves' = nodeMoves + 1
  /\ \E delivered \in BOOLEAN : socket' = IF delivered THEN socket + 1 ELSE socket
  /\ UNCHANGED <<storeVars, blockHashes, reconnecting, syncVars, inFlight, crashed>>

(***************************************************************************)
(* zmq.listen / zmq.Start.                                                 *)
(***************************************************************************)
\* RecvMessageBytes returns a "hashblock" message; Start spawns a goroutine
\* that sends it on blockHashChan.
\* Fault: a receive that does not wait for a message.
ZmqReceiveUnguarded ==
  /\ ~reconnecting
  /\ socket' = socket - 1
  /\ blockHashes' = blockHashes + 1
  /\ UNCHANGED <<storeVars, nodeVars, reconnecting, syncVars, inFlight, crashed>>

ZmqReceive ==
  /\ ~reconnecting
  /\ socket > 0
  /\ socket' = socket - 1
  /\ blockHashes' = blockHashes + 1
  /\ UNCHANGED <<storeVars, nodeVars, reconnecting, syncVars, inFlight, crashed>>

\* RecvMessageBytes times out (SetRcvtimeo) with nothing to read: listen
\* reconnects and sends a wake-up on blockHashChan itself, blocking there.
ZmqTimeout ==
  /\ ~reconnecting
  /\ socket = 0
  /\ reconnecting' = TRUE
  /\ UNCHANGED <<storeVars, nodeVars, socket, blockHashes, syncVars, inFlight, crashed>>

(***************************************************************************)
(* syncToTip.                                                              *)
(***************************************************************************)
\* GetChainInfo: getblockchaininfo and getnetworkinfo; info.Blocks is the
\* height of the node's best block.
GetChainInfo == Height(nodeTip)

\* for range blockHashChan: receive a wake-up, then info := GetChainInfo().
SyncReceive ==
  /\ ~crashed
  /\ pc = "wait"
  /\ \/ /\ blockHashes > 0
        /\ blockHashes' = blockHashes - 1
        /\ UNCHANGED reconnecting
     \/ /\ reconnecting
        /\ reconnecting' = FALSE
        /\ UNCHANGED blockHashes
  /\ info' = GetChainInfo
  /\ pc' = "lastBlock"
  /\ UNCHANGED <<storeVars, nodeVars, socket, i, fetched, inFlight, crashed>>

\* lastBlock := db.LastBlock(); for i := lastBlock.Height; i <= info.Blocks.
\* Fault: the walk starts above the stored tip instead of at it.
SyncLastBlockAbove ==
  /\ ~crashed
  /\ pc = "lastBlock"
  /\ i' = Store!TipHeight + 1
  /\ pc' = IF Store!TipHeight + 1 <= info THEN "fetch" ELSE "wait"
  /\ UNCHANGED <<storeVars, nodeVars, zmqVars, info, fetched, inFlight, crashed>>

SyncLastBlock ==
  /\ ~crashed
  /\ pc = "lastBlock"
  /\ i' = Store!TipHeight
  /\ pc' = IF Store!TipHeight <= info THEN "fetch" ELSE "wait"
  /\ UNCHANGED <<storeVars, nodeVars, zmqVars, info, fetched, inFlight, crashed>>

\* b := bc.GetBlocks([]int{i}): the block at height i of the node's chain.
SyncFetch ==
  /\ ~crashed
  /\ pc = "fetch"
  /\ fetched' = Store!BlockAt(nodeTip, i)
  /\ pc' = "send"
  /\ UNCHANGED <<storeVars, nodeVars, zmqVars, info, i, inFlight, crashed>>

\* blockChan <- b[0]: unbuffered, so it completes when writeBlock receives.
SyncSend ==
  /\ ~crashed
  /\ pc = "send"
  /\ inFlight = NoBlock
  /\ inFlight' = fetched
  /\ i' = i + 1
  /\ pc' = IF i + 1 <= info THEN "fetch" ELSE "wait"
  /\ UNCHANGED <<storeVars, nodeVars, zmqVars, info, fetched, crashed>>

(***************************************************************************)
(* writeBlock: blockId, err := db.InsertBlock(block, idxr.recover) with    *)
(* recover = FALSE in live mode; log.Fatal on err ends the process.        *)
(***************************************************************************)
WriteBlock ==
  /\ ~crashed
  /\ inFlight # NoBlock
  /\ inFlight' = NoBlock
  /\ IF Store!Rejected(inFlight, FALSE)
       THEN /\ crashed' = TRUE
            /\ UNCHANGED storeVars
       ELSE /\ Store!InsertBlock(inFlight, FALSE)
            /\ UNCHANGED crashed
  /\ UNCHANGED <<nodeVars, zmqVars, syncVars>>

Next ==
  \/ \E b \in Blocks : NodeMove(b)
  \/ ZmqReceive
  \/ ZmqTimeout
  \/ SyncReceive
  \/ SyncLastBlock
  \/ SyncFetch
  \/ SyncSend
  \/ WriteBlock

(***************************************************************************)
(* Every goroutine that can go on eventually does: Go's scheduler runs     *)
(* runnable goroutines, RPC and DB calls return (they carry deadlines),    *)
(* and the SUB socket's receive timeout fires whenever no message arrives. *)
(* The node is not required to move.                                       *)
(***************************************************************************)
Fairness ==
  /\ WF_vars(ZmqReceive)
  /\ WF_vars(ZmqTimeout)
  /\ WF_vars(SyncReceive)
  /\ WF_vars(SyncLastBlock)
  /\ WF_vars(SyncFetch)
  /\ WF_vars(SyncSend)
  /\ WF_vars(WriteBlock)

Spec == Init /\ [][Next]_vars /\ Fairness

TypeOK ==
  /\ Store!StoreTypeOK
  /\ nodeTip \in Blocks
  /\ nodeMoves \in 0..MaxNodeMoves
  /\ socket \in 0..MaxNodeMoves
  /\ blockHashes \in 0..MaxNodeMoves
  /\ reconnecting \in BOOLEAN
  /\ pc \in {"wait", "lastBlock", "fetch", "send"}
  /\ info \in Nat
  /\ i \in Nat
  /\ fetched \in Blocks \cup {NoBlock}
  /\ inFlight \in Blocks \cup {NoBlock}
  /\ crashed \in BOOLEAN

(***************************************************************************)
(* The store's canonical chain is the node's chain.                        *)
(***************************************************************************)
Converged == canonical = ChainOf(nodeTip)

(***************************************************************************)
(* Eventual consistency of live sync: the comment on syncToTip says that   *)
(* walking from the store's last canonical block to the node's tip on each *)
(* wake-up handles reorg recovery.  Once the node stops reorganising, the  *)
(* store's canonical chain becomes and stays the node's chain, through     *)
(* dropped ZMQ messages and multi-block and same-height reorgs, unless the *)
(* process has exited.                                                     *)
(***************************************************************************)
EventuallyConverged == <>[](crashed \/ Converged)

(***************************************************************************)
(* The live indexer never exits on a refused insert: every block the walk  *)
(* hands to writeBlock is accepted by InsertBlock with recover = FALSE     *)
(* (spec.md 7: a refused insert is for stale backfills, not live sync).    *)
(***************************************************************************)
NoFatalInsert == ~crashed

=============================================================================
