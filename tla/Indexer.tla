------------------------------- MODULE Indexer -------------------------------
(***************************************************************************)
(* The indexer process as main runs it (src/V2/cmd/indexer/main.go): the  *)
(* initial sync from the store's tip to the node's height, then, once it   *)
(* has returned, mq.Connect and live sync (staySynced), over one store and *)
(* against one node.                                                       *)
(*                                                                         *)
(* InitialSync.tla and LiveSync.tla are composed by INSTANCE: they share   *)
(* the store, the node and the process's exit; each keeps its goroutines' *)
(* own variables.  The ZMQ subscription starts only with the live phase,  *)
(* so node moves during the initial sync publish nothing to it.           *)
(***************************************************************************)
EXTENDS Integers, FiniteSets

CONSTANTS
  Blocks, Parent, NoBlock,
  Batch, Workers,  \* --batch and rpcThreads of the initial sync
  MaxNodeMoves     \* bound on the node's tip moves over both phases

VARIABLES
  stored, canonical, nextHash,  \* the store
  nodeTip, nodeMoves,           \* the node
  crashed,                      \* the process exited through log.Fatal
  phase,                        \* "initial" or "live"
  \* initialSync's goroutines
  startBlock, endBlock, si, heightsDone, requested, sfetched, pending,
  nextBlock, sInFlight,
  \* staySynced's goroutines and the ZMQ adapter
  socket, blockHashes, reconnecting, pc, info, li, lfetched, lInFlight

Initial == INSTANCE InitialSync
             WITH i <- si, fetched <- sfetched, inFlight <- sInFlight

Live == INSTANCE LiveSync
          WITH i <- li, fetched <- lfetched, inFlight <- lInFlight

initialVars == <<startBlock, endBlock, si, heightsDone, requested, sfetched,
                 pending, nextBlock, sInFlight>>
liveVars == <<socket, blockHashes, reconnecting, pc, info, li, lfetched,
              lInFlight>>
vars == <<stored, canonical, nextHash, nodeTip, nodeMoves, crashed, phase,
          initialVars, liveVars>>

\* The store was filled from this node, which never loses height, so the
\* node's tip is at least as high as the store's.  staySynced's goroutines
\* and channels hold their initial values from the start; nothing touches
\* them before the live phase.
Init ==
  /\ phase = "initial"
  /\ Initial!Init
  /\ endBlock >= startBlock
  /\ Live!LocalInit

\* A step of a goroutine of the current phase; the other phase's goroutines
\* do not exist yet or have returned.
InInitial(A) == phase = "initial" /\ A /\ UNCHANGED <<phase, liveVars>>
InLive(A) == phase = "live" /\ A /\ UNCHANGED <<phase, initialVars>>

(***************************************************************************)
(* main: idxr.initialSync() returns once its WaitGroups are done; then,    *)
(* without --recover and with --sync, mq.Connect() (fatal on error) and    *)
(* staySynced().  A failed Connect is the crashed outcome.               *)
(***************************************************************************)
StartLive ==
  /\ phase = "initial"
  /\ ~crashed
  /\ Initial!Finished
  /\ phase' = "live"
  /\ crashed' \in BOOLEAN
  /\ UNCHANGED <<stored, canonical, nextHash, nodeTip, nodeMoves, initialVars,
                 liveVars>>

Next ==
  \/ InInitial(Initial!Next)
  \/ StartLive
  \/ InLive(Live!Next)

\* The goroutines of each phase, not the node: some goroutine that can step
\* eventually does (weaker than fairness per goroutine, which Go's
\* scheduler gives).
InitialSteps ==
  \/ Initial!processBlockHeights
  \/ Initial!closeHeights
  \/ \E hs \in requested : Initial!getBlocks(hs)
  \/ \E bs \in sfetched : Initial!orderReceive(bs)
  \/ Initial!orderEmit
  \/ Initial!writeBlock

LiveSteps ==
  \/ Live!ZmqReceive
  \/ Live!ZmqTimeout
  \/ Live!SyncReceive
  \/ Live!SyncLastBlock
  \/ Live!SyncFetch
  \/ Live!SyncSend
  \/ Live!WriteBlock

Fairness ==
  /\ WF_vars(InInitial(InitialSteps))
  /\ WF_vars(StartLive)
  /\ WF_vars(InLive(LiveSteps))

Spec == Init /\ [][Next]_vars /\ Fairness

TypeOK ==
  /\ phase \in {"initial", "live"}
  /\ Initial!TypeOK
  /\ Live!TypeOK

(***************************************************************************)
(* The initial sync never hits a refused insert: orderBlock's gap-free     *)
(* ascending order from the store's tip height brings every block to       *)
(* writeBlock at or above the tip, whatever the node does meanwhile.       *)
(***************************************************************************)
NoFatalInitialInsert == phase = "initial" => ~crashed

(***************************************************************************)
(* When the initial sync returns, every height from startBlock to the last *)
(* endBlock it read from the node has a stored block: the batches, the     *)
(* end-height re-read and the orderer leave no height behind.              *)
(***************************************************************************)
AllHeightsWritten == Initial!AllHeightsWritten

(***************************************************************************)
(* initialSync returns (its WaitGroups complete) unless the process exited *)
(* first, so live sync starts.                                             *)
(***************************************************************************)
InitialSyncReturns == <>(crashed \/ phase = "live")

(***************************************************************************)
(* Once the node stops moving, the store's canonical chain becomes and     *)
(* stays the node's chain, unless the process exited.  Blocks the node     *)
(* mined after the initial sync's last end-height read and before Connect  *)
(* published messages nobody received; the live walk from LastBlock on    *)
(* the first wake-up (a message or the receive timeout) must catch up.    *)
(***************************************************************************)
EventuallyConverged == <>[](crashed \/ Live!Converged)

=============================================================================
