--------------------------- MODULE BlockValidator ---------------------------
(***************************************************************************)
(* The block validator (src/V2/cmd/blockvalidator/main.go), run after run. *)
(*                                                                         *)
(* A run validates heights [startBlock, endBlock]: startBlock is the       *)
(* persisted cursor validatedBlock, endBlock the store's tip.  Heights go  *)
(* through getBlock workers (RPC), readBlock workers (store), orderResults *)
(* (restores height order) and checkResult.  A height whose stored block   *)
(* or transactions differ from the node's is sent to repairBlock by a      *)
(* goroutine of its own; repairBlock re-inserts it with recover = TRUE and *)
(* then its transactions in a waiter goroutine, requeueing on failure.     *)
(* Each validated height calls blockValidated, which counts it and moves   *)
(* the cursor; the count reaching totalBlocks ends the run.                *)
(*                                                                         *)
(* The store is abstracted to which heights differ from the node          *)
(* (`mismatch`); nothing else writes the store here.                       *)
(***************************************************************************)
EXTENDS Integers, FiniteSets

CONSTANTS
  StartHeight,   \* validatedBlock when the first run starts
  EndHeight,     \* the store's last canonical height
  Offset,        \* revalidateOffset[coin]
  RpcThreads,    \* getBlock workers
  DbThreads,     \* readBlock workers
  MaxFailures,   \* bound on failed repair attempts (the store recovers)
  MaxRuns        \* bound on runs (scheduled job, or restart after exit)

ASSUME StartHeight \in Nat /\ EndHeight \in Nat /\ StartHeight <= EndHeight
ASSUME Offset \in Nat \ {0}
ASSUME RpcThreads \in Nat \ {0} /\ DbThreads \in Nat \ {0}

Heights == StartHeight..EndHeight

VARIABLES
  mismatch,      \* heights whose stored block or txs differ from the node
  cursor,        \* metadata validatedBlock
  running,       \* a run is in progress
  runs,          \* runs started
  failures,      \* failed repair attempts so far
  startBlock,    \* v.startBlock of the current run
  totalBlocks,   \* v.totalBlocks
  validatedCnt,  \* v.blocksValidated
  nextHeight,    \* next height in blockHeightsChan
  fetching,      \* heights held by getBlock workers
  reading,       \* heights held by readBlock workers
  results,       \* orderResults' map of received heights
  nextBlock,     \* orderResults' next height to emit
  repairQ,       \* heights with a goroutine blocked on repairChan <- b
  repairing,     \* heights whose block was re-inserted, txs in progress
  validated,     \* history: heights validated by any run
  counted        \* heights the current run passed to blockValidated

vars == <<mismatch, cursor, running, runs, failures, startBlock, totalBlocks,
          validatedCnt, nextHeight, fetching, reading, results, nextBlock,
          repairQ, repairing, validated, counted>>

pipeVars == <<nextHeight, fetching, reading, results, nextBlock>>

(***************************************************************************)
(* Runs.                                                                   *)
(***************************************************************************)
Init ==
  /\ mismatch \in SUBSET Heights
  /\ cursor = StartHeight
  /\ running = TRUE
  /\ runs = 1
  /\ failures = 0
  /\ validated = {}
  /\ counted = {}
  /\ startBlock = StartHeight
  /\ totalBlocks = EndHeight - StartHeight + 1
  /\ validatedCnt = 0
  /\ nextHeight = StartHeight
  /\ nextBlock = StartHeight
  /\ fetching = {} /\ reading = {} /\ results = {}
  /\ repairQ = {} /\ repairing = {}

\* Fault: a run that starts from the first height instead of the cursor.
StartRunFromFirst ==
  /\ ~running
  /\ runs < MaxRuns
  /\ running' = TRUE
  /\ runs' = runs + 1
  /\ startBlock' = StartHeight
  /\ totalBlocks' = EndHeight - StartHeight + 1
  /\ validatedCnt' = 0
  /\ nextHeight' = StartHeight
  /\ nextBlock' = StartHeight
  /\ fetching' = {} /\ reading' = {} /\ results' = {}
  /\ repairQ' = {} /\ repairing' = {}
  /\ counted' = {}
  /\ UNCHANGED <<mismatch, cursor, failures, validated>>

\* The job runs again (on schedule, or restarted after exiting): main and
\* generateBlockHeights start from the persisted cursor up to the tip.
StartRun ==
  /\ ~running
  /\ runs < MaxRuns
  /\ running' = TRUE
  /\ runs' = runs + 1
  /\ startBlock' = cursor
  /\ totalBlocks' = EndHeight - cursor + 1
  /\ validatedCnt' = 0
  /\ nextHeight' = cursor
  /\ nextBlock' = cursor
  /\ fetching' = {} /\ reading' = {} /\ results' = {}
  /\ repairQ' = {} /\ repairing' = {}
  /\ counted' = {}
  /\ UNCHANGED <<mismatch, cursor, failures, validated>>

\* The process exits mid-run: log.Fatal in getBlock, readBlock or
\* blockValidated, or the job being stopped.  In-memory state is lost.
Crash ==
  /\ running
  /\ running' = FALSE
  /\ UNCHANGED <<mismatch, cursor, runs, failures, startBlock, totalBlocks,
                 validatedCnt, pipeVars, repairQ, repairing, validated,
                 counted>>

(***************************************************************************)
(* blockValidated: under bvMutex, move the cursor while the count leaves   *)
(* revalidateOffset heights to spare, count the height, and end the run    *)
(* (close(doneChan), main returns) when the count reaches totalBlocks.     *)
(***************************************************************************)
\* Fault: the run's end is tested before the count is incremented.
blockValidatedLate(h) ==
  /\ cursor' = IF validatedCnt + Offset <= totalBlocks
                 THEN startBlock + validatedCnt
                 ELSE cursor
  /\ validatedCnt' = validatedCnt + 1
  /\ running' = (validatedCnt # totalBlocks)
  /\ validated' = validated \cup {h}
  /\ counted' = counted \cup {h}

blockValidated(h) ==
  /\ cursor' = IF validatedCnt + Offset <= totalBlocks
                 THEN startBlock + validatedCnt
                 ELSE cursor
  /\ validatedCnt' = validatedCnt + 1
  /\ running' = (validatedCnt + 1 # totalBlocks)
  /\ validated' = validated \cup {h}
  /\ counted' = counted \cup {h}

(***************************************************************************)
(* The pipeline.                                                           *)
(***************************************************************************)
\* getBlock: take the next height from blockHeightsChan, GetBlocks([]int{h}).
\* Fault: one height past the tip is queued.
getBlockPastTip ==
  /\ running
  /\ nextHeight <= EndHeight + 1
  /\ Cardinality(fetching) < RpcThreads
  /\ fetching' = fetching \cup {nextHeight}
  /\ nextHeight' = nextHeight + 1
  /\ UNCHANGED <<mismatch, cursor, running, runs, failures, startBlock,
                 totalBlocks, validatedCnt, reading, results, nextBlock,
                 repairQ, repairing, validated, counted>>

getBlock ==
  /\ running
  /\ nextHeight <= EndHeight
  /\ Cardinality(fetching) < RpcThreads
  /\ fetching' = fetching \cup {nextHeight}
  /\ nextHeight' = nextHeight + 1
  /\ UNCHANGED <<mismatch, cursor, running, runs, failures, startBlock,
                 totalBlocks, validatedCnt, reading, results, nextBlock,
                 repairQ, repairing, validated, counted>>

\* readBlock: receive from blocksChan, GetBlock(height) and its tx hashes.
readBlock(h) ==
  /\ running
  /\ h \in fetching
  /\ Cardinality(reading) < DbThreads
  /\ fetching' = fetching \ {h}
  /\ reading' = reading \cup {h}
  /\ UNCHANGED <<mismatch, cursor, running, runs, failures, startBlock,
                 totalBlocks, validatedCnt, nextHeight, results, nextBlock,
                 repairQ, repairing, validated, counted>>

\* orderResults: receive a result from resultChan into the map.
orderReceive(h) ==
  /\ running
  /\ h \in reading
  /\ reading' = reading \ {h}
  /\ results' = results \cup {h}
  /\ UNCHANGED <<mismatch, cursor, running, runs, failures, startBlock,
                 totalBlocks, validatedCnt, nextHeight, fetching, nextBlock,
                 repairQ, repairing, validated, counted>>

\* orderResults emits results[nextBlock] to checkResult, which queues a
\* block that differs from the node for repair (a goroutine sends it) and
\* counts a matching one as validated.
checkResult ==
  /\ running
  /\ nextBlock \in results
  /\ results' = results \ {nextBlock}
  /\ nextBlock' = nextBlock + 1
  /\ IF nextBlock \in mismatch
       THEN /\ repairQ' = repairQ \cup {nextBlock}
            /\ UNCHANGED <<cursor, running, validatedCnt, validated, counted>>
       ELSE /\ blockValidated(nextBlock)
            /\ UNCHANGED repairQ
  /\ UNCHANGED <<mismatch, runs, failures, startBlock, totalBlocks,
                 nextHeight, fetching, reading, repairing>>

\* repairBlock: receive from repairChan and InsertBlock(nodeBlock, true);
\* on error a goroutine requeues the block.
repairBlock(h) ==
  /\ running
  /\ h \in repairQ
  /\ \/ /\ failures < MaxFailures
        /\ failures' = failures + 1
        /\ UNCHANGED <<repairQ, repairing>>
     \/ /\ repairQ' = repairQ \ {h}
        /\ repairing' = repairing \cup {h}
        /\ UNCHANGED failures
  /\ UNCHANGED <<mismatch, cursor, running, runs, startBlock, totalBlocks,
                 validatedCnt, pipeVars, validated, counted>>

\* InsertBlock(nodeBlock, true) relinks the canonical chain only through a
\* canonical parent: while the height below still differs from the node,
\* the node's block may be stored orphaned (TestDatabase_ReorgSkipBlock), so
\* the height keeps differing although its repair goes on to be counted.
RepairLands(h) ==
  \/ mismatch' = mismatch \ {h}
  \/ h - 1 \in mismatch /\ UNCHANGED mismatch

\* The waiter goroutine of repairBlock: after the tx workers finish, a
\* failed InsertTx requeues the block, otherwise the repair counts as
\* validated.
\* Fault: a failed transaction repair is requeued and also counted.
repairDoneCountsFailed(h) ==
  /\ running
  /\ h \in repairing
  /\ repairing' = repairing \ {h}
  /\ \/ /\ failures < MaxFailures
        /\ failures' = failures + 1
        /\ repairQ' = repairQ \cup {h}
        /\ blockValidated(h)
        /\ UNCHANGED mismatch
     \/ /\ RepairLands(h)
        /\ blockValidated(h)
        /\ UNCHANGED <<failures, repairQ>>
  /\ UNCHANGED <<runs, startBlock, totalBlocks, pipeVars>>

repairDone(h) ==
  /\ running
  /\ h \in repairing
  /\ repairing' = repairing \ {h}
  /\ \/ /\ failures < MaxFailures
        /\ failures' = failures + 1
        /\ repairQ' = repairQ \cup {h}
        /\ UNCHANGED <<mismatch, cursor, running, validatedCnt, validated,
                        counted>>
     \/ /\ RepairLands(h)
        /\ blockValidated(h)
        /\ UNCHANGED <<failures, repairQ>>
  /\ UNCHANGED <<runs, startBlock, totalBlocks, pipeVars>>

Next ==
  \/ StartRun
  \/ Crash
  \/ getBlock
  \/ \E h \in Heights : readBlock(h)
  \/ \E h \in Heights : orderReceive(h)
  \/ checkResult
  \/ \E h \in Heights : repairBlock(h)
  \/ \E h \in Heights : repairDone(h)

(***************************************************************************)
(* Runnable goroutines run and store calls return; the job is not required *)
(* to run again, and may exit at any time.                                 *)
(***************************************************************************)
Fairness ==
  /\ WF_vars(getBlock)
  /\ WF_vars(\E h \in Heights : readBlock(h))
  /\ WF_vars(\E h \in Heights : orderReceive(h))
  /\ WF_vars(checkResult)
  /\ WF_vars(\E h \in Heights : repairBlock(h))
  /\ WF_vars(\E h \in Heights : repairDone(h))

Spec == Init /\ [][Next]_vars /\ Fairness

TypeOK ==
  /\ mismatch \subseteq Heights
  /\ cursor \in Heights
  /\ running \in BOOLEAN
  /\ runs \in 1..MaxRuns
  /\ failures \in 0..MaxFailures
  /\ startBlock \in Heights
  /\ validatedCnt \in 0..totalBlocks
  /\ nextHeight \in startBlock..EndHeight + 1
  /\ nextBlock \in startBlock..EndHeight + 1
  /\ fetching \cup reading \cup results \cup repairQ \cup repairing
       \subseteq startBlock..EndHeight
  /\ validated \subseteq Heights
  /\ counted \subseteq startBlock..EndHeight

(***************************************************************************)
(* The cursor is a resume point (orderResults: validate in order "so we    *)
(* can continuously update validatedBlock metadata in case the process     *)
(* crashes and pick up from where we last left off"): no height below the  *)
(* persisted validatedBlock is still waiting for validation or repair.     *)
(* Validations come in height order from checkResult but in completion     *)
(* order from the repair goroutines, and blockValidated moves the cursor   *)
(* by their count.                                                         *)
(***************************************************************************)
CursorSound == \A h \in StartHeight..(cursor - 1) : h \in validated

(***************************************************************************)
(* A run ends (doneChan closed) only when every height it covers has been  *)
(* passed to blockValidated: blockValidated counts calls, not heights, so  *)
(* the count reaching totalBlocks must mean each height was validated by   *)
(* checkResult or by a successful repair, with requeued repairs (the       *)
(* goroutines after a failed InsertBlock or InsertTx) counted once.        *)
(***************************************************************************)
RunFinished == validatedCnt = totalBlocks

FinishedMeansAllCounted ==
  RunFinished => counted = startBlock..EndHeight

(***************************************************************************)
(* Every run that is not stopped from outside ends: with the store         *)
(* recovering from failed repairs, the count reaches totalBlocks.          *)
(***************************************************************************)
RunTerminates == [](running => <>(~running))

(***************************************************************************)
(* Cursor monotonicity (spec.md 8): validatedBlock never moves back, within *)
(* a run or from one run to the next, which starts from it.                *)
(***************************************************************************)
CursorMonotone == [][cursor' >= cursor]_vars

(***************************************************************************)
(* The offset margin (spec.md 4.3 and 8): the cursor never advances past   *)
(* the tip minus revalidateOffset, so the last Offset heights are checked  *)
(* again by the next run.                                                  *)
(***************************************************************************)
CursorWithinOffset == cursor <= EndHeight - Offset

(***************************************************************************)
(* The persisted validatedBlock is a safe resume point for the next run    *)
(* (spec.md 4.3 and 8, orderResults' comment): every height below it has   *)
(* been validated or repaired, and it stays revalidateOffset below the tip. *)
(***************************************************************************)
CursorResumeSafe == CursorSound /\ CursorWithinOffset

=============================================================================
