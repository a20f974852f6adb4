------------------------------ MODULE InsightTxs ------------------------------
(***************************************************************************)
(* One call of InsightServer.getTxs (src/V2/pkg/api/insight/helpers.go),   *)
(* which TxByTxID, TxsByBlockHash and TxHistoryByAddrs run per request.    *)
(*                                                                         *)
(* getTxs reads LastBlock, then starts a waiter goroutine that starts one  *)
(* goroutine per txid and, after txwg.Wait, closes errChan (buffered,      *)
(* 2 * len(txids)); the caller ranges over errChan and returns the first   *)
(* error, or the transactions once errChan is closed.  A txid goroutine    *)
(* reads the transaction (GetTxByTxID), starts processTxInput and          *)
(* processTxOutput goroutines per input and output, receives               *)
(* len(Inputs) + len(Outputs) values from the unbuffered inputsChan and    *)
(* outputsChan, and on return closes both channels and calls txwg.Done.   *)
(*                                                                         *)
(* Each store read or address conversion may fail: the failing goroutine   *)
(* sends an error on errChan.  A send blocks while errChan's buffer is     *)
(* full; a send on a closed channel would panic and end the API process,   *)
(* which NoPanic states never happens.                                     *)
(* The payloads (vins, vouts, values, confirmations) are left out; the     *)
(* data kept is which goroutine sent, received and exited.                 *)
(* convert.ToSatoshi of a "%.8f" string and convert.ToUnixTimestamp of a   *)
(* time the store wrote cannot fail, so their error branches are omitted.  *)
(***************************************************************************)
EXTENDS Integers, FiniteSets

CONSTANTS
  Txids,      \* the txids of the request
  InputsOf,   \* InputsOf[t]: the input indexes of transaction t
  OutputsOf   \* OutputsOf[t]: the output indexes of transaction t

ASSUME InputsOf \in [Txids -> SUBSET Nat] /\ OutputsOf \in [Txids -> SUBSET Nat]

\* The processTxInput and processTxOutput goroutines a txid goroutine starts.
Procs ==
  UNION {{<<t, "in", j>> : j \in InputsOf[t]}
           \cup {<<t, "out", j>> : j \in OutputsOf[t]} : t \in Txids}

TxOf(p) == p[1]

\* len(tx.Inputs) + len(tx.Outputs): the values the collect loop receives.
Expected(t) == Cardinality(InputsOf[t]) + Cardinality(OutputsOf[t])

\* make(chan error, len(txids)*2)
ErrCap == 2 * Cardinality(Txids)

VARIABLES
  mainPc,     \* the caller: "start", "range", "ok" or "err"
  waiterPc,   \* the waiter goroutine: "none", "spawn", "wait" or "exited"
  txPc,       \* txPc[t]: "none", "get", "errsend", "collect" or "exited"
  received,   \* received[t]: values the collect loop has received
  chanClosed, \* chanClosed[t]: inputsChan and outputsChan of t closed
  procPc,     \* procPc[p]: "none", "run", "errsend", "send" or "exited"
  errBuf,     \* errors buffered in errChan
  errClosed,  \* errChan closed
  filled      \* txids whose txs[index] was set

vars == <<mainPc, waiterPc, txPc, received, chanClosed, procPc, errBuf,
          errClosed, filled>>

\* getTxs is entered; nothing has started.
Init ==
  /\ mainPc = "start"
  /\ waiterPc = "none"
  /\ txPc = [t \in Txids |-> "none"]
  /\ received = [t \in Txids |-> 0]
  /\ chanClosed = [t \in Txids |-> FALSE]
  /\ procPc = [p \in Procs |-> "none"]
  /\ errBuf = 0
  /\ errClosed = FALSE
  /\ filled = {}

(***************************************************************************)
(* The caller.                                                             *)
(***************************************************************************)
\* LastBlock: on error return it; otherwise txwg.Add, start the waiter and
\* range over errChan.
LastBlock ==
  /\ mainPc = "start"
  /\ \/ mainPc' = "err" /\ UNCHANGED waiterPc
     \/ mainPc' = "range" /\ waiterPc' = "spawn"
  /\ UNCHANGED <<txPc, received, chanClosed, procPc, errBuf,
                 errClosed, filled>>

\* Fault: the loop keeps the error and goes on ranging until errChan closes.
RangeReceiveDrain ==
  /\ mainPc = "range"
  /\ errBuf > 0
  /\ errBuf' = errBuf - 1
  /\ UNCHANGED <<mainPc, waiterPc, txPc, received, chanClosed, procPc,
                 errClosed, filled>>

\* `for err := range errChan { return nil, err }`: the first error returns.
RangeReceive ==
  /\ mainPc = "range"
  /\ errBuf > 0
  /\ errBuf' = errBuf - 1
  /\ mainPc' = "err"
  /\ UNCHANGED <<waiterPc, txPc, received, chanClosed, procPc,
                 errClosed, filled>>

\* errChan closed and drained: sort txs and return them.
RangeClosed ==
  /\ mainPc = "range"
  /\ errBuf = 0
  /\ errClosed
  /\ mainPc' = "ok"
  /\ UNCHANGED <<waiterPc, txPc, received, chanClosed, procPc,
                 errBuf, errClosed, filled>>

(***************************************************************************)
(* The waiter goroutine.                                                   *)
(***************************************************************************)
\* `for idx, id := range txids { go func(...) }`: no step of the loop blocks.
SpawnTxs ==
  /\ waiterPc = "spawn"
  /\ waiterPc' = "wait"
  /\ txPc' = [t \in Txids |-> "get"]
  /\ UNCHANGED <<mainPc, received, chanClosed, procPc, errBuf,
                 errClosed, filled>>

\* Fault: errChan closed without waiting for the txid goroutines.
CloseErrChanEarly ==
  /\ waiterPc = "wait"
  /\ waiterPc' = "exited"
  /\ errClosed' = TRUE
  /\ UNCHANGED <<mainPc, txPc, received, chanClosed, procPc,
                 errBuf, filled>>

\* txwg.Wait(); close(errChan)
CloseErrChan ==
  /\ waiterPc = "wait"
  /\ \A t \in Txids : txPc[t] = "exited"
  /\ waiterPc' = "exited"
  /\ errClosed' = TRUE
  /\ UNCHANGED <<mainPc, txPc, received, chanClosed, procPc,
                 errBuf, filled>>

(***************************************************************************)
(* A txid goroutine.                                                       *)
(***************************************************************************)
\* GetTxByTxID: on error, send it and return; otherwise start the input and
\* output goroutines and collect.
GetTxByTxID(t) ==
  /\ txPc[t] = "get"
  /\ \/ /\ txPc' = [txPc EXCEPT ![t] = "errsend"]
        /\ UNCHANGED procPc
     \/ /\ txPc' = [txPc EXCEPT ![t] = "collect"]
        /\ procPc' = [p \in Procs |-> IF TxOf(p) = t THEN "run" ELSE procPc[p]]
  /\ UNCHANGED <<mainPc, waiterPc, received, chanClosed, errBuf,
                 errClosed, filled>>

\* A send on errChan: blocks while the buffer is full (NoPanic: it is never
\* closed while a goroutine may still send).
ErrSend == errBuf < ErrCap /\ errBuf' = errBuf + 1

\* The deferred close(outputsChan), close(inputsChan) and txwg.Done().
TxReturn(t) ==
  /\ txPc' = [txPc EXCEPT ![t] = "exited"]
  /\ chanClosed' = [chanClosed EXCEPT ![t] = TRUE]

TxSendErr(t) ==
  /\ txPc[t] = "errsend"
  /\ ErrSend
  /\ TxReturn(t)
  /\ UNCHANGED <<mainPc, waiterPc, received, procPc, errClosed,
                 filled>>

\* One iteration of the select over inputsChan and outputsChan: a rendezvous
\* with a goroutine of t blocked in its send.
Collect(t, p) ==
  /\ txPc[t] = "collect"
  /\ received[t] < Expected(t)
  /\ TxOf(p) = t
  /\ procPc[p] = "send"
  /\ received' = [received EXCEPT ![t] = @ + 1]
  /\ procPc' = [procPc EXCEPT ![p] = "exited"]
  /\ UNCHANGED <<mainPc, waiterPc, txPc, chanClosed, errBuf,
                 errClosed, filled>>

\* Fault: the loop bound counts only the inputs.
FinishTxInputsOnly(t) ==
  /\ txPc[t] = "collect"
  /\ received[t] >= Cardinality(InputsOf[t])
  /\ TxReturn(t)
  /\ filled' = filled \cup {t}
  /\ UNCHANGED <<mainPc, waiterPc, received, procPc, errBuf,
                 errClosed>>

\* The loop is done: sort, build the insightTx, set txs[index] and return.
FinishTx(t) ==
  /\ txPc[t] = "collect"
  /\ received[t] = Expected(t)
  /\ TxReturn(t)
  /\ filled' = filled \cup {t}
  /\ UNCHANGED <<mainPc, waiterPc, received, procPc, errBuf,
                 errClosed>>

(***************************************************************************)
(* processTxInput and processTxOutput goroutines.                          *)
(***************************************************************************)
\* processTxInput: GetOutputsByTxID of the spent output, then
\* normalizeAddrFormat of its address; either error is sent and the
\* goroutine returns without sending the vin.
ProcessTxInput(p) ==
  /\ p[2] = "in"
  /\ procPc[p] = "run"
  /\ \/ procPc' = [procPc EXCEPT ![p] = "errsend"]
     \/ procPc' = [procPc EXCEPT ![p] = "send"]
  /\ UNCHANGED <<mainPc, waiterPc, txPc, received, chanClosed,
                 errBuf, errClosed, filled>>

\* processTxOutput: GetSpentTxDetails cannot fail; a normalizeAddrFormat
\* error is sent and the vout is still sent after it.
ProcessTxOutput(p) ==
  /\ p[2] = "out"
  /\ procPc[p] = "run"
  /\ \/ procPc' = [procPc EXCEPT ![p] = "errsend"]
     \/ procPc' = [procPc EXCEPT ![p] = "send"]
  /\ UNCHANGED <<mainPc, waiterPc, txPc, received, chanClosed,
                 errBuf, errClosed, filled>>

\* The errChan send; an input goroutine then returns, an output goroutine
\* goes on to send its vout.
ProcSendErr(p) ==
  /\ procPc[p] = "errsend"
  /\ ErrSend
  /\ procPc' = [procPc EXCEPT ![p] = IF p[2] = "in" THEN "exited" ELSE "send"]
  /\ UNCHANGED <<mainPc, waiterPc, txPc, received, chanClosed, errClosed,
                 filled>>

Next ==
  \/ LastBlock \/ RangeReceive \/ RangeClosed
  \/ SpawnTxs \/ CloseErrChan
  \/ \E t \in Txids : GetTxByTxID(t) \/ TxSendErr(t) \/ FinishTx(t)
  \/ \E t \in Txids, p \in Procs : Collect(t, p)
  \/ \E p \in Procs : ProcessTxInput(p) \/ ProcessTxOutput(p)
                        \/ ProcSendErr(p)

\* Go's scheduler runs every runnable goroutine.
Fairness ==
  /\ WF_vars(LastBlock) /\ WF_vars(RangeReceive) /\ WF_vars(RangeClosed)
  /\ WF_vars(SpawnTxs) /\ WF_vars(CloseErrChan)
  /\ \A t \in Txids : WF_vars(GetTxByTxID(t)) /\ WF_vars(TxSendErr(t))
                        /\ WF_vars(FinishTx(t))
  /\ \A t \in Txids, p \in Procs : WF_vars(Collect(t, p))
  /\ \A p \in Procs : /\ WF_vars(ProcessTxInput(p)) /\ WF_vars(ProcessTxOutput(p))
                      /\ WF_vars(ProcSendErr(p))

Spec == Init /\ [][Next]_vars /\ Fairness

TypeOK ==
  /\ mainPc \in {"start", "range", "ok", "err"}
  /\ waiterPc \in {"none", "spawn", "wait", "exited"}
  /\ txPc \in [Txids -> {"none", "get", "errsend", "collect", "exited"}]
  /\ \A t \in Txids : received[t] \in 0..Expected(t)
  /\ chanClosed \in [Txids -> BOOLEAN]
  /\ procPc \in [Procs -> {"none", "run", "errsend", "send", "exited"}]
  /\ errBuf \in 0..ErrCap
  /\ errClosed \in BOOLEAN
  /\ filled \subseteq Txids

(***************************************************************************)
(* No goroutine of getTxs can reach a send on a closed channel: errChan is *)
(* closed only after txwg.Wait, and inputsChan and outputsChan only by the *)
(* deferred closes of a txid goroutine, so every error send and every vin  *)
(* or vout send must come before the close that follows it.                *)
(***************************************************************************)
NoPanic ==
  /\ errClosed => /\ \A t \in Txids : txPc[t] # "errsend"
                  /\ \A p \in Procs : procPc[p] # "errsend"
  /\ \A p \in Procs : procPc[p] = "send" => ~chanClosed[TxOf(p)]

(***************************************************************************)
(* getTxs returns the transactions only when every txs[index] was set: a   *)
(* nil entry would be dereferenced by the sort and the JSON encoding.      *)
(***************************************************************************)
SuccessMeansComplete == mainPc = "ok" => filled = Txids

(***************************************************************************)
(* Every call of getTxs returns, with the transactions or with an error,   *)
(* whichever goroutine fails and whenever.                                 *)
(***************************************************************************)
RequestReturns == <>(mainPc \in {"ok", "err"})

(***************************************************************************)
(* Once getTxs has returned, every goroutine it started eventually exits:  *)
(* a request leaves no goroutine behind, whether it succeeds or fails.     *)
(***************************************************************************)
AllExited ==
  /\ waiterPc \in {"none", "exited"}
  /\ \A t \in Txids : txPc[t] \in {"none", "exited"}
  /\ \A p \in Procs : procPc[p] \in {"none", "exited"}

GoroutinesExit == (mainPc \in {"ok", "err"}) ~> AllExited

=============================================================================
