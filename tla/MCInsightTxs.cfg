\* A request ends when getTxs returns; goroutines it leaves blocked stay so,
\* which GoroutinesExit (MCInsightTxs_leak.cfg) is about.
CONSTANTS
  t1 = t1
  t2 = t2
  Txids <- MCTxids
  InputsOf <- MCInputsOf
  OutputsOf <- MCOutputsOf

SPECIFICATION Spec
CHECK_DEADLOCK FALSE

INVARIANT NoPanic
INVARIANT SuccessMeansComplete
PROPERTY RequestReturns
