\* A request ends when getTxs returns; goroutines it leaves blocked stay so,
\* and GoroutinesExit asks whether any can.
CONSTANTS
  t1 = t1
  t2 = t2
  Txids <- MCTxids
  InputsOf <- MCInputsOf
  OutputsOf <- MCOutputsOf

SPECIFICATION Spec
CHECK_DEADLOCK FALSE

PROPERTY GoroutinesExit
