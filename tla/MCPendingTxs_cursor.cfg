\* The validatedTransaction cursor: one transaction, two blocks with their
\* coinbases, runs whose GetPendingTxs may fail and a window that moves on.
CONSTANTS
  Txs = {t1}
  MaxFails = 1
  Samples = 1
  MaxBlocks = 2
  MaxIds = 4

SPECIFICATION Spec

PROPERTY TxCursorAdvancesOverChecked
