\* A transaction arriving, mined or dropped while a validator run samples
\* the mempool and deletes.
CONSTANTS
  Txs = {t1}
  MaxFails = 1
  Samples = 2
  MaxBlocks = 1
  MaxIds = 2

SPECIFICATION Spec

PROPERTY OnlyDroppedDeleted
