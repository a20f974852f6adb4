\* One transaction that may arrive, be mined or be dropped while it is
\* fetched (with one retry), written, sampled once per validator run and
\* deleted; two blocks, each with its coinbase, so that the cursor can be
\* set from a block and the window can move to the next.
CONSTANTS
  Txs = {t1}
  MaxFails = 1
  Samples = 1
  MaxBlocks = 2
  MaxIds = 3

SPECIFICATION Spec

INVARIANT TypeOK
PROPERTY DroppedDeletedOnceRunsComplete
