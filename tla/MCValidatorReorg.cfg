\* Offset 2 and four heights: the cursor moves during the first run.  Two
\* getBlock workers and one readBlock worker, as in MCBlockValidator.
CONSTANTS
  G = G
  A1 = A1
  A2 = A2
  A3 = A3
  B2 = B2
  B3 = B3
  NoBlock = NoBlock
  Blocks <- MCBlocks
  Parent <- MCParent
  Offset = 2
  RpcThreads = 2
  DbThreads = 1
  MaxNodeMoves = 1
  MaxRuns = 2

SPECIFICATION Spec
CHECK_DEADLOCK FALSE

INVARIANT RunHeightsStored
