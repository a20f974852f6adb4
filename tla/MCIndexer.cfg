\* The process may exit through log.Fatal, and the node may stop moving:
\* the states after that are final.
CONSTANTS
  G = G
  A1 = A1
  A2 = A2
  A3 = A3
  B2 = B2
  B3 = B3
  NoBlock = NoBlock
  Blocks <- MCBlocks
  Parent <- MCParent
  Batch = 2
  Workers = 2
  MaxNodeMoves = 2

SPECIFICATION Spec
CHECK_DEADLOCK FALSE

INVARIANT TypeOK
INVARIANT NoFatalInitialInsert
INVARIANT AllHeightsWritten
PROPERTY InitialSyncReturns
PROPERTY EventuallyConverged
