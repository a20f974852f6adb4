CONSTANTS
  G = G
  A1 = A1
  A2 = A2
  B1 = B1
  B2 = B2
  C2 = C2
  NoBlock = NoBlock
  Blocks <- MCBlocks
  Parent <- MCParent
  MaxNodeMoves = 2

SPECIFICATION Spec
CHECK_DEADLOCK FALSE

INVARIANT NoFatalInsert
