\* Two handleOrphans goroutines of successive newBlock POSTs, each storing
\* the count it read.
CONSTANTS
  G = G
  A1 = A1
  A2 = A2
  B1 = B1
  B2 = B2
  NoBlock = NoBlock
  Blocks <- MCBlocks
  Parent <- MCParent
  MaxInserts = 4
  DbThreads = 2
SPECIFICATION Spec
CHECK_DEADLOCK FALSE

PROPERTY OrphanCountMonotone
