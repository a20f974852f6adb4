\* Every insert order of the tree, with and without recover.
CONSTANTS
  G = G
  A1 = A1
  A2 = A2
  A3 = A3
  B2 = B2
  B3 = B3
  C1 = C1
  C2 = C2
  NoBlock = NoBlock
  Blocks <- MCBlocks
  Parent <- MCParent

INIT StoreInit
NEXT StoreNext

INVARIANT StoreTypeOK
INVARIANT CanonicalChainLinked
PROPERTY ImplementsCanonicalChain
