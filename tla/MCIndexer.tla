------------------------------ MODULE MCIndexer ------------------------------
(***************************************************************************)
(* The indexer on the tree                                                 *)
(*     G - A1 - A2 - A3                                                    *)
(*          \                                                              *)
(*           B2 - B3                                                       *)
(* The store may start synced to any block and the node on any block.      *)
(* Two node moves let the chain grow or reorganise (one block, or two     *)
(* from A1) in any two of: the initial sync, the gap before Connect, and  *)
(* live sync.                                                              *)
(***************************************************************************)
EXTENDS Indexer, TLC

CONSTANTS G, A1, A2, A3, B2, B3

MCBlocks == {G, A1, A2, A3, B2, B3}

MCParent == (G :> NoBlock) @@ (A1 :> G) @@ (A2 :> A1) @@ (A3 :> A2)
              @@ (B2 :> A1) @@ (B3 :> B2)

=============================================================================
