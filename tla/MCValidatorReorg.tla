--------------------------- MODULE MCValidatorReorg ---------------------------
(***************************************************************************)
(* The validator on the tree                                               *)
(*     G - A1 - A2 - A3                                                    *)
(*          \                                                              *)
(*           B2 - B3                                                       *)
(* The store may hold any chain and the node any block at least as high;   *)
(* with the store on A3 and the node on B3 the repairs of B2 and B3 move   *)
(* the tip down.  One node move lets the chain change during a run.        *)
(***************************************************************************)
EXTENDS ValidatorReorg, TLC

CONSTANTS G, A1, A2, A3, B2, B3

MCBlocks == {G, A1, A2, A3, B2, B3}

MCParent == (G :> NoBlock) @@ (A1 :> G) @@ (A2 :> A1) @@ (A3 :> A2)
              @@ (B2 :> A1) @@ (B3 :> B2)

=============================================================================
