---------------------------- MODULE MCBlockStore ----------------------------
(***************************************************************************)
(* The store checked on a block tree with three branches off the start     *)
(* block G:                                                                *)
(*     G - A1 - A2 - A3                                                    *)
(*          \                                                              *)
(*           B2 - B3            (a fork at height 1, same-height tips)     *)
(*     G - C1 - C2              (a fork at the start block)                *)
(* Every insert order of these covers the scenarios of                     *)
(* postgres_integration_test.go: same-height fork, fork with a new tip,    *)
(* skipped block filled later, triple fork and return to the old branch.   *)
(***************************************************************************)
EXTENDS BlockStore, TLC

CONSTANTS G, A1, A2, A3, B2, B3, C1, C2

MCBlocks == {G, A1, A2, A3, B2, B3, C1, C2}

MCParent == (G :> NoBlock) @@ (A1 :> G) @@ (A2 :> A1) @@ (A3 :> A2)
              @@ (B2 :> A1) @@ (B3 :> B2) @@ (C1 :> G) @@ (C2 :> C1)

=============================================================================
