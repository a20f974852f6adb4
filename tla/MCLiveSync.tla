----------------------------- MODULE MCLiveSync -----------------------------
(***************************************************************************)
(* Live sync on the tree                                                   *)
(*     G - A1 - A2                                                         *)
(*     |     \                                                             *)
(*     |      C2           (same-height reorg at height 2)                 *)
(*     B1 - B2             (two-block reorg from the start block)          *)
(* with up to three node tip moves: enough for a new block, a one-block    *)
(* and a two-block reorg in one behaviour, and for two moves to share one  *)
(* wake-up.                                                                *)
(***************************************************************************)
EXTENDS LiveSync, TLC

CONSTANTS G, A1, A2, B1, B2, C2

MCBlocks == {G, A1, A2, B1, B2, C2}

MCParent == (G :> NoBlock) @@ (A1 :> G) @@ (A2 :> A1)
              @@ (B1 :> G) @@ (B2 :> B1) @@ (C2 :> A1)

=============================================================================
