------------------------------ MODULE MCMonitor ------------------------------
(***************************************************************************)
(* The monitor on the tree                                                 *)
(*     G - A1 - A2                                                         *)
(*      \                                                                  *)
(*       B1 - B2                                                           *)
(* Writing A1, A2 and then B2 (whose parent is not stored yet) orphans A1  *)
(* and A2; B1 and B2 then fill the gap; re-writing A2 walks back over A1.  *)
(***************************************************************************)
EXTENDS Monitor, TLC

CONSTANTS G, A1, A2, B1, B2

MCBlocks == {G, A1, A2, B1, B2}

MCParent == (G :> NoBlock) @@ (A1 :> G) @@ (A2 :> A1)
              @@ (B1 :> G) @@ (B2 :> B1)

=============================================================================
