----------------------------- MODULE MCPendingTxs -----------------------------
(***************************************************************************)
(* Two transactions, each of which may arrive, be mined or be dropped.     *)
(***************************************************************************)
EXTENDS PendingTxs

=============================================================================
