----------------------------- MODULE MCInsightTxs -----------------------------
(***************************************************************************)
(* getTxs for two txids, t1 with two inputs and one output and t2 with one *)
(* input and two outputs: six input and output goroutines, so up to six    *)
(* errors against errChan's buffer of four.                                *)
(***************************************************************************)
EXTENDS InsightTxs, TLC

CONSTANTS t1, t2

MCTxids == {t1, t2}

MCInputsOf == (t1 :> {0, 1}) @@ (t2 :> {0})

MCOutputsOf == (t1 :> {0}) @@ (t2 :> {0, 1})

=============================================================================
