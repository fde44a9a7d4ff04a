------------------------------ MODULE MCTxWait ------------------------------
(* Instances of TxWait.  The options straddle every bound that               *)
(* effective_wait_bounds enforces.                                           *)
EXTENDS TxWait

MCOptions == (0..5) \X (0..5)
=============================================================================
