--------------------------- MODULE MCTxPoolReset ---------------------------
(* TxPoolReset with its bounds given in the configuration.                 *)
EXTENDS TxPoolReset
=============================================================================
