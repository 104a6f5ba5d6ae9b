----------------------------- MODULE MCTxStack ------------------------------
(* TLC instance of TxStack: a node that sends both kinds of packet on.     *)
EXTENDS TxStack

MCArrivals == {"ogm", "unicast"}
=============================================================================
