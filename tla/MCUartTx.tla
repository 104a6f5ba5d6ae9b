------------------------------ MODULE MCUartTx ------------------------------
(***************************************************************************)
(* TLC instance of UartTx: the two threads that write, a buffer of three   *)
(* bytes, and outputs of one string that is longer than the buffer, of     *)
(* several strings, and of an empty string.                                *)
(***************************************************************************)
EXTENDS UartTx

MCWriters == {"shell", "rx_thread"}
MCOutputs == {<<4>>, <<2, 0, 1>>, <<0>>}
=============================================================================
