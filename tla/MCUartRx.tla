------------------------------ MODULE MCUartRx ------------------------------
(***************************************************************************)
(* TLC instance of UartRx.  Four cells are enough for the indices to wrap  *)
(* and for a byte to arrive in every window of ringbuf_remove.             *)
(***************************************************************************)
EXTENDS UartRx
=============================================================================
