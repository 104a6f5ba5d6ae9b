------------------------------ MODULE MCLlcRx -------------------------------
(***************************************************************************)
(* TLC instance of LlcRx: an empty packet, one with a byte of data, and a  *)
(* third name, for the frame that is on the air while a packet of one of   *)
(* the others waits.                                                       *)
(***************************************************************************)
EXTENDS LlcRx

MCFrames == {"empty", "one", "two"}
MCDataLength == [f \in MCFrames |-> IF f = "empty" THEN 0 ELSE IF f = "one" THEN 1 ELSE 2]
=============================================================================
