----------------------------- MODULE HalfDuplex -----------------------------
(***************************************************************************)
(* What the radio driver promises to the layers above it: one half duplex  *)
(* radio, shared by one sender (the protothread chain that ends in         *)
(* mac_tx) and one receiver (the nIRQ handler).  The radio has at most one *)
(* owner, a frame once started is finished by its owner, and the           *)
(* transmitter is on only while the sender owns the radio, except after a  *)
(* watchdog reset, until the driver has switched the receiver on again.    *)
(*                                                                         *)
(* This is the abstract view of rfm12.c and mac.c; the thesis draws it as  *)
(* a petri net.  Module Rfm12 refines it.                                  *)
(***************************************************************************)

VARIABLES
  owner,    (* who holds the radio mutex                                    *)
  sender,   (* where the sending protothread is                             *)
  mode      (* what the radio hardware is switched to                       *)

vars == <<owner, sender, mode>>

Owners == {"nobody", "sender", "receiver"}
Senders == {"down", "idle", "wanting", "sending", "sent"}
Modes == {"OFF", "RX", "TX"}

TypeOK ==
  /\ owner \in Owners
  /\ sender \in Senders
  /\ mode \in Modes

Init ==
  /\ owner = "nobody"
  /\ sender = "down"
  /\ mode = "OFF"

-----------------------------------------------------------------------------
(* Initialisation and reset.                                               *)

ReceiverOn ==
  /\ sender = "down"
  /\ mode' = "RX"
  /\ UNCHANGED <<owner, sender>>

Ready ==
  /\ sender = "down"
  /\ mode = "RX"
  /\ sender' = "idle"
  /\ UNCHANGED <<owner, mode>>

Reset ==
  /\ sender' = "down"
  /\ owner' = "nobody"
  /\ UNCHANGED mode

-----------------------------------------------------------------------------
(* The sender.                                                             *)

Prompt ==
  /\ sender = "idle"
  /\ sender' = "wanting"
  /\ UNCHANGED <<owner, mode>>

Acquire ==
  /\ sender = "wanting"
  /\ owner = "nobody"
  /\ sender' = "sending"
  /\ owner' = "sender"
  /\ UNCHANGED mode

TransmitterOn ==
  /\ sender = "sending"
  /\ owner = "sender"
  /\ mode' = "TX"
  /\ UNCHANGED <<owner, sender>>

(* The last byte of the frame: the radio is free and listens again.        *)
LastByteSent ==
  /\ sender = "sending"
  /\ owner = "sender"
  /\ mode = "TX"
  /\ sender' = "sent"
  /\ owner' = "nobody"
  /\ mode' = "RX"

Notice ==
  /\ sender = "sent"
  /\ sender' = "idle"
  /\ UNCHANGED <<owner, mode>>

-----------------------------------------------------------------------------
(* The receiver.                                                           *)

FirstByteReceived ==
  /\ owner = "nobody"
  /\ sender # "down"
  /\ mode = "RX"
  /\ owner' = "receiver"
  /\ UNCHANGED <<sender, mode>>

LastByteReceived ==
  /\ owner = "receiver"
  /\ mode = "RX"
  /\ owner' = "nobody"
  /\ UNCHANGED <<sender, mode>>

-----------------------------------------------------------------------------

Next ==
  \/ ReceiverOn \/ Ready \/ Reset
  \/ Prompt \/ Acquire \/ TransmitterOn \/ LastByteSent \/ Notice
  \/ FirstByteReceived \/ LastByteReceived

Spec == Init /\ [][Next]_vars
=============================================================================
