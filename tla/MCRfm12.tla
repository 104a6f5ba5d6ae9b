------------------------------ MODULE MCRfm12 -------------------------------
(***************************************************************************)
(* TLC instance of Rfm12: packets of one, two and three coded bytes.       *)
(***************************************************************************)
EXTENDS Rfm12

MCLengths == 1..3
=============================================================================
