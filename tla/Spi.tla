-------------------------------- MODULE Spi ---------------------------------
(***************************************************************************)
(* The SPI of the processor and the radio at its end, as spi.c uses them.  *)
(*                                                                         *)
(* A byte written to SPDR is shifted out; when it is out SPIF is set in    *)
(* SPSR.  A write while a byte is being shifted is ignored.  SPIF is       *)
(* cleared when SPSR has been read with SPIF set and SPDR is accessed      *)
(* then.  The radio executes what it was sent while it was selected, when  *)
(* it is deselected.                                                       *)
(*                                                                         *)
(* The module has no state of its own: its operators map one state of the  *)
(* bus to the next, a piece of spi_tx or spi_tx16 each.                    *)
(***************************************************************************)
EXTENDS Sequences

Nothing == <<>>           (* nothing is being shifted                        *)
Part == <<"part">>        (* a byte in the middle of which the radio was     *)
                          (* selected or deselected                          *)

(* shifting: the byte in the shift register; spif, seen: SPIF, and whether *)
(* SPSR was read with it set; selected, got: whether the radio is, and     *)
(* what it has got since.                                                  *)
SpiIdle ==
  [shifting |-> Nothing, spif |-> FALSE, seen |-> FALSE,
   selected |-> FALSE, got |-> <<>>]

Split(b) == IF b.shifting = Nothing THEN Nothing ELSE Part

spi_ss_low(b) ==
  IF b.selected THEN b
  ELSE [b EXCEPT !.selected = TRUE, !.got = <<>>, !.shifting = Split(b)]

spi_ss_high(b) ==
  IF ~ b.selected THEN b
  ELSE [b EXCEPT !.selected = FALSE, !.got = <<>>, !.shifting = Split(b)]

(* What the radio executes, if it is deselected now.                       *)
Received(b) == b.got \o (IF b.shifting = Nothing THEN <<>> ELSE <<Part>>)

Accessed(b) == [b EXCEPT !.spif = @ /\ ~ b.seen, !.seen = FALSE]

SpdrWrite(b, byte) ==
  [Accessed(b) EXCEPT !.shifting = IF @ = Nothing THEN byte ELSE @]

SpdrRead(b) == Accessed(b)

(* The hardware has shifted the byte out.                                  *)
Shifted(b) ==
  [b EXCEPT !.shifting = Nothing, !.spif = TRUE,
            !.got = IF b.selected THEN Append(@, b.shifting) ELSE @]

(* The loop of spi_block_until_sent ends, ...                              *)
SpsrRead(b) == [b EXCEPT !.seen = TRUE]

(* ... or it never does.                                                   *)
NeverSent(b) == ~ b.spif /\ b.shifting = Nothing

-----------------------------------------------------------------------------
(* Whole transfers, for who cannot be interrupted.  A byte on the bus      *)
(* outlasts whatever the handler does between two of its own.              *)

spi_block_until_sent(b) == SpsrRead(IF b.spif THEN b ELSE Shifted(b))

spi_tx(b, byte) ==
  SpdrRead(spi_ss_high(spi_block_until_sent(SpdrWrite(spi_ss_low(b), byte))))

(* spi_tx16, up to the deselection of the radio.                           *)
spi_tx16_sent(b, hi, lo) ==
  LET first == SpdrRead(spi_block_until_sent(SpdrWrite(spi_ss_low(b), hi)))
  IN  SpdrRead(spi_block_until_sent(SpdrWrite(first, lo)))
=============================================================================
