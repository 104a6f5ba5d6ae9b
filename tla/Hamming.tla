------------------------------ MODULE Hamming -------------------------------
(***************************************************************************)
(* The code of the bytes on the air (hamming.c): the byte that is sent for *)
(* each half of a byte of a packet, the half that each byte received is    *)
(* taken for, and what becomes of a byte of a frame on its way.            *)
(***************************************************************************)
EXTENDS Naturals, FiniteSets

hamming_enc ==
  << \h15, \h02, \h49, \h5E, \h64, \h73, \h38, \h2F,
     \hD0, \hC7, \h8C, \h9B, \hA1, \hB6, \hFD, \hEA >>

hamming_dec ==
  <<  1,  0,  1,  1,  0,  0,  1,  1,  2,  2,  1,  3, 10,  2,  3,  7,
      0,  0,  1,  1,  0,  0,  1,  0,  6,  2,  3, 11,  2,  0,  3,  3,
      4, 12,  1,  5,  4,  4,  5,  7,  6,  6,  7,  7,  6,  7,  7,  7,
      6,  4,  5,  5,  4,  0, 13,  5,  6,  6,  6,  7,  6,  6,  7,  7,
      0,  2,  1,  1,  4,  0,  1,  9,  2,  2,  3,  2,  2,  2,  3,  3,
      8,  0,  1,  5,  0,  0,  3,  1,  2,  2,  3,  3,  3,  2,  3,  3,
      4,  4,  5,  5,  4,  4,  4,  5,  6,  2, 15,  7,  4,  6,  7,  7,
      4,  5,  5,  5,  4,  4,  5,  5,  6,  6,  7,  5,  6, 14,  3,  7,
      8, 12,  1,  9, 10,  8,  9,  9, 10, 10, 11, 11, 10, 10, 10, 11,
      8,  8,  9, 11,  8,  0, 13,  9, 10, 11, 11, 11, 10, 10, 11, 11,
     12, 12, 13, 12, 12, 12, 13, 13, 14, 12, 15, 15, 10, 14, 15,  7,
     12, 12, 13, 13, 13, 12, 13, 13,  6, 14, 15, 11, 14, 14, 13, 15,
      8,  8,  9,  9,  8,  9,  9,  9, 10,  2, 15, 11, 10, 10, 11,  9,
      8,  8,  8,  9,  8,  8,  9,  9,  8, 10, 11, 11, 10, 14,  3, 11,
     12, 12, 15, 13,  4, 12, 13,  9, 15, 14, 15, 15, 14, 14, 15, 15,
      8, 12, 13,  5, 12, 14, 13, 13, 14, 14, 15, 15, 14, 14, 15, 14 >>

EOP == \hAA

Nibble == 0..15
Byte == 0..255

enc(n) == hamming_enc[n + 1]
dec(b) == hamming_dec[b + 1]

Bit(b, i) == (b \div 2^i) % 2
Distance(a, b) == Cardinality({i \in 0..7 : Bit(a, i) # Bit(b, i)})

(* What the receiver makes of byte b where the code word of n was sent:    *)
(* mac_rx_rfm12 looks for EOP first, what is left is decoded.  Of the      *)
(* number of wrong bits it matters whether there are none, one, or more.   *)
Received(n, b) ==
  [errors |-> IF Distance(enc(n), b) <= 1 THEN Distance(enc(n), b) ELSE 2,
   as     |-> IF b = EOP THEN "EOP" ELSE IF dec(b) = n THEN "right" ELSE "wrong"]

Outcomes == {Received(n, b) : n \in Nibble, b \in Byte}

(* What the code is there for, over all halves of a byte and all bytes     *)
(* received: one that arrives as it was sent is not taken for EOP          *)
(* (mac.c:66), and one with at most one wrong bit that is not taken for    *)
(* EOP is decoded to what was sent (hamming.c; content.tex:928).  No       *)
(* constant is in it: TLC finds it true by going through the tables.       *)
ASSUME TablesCorrect == \A o \in Outcomes :
  /\ o.errors = 0 => o.as # "EOP"
  /\ o.errors <= 1 /\ o.as # "EOP" => o.as = "right"
=============================================================================
