------------------------------- MODULE LlcRx --------------------------------
(***************************************************************************)
(* The receiving half of the logical link control (llc.c).                 *)
(*                                                                         *)
(* The nIRQ handler gives every byte of a frame to llc_rx_mac, which puts  *)
(* a packet together in the one buffer packet_rx.  At the end of the frame *)
(* it sets needs_processing, and from then on drops what arrives, in the   *)
(* middle of a frame if need be, until the main loop has checked the       *)
(* packet, copied it and cleared the flag in llc_rx.  The main program can *)
(* be interrupted between any two of its actions.  Once it has a packet,   *)
(* batman_rx does not call llc_rx again before it has dealt with it, which *)
(* may mean to wait for the semaphore, the radio or the serial line.       *)
(*                                                                         *)
(* Coded byte k of frame f carries half k of the decoded packet, or noise, *)
(* when it is decoded to something else; Hamming says with how many wrong  *)
(* bits that can be.  Of the packet the model keeps what the properties    *)
(* ask: whose first byte it has, whether all its bytes are where the       *)
(* sender put them, and its length field.  The checksum covers all but the *)
(* type, the first half of the first byte, and is taken to find every      *)
(* error.                                                                  *)
(***************************************************************************)
EXTENDS Hamming

CONSTANTS
  Frames,            (* names of frames                                     *)
  DataLength,        (* of a frame: bytes after the header                  *)
  PACKET_MAX_SIZE,   (* net.h: 256                                          *)
  MaxOverlong        (* bytes taken for data after the end of a frame       *)

LLC_HEADER_SIZE == 4

ASSUME SizesAssumption ==
  /\ PACKET_MAX_SIZE \in Nat /\ PACKET_MAX_SIZE > LLC_HEADER_SIZE
  /\ DataLength \in [Frames -> 0..(PACKET_MAX_SIZE - LLC_HEADER_SIZE)]
  /\ MaxOverlong \in Nat
  /\ "none" \notin Frames

VARIABLES
  frame, next,        (* the frame on the air, and its next coded byte      *)
  clean,              (* history: packet_rx was free when it began, and no  *)
                      (* byte of it was lost or had more than one wrong bit *)
  state, cnt,         (* llc.c: state_rx.state, state_rx.cnt                *)
  nextbyte,           (* llc.c: state_rx.nextbyte, its lower half           *)
  packet_rx,          (* llc.c: packet_rx                                   *)
  needs_processing,   (* llc.c: needs_processing                            *)
  pc,                 (* where llc_rx stands                                *)
  packet,             (* what llc_rx handed to its caller last              *)
  packet_arrived      (* llc_rx has returned true, or will, and batman_rx   *)
                      (* is not back at batman.c:288 since                  *)

air == <<frame, next, clean>>
rx == <<state, cnt, nextbyte, packet_rx>>
vars == <<air, rx, needs_processing, pc, packet, packet_arrived>>

None == "none"
CodedLength(f) == 2 * (LLC_HEADER_SIZE + DataLength[f])

Noise == [of |-> None, k |-> 0]
Half(f, k) == [of |-> f, k |-> k]

(* The lengths the 12 bits of a wrong header may show: legal ones, and one *)
(* that stands for all that are too long.                                  *)
WrongLengths == 0..(PACKET_MAX_SIZE - LLC_HEADER_SIZE + 1)

packet_t ==
  [of : Frames \cup {None}, typed : BOOLEAN, intact : BOOLEAN, len : WrongLengths]

TypeOK ==
  /\ frame \in Frames \cup {None}
  /\ next \in Nat
  /\ clean \in BOOLEAN
  /\ state \in {"DATA", "ABORTED", "FIN"}
  /\ cnt \in Nat
  /\ state = "DATA" => cnt \div 2 < PACKET_MAX_SIZE    (* data[pos] exists    *)
  /\ nextbyte \in [of : Frames \cup {None}, k : Nat]
  /\ packet_rx \in packet_t
  /\ needs_processing \in BOOLEAN
  /\ pc \in {"poll", "check", "copy", "reset", "clear"}
  /\ packet \in packet_t
  /\ packet_arrived \in BOOLEAN

EmptyPacket == [of |-> None, typed |-> FALSE, intact |-> FALSE, len |-> 0]

Init ==
  /\ frame = None /\ next = 0 /\ clean = FALSE
  /\ state = "DATA" /\ cnt = 0 /\ nextbyte = Noise
  /\ packet_rx = EmptyPacket
  /\ needs_processing = FALSE
  /\ pc = "poll"
  /\ packet = EmptyPacket
  /\ packet_arrived = FALSE

-----------------------------------------------------------------------------
(* The receiver's state machine, in the nIRQ handler.                      *)

llc_rx_reset ==
  /\ state' = "DATA"
  /\ cnt' = 0
  /\ nextbyte' = Noise
  /\ packet_rx' = EmptyPacket

(* The decoded byte with halves lo and hi becomes byte pos of the packet.  *)
(* The length field is complete with byte 1.                               *)
Fits(pos, lo, hi) ==
  LET f == IF pos = 0 THEN hi.of ELSE packet_rx.of
  IN  /\ f # None
      /\ hi = Half(f, 2 * pos + 1)
      /\ pos > 0 => packet_rx.intact /\ lo = Half(f, 2 * pos)

Store(pos, lo, hi, len) ==
  [of |-> IF pos = 0 THEN hi.of ELSE packet_rx.of,
   typed |-> IF pos = 0 THEN hi.of # None /\ lo = Half(hi.of, 0) ELSE packet_rx.typed,
   intact |-> Fits(pos, lo, hi),
   len |-> len]

LengthsAfter(pos, lo, hi) ==
  IF pos # 1 THEN {packet_rx.len}
  ELSE IF Fits(pos, lo, hi) THEN {DataLength[packet_rx.of]}
  ELSE WrongLengths

\* Mutant: the length field of the header is not looked at.
LengthUnchecked(pos) == pos >= PACKET_MAX_SIZE

TooLong(pos) ==
  \/ pos = LLC_HEADER_SIZE - 1 /\ packet_rx.len > PACKET_MAX_SIZE - LLC_HEADER_SIZE
  \/ pos >= PACKET_MAX_SIZE

llc_rx_frame(pos, lo, hi) ==
  IF state # "DATA" THEN UNCHANGED <<state, packet_rx>>
  ELSE IF TooLong(pos) THEN state' = "ABORTED" /\ UNCHANGED packet_rx
  ELSE \E len \in LengthsAfter(pos, lo, hi) :
         /\ packet_rx' = Store(pos, lo, hi, len)
         /\ state' = IF pos = LLC_HEADER_SIZE + len - 1 THEN "FIN" ELSE "DATA"

(* llc_rx_mac with MAC_RX_OK: the lower half comes first.                  *)
RxByte(half) ==
  /\ IF needs_processing THEN UNCHANGED rx
     ELSE /\ cnt' = cnt + 1
          /\ IF cnt % 2 = 1
               THEN llc_rx_frame(cnt \div 2, nextbyte, half) /\ UNCHANGED nextbyte
               ELSE nextbyte' = half /\ UNCHANGED <<state, packet_rx>>
  /\ UNCHANGED needs_processing

\* Mutant: an unfinished packet is left as it is.
RxFinKeeps ==
  /\ UNCHANGED rx
  /\ needs_processing' = (needs_processing \/ state = "FIN")

(* llc_rx_mac with MAC_RX_FIN: the end of the frame.                       *)
RxFin ==
  IF needs_processing THEN UNCHANGED <<rx, needs_processing>>
  ELSE IF state = "FIN" THEN needs_processing' = TRUE /\ UNCHANGED rx
  ELSE llc_rx_reset /\ UNCHANGED needs_processing

\* Mutant: what an aborted frame left stays in the buffer.
RxAbortKeeps == UNCHANGED <<rx, needs_processing>>

(* llc_rx_mac with MAC_RX_ABORT.                                           *)
RxAbort ==
  /\ IF needs_processing THEN UNCHANGED rx ELSE llc_rx_reset
  /\ UNCHANGED needs_processing

-----------------------------------------------------------------------------
(* The air.  mac_rx_rfm12 is called with the bytes the radio receives and  *)
(* with its errors; what it gives to llc_rx_mac and whether it ends the    *)
(* reception follows from the byte.                                        *)

(* The sync pattern is found.  A name is used again when its last bearer   *)
(* is gone.                                                                *)
FrameBegins(f) ==
  /\ frame = None
  /\ packet_rx.of # f /\ nextbyte.of # f
  /\ frame' = f
  /\ next' = 0
  /\ clean' = (~ needs_processing)
  /\ UNCHANGED <<rx, needs_processing, pc, packet, packet_arrived>>

(* The next byte of the frame, with the outcome o.                         *)
ByteArrives(o) ==
  /\ frame # None
  /\ next < CodedLength(frame)
  /\ o.as # "EOP"
  /\ RxByte(IF o.as = "right" THEN Half(frame, next) ELSE Noise)
  /\ next' = next + 1
  /\ clean' = (clean /\ o.errors <= 1)
  /\ UNCHANGED <<frame, pc, packet, packet_arrived>>

FrameOver == frame' = None /\ next' = 0 /\ clean' = FALSE

(* It is taken for EOP.                                                    *)
FrameCut(o) ==
  /\ frame # None
  /\ next < CodedLength(frame)
  /\ o.as = "EOP"
  /\ RxFin
  /\ FrameOver
  /\ UNCHANGED <<pc, packet, packet_arrived>>

(* The end of the frame was not recognised and noise is taken for data.    *)
NoiseArrives ==
  /\ frame # None
  /\ next >= CodedLength(frame)
  /\ next < CodedLength(frame) + MaxOverlong
  /\ RxByte(Noise)
  /\ next' = next + 1
  /\ clean' = FALSE
  /\ UNCHANGED <<frame, pc, packet, packet_arrived>>

(* EOP at its place, or noise that looks like it.                          *)
FrameEnds ==
  /\ frame # None
  /\ next >= CodedLength(frame)
  /\ RxFin
  /\ FrameOver
  /\ UNCHANGED <<pc, packet, packet_arrived>>

(* The radio reports an error.                                             *)
FrameAborts ==
  /\ frame # None
  /\ RxAbort
  /\ FrameOver
  /\ UNCHANGED <<pc, packet, packet_arrived>>

-----------------------------------------------------------------------------
(* llc_rx, polled by batman_rx while it waits for a packet.                *)

LlcRxTest ==
  /\ pc = "poll" /\ ~ packet_arrived
  /\ needs_processing
  /\ pc' = "check"
  /\ UNCHANGED <<air, rx, needs_processing, packet, packet_arrived>>

\* Mutant: the packet is taken without a look at its checksum.
LlcRxTrusts ==
  /\ pc = "check"
  /\ pc' = "copy"
  /\ UNCHANGED <<air, rx, needs_processing, packet, packet_arrived>>

\* Mutant: the checksum goes a byte too far when there is no data.
LlcRxNeedsData ==
  /\ pc = "check"
  /\ pc' = IF packet_rx.intact /\ packet_rx.len > 0 THEN "copy" ELSE "reset"
  /\ UNCHANGED <<air, rx, needs_processing, packet, packet_arrived>>

LlcRxCheck ==
  /\ pc = "check"
  /\ pc' = IF packet_rx.intact THEN "copy" ELSE "reset"
  /\ UNCHANGED <<air, rx, needs_processing, packet, packet_arrived>>

LlcRxCopy ==
  /\ pc = "copy"
  /\ packet' = packet_rx
  /\ packet_arrived' = TRUE
  /\ pc' = "reset"
  /\ UNCHANGED <<air, rx, needs_processing>>

LlcRxReset ==
  /\ pc = "reset"
  /\ llc_rx_reset
  /\ pc' = "clear"
  /\ UNCHANGED <<air, needs_processing, packet, packet_arrived>>

LlcRxClear ==
  /\ pc = "clear"
  /\ needs_processing' = FALSE
  /\ pc' = "poll"
  /\ UNCHANGED <<air, rx, packet, packet_arrived>>

(* batman_rx has dealt with the packet, or dropped it, and waits for the   *)
(* next one; if it was for this node, rx_thread has shown it before.       *)
CallerReturns ==
  /\ pc = "poll" /\ packet_arrived
  /\ packet_arrived' = FALSE
  /\ UNCHANGED <<air, rx, needs_processing, pc, packet>>

-----------------------------------------------------------------------------

Air ==
  \/ \E f \in Frames : FrameBegins(f)
  \/ \E o \in Outcomes : ByteArrives(o) \/ FrameCut(o)
  \/ NoiseArrives
  \/ FrameEnds
  \/ FrameAborts

llc_rx == LlcRxTest \/ LlcRxCheck \/ LlcRxCopy \/ LlcRxReset \/ LlcRxClear

Next == Air \/ llc_rx \/ CallerReturns

Spec == Init /\ [][Next]_vars

(* The main loop polls batman_rx again and again, and the handler leaves   *)
(* it time to run, so that llc_rx goes on when it is called.  That         *)
(* batman_rx ever comes back to call it is not assumed.                    *)
FairSpec == Spec /\ WF_vars(llc_rx)

-----------------------------------------------------------------------------
(* Properties.                                                             *)

(* llc_rx hands out only packets every byte of which is the byte the       *)
(* sender put there, and as many as the sender sent, although a frame may  *)
(* be joined in the middle and bytes arrive during the check and the copy  *)
(* (llc.c:118-123, 154-173).                                               *)
OnlyWholePackets ==
  packet.of # None => packet.intact /\ packet.len = DataLength[packet.of]

(* A frame that begins when the buffer is free, of which no byte has more  *)
(* than one bit wrong, becomes the packet to be processed, its type        *)
(* included, whatever arrived before it; and no byte that is right ends it *)
(* early.  A byte with a wrong bit can: see Outcomes (llc.c:103-147,       *)
(* mac.c:66, hamming.c).                                                   *)
CleanFramesKept ==
  [][ clean /\ (\/ FrameEnds /\ next = CodedLength(frame)
                \/ \E o \in Outcomes : o.errors = 0 /\ FrameCut(o))
        => /\ needs_processing'
           /\ packet_rx'.of = frame /\ packet_rx'.typed /\ packet_rx'.intact ]_vars

(* And such a packet is handed to the caller of llc_rx, even if it came    *)
(* while he was busy with the one before, provided that he always comes    *)
(* back to batman.c:288 (llc.c:149-176, batman.c:288-317).                 *)
WholePacketsHandedOut ==
  []<> ~ packet_arrived =>
    \A f \in Frames :
      needs_processing /\ pc = "poll" /\ packet_rx.intact /\ packet_rx.of = f
        ~> packet.of = f

(* Between two frames a free buffer is ready for the first byte            *)
(* (llc.c:103-115, 171-172).                                               *)
ReadyBetweenFrames ==
  frame = None /\ ~ needs_processing => state = "DATA" /\ cnt = 0
=============================================================================
