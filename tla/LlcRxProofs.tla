---------------------------- MODULE LlcRxProofs -----------------------------
(***************************************************************************)
(* Proofs about LlcRx, for any frames, any size of the packet buffer and   *)
(* any amount of noise behind a frame.                                     *)
(***************************************************************************)
EXTENDS LlcRx, TLAPS

(* Bytes that llc_rx_frame has been given since the last reset.            *)
Pos == cnt \div 2

HalfType == [of : Frames \cup {None}, k : Nat]

BufferType ==
  /\ state \in {"DATA", "ABORTED", "FIN"}
  /\ cnt \in Nat /\ (state = "DATA" => Pos < PACKET_MAX_SIZE)
  /\ nextbyte \in HalfType
  /\ packet_rx \in packet_t

(* While data is awaited, the end of the packet lies ahead once its length *)
(* is known.                                                               *)
WithinPacket ==
  state = "DATA" /\ Pos > 3 =>
    Pos < 4 + packet_rx.len /\ packet_rx.len <= PACKET_MAX_SIZE - 4

(* A packet without an error so far has the length its sender gave it.     *)
LengthKnown ==
  packet_rx.intact => /\ packet_rx.of \in Frames
                      /\ Pos >= 2 => packet_rx.len = DataLength[packet_rx.of]

(* The length is known before a packet can be too long or complete.        *)
Complete == (state = "FIN" => Pos > 3) /\ (state = "ABORTED" => Pos >= 3)

BufferInv == BufferType /\ WithinPacket /\ LengthKnown /\ Complete

(* llc_rx has the buffer to itself from its test on, and leaves it as a    *)
(* reset does.                                                             *)
Processing ==
  /\ needs_processing /\ pc # "clear" => state = "FIN"
  /\ pc # "poll" => needs_processing
  /\ pc = "copy" => packet_rx.intact
  /\ pc = "clear" => state = "DATA" /\ cnt = 0

RestType ==
  /\ frame \in Frames \cup {None} /\ next \in Nat /\ clean \in BOOLEAN
  /\ needs_processing \in BOOLEAN
  /\ pc \in {"poll", "check", "copy", "reset", "clear"}
  /\ packet \in packet_t /\ packet_arrived \in BOOLEAN

RxInv == RestType /\ BufferInv /\ Processing /\ OnlyWholePackets /\ ReadyBetweenFrames

-----------------------------------------------------------------------------

(* The two halves of a byte.                                               *)
LEMMA Halves ==
  ASSUME NEW c \in Nat
  PROVE  /\ c \div 2 \in Nat /\ c % 2 \in {0, 1}
         /\ c % 2 = 1 => c = 2 * (c \div 2) + 1 /\ (c + 1) \div 2 = (c \div 2) + 1
         /\ c % 2 = 0 => c = 2 * (c \div 2) /\ (c + 1) \div 2 = c \div 2
OBVIOUS

(* Lengths are numbers, and a frame's fits into the buffer.                *)
LEMMA Lengths ==
  /\ PACKET_MAX_SIZE \in Nat /\ PACKET_MAX_SIZE > 4 /\ None \notin Frames
  /\ \A l \in WrongLengths : l \in Nat
  /\ 0 \in WrongLengths
  /\ \A f \in Frames : DataLength[f] \in WrongLengths /\ DataLength[f] <= PACKET_MAX_SIZE - 4
BY SizesAssumption DEF WrongLengths, LLC_HEADER_SIZE, None

(* A reset leaves the buffer ready for a first byte.                       *)
LEMMA ResetKeeps == llc_rx_reset => BufferInv' /\ state' = "DATA" /\ cnt' = 0
BY Lengths
DEF llc_rx_reset, BufferInv, BufferType, WithinPacket, LengthKnown, Complete, Pos, packet_t,
    HalfType, EmptyPacket, Noise

(* So does a byte, whatever it is.                                         *)
LEMMA ByteKeeps ==
  ASSUME BufferInv, NEW half \in HalfType, RxByte(half)
  PROVE  BufferInv'
<1> USE DEF BufferInv, BufferType
<1>1. CASE needs_processing
  BY <1>1 DEF RxByte, rx, WithinPacket, LengthKnown, Complete, Pos
<1>2. CASE ~ needs_processing /\ cnt % 2 # 1
  <2>1. Pos' = Pos /\ cnt' \in Nat
    BY <1>2, Halves DEF RxByte, Pos
  <2>2. UNCHANGED <<state, packet_rx>> /\ nextbyte' \in HalfType
    BY <1>2 DEF RxByte
  <2> QED
    BY <2>1, <2>2 DEF WithinPacket, LengthKnown, Complete
<1>3. CASE ~ needs_processing /\ cnt % 2 = 1
  <2>1. /\ Pos \in Nat /\ Pos' = Pos + 1 /\ cnt' \in Nat
        /\ UNCHANGED nextbyte /\ llc_rx_frame(Pos, nextbyte, half)
    BY <1>3, Halves DEF RxByte, Pos
  <2>2. CASE state # "DATA"
    BY <2>1, <2>2 DEF llc_rx_frame, WithinPacket, LengthKnown, Complete
  <2>3. CASE state = "DATA" /\ TooLong(Pos)
    <3>1. Pos >= 3
      BY <2>1, <2>3, Lengths DEF TooLong, LLC_HEADER_SIZE
    <3>2. state' = "ABORTED" /\ packet_rx' = packet_rx
      BY <2>1, <2>3 DEF llc_rx_frame
    <3> QED
      BY <2>1, <3>1, <3>2 DEF WithinPacket, LengthKnown, Complete
  <2>4. CASE state = "DATA" /\ ~ TooLong(Pos)
    <3>1. PICK len \in LengthsAfter(Pos, nextbyte, half) :
            /\ packet_rx' = Store(Pos, nextbyte, half, len)
            /\ state' = IF Pos = 4 + len - 1 THEN "FIN" ELSE "DATA"
      BY <2>1, <2>4 DEF llc_rx_frame, LLC_HEADER_SIZE
    <3>2. Pos < PACKET_MAX_SIZE /\ (Pos = 3 => packet_rx.len <= PACKET_MAX_SIZE - 4)
      BY <2>1, <2>4, Lengths DEF TooLong, LLC_HEADER_SIZE, packet_t
    <3>3. len \in WrongLengths /\ (Pos # 1 => len = packet_rx.len)
      BY Lengths DEF LengthsAfter, Fits, LengthKnown, packet_t
    <3>4. packet_rx' \in packet_t /\ packet_rx'.len = len
      BY <3>1, <3>3 DEF Store, packet_t, HalfType, Fits
    <3>5. LengthKnown'
      <4>1. packet_rx'.intact => /\ Fits(Pos, nextbyte, half)
                                 /\ packet_rx'.of = IF Pos = 0 THEN half.of ELSE packet_rx.of
        BY <3>1 DEF Store
      <4>2. Fits(Pos, nextbyte, half) =>
              /\ Pos = 0 => half.of \in Frames
              /\ Pos # 0 => packet_rx.intact
        BY <2>1 DEF Fits, HalfType
      <4>3. Fits(Pos, nextbyte, half) /\ Pos = 1 => len = DataLength[packet_rx.of]
        BY DEF LengthsAfter
      <4> QED
        BY <2>1, <3>3, <3>4, <4>1, <4>2, <4>3 DEF LengthKnown
    <3>6. WithinPacket' /\ Complete' /\ (state' = "DATA" => Pos' < PACKET_MAX_SIZE)
      <4>1. len \in Nat
        BY <3>3, Lengths
      <4>2. Pos > 3 => Pos < 4 + len /\ len <= PACKET_MAX_SIZE - 4
        BY <2>4, <3>3 DEF WithinPacket
      <4>3. Pos = 3 => len <= PACKET_MAX_SIZE - 4
        BY <3>2, <3>3
      <4>4. (state' = "FIN" => Pos' > 3) /\ state' # "ABORTED"
        BY <2>1, <3>1, <4>1
      <4>5. state' = "DATA" => Pos # 3 + len
        BY <3>1, <4>1
      <4> QED
        BY <2>1, <3>2, <3>4, <4>1, <4>2, <4>3, <4>4, <4>5, Lengths DEF WithinPacket, Complete
    <3> QED
      BY <2>1, <3>1, <3>4, <3>5, <3>6
  <2> QED
    BY <2>2, <2>3, <2>4
<1> QED
  BY <1>1, <1>2, <1>3

(* And the end of a frame, after which the buffer is ready for the next    *)
(* one or waits for llc_rx.                                                *)
LEMMA EndKeeps ==
  ASSUME RxInv, RxFin \/ RxAbort, frame' = None, UNCHANGED <<pc, packet, packet_arrived>>
  PROVE  BufferInv' /\ Processing' /\ ReadyBetweenFrames' /\ needs_processing' \in BOOLEAN
<1> USE DEF RxInv
<1>1. CASE needs_processing
  <2>1. UNCHANGED <<rx, needs_processing>>
    BY <1>1 DEF RxFin, RxAbort
  <2> QED
    BY <1>1, <2>1
    DEF rx, BufferInv, BufferType, WithinPacket, LengthKnown, Complete, Pos, Processing,
        ReadyBetweenFrames, RestType
<1>2. CASE ~ needs_processing /\ state = "FIN" /\ RxFin
  <2>1. UNCHANGED rx /\ needs_processing' = TRUE
    BY <1>2 DEF RxFin
  <2> QED
    BY <1>2, <2>1
    DEF rx, BufferInv, BufferType, WithinPacket, LengthKnown, Complete, Pos, Processing,
        ReadyBetweenFrames
<1>3. CASE ~ needs_processing /\ ~ (state = "FIN" /\ RxFin)
  <2>1. llc_rx_reset /\ UNCHANGED needs_processing
    BY <1>3 DEF RxFin, RxAbort
  <2> QED
    BY <1>3, <2>1, ResetKeeps DEF Processing, ReadyBetweenFrames, RestType
<1> QED
  BY <1>1, <1>2, <1>3

(* At first the buffer is ready and nothing has been handed out.           *)
LEMMA RxInit == Init => RxInv
<1> SUFFICES ASSUME Init PROVE RxInv
  OBVIOUS
<1>1. EmptyPacket \in packet_t /\ Noise \in HalfType
  BY Lengths DEF packet_t, HalfType, EmptyPacket, Noise
<1>2. Pos = 0
  BY Halves DEF Init, Pos
<1>3. BufferInv
  BY <1>1, <1>2, Lengths
  DEF Init, BufferInv, BufferType, WithinPacket, LengthKnown, Complete, EmptyPacket
<1>4. RestType /\ Processing /\ OnlyWholePackets /\ ReadyBetweenFrames
  BY <1>1
  DEF Init, RestType, Processing, OnlyWholePackets, ReadyBetweenFrames, EmptyPacket
<1> QED
  BY <1>3, <1>4 DEF RxInv

(* No step of the air or of llc_rx spoils a packet that llc_rx has.        *)
LEMMA RxStep == RxInv /\ [Next]_vars => RxInv'
<1> SUFFICES ASSUME RxInv, [Next]_vars PROVE RxInv'
  OBVIOUS
<1> USE DEF RxInv
<1>1. CASE \E f \in Frames : FrameBegins(f)
  BY <1>1
  DEF FrameBegins, rx, RestType, BufferInv, BufferType, WithinPacket, LengthKnown, Complete,
      Pos, Processing, OnlyWholePackets, ReadyBetweenFrames
<1>2. CASE (\E o \in Outcomes : ByteArrives(o)) \/ NoiseArrives
  <2>1. PICK half \in HalfType : RxByte(half)
    <3>1. Noise \in HalfType /\ (frame # None => Half(frame, next) \in HalfType)
      BY DEF RestType, HalfType, Noise, Half
    <3> QED
      BY <1>2, <3>1 DEF ByteArrives, NoiseArrives
  <2>2. BufferInv'
    BY <2>1, ByteKeeps
  <2>3. UNCHANGED <<frame, pc, packet, packet_arrived, needs_processing>> /\ frame # None
        /\ next' \in Nat
    BY <1>2, <2>1 DEF ByteArrives, NoiseArrives, RxByte, RestType
  <2>4. needs_processing => UNCHANGED rx
    BY <2>1 DEF RxByte
  <2>5. clean' \in BOOLEAN
    BY <1>2, Zenon DEF ByteArrives, NoiseArrives
  <2> QED
    BY <2>2, <2>3, <2>4, <2>5
    DEF RestType, Processing, OnlyWholePackets, ReadyBetweenFrames, rx
<1>3. CASE (\E o \in Outcomes : FrameCut(o)) \/ FrameEnds \/ FrameAborts
  <2>1. /\ RxFin \/ RxAbort
        /\ FrameOver /\ UNCHANGED <<pc, packet, packet_arrived>>
    BY <1>3 DEF FrameCut, FrameEnds, FrameAborts
  <2>2. BufferInv' /\ Processing' /\ ReadyBetweenFrames' /\ needs_processing' \in BOOLEAN
    BY <2>1, EndKeeps DEF FrameOver
  <2> QED
    BY <2>1, <2>2 DEF FrameOver, RestType, OnlyWholePackets
<1>4. CASE LlcRxTest \/ LlcRxCheck \/ LlcRxClear
  BY <1>4
  DEF LlcRxTest, LlcRxCheck, LlcRxClear, air, rx, RestType, BufferInv, BufferType,
      WithinPacket, LengthKnown, Complete, Pos, Processing, OnlyWholePackets,
      ReadyBetweenFrames
<1>5. CASE LlcRxCopy
  <2>1. packet_rx.of \in Frames /\ packet_rx.len = DataLength[packet_rx.of]
    BY <1>5, Halves
    DEF LlcRxCopy, Processing, LengthKnown, Complete, BufferInv, BufferType, Pos
  <2> QED
    BY <1>5, <2>1
    DEF LlcRxCopy, air, rx, RestType, BufferInv, BufferType, WithinPacket, LengthKnown,
        Complete, Pos, Processing, OnlyWholePackets, ReadyBetweenFrames
<1>6. CASE LlcRxReset
  <2>1. BufferInv' /\ state' = "DATA" /\ cnt' = 0
    BY <1>6, ResetKeeps DEF LlcRxReset
  <2> QED
    BY <1>6, <2>1
    DEF LlcRxReset, air, RestType, Processing, OnlyWholePackets, ReadyBetweenFrames
<1>7. CASE UNCHANGED vars
  BY <1>7
  DEF vars, air, rx, RestType, BufferInv, BufferType, WithinPacket, LengthKnown, Complete,
      Pos, Processing, OnlyWholePackets, ReadyBetweenFrames
<1>8. CASE CallerReturns
  BY <1>8
  DEF CallerReturns, air, rx, RestType, BufferInv, BufferType, WithinPacket, LengthKnown,
      Complete, Pos, Processing, OnlyWholePackets, ReadyBetweenFrames
<1> QED
  BY <1>1, <1>2, <1>3, <1>4, <1>5, <1>6, <1>7, <1>8 DEF Next, Air, llc_rx

(* The inductive invariant.                                                *)
THEOREM Receiving == Spec => []RxInv
BY RxInit, RxStep, PTL DEF Spec

(* Every variable keeps its type; in particular the packet buffer is never *)
(* overrun (llc.c:69-101).                                                 *)
THEOREM BufferNotOverrun == Spec => []TypeOK
<1>1. RxInv => TypeOK
  BY DEF RxInv, RestType, BufferInv, BufferType, HalfType, Pos, TypeOK
<1> QED
  BY Receiving, <1>1, PTL

(* llc_rx hands out whole packets only (llc.c:118-123, 154-173).           *)
THEOREM WholePackets == Spec => []OnlyWholePackets
<1>1. RxInv => OnlyWholePackets
  BY DEF RxInv
<1> QED
  BY Receiving, <1>1, PTL

(* Between two frames a free buffer is ready for the first byte            *)
(* (llc.c:103-115, 171-172).                                               *)
THEOREM ReadyForFrames == Spec => []ReadyBetweenFrames
<1>1. RxInv => ReadyBetweenFrames
  BY DEF RxInv
<1> QED
  BY Receiving, <1>1, PTL

-----------------------------------------------------------------------------
(* Frames without a byte that has more than one wrong bit.                 *)

(* The buffer holds what of the frame has arrived, and nothing else.       *)
InStep ==
  /\ frame \in Frames /\ ~ needs_processing
  /\ next <= CodedLength(frame) /\ cnt = next
  /\ state = IF next < CodedLength(frame) THEN "DATA" ELSE "FIN"
  /\ next % 2 = 1 => nextbyte = Half(frame, next - 1)
  /\ next >= 2 => packet_rx.of = frame /\ packet_rx.typed /\ packet_rx.intact

CleanInv == RxInv /\ (clean => InStep)

(* The byte after next bytes of a clean frame finds its place.             *)
LEMMA RightByte ==
  ASSUME RxInv, InStep, next < CodedLength(frame), RxByte(Half(frame, next)),
         next' = next + 1, UNCHANGED frame
  PROVE  InStep'
<1> DEFINE D == DataLength[frame]
<1> USE DEF RxInv
<1>1. /\ next \in Nat /\ cnt = next /\ Pos \in Nat /\ D \in Nat /\ D <= PACKET_MAX_SIZE - 4
      /\ CodedLength(frame) = 2 * (4 + D) /\ frame \in Frames /\ frame # None
      /\ state = "DATA" /\ ~ needs_processing
  BY Lengths, Halves DEF RestType, InStep, CodedLength, LLC_HEADER_SIZE, Pos
<1>2. cnt' = next' /\ ~ needs_processing' /\ CodedLength(frame)' = CodedLength(frame)
  BY <1>1 DEF RxByte, CodedLength
<1>3. CASE next % 2 # 1
  <2>1. next % 2 = 0 /\ next = 2 * Pos /\ next' % 2 = 1
    BY <1>1, <1>3, Halves DEF Pos
  <2>2. nextbyte' = Half(frame, next) /\ UNCHANGED <<state, packet_rx>>
    BY <1>1, <1>3 DEF RxByte
  <2>3. next' < CodedLength(frame) /\ (next' >= 2 => next >= 2)
    BY <1>1, <2>1
  <2>4. nextbyte' = Half(frame', next' - 1)
    BY <1>1, <2>2
  <2> QED
    BY <1>1, <1>2, <2>2, <2>3, <2>4 DEF InStep
<1>4. CASE next % 2 = 1
  <2>1. next = 2 * Pos + 1 /\ next' % 2 = 0
    BY <1>1, <1>4, Halves DEF Pos
  <2>2. llc_rx_frame(Pos, Half(frame, 2 * Pos), Half(frame, 2 * Pos + 1))
    BY <1>1, <1>4, <2>1 DEF RxByte, InStep, Pos
  <2>3. Pos > 0 => packet_rx.of = frame /\ packet_rx.typed /\ packet_rx.intact
    BY <1>1, <2>1 DEF InStep
  <2>4. Pos >= 2 => packet_rx.len = D
    <3>1. LengthKnown
      BY DEF BufferInv
    <3> QED
      BY <1>1, <2>3, <3>1 DEF LengthKnown
  <2>5. ~ TooLong(Pos)
    BY <1>1, <2>1, <2>4, Lengths DEF TooLong, LLC_HEADER_SIZE
  <2>6. Fits(Pos, Half(frame, 2 * Pos), Half(frame, 2 * Pos + 1))
    BY <1>1, <2>3 DEF Fits, Half
  <2>7. PICK len \in LengthsAfter(Pos, Half(frame, 2 * Pos), Half(frame, 2 * Pos + 1)) :
          /\ packet_rx' = Store(Pos, Half(frame, 2 * Pos), Half(frame, 2 * Pos + 1), len)
          /\ state' = IF Pos = 4 + len - 1 THEN "FIN" ELSE "DATA"
    BY <1>1, <2>2, <2>5 DEF llc_rx_frame, LLC_HEADER_SIZE
  <2>8. len \in Nat /\ (Pos >= 2 => len = D) /\ (Pos = 1 => len = D)
    <3>1. packet_rx.len \in WrongLengths /\ WrongLengths \subseteq Nat
      BY SizesAssumption DEF BufferInv, BufferType, packet_t, WrongLengths, LLC_HEADER_SIZE
    <3>2. CASE Pos = 1
      <4>1. len = DataLength[packet_rx.of]
        BY <2>6, <2>7, <3>2 DEF LengthsAfter
      <4> QED
        BY <1>1, <2>3, <3>2, <4>1
    <3>3. CASE Pos # 1
      <4>1. len = packet_rx.len
        BY <2>7, <3>3 DEF LengthsAfter
      <4> QED
        BY <1>1, <2>4, <3>1, <3>3, <4>1
    <3> QED
      BY <3>2, <3>3
  <2>9. packet_rx'.of = frame /\ packet_rx'.typed /\ packet_rx'.intact
    <3>1. CASE Pos = 0
      <4>1. Half(frame, 2 * Pos) = Half(frame, 0) /\ Half(frame, 2 * Pos + 1).of = frame
        BY <3>1 DEF Half
      <4>2. packet_rx'.of = frame /\ packet_rx'.intact
        BY <2>6, <2>7, <3>1, <4>1 DEF Store
      <4>3. packet_rx'.typed
        BY <1>1, <2>7, <3>1, <4>1 DEF Store
      <4> QED
        BY <4>2, <4>3
    <3>2. CASE Pos # 0
      BY <1>1, <2>3, <2>6, <2>7, <3>2 DEF Store
    <3> QED
      BY <3>1, <3>2
  <2>10. state' = IF next' < CodedLength(frame) THEN "DATA" ELSE "FIN"
    BY <1>1, <2>1, <2>7, <2>8
  <2>11. next' <= CodedLength(frame)
    BY <1>1
  <2> QED
    BY <1>1, <1>2, <2>1, <2>9, <2>10, <2>11 DEF InStep
<1> QED
  BY <1>3, <1>4

(* A clean frame stays in step with the buffer.                            *)
LEMMA CleanStep ==
  ASSUME CleanInv, [Next]_vars
  PROVE  CleanInv'
<1> SUFFICES ASSUME clean' PROVE InStep'
  BY RxStep DEF CleanInv
<1> USE DEF CleanInv
<1>1. CASE \E f \in Frames : FrameBegins(f)
  <2>1. PICK f \in Frames : FrameBegins(f)
    BY <1>1
  <2>2. /\ ~ needs_processing /\ UNCHANGED <<state, cnt, needs_processing>>
        /\ frame' = f /\ next' = 0
    BY <2>1 DEF FrameBegins, rx
  <2>3. state = "DATA" /\ cnt = 0
    BY <2>1, <2>2 DEF FrameBegins, RxInv, ReadyBetweenFrames
  <2>4. 0 < CodedLength(f) /\ CodedLength(f) \in Nat
    BY Lengths DEF CodedLength, LLC_HEADER_SIZE
  <2>5. next' < CodedLength(frame') /\ next' <= CodedLength(frame')
    BY <2>2, <2>4
  <2>6. next' % 2 # 1 /\ ~ (next' >= 2)
    BY <2>2
  <2> QED
    BY <2>2, <2>3, <2>5, <2>6 DEF InStep
<1>2. CASE \E o \in Outcomes : ByteArrives(o)
  <2>1. PICK o \in Outcomes : ByteArrives(o)
    BY <1>2
  <2>2. clean
    BY <2>1, Zenon DEF ByteArrives
  <2>3. o.errors <= 1
    BY <2>1 DEF ByteArrives
  <2>4. o.as = "right"
    BY <2>1, <2>3, TablesCorrect DEF ByteArrives
  <2>5. /\ next < CodedLength(frame) /\ RxByte(Half(frame, next))
        /\ next' = next + 1 /\ UNCHANGED frame
    BY <2>1, <2>4 DEF ByteArrives
  <2> QED
    BY <2>2, <2>5, RightByte
<1>3. CASE (\E o \in Outcomes : FrameCut(o)) \/ NoiseArrives \/ FrameEnds \/ FrameAborts
  BY <1>3 DEF FrameCut, NoiseArrives, FrameEnds, FrameAborts, FrameOver
<1>4. CASE llc_rx
  <2>1. needs_processing /\ UNCHANGED air
    BY <1>4
    DEF llc_rx, LlcRxTest, LlcRxCheck, LlcRxCopy, LlcRxReset, LlcRxClear, RxInv, Processing
  <2> QED
    BY <2>1 DEF air, InStep
<1>5. CASE UNCHANGED vars
  BY <1>5 DEF vars, air, rx, InStep, CodedLength
<1>6. CASE CallerReturns
  BY <1>6 DEF CallerReturns, air, rx, InStep, CodedLength
<1> QED
  BY <1>1, <1>2, <1>3, <1>4, <1>5, <1>6 DEF Next, Air

(* A frame with at most one wrong bit in each byte becomes the packet to   *)
(* be processed, whatever arrived before it (llc.c:103-147, mac.c:66,      *)
(* hamming.c).                                                             *)
THEOREM CleanFrames == Spec => CleanFramesKept
<1>1. Init => CleanInv
  BY RxInit DEF CleanInv, Init
<1>2. CleanInv /\ [Next]_vars => CleanInv'
  BY CleanStep
<1>3. CleanInv =>
        [ clean /\ (\/ FrameEnds /\ next = CodedLength(frame)
                    \/ \E o \in Outcomes : o.errors = 0 /\ FrameCut(o))
            => /\ needs_processing'
               /\ packet_rx'.of = frame /\ packet_rx'.typed /\ packet_rx'.intact ]_vars
  <2> SUFFICES ASSUME CleanInv, clean,
                      \/ FrameEnds /\ next = CodedLength(frame)
                      \/ \E o \in Outcomes : o.errors = 0 /\ FrameCut(o)
               PROVE  /\ needs_processing'
                      /\ packet_rx'.of = frame /\ packet_rx'.typed /\ packet_rx'.intact
    OBVIOUS
  <2>1. FrameEnds /\ next = CodedLength(frame)
    BY TablesCorrect DEF FrameCut
  <2>2. state = "FIN" /\ ~ needs_processing /\ next >= 2
    BY <2>1, Lengths DEF CleanInv, InStep, CodedLength, LLC_HEADER_SIZE
  <2>3. needs_processing' = TRUE /\ UNCHANGED rx
    BY <2>1, <2>2 DEF FrameEnds, RxFin
  <2> QED
    BY <2>2, <2>3 DEF CleanInv, InStep, rx
<1> QED
  BY <1>1, <1>2, <1>3, PTL DEF Spec, CleanFramesKept
=============================================================================
