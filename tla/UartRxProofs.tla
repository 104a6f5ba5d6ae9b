---------------------------- MODULE UartRxProofs ----------------------------
(***************************************************************************)
(* Proofs about UartRx, for any buffer of less than 256 bytes: as long as  *)
(* no byte arrives between the load and the store of size, the receive     *)
(* buffer counts the bytes that wait in it.                                *)
(***************************************************************************)
EXTENDS UartRx, FiniteSetTheorems, TLAPS

-----------------------------------------------------------------------------
(* The inductive invariant, in parts.                                      *)

(* There is a byte when one is taken.                                      *)
TakeInv ==
  /\ pc = "take" => uart_in_buf.size > 0
  /\ pc = "size" => reg > 0

(* The bytes that wait: size, less the one that has been taken from the    *)
(* buffer and that size still counts.                                      *)
Waiting == IF pc = "size" THEN uart_in_buf.size - 1 ELSE uart_in_buf.size

(* The cells that hold them are the first ones from start on, and end      *)
(* follows the last of them.                                               *)
Stretch(b, n) == {Ring!Slot(b, i) : i \in 0..(n - 1)}

ExactInv == ~ torn =>
  /\ pc = "size" => reg = uart_in_buf.size
  /\ halted => uart_in_buf.size = Size
  /\ uart_in_buf.end = Ring!Slot(uart_in_buf, Waiting)
  /\ Unread = Stretch(uart_in_buf, Waiting)
  /\ Cardinality(Unread) = Waiting

BufferInv == TypeOK /\ TakeInv /\ ExactInv

-----------------------------------------------------------------------------
(* The ring buffer.                                                        *)

LEMMA Slots ==
  ASSUME NEW b \in Ring!ringbuf_t
  PROVE  /\ \A i \in 0..Size : Ring!Slot(b, i) \in Ring!Index
         /\ \A i, j \in 0..(Size - 1) : Ring!Slot(b, i) = Ring!Slot(b, j) => i = j
         /\ \A i \in 0..(Size - 1) : Ring!Wrap(Ring!Slot(b, i) + 1) = Ring!Slot(b, i + 1)
         /\ Ring!Slot(b, 0) = b.start /\ Ring!Wrap(b.start + 1) \in Ring!Index
<1>1. Size \in Nat \ {0} /\ b.start \in 0..(Size - 1)
  BY SizeAssumption DEF Ring!ringbuf_t, Ring!Index
<1> USE DEF Ring!Slot, Ring!Index, Ring!Wrap
<1>2. \A i \in 0..Size : Ring!Slot(b, i) \in Ring!Index
  BY <1>1
<1>3. \A i, j \in 0..(Size - 1) : Ring!Slot(b, i) = Ring!Slot(b, j) => i = j
  BY <1>1
<1>4. \A i \in 0..(Size - 1) : Ring!Wrap(Ring!Slot(b, i) + 1) = Ring!Slot(b, i + 1)
  BY <1>1
<1>5. Ring!Slot(b, 0) = b.start /\ Ring!Wrap(b.start + 1) \in Ring!Index
  BY <1>1
<1> QED
  BY <1>2, <1>3, <1>4, <1>5

(* A stretch grows at its end, ...                                         *)
LEMMA StretchGrows ==
  ASSUME NEW b \in Ring!ringbuf_t, NEW n \in 0..(Size - 1)
  PROVE  /\ Stretch(b, n + 1) = Stretch(b, n) \cup {Ring!Slot(b, n)}
         /\ Ring!Slot(b, n) \notin Stretch(b, n)
<1>1. Size \in Nat /\ n \in Nat /\ n < Size
  BY SizeAssumption
<1>2. 0..n = (0..(n - 1)) \cup {n}
  BY <1>1
<1>3. Stretch(b, n + 1) = {Ring!Slot(b, i) : i \in 0..n}
  BY <1>1 DEF Stretch
<1>4. \A i \in 0..(n - 1) : i \in 0..(Size - 1) /\ i # n
  BY <1>1
<1>5. \A i \in 0..(n - 1) : Ring!Slot(b, i) # Ring!Slot(b, n)
  BY <1>4, Slots
<1> QED
  BY <1>2, <1>3, <1>5 DEF Stretch

(* ... and shrinks at its start.                                           *)
LEMMA StretchShrinks ==
  ASSUME NEW b \in Ring!ringbuf_t, NEW n \in 1..Size, NEW c,
         c.start = Ring!Wrap(b.start + 1)
  PROVE  /\ \A i \in 0..(Size - 1) : Ring!Slot(c, i) = Ring!Slot(b, i + 1)
         /\ b.start \in Stretch(b, n)
         /\ Stretch(c, n - 1) = Stretch(b, n) \ {b.start}
<1>1. Size \in Nat /\ n \in Nat /\ n > 0 /\ n <= Size
  BY SizeAssumption
<1>2. \A i \in 0..(Size - 1) : Ring!Slot(c, i) = Ring!Slot(b, i + 1)
  <2>1. b.start \in 0..(Size - 1)
    BY DEF Ring!ringbuf_t, Ring!Index
  <2> QED
    BY <1>1, <2>1 DEF Ring!Slot, Ring!Wrap
<1>3. b.start = Ring!Slot(b, 0) /\ 0 \in 0..(n - 1)
  BY <1>1, Slots
<1>4. b.start \in Stretch(b, n)
  BY <1>3 DEF Stretch
<1>5. Stretch(c, n - 1) = {Ring!Slot(b, i + 1) : i \in 0..(n - 2)}
  <2>1. \A i \in 0..(n - 2) : i \in 0..(Size - 1)
    BY <1>1
  <2>2. Stretch(c, n - 1) = {Ring!Slot(c, i) : i \in 0..(n - 2)}
    BY <1>1 DEF Stretch
  <2> QED
    BY <1>2, <2>1, <2>2
<1>6. ASSUME NEW x \in Stretch(c, n - 1) PROVE x \in Stretch(b, n) /\ x # b.start
  <2>1. PICK i \in 0..(n - 2) : x = Ring!Slot(b, i + 1)
    BY <1>5, <1>6
  <2>2. i + 1 \in 0..(n - 1) /\ i + 1 \in 0..(Size - 1) /\ 0 \in 0..(Size - 1) /\ i + 1 # 0
    BY <1>1
  <2> QED
    BY <1>3, <2>1, <2>2, Slots DEF Stretch
<1>7. ASSUME NEW x \in Stretch(b, n), x # b.start PROVE x \in Stretch(c, n - 1)
  <2>1. PICK i \in 0..(n - 1) : x = Ring!Slot(b, i)
    BY DEF Stretch
  <2>2. i # 0
    BY <1>3, <1>7, <2>1
  <2>3. i - 1 \in 0..(n - 2) /\ (i - 1) + 1 = i
    BY <1>1, <2>2
  <2> QED
    BY <1>5, <2>1, <2>3
<1> QED
  BY <1>2, <1>4, <1>6, <1>7

-----------------------------------------------------------------------------
(* The invariant.                                                          *)

LEMMA BufferTypes ==
  ASSUME TypeOK
  PROVE  /\ Size \in Nat /\ Size > 0
         /\ uart_in_buf \in Ring!ringbuf_t /\ uart_in_buf.size \in 0..Size
         /\ uart_in_buf.start \in Ring!Index /\ uart_in_buf.end \in Ring!Index
         /\ uart_in_buf.cells \in [Ring!Index -> {"unread", "read"}]
BY SizeAssumption DEF TypeOK, Ring!ringbuf_t

LEMMA UnreadFinite == IsFiniteSet(Unread)
<1>1. IsFiniteSet(0..(Size - 1))
  BY SizeAssumption, FS_Interval
<1>2. Unread \in SUBSET (0..(Size - 1))
  BY DEF Unread, Ring!Index
<1> QED
  BY <1>1, <1>2, FS_Subset

LEMMA NewBuffer ==
  ASSUME uart_in_buf = Ring!ringbuf_new([i \in Ring!Index |-> "read"]),
         pc = "poll", reg = 0, halted = FALSE, torn = FALSE
  PROVE  BufferInv
<1>1. Size \in Nat /\ Size > 0 /\ 0 \in Ring!Index /\ 0 \in 0..Size
  BY SizeAssumption DEF Ring!Index
<1>2. /\ uart_in_buf.size = 0 /\ uart_in_buf.start = 0 /\ uart_in_buf.end = 0
      /\ uart_in_buf.cells = [i \in Ring!Index |-> "read"]
      /\ uart_in_buf \in Ring!ringbuf_t
  BY <1>1 DEF Ring!ringbuf_new, Ring!ringbuf_t
<1>3. TypeOK
  BY <1>1, <1>2 DEF TypeOK
<1>4. Unread = {} /\ Waiting = 0
  BY <1>2 DEF Unread, Waiting
<1>5. Stretch(uart_in_buf, 0) = {}
  <2>1. 0..(0 - 1) = {}
    OBVIOUS
  <2> QED
    BY <2>1 DEF Stretch
<1>6. uart_in_buf.end = Ring!Slot(uart_in_buf, 0)
  BY <1>2, <1>3, Slots DEF TypeOK
<1> QED
  BY <1>3, <1>4, <1>5, <1>6, FS_EmptySet DEF BufferInv, TakeInv, ExactInv

LEMMA BufferInit == Init => BufferInv
BY NewBuffer DEF Init

(* The handler's byte goes into the cell behind the stretch.               *)
LEMMA IsrAdds ==
  ASSUME BufferInv, RecvIsrAdds
  PROVE  BufferInv'
<1> DEFINE b == uart_in_buf
           c == uart_in_buf'
           n == uart_in_buf.size
<1>1. /\ Size \in Nat /\ n \in 0..Size /\ n # Size /\ b \in Ring!ringbuf_t
      /\ b.cells \in [Ring!Index -> {"unread", "read"}] /\ b.end \in Ring!Index
  BY BufferTypes DEF BufferInv, RecvIsrAdds, Ring!Full
<1>2. n \in 0..(Size - 1)
  BY <1>1
<1>3. /\ c.size = n + 1 /\ c.start = b.start /\ c.end = Ring!Wrap(b.end + 1)
      /\ c.cells = [b.cells EXCEPT ![b.end] = "unread"]
      /\ DOMAIN c = DOMAIN b /\ UNCHANGED <<pc, reg, halted>> /\ ~ halted
      /\ torn' = (torn \/ pc = "size")
  BY <1>1 DEF RecvIsrAdds, Ring!ringbuf_add, Ring!Put, Ring!ringbuf_t
<1>4. Ring!Wrap(b.end + 1) \in Ring!Index
  <2>1. b.end \in 0..(Size - 1) /\ Size \in Nat
    BY <1>1 DEF Ring!Index
  <2> QED
    BY <2>1 DEF Ring!Wrap, Ring!Index
<1>5. c \in Ring!ringbuf_t
  <2>1. n + 1 \in 0..Size
    BY <1>1, <1>2
  <2>2. [b.cells EXCEPT ![b.end] = "unread"] \in [Ring!Index -> {"unread", "read"}]
    BY <1>1
  <2>3. c = [[[b EXCEPT !.cells = [@ EXCEPT ![b.end] = "unread"]]
                EXCEPT !.end = Ring!Wrap(b.end + 1)] EXCEPT !.size = n + 1]
    BY <1>1 DEF RecvIsrAdds, Ring!ringbuf_add, Ring!Put, Ring!ringbuf_t
  <2> QED
    BY <1>1, <1>4, <2>1, <2>2, <2>3 DEF Ring!ringbuf_t
<1>6. TypeOK'
  BY <1>3, <1>5 DEF BufferInv, TypeOK
<1>7. TakeInv'
  BY <1>1, <1>3 DEF BufferInv, TakeInv
<1>8. ASSUME ~ torn'
      PROVE  ExactInv'
  <2>1. ~ torn /\ pc # "size" /\ Waiting = n /\ Waiting' = n + 1
    BY <1>3, <1>8 DEF Waiting
  <2>2. /\ b.end = Ring!Slot(b, n) /\ Unread = Stretch(b, n) /\ Cardinality(Unread) = n
    BY <2>1 DEF BufferInv, ExactInv
  <2>3. Unread' = Unread \cup {b.end}
    <3>1. \A i \in Ring!Index : c.cells[i] = IF i = b.end THEN "unread" ELSE b.cells[i]
      BY <1>1, <1>3
    <3> HIDE DEF b, c
    <3>2. {i \in Ring!Index : c.cells[i] = "unread"}
            = {i \in Ring!Index : b.cells[i] = "unread"} \cup {b.end}
      BY <1>1, <3>1
    <3> QED
      BY <3>2 DEF Unread, b, c
  <2>4. \A i : Ring!Slot(c, i) = Ring!Slot(b, i)
    BY <1>3 DEF Ring!Slot
  <2>5. Stretch(c, n + 1) = Stretch(b, n + 1)
    BY <2>4 DEF Stretch
  <2>6. Unread' = Stretch(c, n + 1)
    BY <1>1, <1>2, <2>2, <2>3, <2>5, StretchGrows
  <2>7. Cardinality(Unread') = n + 1
    <3>1. b.end \notin Unread
      BY <1>1, <1>2, <2>2, StretchGrows
    <3> QED
      BY <2>2, <2>3, <3>1, UnreadFinite, FS_AddElement
  <2>8. c.end = Ring!Slot(c, n + 1)
    BY <1>1, <1>2, <1>3, <2>2, <2>4, Slots
  <2> QED
    BY <1>3, <2>1, <2>6, <2>7, <2>8 DEF ExactInv
<1> QED
  BY <1>6, <1>7, <1>8 DEF BufferInv, ExactInv

(* The byte that is taken leaves the stretch.                              *)
LEMMA ShellTakes ==
  ASSUME BufferInv, RxTake
  PROVE  BufferInv'
<1> DEFINE b == uart_in_buf
           c == uart_in_buf'
           n == uart_in_buf.size
<1>1. /\ Size \in Nat /\ n \in 0..Size /\ n > 0 /\ b \in Ring!ringbuf_t
      /\ b.cells \in [Ring!Index -> {"unread", "read"}] /\ b.start \in Ring!Index
  BY BufferTypes DEF BufferInv, TakeInv, RxTake
<1>2. n \in 1..Size /\ n - 1 \in 0..(Size - 1) /\ (n - 1) + 1 = n
  BY <1>1
<1>3. /\ c.size = n /\ c.start = Ring!Wrap(b.start + 1) /\ c.end = b.end
      /\ c.cells = [b.cells EXCEPT ![b.start] = "read"]
      /\ pc = "take" /\ pc' = "size" /\ reg' = n /\ UNCHANGED <<halted, torn>>
  BY <1>1 DEF RxTake, Ring!Take, Ring!ringbuf_t
<1>4. c \in Ring!ringbuf_t
  <2>1. [b.cells EXCEPT ![b.start] = "read"] \in [Ring!Index -> {"unread", "read"}]
    BY <1>1
  <2>2. Ring!Wrap(b.start + 1) \in Ring!Index
    BY <1>1, Slots
  <2>3. c = [[b EXCEPT !.cells = [b.cells EXCEPT ![b.start] = "read"]]
               EXCEPT !.start = Ring!Wrap(b.start + 1)]
    BY <1>1 DEF RxTake, Ring!Take, Ring!ringbuf_t
  <2> QED
    BY <1>1, <2>1, <2>2, <2>3 DEF Ring!ringbuf_t
<1>5. TypeOK' /\ TakeInv'
  BY <1>1, <1>3, <1>4 DEF BufferInv, TypeOK, TakeInv
<1>6. ASSUME ~ torn
      PROVE  ExactInv'
  <2>1. ~ torn' /\ Waiting = n /\ Waiting' = n - 1
    BY <1>3, <1>6 DEF Waiting
  <2>2. /\ b.end = Ring!Slot(b, n) /\ Unread = Stretch(b, n) /\ Cardinality(Unread) = n
        /\ halted => n = Size
    BY <1>6, <2>1 DEF BufferInv, ExactInv
  <2>3. /\ \A i \in 0..(Size - 1) : Ring!Slot(c, i) = Ring!Slot(b, i + 1)
        /\ b.start \in Stretch(b, n)
        /\ Stretch(c, n - 1) = Stretch(b, n) \ {b.start}
    BY <1>1, <1>2, <1>3, StretchShrinks
  <2>4. Unread' = Unread \ {b.start}
    <3>1. \A i \in Ring!Index : c.cells[i] = IF i = b.start THEN "read" ELSE b.cells[i]
      BY <1>1, <1>3
    <3> HIDE DEF b, c
    <3>2. {i \in Ring!Index : c.cells[i] = "unread"}
            = {i \in Ring!Index : b.cells[i] = "unread"} \ {b.start}
      BY <1>1, <3>1
    <3> QED
      BY <3>2 DEF Unread, b, c
  <2>5. Unread' = Stretch(c, n - 1)
    BY <2>2, <2>3, <2>4
  <2>6. Cardinality(Unread') = n - 1
    BY <2>2, <2>3, <2>4, UnreadFinite, FS_RemoveElement
  <2>7. c.end = Ring!Slot(c, n - 1)
    BY <1>2, <1>3, <2>2, <2>3
  <2> QED
    BY <1>3, <2>1, <2>2, <2>5, <2>6, <2>7 DEF ExactInv
<1>7. torn => ExactInv'
  BY <1>3 DEF ExactInv
<1> QED
  BY <1>5, <1>6, <1>7 DEF BufferInv

(* The store of size settles what size counts.                             *)
LEMMA ShellStores ==
  ASSUME BufferInv, RxStoreSize
  PROVE  BufferInv'
<1> DEFINE b == uart_in_buf
           c == uart_in_buf'
<1>1. /\ Size \in Nat /\ b.size \in 0..Size /\ b \in Ring!ringbuf_t
      /\ reg \in 0..Size /\ reg > 0
  BY BufferTypes DEF BufferInv, TakeInv, TypeOK, RxStoreSize
<1>2. /\ c = [b EXCEPT !.size = reg - 1] /\ pc = "size" /\ pc' = "poll" /\ ~ halted
      /\ UNCHANGED <<reg, halted, torn>>
  BY DEF RxStoreSize
<1>3. c.size = reg - 1 /\ c.start = b.start /\ c.end = b.end /\ c.cells = b.cells
  BY <1>1, <1>2 DEF Ring!ringbuf_t
<1>4. c \in Ring!ringbuf_t
  <2>1. reg - 1 \in 0..Size
    BY <1>1
  <2> QED
    BY <1>1, <1>2, <2>1 DEF Ring!ringbuf_t
<1>5. TypeOK' /\ TakeInv'
  BY <1>2, <1>4 DEF BufferInv, TypeOK, TakeInv
<1>6. ASSUME ~ torn PROVE ExactInv'
  <2>1. reg = b.size /\ Waiting' = Waiting
    BY <1>2, <1>3, <1>6 DEF BufferInv, ExactInv, Waiting
  <2>2. \A i : Ring!Slot(c, i) = Ring!Slot(b, i)
    BY <1>3 DEF Ring!Slot
  <2>3. \A k : Stretch(c, k) = Stretch(b, k)
    BY <2>2 DEF Stretch
  <2>4. Unread' = Unread
    BY <1>3 DEF Unread
  <2> QED
    BY <1>2, <1>3, <1>6, <2>1, <2>2, <2>3, <2>4 DEF BufferInv, ExactInv
<1> QED
  BY <1>2, <1>5, <1>6 DEF BufferInv, ExactInv

LEMMA BufferNext == BufferInv /\ [Next]_vars => BufferInv'
<1> SUFFICES ASSUME BufferInv, [Next]_vars PROVE BufferInv'
  OBVIOUS
<1>1. CASE WatchdogReset
  <2>1. Init'
    BY <1>1 DEF WatchdogReset, Init
  <2> QED
    BY <2>1, BufferInit, PTL
<1>2. ASSUME UNCHANGED <<uart_in_buf, reg, torn>>,
             \/ pc' = pc
             \/ pc = "poll" /\ pc' = "take" /\ uart_in_buf.size > 0,
             \/ halted' = halted
             \/ halted' = TRUE /\ uart_in_buf.size = Size
      PROVE  BufferInv'
  <2>1. TypeOK' /\ TakeInv'
    BY <1>2 DEF BufferInv, TypeOK, TakeInv
  <2>2. Waiting' = Waiting /\ Unread' = Unread
    BY <1>2 DEF Waiting, Unread
  <2> QED
    BY <1>2, <2>1, <2>2 DEF BufferInv, ExactInv
<1>3. CASE RecvIsrOverrun
  <2>1. /\ UNCHANGED <<uart_in_buf, reg, torn>> /\ pc' = pc
        /\ halted' = TRUE /\ uart_in_buf.size = Size
    BY <1>3 DEF RecvIsrOverrun, Ring!Full
  <2> QED
    BY <1>2, <2>1
<1>4. CASE RxTest
  <2>1. uart_in_buf.size > 0
    <3>1. uart_in_buf.size \in 0..Size /\ Size \in Nat
      BY BufferTypes DEF BufferInv
    <3> QED
      BY <1>4, <3>1 DEF RxTest, Ring!Empty
  <2>2. /\ UNCHANGED <<uart_in_buf, reg, torn>> /\ halted' = halted
        /\ pc = "poll" /\ pc' = "take"
    BY <1>4 DEF RxTest
  <2> QED
    BY <1>2, <2>1, <2>2
<1>5. CASE UNCHANGED vars
  <2>1. UNCHANGED <<uart_in_buf, reg, torn>> /\ pc' = pc /\ halted' = halted
    BY <1>5 DEF vars
  <2> QED
    BY <1>2, <2>1
<1> QED
  BY <1>1, <1>3, <1>4, <1>5, IsrAdds, ShellTakes, ShellStores DEF Next, uart_rx

LEMMA BufferInvariant == Spec => []BufferInv
BY BufferInit, BufferNext, PTL DEF Spec

(* Every variable keeps its type: whatever the handler does to size        *)
(* between the load and the store, it never leaves 0..Size, and start and  *)
(* end stay in the buffer (ringbuf.c:56-88).                               *)
THEOREM TypeCorrect == Spec => []TypeOK
<1>1. BufferInv => TypeOK
  BY DEF BufferInv
<1> QED
  BY <1>1, BufferInvariant, PTL

(* As long as the two stores of size have not met, size is the number of   *)
(* bytes that wait, a byte that is taken is one that waits, and the node   *)
(* halts only when Size - 1 bytes or more wait (ringbuf.c:64, 76-85,       *)
(* uart.c:20).                                                             *)
THEOREM ExactUntilItTears == Spec => []ExactUntilTorn
<1>1. BufferInv => ExactUntilTorn
  <2> SUFFICES ASSUME BufferInv, ~ torn
               PROVE  /\ uart_in_buf.size = Cardinality(Unread) + (IF pc = "size" THEN 1 ELSE 0)
                      /\ pc = "take" => Ring!First(uart_in_buf) = "unread"
                      /\ halted => Cardinality(Unread) >= Size - 1
    BY DEF ExactUntilTorn
  <2>1. Size \in Nat /\ uart_in_buf.size \in 0..Size /\ uart_in_buf \in Ring!ringbuf_t
    BY BufferTypes DEF BufferInv
  <2>2. /\ Cardinality(Unread) = Waiting /\ Unread = Stretch(uart_in_buf, Waiting)
        /\ halted => uart_in_buf.size = Size
    BY DEF BufferInv, ExactInv
  <2>3. pc = "take" => uart_in_buf.start \in Unread
    <3>1. ASSUME pc = "take"
          PROVE  0 \in 0..(Waiting - 1) /\ uart_in_buf.start = Ring!Slot(uart_in_buf, 0)
      BY <2>1, <3>1, Slots DEF BufferInv, TakeInv, Waiting
    <3> QED
      BY <2>2, <3>1 DEF Stretch
  <2> QED
    BY <2>1, <2>2, <2>3 DEF Waiting, Unread, Ring!First
<1> QED
  BY <1>1, BufferInvariant, PTL
=============================================================================
