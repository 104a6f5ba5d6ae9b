---------------------------- MODULE UartTxProofs ----------------------------
(***************************************************************************)
(* Proofs about UartTx, for any buffer of less than 256 bytes, any threads *)
(* that write and any outputs: the transmit buffer is a queue, and what a  *)
(* thread writes appears on the line whole.                                *)
(***************************************************************************)
EXTENDS UartTx, SequenceTheorems, TLAPS

-----------------------------------------------------------------------------
(* The ring buffer.                                                        *)

(* The cell of b that is i places behind the oldest byte.                  *)
Cell(b, i) == b.cells[Ring!Slot(b, i)]

LEMMA Slots ==
  ASSUME NEW b \in Ring!ringbuf_t
  PROVE  /\ \A i \in 0..Size : Ring!Slot(b, i) \in Ring!Index
         /\ \A i, j \in 0..(Size - 1) : Ring!Slot(b, i) = Ring!Slot(b, j) => i = j
         /\ \A i \in 0..(Size - 1) : Ring!Wrap(Ring!Slot(b, i) + 1) = Ring!Slot(b, i + 1)
         /\ \A i \in 0..(Size - 1) : Ring!Slot(Ring!Take(b), i) = Ring!Slot(b, i + 1)
         /\ b.start = Ring!Slot(b, 0) /\ Ring!Wrap(b.start + 1) \in Ring!Index
<1>1. Size \in Nat \ {0}
  BY OutputsAssumption
<1>2. b.start \in 0..(Size - 1)
  BY DEF Ring!ringbuf_t, Ring!Index
<1> USE DEF Ring!Slot, Ring!Index, Ring!Wrap
<1>3. \A i \in 0..Size : Ring!Slot(b, i) \in Ring!Index
  BY <1>1, <1>2
<1>4. \A i, j \in 0..(Size - 1) : Ring!Slot(b, i) = Ring!Slot(b, j) => i = j
  BY <1>1, <1>2
<1>5. \A i \in 0..(Size - 1) : Ring!Wrap(Ring!Slot(b, i) + 1) = Ring!Slot(b, i + 1)
  BY <1>1, <1>2
<1>6. Ring!Take(b).start = Ring!Wrap(b.start + 1)
  BY DEF Ring!Take, Ring!ringbuf_t
<1>7. \A i \in 0..(Size - 1) : Ring!Slot(Ring!Take(b), i) = Ring!Slot(b, i + 1)
  BY <1>1, <1>2, <1>6
<1>8. b.start = Ring!Slot(b, 0) /\ Ring!Wrap(b.start + 1) \in Ring!Index
  BY <1>1, <1>2
<1> QED
  BY <1>3, <1>4, <1>5, <1>7, <1>8

-----------------------------------------------------------------------------
(* The inductive invariant, in parts.                                      *)

(* At most one thread writes.                                              *)
MutexInv ==
  \/ uart_mutex = 1 /\ \A t \in Writers : at[t] # "writing"
  \/ uart_mutex = 0 /\ \E t \in Writers :
       at[t] = "writing" /\ \A u \in Writers : at[u] = "writing" => u = t

Ends(s) == Len(s) > 1 => s[Len(s)] # 0

StringsInv == \A t \in Writers :
  /\ Len(strings[t]) <= Most /\ Ends(strings[t])
  /\ at[t] = "idle" => strings[t] = <<>>

(* uart_tx_str runs for the thread that writes, with the handler disabled, *)
(* and returns when the string or the room in the buffer is at an end.     *)
StrInv ==
  /\ pc # "poll" => at[caller] = "writing" /\ p # NULL /\ p.by = caller /\ ~ udrie
  /\ pc = "size" => ~ Terminated(p) /\ reg = uart_out_buf.size /\ reg < Size
  /\ pc = "poll" /\ p # NULL => ~ Terminated(p)

(* p is in the first of the strings of the thread that writes.             *)
PointerInv == p # NULL =>
  /\ p \in Bytes /\ at[p.by] = "writing" /\ strings[p.by] # <<>>
  /\ p.k = Len(strings[p.by]) /\ p.n = Head(strings[p.by]) /\ p.i <= p.n + 1

(* end follows the bytes that are in the buffer, the last of which size    *)
(* may have yet to count.                                                  *)
RingInv ==
  /\ uart_out_buf.end =
       Ring!Slot(uart_out_buf, uart_out_buf.size + (IF pc = "size" THEN 1 ELSE 0))
  /\ pc = "size" => Cell(uart_out_buf, uart_out_buf.size) = p

BufferInv == TypeOK /\ MutexInv /\ StringsInv /\ StrInv /\ PointerInv /\ RingInv

(* A byte that begins a string may follow a.                               *)
Over(a) ==
  /\ a.i >= a.n
  /\ a.k > 1 => /\ a.by \in Writers /\ at[a.by] = "writing" /\ strings[a.by] # <<>>
                /\ Len(strings[a.by]) < a.k
                /\ strings[a.by][Len(strings[a.by])] # 0

(* The byte on the line that is i places behind the one sent last.         *)
Out(i) == IF i = 0 THEN udr ELSE Cell(uart_out_buf, i - 1)

LineInv ==
  /\ \A i \in 0..(uart_out_buf.size - 1) : Follows(Out(i), Out(i + 1))
  /\ LET a == Out(uart_out_buf.size) IN
     IF p # NULL /\ p.i > 1 THEN p = [a EXCEPT !.i = @ + 1] ELSE Over(a)

-----------------------------------------------------------------------------
(* Types.                                                                  *)

LEMMA Nobody == NULL \notin Bytes /\ NULL.i = 1 /\ NULL.n = 0 /\ NULL.k = 1
BY OutputsAssumption DEF NULL, Bytes

LEMMA BufferInit == Init => BufferInv
<1> SUFFICES ASSUME Init PROVE BufferInv
  OBVIOUS
<1>1. Size \in Nat \ {0} /\ <<>> \in Seq(0..Longest) /\ Len(<<>>) = 0 /\ Most \in Nat
  BY OutputsAssumption, EmptySeq
<1>2. uart_out_buf \in Ring!ringbuf_t /\ uart_out_buf.end = 0 /\ uart_out_buf.size = 0
      /\ uart_out_buf.start = 0
  BY <1>1 DEF Init, Ring!ringbuf_t, Ring!ringbuf_new, Ring!Index
<1>3. TypeOK
  BY <1>1, <1>2 DEF Init, TypeOK
<1>4. StringsInv
  BY <1>1 DEF Init, StringsInv, Ends
<1>5. Ring!Slot(uart_out_buf, 0) = 0
  BY <1>1, <1>2 DEF Ring!Slot
<1> QED
  BY <1>2, <1>3, <1>4, <1>5
     DEF Init, BufferInv, MutexInv, StrInv, PointerInv, RingInv

LEMMA Actors ==
  ASSUME [Next]_vars
  PROVE  \/ UNCHANGED vars
         \/ \E t \in Writers : Begin(t)
         \/ \E t \in Writers : UartWait(t)
         \/ \E t \in Writers : UartSignal(t)
         \/ \E t \in Writers : TxBegin(t)
         \/ TxAdd \/ TxStoreSize \/ TxDone \/ TxFull
         \/ uart_tx_thread \/ DataIsrSends \/ DataIsrStops
BY DEF Next, Poll, uart_tx_str, DataIsr

(* The first string, and what is left when it is written.                  *)
LEMMA OneStringLess ==
  ASSUME NEW s \in Seq(0..Longest), s # <<>>
  PROVE  /\ Len(s) \in Nat \ {0} /\ Head(s) \in 0..Longest
         /\ Tail(s) \in Seq(0..Longest) /\ Len(Tail(s)) = Len(s) - 1
         /\ Tail(s) # <<>> => Len(s) > 1 /\ Tail(s)[Len(Tail(s))] = s[Len(s)]
         /\ Len(s) > 1 => Tail(s) # <<>>
         /\ Head(s) = s[1]
         /\ Ends(s) => Ends(Tail(s))
<1>1. Len(s) \in Nat /\ Len(s) # 0 /\ Head(s) \in 0..Longest /\ Head(s) = s[1]
  <2>1. Len(s) \in Nat \ {0} /\ Head(s) \in 0..Longest
    BY HeadTailProperties, EmptySeq
  <2>2. Head(s) = s[1]
    OBVIOUS
  <2> QED
    BY <2>1, <2>2
<1>2. /\ Tail(s) \in Seq(0..Longest) /\ Len(Tail(s)) = Len(s) - 1
      /\ \A i \in 1..(Len(s) - 1) : Tail(s)[i] = s[i + 1]
  BY HeadTailProperties
<1>3. Tail(s) # <<>> => Len(Tail(s)) # 0
  BY <1>2, EmptySeq
<1>4. Len(<<>>) = 0
  BY EmptySeq
<1>5. Len(s) > 1 => Tail(s)[Len(Tail(s))] = s[Len(s)] /\ Tail(s) # <<>>
  <2> DEFINE l == Len(s)
  <2>1. l \in Nat /\ l # 0 /\ Len(Tail(s)) = l - 1 /\ \A i \in 1..(l - 1) : Tail(s)[i] = s[i + 1]
    BY <1>1, <1>2
  <2> HIDE DEF l
  <2>2. l > 1 => l - 1 \in 1..(l - 1) /\ (l - 1) + 1 = l /\ l - 1 # 0
    BY <2>1
  <2>3. l > 1 => Tail(s)[l - 1] = s[l]
    BY <2>1, <2>2
  <2>4. l > 1 => Tail(s) # <<>>
    BY <2>1, <2>2, <1>4
  <2>5. l > 1 => Tail(s)[Len(Tail(s))] = s[l]
    BY <2>1, <2>3
  <2> QED
    BY <2>4, <2>5 DEF l
<1>6. Tail(s) # <<>> => Len(s) > 1
  BY <1>1, <1>2, <1>3
<1>7. Ends(s) => Ends(Tail(s))
  <2>1. Len(Tail(s)) > 1 => Len(s) > 1
    BY <1>1, <1>2
  <2> QED
    BY <1>5, <2>1 DEF Ends
<1> QED
  BY <1>1, <1>2, <1>5, <1>6, <1>7

(* The byte a string begins with.                                          *)
LEMMA FirstByte ==
  ASSUME TypeOK, StringsInv, NEW t \in Writers, strings[t] # <<>>
  PROVE  /\ StringOf(t) \in Bytes /\ StringOf(t) # NULL
         /\ StringOf(t).by = t /\ StringOf(t).i = 1
         /\ StringOf(t).k = Len(strings[t]) /\ StringOf(t).n = Head(strings[t])
<1>1. /\ strings[t] \in Seq(0..Longest) /\ Len(strings[t]) <= Most
      /\ Most \in Nat /\ Longest \in Nat
  BY OutputsAssumption DEF TypeOK, StringsInv
<1>2. Len(strings[t]) \in 1..Most /\ Head(strings[t]) \in 0..Longest /\ 1 \in 1..(Longest + 1)
  <2>1. Len(strings[t]) \in Nat \ {0} /\ Head(strings[t]) \in 0..Longest
    BY <1>1, OneStringLess
  <2> QED
    BY <1>1, <2>1
<1> QED
  BY <1>2, Nobody DEF StringOf, Bytes

LEMMA NextType == BufferInv /\ [Next]_vars => TypeOK'
<1> SUFFICES ASSUME BufferInv, [Next]_vars PROVE TypeOK'
  OBVIOUS
<1>1. /\ TypeOK /\ uart_out_buf \in Ring!ringbuf_t /\ Size \in Nat \ {0}
      /\ strings \in [Writers -> Seq(0..Longest)] /\ Longest \in Nat
  BY OutputsAssumption DEF BufferInv, TypeOK
<1>2. CASE UNCHANGED vars
  BY <1>1, <1>2 DEF vars, threads, TypeOK
<1>3. ASSUME NEW t \in Writers, Begin(t) PROVE TypeOK'
  <2>1. strings' \in [Writers -> Seq(0..Longest)]
    BY <1>1, <1>3, OutputsAssumption DEF Begin
  <2> QED
    BY <1>1, <1>3, <2>1 DEF Begin, TypeOK
<1>4. ASSUME NEW t \in Writers, UartWait(t) PROVE TypeOK'
  BY <1>1, <1>4 DEF UartWait, TypeOK
<1>5. ASSUME NEW t \in Writers, UartSignal(t) PROVE TypeOK'
  <2>1. uart_mutex = 0
    BY <1>5 DEF UartSignal, BufferInv, MutexInv
  <2> QED
    BY <1>1, <1>5, <2>1 DEF UartSignal, TypeOK
<1>6. ASSUME NEW t \in Writers, TxBegin(t) PROVE TypeOK'
  <2>1. StringOf(t) \in Bytes
    BY <1>1, <1>6, FirstByte DEF TxBegin, BufferInv
  <2>2. p' \in Bytes \cup {NULL}
    BY <1>1, <1>6, <2>1 DEF TxBegin, TypeOK
  <2> QED
    BY <1>1, <1>6, <2>2 DEF TxBegin, threads, TypeOK
<1>7. CASE TxAdd
  <2>1. p \in Bytes /\ uart_out_buf.end \in 0..(Size - 1)
    BY <1>1, <1>7 DEF TxAdd, BufferInv, StrInv, PointerInv, Ring!ringbuf_t, Ring!Index
  <2>2. Ring!Wrap(uart_out_buf.end + 1) \in Ring!Index
    BY <1>1, <2>1 DEF Ring!Wrap, Ring!Index
  <2>3. uart_out_buf' \in Ring!ringbuf_t
    BY <1>1, <1>7, <2>1, <2>2 DEF TxAdd, Ring!Put, Ring!ringbuf_t
  <2>4. reg' \in 0..Size
    BY <1>1, <1>7 DEF TxAdd, Ring!ringbuf_t
  <2> QED
    BY <1>1, <1>7, <2>3, <2>4 DEF TxAdd, threads, TypeOK
<1>8. CASE TxStoreSize
  <2>1. p \in Bytes /\ p.i \in 1..Longest /\ reg + 1 \in 0..Size
    <3>1. p \in Bytes /\ reg < Size /\ reg \in 0..Size /\ ~ (p.i > p.n)
      BY <1>8 DEF TxStoreSize, BufferInv, StrInv, PointerInv, TypeOK, Terminated
    <3>2. p.i \in 1..(Longest + 1) /\ p.n \in 0..Longest
      BY <3>1 DEF Bytes
    <3> QED
      BY <1>1, <3>1, <3>2
  <2>2. p' \in Bytes
    <3>1. p.i + 1 \in 1..(Longest + 1)
      BY <1>1, <2>1
    <3> QED
      BY <1>8, <2>1, <3>1 DEF TxStoreSize, Bytes
  <2>3. uart_out_buf' \in Ring!ringbuf_t
    BY <1>1, <1>8, <2>1 DEF TxStoreSize, Ring!ringbuf_t
  <2> QED
    BY <1>1, <1>8, <2>2, <2>3 DEF TxStoreSize, threads, TypeOK
<1>9. CASE TxDone
  <2>1. strings[caller] # <<>> /\ caller \in Writers
    BY <1>1, <1>9 DEF TxDone, BufferInv, StrInv, PointerInv, TypeOK
  <2>2. Tail(strings[caller]) \in Seq(0..Longest)
    BY <1>1, <2>1, OneStringLess
  <2>3. strings' \in [Writers -> Seq(0..Longest)]
    BY <1>1, <1>9, <2>2 DEF TxDone
  <2> QED
    BY <1>1, <1>9, <2>3 DEF TxDone, TypeOK
<1>10. CASE TxFull \/ uart_tx_thread \/ DataIsrStops
  BY <1>1, <1>10 DEF TxFull, uart_tx_thread, DataIsrStops, threads, TypeOK
<1>11. CASE DataIsrSends
  <2>1. Ring!Wrap(uart_out_buf.start + 1) \in Ring!Index
    BY <1>1, Slots
  <2>2. uart_out_buf.size - 1 \in 0..Size
    BY <1>1, <1>11 DEF DataIsrSends, Ring!Empty, Ring!ringbuf_t
  <2>3. uart_out_buf' \in Ring!ringbuf_t
    BY <1>1, <1>11, <2>1, <2>2 DEF DataIsrSends, Ring!ringbuf_remove, Ring!Take, Ring!ringbuf_t
  <2>4. udr' \in Bytes \cup {NULL}
    BY <1>1, <1>11 DEF DataIsrSends, Ring!First, Ring!ringbuf_t
  <2> QED
    BY <1>1, <1>11, <2>3, <2>4 DEF DataIsrSends, threads, TypeOK
<1> QED
  BY <1>2, <1>3, <1>4, <1>5, <1>6, <1>7, <1>8, <1>9, <1>10, <1>11, Actors

-----------------------------------------------------------------------------
(* The threads and uart_tx_str.                                            *)

LEMMA NextMutex == TypeOK /\ MutexInv /\ [Next]_vars => MutexInv'
<1> SUFFICES ASSUME TypeOK, MutexInv, [Next]_vars PROVE MutexInv'
  OBVIOUS
<1>1. at \in [Writers -> {"idle", "mutex", "writing"}]
  BY DEF TypeOK
<1>2. ASSUME NEW t \in Writers, Begin(t) PROVE MutexInv'
  BY <1>1, <1>2 DEF Begin, MutexInv
<1>3. ASSUME NEW t \in Writers, UartWait(t) PROVE MutexInv'
  BY <1>1, <1>3 DEF UartWait, MutexInv
<1>4. ASSUME NEW t \in Writers, UartSignal(t) PROVE MutexInv'
  BY <1>1, <1>4 DEF UartSignal, MutexInv
<1>5. CASE UNCHANGED <<at, uart_mutex>>
  BY <1>5 DEF MutexInv
<1> QED
  BY <1>2, <1>3, <1>4, <1>5, Actors
     DEF vars, threads, TxBegin, TxAdd, TxStoreSize, TxDone, TxFull, uart_tx_thread,
         DataIsrSends, DataIsrStops

LEMMA NextStrings == BufferInv /\ [Next]_vars => StringsInv'
<1> SUFFICES ASSUME BufferInv, [Next]_vars PROVE StringsInv'
  OBVIOUS
<1>1. /\ at \in [Writers -> {"idle", "mutex", "writing"}]
      /\ strings \in [Writers -> Seq(0..Longest)] /\ StringsInv
  BY DEF BufferInv, TypeOK
<1>2. ASSUME NEW t \in Writers, Begin(t) PROVE StringsInv'
  <2>1. PICK o \in Outputs : strings' = [strings EXCEPT ![t] = o]
    BY <1>2 DEF Begin
  <2>2. Len(o) <= Most /\ Ends(o)
    BY OutputsAssumption DEF Ends
  <2>3. at' = [at EXCEPT ![t] = "mutex"]
    BY <1>2 DEF Begin
  <2> QED
    BY <1>1, <2>1, <2>2, <2>3 DEF StringsInv
<1>3. ASSUME NEW t \in Writers, UartWait(t) PROVE StringsInv'
  BY <1>1, <1>3 DEF UartWait, StringsInv
<1>4. ASSUME NEW t \in Writers, UartSignal(t) PROVE StringsInv'
  BY <1>1, <1>4 DEF UartSignal, StringsInv
<1>5. CASE TxDone
  <2>1. caller \in Writers /\ at[caller] = "writing" /\ strings[caller] # <<>>
    BY <1>5 DEF TxDone, BufferInv, TypeOK, StrInv, PointerInv
  <2> DEFINE s == strings[caller]
  <2>2. /\ Len(Tail(s)) = Len(s) - 1 /\ Len(s) \in Nat
        /\ Ends(Tail(s))
    BY <1>1, <2>1, OneStringLess DEF StringsInv
  <2>3. Len(s) <= Most /\ Most \in Nat
    BY <1>1, <2>1, OutputsAssumption DEF StringsInv
  <2>4. Len(Tail(s)) <= Most
    BY <2>2, <2>3
  <2>5. strings' = [strings EXCEPT ![caller] = Tail(s)] /\ at' = at
    BY <1>5 DEF TxDone
  <2> HIDE DEF s
  <2> QED
    BY <1>1, <2>1, <2>2, <2>4, <2>5 DEF StringsInv
<1>6. CASE UNCHANGED <<at, strings>>
  BY <1>1, <1>6 DEF StringsInv
<1> QED
  BY <1>2, <1>3, <1>4, <1>5, <1>6, Actors
     DEF vars, threads, TxBegin, TxAdd, TxStoreSize, TxFull, uart_tx_thread,
         DataIsrSends, DataIsrStops

LEMMA NextPointer == BufferInv /\ [Next]_vars => StrInv' /\ PointerInv'
<1> SUFFICES ASSUME BufferInv, [Next]_vars PROVE StrInv' /\ PointerInv'
  OBVIOUS
<1>1. /\ at \in [Writers -> {"idle", "mutex", "writing"}]
      /\ strings \in [Writers -> Seq(0..Longest)]
      /\ pc \in {"poll", "loop", "size"} /\ caller \in Writers
      /\ TypeOK /\ MutexInv /\ StringsInv /\ StrInv /\ PointerInv
  BY DEF BufferInv, TypeOK
<1>2. p # NULL => p \in Bytes /\ p.by \in Writers /\ p.i \in Nat /\ p.n \in Nat
  BY <1>1 DEF PointerInv, Bytes
<1>3. CASE UNCHANGED vars
  BY <1>1, <1>3 DEF vars, threads, StrInv, PointerInv, Terminated
<1>4. ASSUME NEW t \in Writers, Begin(t) PROVE StrInv' /\ PointerInv'
  <2>1. /\ at[t] = "idle" /\ \A u \in Writers : u # t => at'[u] = at[u] /\ strings'[u] = strings[u]
        /\ UNCHANGED <<pc, p, caller, reg, uart_out_buf, udrie>> /\ pc = "poll"
    BY <1>1, <1>4 DEF Begin
  <2> QED
    BY <1>1, <1>2, <2>1 DEF StrInv, PointerInv, Terminated
<1>5. ASSUME NEW t \in Writers, UartWait(t) PROVE StrInv' /\ PointerInv'
  <2>1. /\ \A u \in Writers : at[u] = "writing" => at'[u] = "writing"
        /\ UNCHANGED <<pc, p, caller, reg, uart_out_buf, udrie, strings>> /\ pc = "poll"
    BY <1>1, <1>5 DEF UartWait
  <2> QED
    BY <1>1, <1>2, <2>1 DEF StrInv, PointerInv, Terminated
<1>6. ASSUME NEW t \in Writers, UartSignal(t) PROVE StrInv' /\ PointerInv'
  <2>1. /\ strings[t] = <<>> /\ \A u \in Writers : u # t => at'[u] = at[u]
        /\ UNCHANGED <<pc, p, caller, reg, uart_out_buf, udrie, strings>> /\ pc = "poll"
    BY <1>1, <1>6 DEF UartSignal
  <2> QED
    BY <1>1, <1>2, <2>1 DEF StrInv, PointerInv, Terminated
<1>7. ASSUME NEW t \in Writers, TxBegin(t) PROVE StrInv' /\ PointerInv'
  <2>1. /\ StringOf(t) \in Bytes /\ StringOf(t) # NULL
        /\ StringOf(t).by = t /\ StringOf(t).i = 1
        /\ StringOf(t).k = Len(strings[t]) /\ StringOf(t).n = Head(strings[t])
    BY <1>1, <1>7, FirstByte DEF TxBegin
  <2>2. /\ at[t] = "writing" /\ strings[t] # <<>> /\ caller' = t /\ ~ udrie' /\ pc' = "loop"
        /\ p' = (IF p = NULL THEN StringOf(t) ELSE p) /\ UNCHANGED <<at, strings>>
    BY <1>7 DEF TxBegin, threads
  <2>3. StringOf(t).i <= StringOf(t).n + 1
    BY <2>1 DEF Bytes
  <2>4. p # NULL => p.by = t
    BY <1>1, <1>2, <2>2 DEF PointerInv, MutexInv
  <2> QED
    BY <1>1, <1>2, <2>1, <2>2, <2>3, <2>4 DEF StrInv, PointerInv
<1>8. CASE TxAdd
  <2>1. /\ pc = "loop" /\ ~ Terminated(p) /\ uart_out_buf.size # Size
        /\ uart_out_buf'.size = uart_out_buf.size /\ reg' = uart_out_buf.size
        /\ pc' = "size" /\ UNCHANGED <<caller, at, strings, p, udrie>>
    BY <1>1, <1>8 DEF TxAdd, threads, Ring!Full, Ring!Put, TypeOK, Ring!ringbuf_t
  <2>2. uart_out_buf.size \in 0..Size /\ Size \in Nat
    BY <1>1, OutputsAssumption DEF TypeOK, Ring!ringbuf_t
  <2> QED
    BY <1>1, <2>1, <2>2 DEF StrInv, PointerInv, Terminated
<1>9. CASE TxStoreSize
  <2>1. /\ pc = "size" /\ pc' = "loop" /\ p' = [p EXCEPT !.i = @ + 1]
        /\ UNCHANGED <<caller, at, strings, udrie>>
    BY <1>9 DEF TxStoreSize, threads
  <2>2. p # NULL /\ ~ (p.i > p.n)
    BY <1>1, <2>1 DEF StrInv, Terminated
  <2>3. /\ p'.i = p.i + 1 /\ p'.by = p.by /\ p'.k = p.k /\ p'.n = p.n
        /\ p'.i # 1
    BY <1>2, <2>1, <2>2 DEF Bytes
  <2>4. p'.i <= p'.n + 1
    BY <1>2, <2>2, <2>3
  <2>5. p' \in Bytes
    <3>1. p.i \in 1..(Longest + 1) /\ p.n \in 0..Longest /\ Longest \in Nat
      BY <1>2, <2>2, OutputsAssumption DEF Bytes
    <3>2. p.i + 1 \in 1..(Longest + 1)
      BY <2>2, <3>1
    <3> QED
      BY <1>2, <2>1, <2>2, <3>2 DEF Bytes
  <2>6. p' # NULL
    BY <2>5, Nobody
  <2> QED
    BY <1>1, <2>1, <2>2, <2>3, <2>4, <2>5, <2>6 DEF StrInv, PointerInv
<1>10. CASE TxDone
  BY <1>10 DEF TxDone, StrInv, PointerInv
<1>11. CASE TxFull
  BY <1>1, <1>11 DEF TxFull, threads, StrInv, PointerInv, Terminated
<1>12. CASE uart_tx_thread \/ DataIsrSends \/ DataIsrStops
  BY <1>1, <1>12 DEF uart_tx_thread, DataIsrSends, DataIsrStops, threads, StrInv, PointerInv,
                     Terminated
<1> QED
  BY <1>3, <1>4, <1>5, <1>6, <1>7, <1>8, <1>9, <1>10, <1>11, <1>12, Actors

-----------------------------------------------------------------------------
(* The buffer as a queue.                                                  *)

(* What a step does to the bytes that size counts: nothing, ...            *)
QueueKept ==
  /\ uart_out_buf'.size = uart_out_buf.size /\ udr' = udr
  /\ \A i \in 0..(uart_out_buf.size - 1) : Cell(uart_out_buf', i) = Cell(uart_out_buf, i)

(* ... or one more is counted, ...                                         *)
QueueAdded ==
  /\ pc = "size" /\ p' = [p EXCEPT !.i = @ + 1]
  /\ uart_out_buf.size < Size /\ uart_out_buf'.size = uart_out_buf.size + 1 /\ udr' = udr
  /\ \A i \in 0..(uart_out_buf.size - 1) : Cell(uart_out_buf', i) = Cell(uart_out_buf, i)
  /\ Cell(uart_out_buf', uart_out_buf.size) = p
  /\ UNCHANGED <<at, strings>>

(* ... or one is sent.                                                     *)
QueueRemoved ==
  /\ uart_out_buf.size > 0 /\ uart_out_buf'.size = uart_out_buf.size - 1
  /\ udr' = Cell(uart_out_buf, 0)
  /\ \A i \in 0..(uart_out_buf.size - 2) : Cell(uart_out_buf', i) = Cell(uart_out_buf, i + 1)
  /\ UNCHANGED <<p, at, strings>>

LEMMA RingStep ==
  BufferInv /\ [Next]_vars => RingInv' /\ (QueueKept \/ QueueAdded \/ QueueRemoved)
<1> SUFFICES ASSUME BufferInv, [Next]_vars
             PROVE  RingInv' /\ (QueueKept \/ QueueAdded \/ QueueRemoved)
  OBVIOUS
<1> DEFINE b == uart_out_buf
           c == uart_out_buf'
           n == uart_out_buf.size
<1>1. /\ TypeOK /\ StrInv /\ RingInv /\ b \in Ring!ringbuf_t /\ Size \in Nat \ {0}
      /\ n \in 0..Size
  BY OutputsAssumption DEF BufferInv, TypeOK, Ring!ringbuf_t
<1>2. /\ \A i \in 0..Size : Ring!Slot(b, i) \in Ring!Index
      /\ \A i, j \in 0..(Size - 1) : Ring!Slot(b, i) = Ring!Slot(b, j) => i = j
      /\ \A i \in 0..(Size - 1) : Ring!Wrap(Ring!Slot(b, i) + 1) = Ring!Slot(b, i + 1)
      /\ \A i \in 0..(Size - 1) : Ring!Slot(Ring!Take(b), i) = Ring!Slot(b, i + 1)
      /\ b.start = Ring!Slot(b, 0)
  BY <1>1, Slots
<1>3. ASSUME uart_out_buf' = uart_out_buf, udr' = udr, pc' = pc \/ (pc # "size" /\ pc' # "size"),
             p' = p \/ pc' # "size"
      PROVE  RingInv' /\ QueueKept
  BY <1>1, <1>3 DEF RingInv, QueueKept, Cell
<1>4. CASE TxAdd
  <2>1. /\ pc = "loop" /\ pc' = "size" /\ p' = p /\ udr' = udr /\ n # Size
        /\ c = [b EXCEPT !.cells = [b.cells EXCEPT ![b.end] = p],
                         !.end = Ring!Wrap(b.end + 1)]
    BY <1>4 DEF TxAdd, Ring!Put, Ring!Full
  <2>2. b.end = Ring!Slot(b, n) /\ n \in 0..(Size - 1)
    BY <1>1, <2>1 DEF RingInv
  <2>3. c.size = n /\ c.start = b.start /\ c.end = Ring!Slot(b, n + 1)
        /\ c.cells = [b.cells EXCEPT ![b.end] = p]
    BY <1>1, <1>2, <2>1, <2>2 DEF Ring!ringbuf_t
  <2>4. \A i : Ring!Slot(c, i) = Ring!Slot(b, i)
    BY <2>3 DEF Ring!Slot
  <2>5. b.cells \in [Ring!Index -> Bytes \cup {NULL}] /\ b.end \in Ring!Index
    BY <1>1 DEF Ring!ringbuf_t
  <2>6. \A i \in 0..(n - 1) : c.cells[Ring!Slot(b, i)] = b.cells[Ring!Slot(b, i)]
    <3> SUFFICES ASSUME NEW i \in 0..(n - 1)
                 PROVE  c.cells[Ring!Slot(b, i)] = b.cells[Ring!Slot(b, i)]
      OBVIOUS
    <3>1. i \in 0..(Size - 1) /\ i # n /\ i \in 0..Size
      <4>1. n \in Nat /\ n < Size /\ Size \in Nat
        BY <1>1, <2>1
      <4> HIDE DEF n
      <4> QED
        BY <4>1
    <3>2. Ring!Slot(b, i) # b.end /\ Ring!Slot(b, i) \in Ring!Index
      BY <1>2, <2>2, <3>1
    <3> HIDE DEF b, c, n
    <3> QED
      BY <2>3, <2>5, <3>2
  <2>7. c.cells[Ring!Slot(b, n)] = p
    <3> HIDE DEF b, c, n
    <3> QED
      BY <2>2, <2>3, <2>5
  <2>8. Ring!Slot(c, n + 1) = c.end
    BY <2>3, <2>4
  <2>9. RingInv'
    BY <2>1, <2>3, <2>4, <2>7, <2>8 DEF RingInv, Cell
  <2>10. QueueKept
    BY <2>1, <2>3, <2>4, <2>6 DEF QueueKept, Cell
  <2> QED
    BY <2>9, <2>10
<1>5. CASE TxStoreSize
  <2>1. /\ pc = "size" /\ pc' = "loop" /\ p' = [p EXCEPT !.i = @ + 1] /\ udr' = udr
        /\ c = [b EXCEPT !.size = reg + 1] /\ reg = n /\ reg < Size
        /\ UNCHANGED <<at, strings>>
    BY <1>1, <1>5 DEF TxStoreSize, StrInv, threads
  <2>2. c.size = n + 1 /\ c.start = b.start /\ c.end = b.end /\ c.cells = b.cells /\ n < Size
    BY <1>1, <2>1 DEF Ring!ringbuf_t
  <2>3. \A i : Ring!Slot(c, i) = Ring!Slot(b, i)
    BY <2>2 DEF Ring!Slot
  <2>4. b.end = Ring!Slot(b, n + 1) /\ b.cells[Ring!Slot(b, n)] = p
    BY <1>1, <2>1 DEF RingInv, Cell
  <2>5. RingInv'
    <3>1. c.size + 0 = n + 1
      BY <1>1, <2>2
    <3> QED
      BY <2>1, <2>2, <2>3, <2>4, <3>1 DEF RingInv
  <2>6. QueueAdded
    <3>1. \A i : c.cells[Ring!Slot(c, i)] = b.cells[Ring!Slot(b, i)]
      BY <2>2, <2>3
    <3>2. c.cells[Ring!Slot(c, n)] = p
      BY <2>4, <3>1
    <3>3. /\ \A i \in 0..(n - 1) : Cell(uart_out_buf', i) = Cell(uart_out_buf, i)
          /\ Cell(c, n) = p
      BY <3>1, <3>2 DEF Cell
    <3> QED
      BY <2>1, <2>2, <3>3 DEF QueueAdded
  <2> QED
    BY <2>5, <2>6
<1>6. CASE DataIsrSends
  <2>1. /\ n # 0 /\ udrie /\ UNCHANGED <<pc, p, at, strings>>
        /\ udr' = b.cells[b.start] /\ c = [Ring!Take(b) EXCEPT !.size = @ - 1]
    BY <1>6 DEF DataIsrSends, threads, Ring!Empty, Ring!First, Ring!ringbuf_remove
  <2>2. pc = "poll"
    BY <1>1, <2>1 DEF StrInv, TypeOK
  <2>3. /\ c.size = n - 1 /\ c.end = b.end /\ c.cells = b.cells
        /\ c.start = Ring!Take(b).start
    BY <1>1, <2>1 DEF Ring!Take, Ring!ringbuf_t
  <2>4. \A i : Ring!Slot(c, i) = Ring!Slot(Ring!Take(b), i)
    BY <2>3 DEF Ring!Slot
  <2>5. \A i \in 0..(n - 1) : Ring!Slot(c, i) = Ring!Slot(b, i + 1)
    BY <1>1, <1>2, <2>4
  <2>6. b.end = Ring!Slot(b, n)
    BY <1>1, <2>2 DEF RingInv
  <2>7. Ring!Slot(c, n - 1) = Ring!Slot(b, n)
    <3>1. n - 1 \in 0..(n - 1) /\ (n - 1) + 1 = n
      BY <1>1, <2>1
    <3> QED
      BY <2>5, <3>1
  <2>8. RingInv'
    <3>1. c.size + 0 = n - 1
      BY <1>1, <2>3
    <3> QED
      BY <2>1, <2>2, <2>3, <2>6, <2>7, <3>1 DEF RingInv
  <2>9. \A i \in 0..(n - 2) : c.cells[Ring!Slot(c, i)] = b.cells[Ring!Slot(b, i + 1)]
    BY <1>1, <2>3, <2>5
  <2>10. QueueRemoved
    BY <1>1, <1>2, <2>1, <2>3, <2>9 DEF QueueRemoved, Cell
  <2> QED
    BY <2>8, <2>10
<1>7. CASE TxDone \/ TxFull
  BY <1>3, <1>7 DEF TxDone, TxFull
<1>8. ASSUME NEW t \in Writers, TxBegin(t) PROVE RingInv' /\ QueueKept
  BY <1>3, <1>8 DEF TxBegin
<1>9. CASE UNCHANGED <<uart_out_buf, udr, pc, p>>
  BY <1>3, <1>9
<1> QED
  BY <1>4, <1>5, <1>6, <1>7, <1>8, <1>9, Actors
     DEF vars, Begin, UartWait, UartSignal, uart_tx_thread, DataIsrStops

LEMMA BufferNext == BufferInv /\ [Next]_vars => BufferInv'
BY NextType, NextMutex, NextStrings, NextPointer, RingStep DEF BufferInv

LEMMA BufferInvariant == Spec => []BufferInv
BY BufferInit, BufferNext, PTL DEF Spec

(* Every variable keeps its type: reg and size never leave 0..Size, nor p  *)
(* its string (uart.c:60-88, ringbuf.c:56-88).                             *)
THEOREM TypeCorrect == Spec => []TypeOK
<1>1. BufferInv => TypeOK
  BY DEF BufferInv
<1> QED
  BY <1>1, BufferInvariant, PTL

-----------------------------------------------------------------------------
(* The buffer implements Fifo.                                             *)

LEMMA QueueContents ==
  ASSUME NEW b \in Ring!ringbuf_t
  PROVE  /\ Ring!Contents(b) \in Seq(Bytes \cup {NULL})
         /\ Len(Ring!Contents(b)) = b.size
         /\ \A i \in 1..b.size : Ring!Contents(b)[i] = Cell(b, i - 1)
         /\ \A i \in 0..(b.size - 1) : Cell(b, i) \in Bytes \cup {NULL}
<1> DEFINE n == b.size
           s == Ring!Contents(b)
<1>1. n \in 0..Size /\ Size \in Nat
  BY OutputsAssumption DEF Ring!ringbuf_t
<1>2. s = [i \in 1..n |-> Cell(b, i - 1)]
  BY DEF Ring!Contents, Cell
<1>3. ASSUME NEW i \in 0..(n - 1) PROVE Cell(b, i) \in Bytes \cup {NULL}
  <2>1. Ring!Slot(b, i) \in Ring!Index
    BY <1>1, Slots
  <2> QED
    BY <2>1 DEF Cell, Ring!ringbuf_t
<1>4. s \in Seq(Bytes \cup {NULL}) /\ DOMAIN s = 1..n
  <2>1. \A i \in 1..n : Cell(b, i - 1) \in Bytes \cup {NULL}
    BY <1>1, <1>3
  <2>2. s \in [1..n -> Bytes \cup {NULL}]
    BY <1>2, <2>1
  <2> QED
    BY <1>1, <2>2, SeqDef
<1>5. Len(s) = n
  BY <1>1, <1>4, LenProperties
<1> QED
  BY <1>2, <1>3, <1>4, <1>5

(* A byte that is counted is added, and a byte that is sent removed.       *)
LEMMA QueueStep ==
  BufferInv /\ BufferInv' /\ [Next]_vars => [Queue!Next]_(Queue!vars)
<1> SUFFICES ASSUME BufferInv, BufferInv', [Next]_vars
             PROVE  Queue!Next \/ UNCHANGED Queue!vars
  OBVIOUS
<1> DEFINE s == Ring!Contents(uart_out_buf)
           t == Ring!Contents(uart_out_buf')
           n == uart_out_buf.size
           m == uart_out_buf'.size
           Item == Bytes \cup {NULL}
<1>1. /\ uart_out_buf \in Ring!ringbuf_t /\ uart_out_buf' \in Ring!ringbuf_t
      /\ n \in 0..Size /\ m \in 0..Size /\ Size \in Nat
  BY OutputsAssumption DEF BufferInv, TypeOK, Ring!ringbuf_t
<1>2. /\ s \in Seq(Item) /\ Len(s) = n
      /\ \A i \in 1..n : s[i] = Cell(uart_out_buf, i - 1)
  BY <1>1, QueueContents
<1>3. /\ t \in Seq(Item) /\ Len(t) = m
      /\ \A i \in 1..m : t[i] = Cell(uart_out_buf', i - 1)
  BY <1>1, QueueContents
<1>4. CASE QueueKept
  <2>1. m = n /\ udr' = udr
    BY <1>4 DEF QueueKept
  <2>2. \A i \in 1..n : i - 1 \in 0..(n - 1)
    BY <1>1
  <2>3. \A i \in 1..n : t[i] = s[i]
    BY <1>2, <1>3, <1>4, <2>1, <2>2 DEF QueueKept
  <2> HIDE DEF s, t, n, m, Item
  <2>4. t = s
    BY <1>2, <1>3, <2>1, <2>3, SeqEqual
  <2> QED
    BY <2>1, <2>4 DEF Queue!vars, s, t
<1>5. CASE QueueAdded
  <2>1. m = n + 1 /\ n < Size /\ udr' = udr /\ p \in Item
    BY <1>5 DEF QueueAdded, BufferInv, TypeOK
  <2>2. \A i \in 1..n : t[i] = s[i]
    <3>1. \A i \in 1..n : i - 1 \in 0..(n - 1) /\ i \in 1..m
      BY <1>1, <2>1
    <3> QED
      BY <1>2, <1>3, <1>5, <3>1 DEF QueueAdded
  <2>3. t[n + 1] = p
    <3>1. n + 1 \in 1..m /\ (n + 1) - 1 = n
      BY <1>1, <2>1
    <3> QED
      BY <1>3, <1>5, <3>1 DEF QueueAdded
  <2> HIDE DEF s, t, n, m, Item
  <2>4. /\ Append(s, p) \in Seq(Item) /\ Len(Append(s, p)) = n + 1
        /\ \A i \in 1..n : Append(s, p)[i] = s[i]
        /\ Append(s, p)[n + 1] = p
    BY <1>2, <2>1, AppendProperties
  <2>5. \A i \in 1..(n + 1) : i \in 1..n \/ i = n + 1
    BY <1>1
  <2>6. t = Append(s, p)
    BY <1>3, <2>1, <2>2, <2>3, <2>4, <2>5, SeqEqual
  <2>7. Queue!Add(p)
    BY <1>2, <2>1, <2>6 DEF Queue!Add, s, t
  <2> QED
    BY <2>1, <2>7 DEF Queue!Next, Item
<1>6. CASE QueueRemoved
  <2>1. m = n - 1 /\ n > 0 /\ udr' = Cell(uart_out_buf, 0)
    BY <1>6 DEF QueueRemoved
  <2>2. \A i \in 1..m : t[i] = s[i + 1]
    <3>1. \A i \in 1..m : /\ i - 1 \in 0..(n - 2) /\ i + 1 \in 1..n
                          /\ (i + 1) - 1 = (i - 1) + 1
      BY <1>1, <2>1
    <3> QED
      BY <1>2, <1>3, <1>6, <3>1 DEF QueueRemoved
  <2>3. udr' = s[1]
    <3>1. 1 \in 1..n /\ 1 - 1 = 0
      BY <1>1, <2>1
    <3> QED
      BY <1>2, <2>1, <3>1
  <2> HIDE DEF s, t, n, m, Item
  <2>4. s # <<>>
    <3>1. Len(s) # 0
      BY <1>1, <1>2, <2>1
    <3> QED
      BY <3>1, EmptySeq
  <2>5. /\ Tail(s) \in Seq(Item) /\ Len(Tail(s)) = m
        /\ \A i \in 1..m : Tail(s)[i] = s[i + 1]
    BY <1>2, <2>1, <2>4, HeadTailProperties
  <2>6. t = Tail(s)
    BY <1>3, <2>2, <2>5, SeqEqual
  <2>7. Head(s) = s[1]
    BY <1>2, <2>4
  <2>8. Queue!Remove
    BY <2>3, <2>4, <2>6, <2>7 DEF Queue!Remove, s, t
  <2> QED
    BY <2>8 DEF Queue!Next
<1> QED
  BY <1>4, <1>5, <1>6, RingStep

(* The transmit buffer is a queue for the program and the handler that     *)
(* share it: no byte is lost, repeated or overtaken (ringbuf.c:56-88).     *)
THEOREM Refinement == Spec => ImplementsFifo
<1>1. Init => Queue!Init
  <2> SUFFICES ASSUME Init PROVE Ring!Contents(uart_out_buf) = <<>> /\ udr \in Bytes \cup {NULL}
    BY DEF Queue!Init
  <2>1. uart_out_buf.size = 0 /\ uart_out_buf \in Ring!ringbuf_t
    BY BufferInit DEF Init, Ring!ringbuf_new, BufferInv, TypeOK
  <2>2. Ring!Contents(uart_out_buf) \in Seq(Bytes \cup {NULL})
        /\ Len(Ring!Contents(uart_out_buf)) = 0
    BY <2>1, QueueContents
  <2> QED
    BY <2>2, EmptySeq DEF Init
<1> QED
  BY <1>1, QueueStep, BufferInvariant, BufferNext, PTL DEF Spec, ImplementsFifo, Queue!Spec

-----------------------------------------------------------------------------
(* The line.                                                               *)

LEMMA LineInit == Init => LineInv
<1> SUFFICES ASSUME Init PROVE LineInv
  OBVIOUS
<1>1. uart_out_buf.size = 0
  BY DEF Init, Ring!ringbuf_new
<1>2. Over(NULL)
  BY Nobody DEF Over
<1>3. Out(0) = NULL /\ p = NULL
  BY DEF Init, Out
<1> QED
  BY <1>1, <1>2, <1>3 DEF LineInv

(* Bytes that follow the one sent last.                                    *)
LEMMA OutTypes ==
  ASSUME TypeOK
  PROVE  /\ uart_out_buf.size \in 0..Size /\ Size \in Nat
         /\ \A i \in 0..uart_out_buf.size : Out(i) \in Bytes \cup {NULL}
<1>1. uart_out_buf \in Ring!ringbuf_t /\ uart_out_buf.size \in 0..Size /\ Size \in Nat
  BY OutputsAssumption DEF TypeOK, Ring!ringbuf_t
<1>2. udr \in Bytes \cup {NULL}
  BY DEF TypeOK
<1>3. \A i \in 0..uart_out_buf.size : i # 0 => i - 1 \in 0..(uart_out_buf.size - 1)
  BY <1>1
<1> QED
  BY <1>1, <1>2, <1>3, QueueContents DEF Out

LEMMA ByteFields ==
  ASSUME NEW a \in Bytes \cup {NULL}
  PROVE  /\ a.i \in Nat \ {0} /\ a.n \in Nat /\ a.k \in Nat
         /\ a = [by |-> a.by, k |-> a.k, n |-> a.n, i |-> a.i]
         /\ [a EXCEPT !.i = @ + 1] = [by |-> a.by, k |-> a.k, n |-> a.n, i |-> a.i + 1]
BY DEF Bytes, NULL

(* Who writes: p is his.                                                   *)
LEMMA OneWriter ==
  ASSUME BufferInv, p # NULL, NEW t \in Writers, at[t] = "writing"
  PROVE  p.by = t
<1>1. p \in Bytes /\ at[p.by] = "writing"
  BY DEF BufferInv, PointerInv
<1>2. p.by \in Writers
  BY <1>1 DEF Bytes
<1> QED
  BY <1>1, <1>2 DEF BufferInv, MutexInv

(* The byte that uart_tx_str is about to add may follow the last one.      *)
LEMMA NextFollows ==
  ASSUME BufferInv, LineInv, p # NULL, ~ Terminated(p)
  PROVE  Follows(Out(uart_out_buf.size), p)
<1> DEFINE a == Out(uart_out_buf.size)
<1>1. a \in Bytes \cup {NULL}
  <2>1. TypeOK
    BY DEF BufferInv
  <2>2. uart_out_buf.size \in 0..uart_out_buf.size
    BY <2>1, OutTypes
  <2> QED
    BY <2>1, <2>2, OutTypes
<1>2. IF p.i > 1 THEN p = [a EXCEPT !.i = @ + 1] ELSE Over(a)
  BY DEF LineInv
<1>3. p \in Bytes /\ p.k = Len(strings[p.by]) /\ p.i \in Nat \ {0} /\ p.n \in Nat
  BY ByteFields DEF BufferInv, PointerInv
<1>4. /\ a.i \in Nat /\ a.n \in Nat /\ a.k \in Nat
      /\ [a EXCEPT !.i = @ + 1] = [by |-> a.by, k |-> a.k, n |-> a.n, i |-> a.i + 1]
  BY <1>1, ByteFields
<1> HIDE DEF a
<1>5. CASE p.i > 1
  <2>1. p.i = a.i + 1 /\ p.n = a.n
    BY <1>2, <1>4, <1>5
  <2>2. a.i < a.n
    BY <1>3, <1>4, <2>1 DEF Terminated
  <2> QED
    BY <1>2, <1>5, <2>2 DEF Follows, a
<1>6. CASE ~ (p.i > 1)
  <2>1. p.i = 1 /\ ~ (a.i < a.n)
    BY <1>2, <1>3, <1>4, <1>6 DEF Over
  <2>2. a.k > 1 => p.by = a.by /\ p.k < a.k
    BY <1>2, <1>3, <1>6, OneWriter DEF Over
  <2> QED
    BY <2>1, <2>2 DEF Follows, a
<1> QED
  BY <1>5, <1>6

(* When a string is done, the next one may follow its last byte.           *)
LEMMA DoneIsOver ==
  ASSUME BufferInv, LineInv, TxDone
  PROVE  Over(Out(uart_out_buf.size))'
<1> DEFINE a == Out(uart_out_buf.size)
           s == strings[caller]
<1>1. /\ TypeOK /\ StringsInv /\ strings \in [Writers -> Seq(0..Longest)]
      /\ caller \in Writers
  BY DEF BufferInv, TypeOK
<1>2. a \in Bytes \cup {NULL}
  <2>1. uart_out_buf.size \in 0..uart_out_buf.size
    BY <1>1, OutTypes
  <2> QED
    BY <1>1, <2>1, OutTypes
<1>3. /\ p # NULL /\ p.by = caller /\ at[caller] = "writing" /\ Terminated(p)
      /\ p \in Bytes /\ s # <<>> /\ p.k = Len(s) /\ p.n = Head(s)
  BY DEF BufferInv, StrInv, PointerInv, TxDone
<1>4. p.i \in Nat \ {0} /\ p.n \in Nat
  BY <1>3, ByteFields
<1>5. /\ Len(s) \in Nat \ {0} /\ Len(Tail(s)) = Len(s) - 1 /\ Head(s) = s[1]
      /\ Tail(s) # <<>> => Tail(s)[Len(Tail(s))] = s[Len(s)]
      /\ Len(s) > 1 => Tail(s) # <<>> /\ s[Len(s)] # 0
  <2>1. s \in Seq(0..Longest) /\ s # <<>> /\ Ends(s)
    BY <1>1, <1>3 DEF StringsInv
  <2> HIDE DEF s
  <2> QED
    BY <2>1, OneStringLess DEF Ends
<1>6. /\ strings'[caller] = Tail(s) /\ UNCHANGED <<at, udr, uart_out_buf>>
  BY <1>1 DEF TxDone
<1>7. /\ a.i \in Nat /\ a.n \in Nat /\ a.k \in Nat
      /\ [a EXCEPT !.i = @ + 1] = [by |-> a.by, k |-> a.k, n |-> a.n, i |-> a.i + 1]
  BY <1>2, ByteFields
<1>8. IF p.i > 1 THEN p = [a EXCEPT !.i = @ + 1] ELSE Over(a)
  BY <1>3 DEF LineInv
<1>9. Out(uart_out_buf.size)' = a
  BY <1>6 DEF Out, Cell
<1> HIDE DEF a, s
<1>10. a.i >= a.n /\ (a.k > 1 => a.by = caller /\ Len(s) > 1 /\ Len(Tail(s)) < a.k)
  <2>1. CASE p.i > 1
    <3>1. p.i = a.i + 1 /\ p.n = a.n /\ p.k = a.k /\ p.by = a.by
      BY <1>7, <1>8, <2>1
    <3>2. p.i > p.n
      BY <1>3 DEF Terminated
    <3> QED
      BY <1>3, <1>5, <1>7, <3>1, <3>2
  <2>2. CASE ~ (p.i > 1)
    <3>1. Over(a)
      BY <1>8, <2>2
    <3>2. p.n = 0
      BY <1>3, <1>4, <2>2 DEF Terminated
    <3>3. ASSUME a.k > 1 PROVE a.by = caller /\ Len(s) > 1 /\ Len(Tail(s)) < a.k
      <4>1. /\ a.by = caller /\ Len(s) < a.k /\ s[Len(s)] # 0
        BY <1>3, <3>1, <3>3, OneWriter DEF Over, s
      <4>2. Len(s) # 1
        BY <1>3, <1>5, <3>2, <4>1
      <4>3. Len(s) > 1
        BY <1>5, <4>2
      <4>4. Len(Tail(s)) < a.k
        BY <1>5, <1>7, <4>1
      <4> QED
        BY <4>1, <4>3, <4>4
    <3> QED
      BY <3>1, <3>3 DEF Over
  <2> QED
    BY <2>1, <2>2
<1>11. a.i >= a.n /\ (a.k > 1 => /\ a.by \in Writers /\ at'[a.by] = "writing"
                                 /\ strings'[a.by] # <<>>
                                 /\ Len(strings'[a.by]) < a.k
                                 /\ strings'[a.by][Len(strings'[a.by])] # 0)
  BY <1>1, <1>3, <1>5, <1>6, <1>10
<1> QED
  BY <1>9, <1>11 DEF Over

(* A string that has still to come keeps its place.                        *)
LEMMA StillOver ==
  ASSUME BufferInv, [Next]_vars, ~ TxDone, NEW x, Over(x)
  PROVE  Over(x)'
<1>1. at \in [Writers -> {"idle", "mutex", "writing"}] /\ strings \in [Writers -> Seq(0..Longest)]
  BY DEF BufferInv, TypeOK
<1>2. ASSUME NEW t \in Writers, Begin(t) PROVE Over(x)'
  BY <1>1, <1>2 DEF Begin, Over
<1>3. ASSUME NEW t \in Writers, UartWait(t) PROVE Over(x)'
  BY <1>1, <1>3 DEF UartWait, Over
<1>4. ASSUME NEW t \in Writers, UartSignal(t) PROVE Over(x)'
  BY <1>1, <1>4 DEF UartSignal, Over
<1>5. CASE UNCHANGED <<at, strings>>
  BY <1>5 DEF Over
<1> QED
  BY <1>2, <1>3, <1>4, <1>5, Actors
     DEF vars, threads, TxBegin, TxAdd, TxStoreSize, TxFull, uart_tx_thread,
         DataIsrSends, DataIsrStops

(* What p may be set to while the last byte counted stays the same.        *)
LEMMA PointerStep ==
  ASSUME BufferInv, [Next]_vars, ~ TxDone, ~ TxStoreSize
  PROVE  p' = p \/ (p = NULL /\ p'.i = 1)
<1>1. ASSUME NEW t \in Writers, TxBegin(t), p = NULL PROVE p'.i = 1
  BY <1>1, FirstByte DEF TxBegin, BufferInv
<1> QED
  BY <1>1, Actors
     DEF vars, Begin, UartWait, UartSignal, TxBegin, TxAdd, TxFull, uart_tx_thread,
         DataIsrSends, DataIsrStops

LEMMA LineNext == BufferInv /\ LineInv /\ [Next]_vars => LineInv'
<1> SUFFICES ASSUME BufferInv, LineInv, [Next]_vars PROVE LineInv'
  OBVIOUS
<1> DEFINE n == uart_out_buf.size
           Chain == \A i \in 0..(n - 1) : Follows(Out(i), Out(i + 1))
           Last(x) == IF p # NULL /\ p.i > 1 THEN p = [x EXCEPT !.i = @ + 1] ELSE Over(x)
<1>1. n \in 0..Size /\ Size \in Nat /\ TypeOK
  BY OutTypes DEF BufferInv
<1>2. Chain /\ Last(Out(n))
  BY DEF LineInv
<1>3. PICK a : a = Out(n)
  OBVIOUS
<1>4. Last(a)
  BY <1>2, <1>3
<1>5. CASE QueueKept
  <2>1. uart_out_buf'.size = n /\ udr' = udr
        /\ \A i \in 0..(n - 1) : Cell(uart_out_buf', i) = Cell(uart_out_buf, i)
    BY <1>5 DEF QueueKept
  <2>2. \A i \in 0..n : Out(i)' = Out(i)
    <3>1. \A i \in 0..n : i # 0 => i - 1 \in 0..(n - 1)
      BY <1>1
    <3> QED
      BY <2>1, <3>1 DEF Out
  <2>3. Chain'
    <3>1. \A i \in 0..(n - 1) : i \in 0..n /\ i + 1 \in 0..n
      BY <1>1
    <3> QED
      BY <1>2, <2>1, <2>2, <3>1
  <2>4. Out(n)' = a
    <3>1. n \in 0..n
      BY <1>1
    <3>2. \A i \in 0..n : i = n => (IF i = 0 THEN udr' ELSE Cell(uart_out_buf', i - 1)) = Out(i)
      BY <2>2 DEF Out
    <3> QED
      BY <1>3, <2>1, <3>1, <3>2 DEF Out
  <2>5. Last(a)'
    <3>1. CASE TxDone
      <4>1. p' = NULL
        BY <3>1 DEF TxDone
      <4>2. Over(a)'
        BY <2>4, <3>1, DoneIsOver
      <4> QED
        BY <4>1, <4>2
    <3>2. CASE ~ TxDone
      <4>1. ~ TxStoreSize
        BY <1>1, <2>1 DEF TxStoreSize, BufferInv, StrInv, TypeOK, Ring!ringbuf_t
      <4>2. p' = p \/ (p = NULL /\ p'.i = 1)
        BY <3>2, <4>1, PointerStep
      <4>3. Over(a) => Over(a)'
        BY <3>2, StillOver
      <4> QED
        BY <1>4, <4>2, <4>3
    <3> QED
      BY <3>1, <3>2
  <2> QED
    BY <2>3, <2>4, <2>5 DEF LineInv
<1>6. CASE QueueAdded
  <2>1. /\ uart_out_buf'.size = n + 1 /\ udr' = udr /\ pc = "size" /\ p' = [p EXCEPT !.i = @ + 1]
        /\ \A i \in 0..(n - 1) : Cell(uart_out_buf', i) = Cell(uart_out_buf, i)
        /\ Cell(uart_out_buf', n) = p
    BY <1>6 DEF QueueAdded
  <2>2. p # NULL /\ ~ Terminated(p) /\ p \in Bytes
    BY <2>1 DEF BufferInv, StrInv, PointerInv
  <2>3. \A i \in 0..n : Out(i)' = Out(i)
    <3>1. \A i \in 0..n : i # 0 => i - 1 \in 0..(n - 1)
      BY <1>1
    <3> QED
      BY <2>1, <3>1 DEF Out
  <2>4. \A i \in 0..(n + 1) : i \in 0..n \/ i = n + 1
    BY <1>1
  <2>5. \A i : i = n + 1 => Out(i)' = p
    <3>1. n + 1 # 0 /\ (n + 1) - 1 = n
      BY <1>1
    <3> QED
      BY <2>1, <3>1 DEF Out
  <2>6. Chain'
    <3> SUFFICES ASSUME NEW i \in 0..n PROVE Follows(Out(i), Out(i + 1))'
      BY <1>1, <2>1
    <3>1. CASE i = n
      <4>1. Follows(Out(n), p)
        BY <2>2, NextFollows
      <4>2. Out(i)' = Out(n) /\ Out(i + 1)' = p
        BY <2>3, <2>5, <3>1
      <4> QED
        BY <4>1, <4>2 DEF Follows
    <3>2. CASE i # n
      <4>1. i \in 0..(n - 1) /\ i + 1 \in 0..n
        BY <1>1, <3>2
      <4>2. Follows(Out(i), Out(i + 1))
        BY <1>2, <4>1
      <4>3. Out(i)' = Out(i) /\ Out(i + 1)' = Out(i + 1)
        BY <2>3, <4>1
      <4> QED
        BY <4>2, <4>3 DEF Follows
    <3> QED
      BY <3>1, <3>2
  <2>7. Out(n)' = p
    BY <2>1, <2>5 DEF Out
  <2>8. p' # NULL /\ p'.i > 1
    <3>1. p \in Bytes
      BY <2>2
    <3>2. p.i \in 1..(Longest + 1)
      BY <3>1 DEF Bytes
    <3>3. p'.i = p.i + 1
      BY <2>1, <3>1 DEF Bytes
    <3>4. p'.i > 1
      BY <3>2, <3>3, OutputsAssumption
    <3> QED
      BY <3>4, Nobody
  <2> QED
    BY <2>1, <2>6, <2>7, <2>8 DEF LineInv
<1>7. CASE QueueRemoved
  <2>1. /\ n > 0 /\ uart_out_buf'.size = n - 1 /\ udr' = Cell(uart_out_buf, 0)
        /\ \A i \in 0..(n - 2) : Cell(uart_out_buf', i) = Cell(uart_out_buf, i + 1)
        /\ UNCHANGED <<p, at, strings>>
    BY <1>7 DEF QueueRemoved
  <2>2. \A i \in 0..(n - 1) : Out(i)' = Out(i + 1)
    <3> SUFFICES ASSUME NEW i \in 0..(n - 1) PROVE Out(i)' = Out(i + 1)
      OBVIOUS
    <3>1. CASE i = 0
      BY <2>1, <3>1 DEF Out
    <3>2. CASE i # 0
      <4>1. i - 1 \in 0..(n - 2) /\ (i - 1) + 1 = (i + 1) - 1 /\ i + 1 # 0
        BY <1>1, <3>2
      <4> QED
        BY <2>1, <3>2, <4>1 DEF Out
    <3> QED
      BY <3>1, <3>2
  <2>3. Chain'
    <3> SUFFICES ASSUME NEW i \in 0..(n - 2) PROVE Follows(Out(i), Out(i + 1))'
      BY <1>1, <2>1
    <3>1. i \in 0..(n - 1) /\ i + 1 \in 0..(n - 1)
      BY <1>1
    <3>2. Follows(Out(i + 1), Out(i + 1 + 1))
      BY <1>2, <3>1
    <3>3. Out(i)' = Out(i + 1) /\ Out(i + 1)' = Out(i + 1 + 1)
      BY <2>2, <3>1
    <3> QED
      BY <3>2, <3>3 DEF Follows
  <2>4. Out(n)' = a
    <3>1. n - 1 \in 0..(n - 1) /\ (n - 1) + 1 = n
      BY <1>1, <2>1
    <3>2. \A i \in 0..(n - 1) : i = n - 1 =>
            (IF i = 0 THEN udr' ELSE Cell(uart_out_buf', i - 1)) = Out(n)
      BY <2>2, <3>1 DEF Out
    <3> QED
      BY <1>3, <2>1, <3>1, <3>2 DEF Out
  <2>5. Last(a)'
    BY <1>4, <2>1 DEF Over
  <2> QED
    BY <2>3, <2>4, <2>5 DEF LineInv
<1> QED
  BY <1>5, <1>6, <1>7, RingStep

LEMMA LineInvariant == Spec => []LineInv
<1>1. BufferInv /\ LineInv /\ [Next]_vars => LineInv'
  BY LineNext
<1> QED
  BY <1>1, LineInit, BufferInvariant, PTL DEF Spec

(* What a thread writes between UART_WAIT and UART_SIGNAL appears on the   *)
(* line whole, in order and not mixed with what another thread writes,     *)
(* although the threads share p and the buffer (uart.c:60-88).             *)
THEOREM WholeOutputs == Spec => []OutputsWhole
<1>1. BufferInv /\ LineInv => OutputsWhole
  <2> SUFFICES ASSUME BufferInv, LineInv, NEW j \in 1..(Len(Line) - 1)
               PROVE  Follows(Line[j], Line[j + 1])
    BY DEF OutputsWhole
  <2> DEFINE n == uart_out_buf.size
             s == Ring!Contents(uart_out_buf)
             Item == Bytes \cup {NULL}
             l == <<udr>> \o s
  <2>1. n \in 0..Size /\ Size \in Nat /\ TypeOK /\ udr \in Item /\ p \in Item
    BY OutTypes DEF BufferInv, TypeOK
  <2>2. s \in Seq(Item) /\ Len(s) = n /\ \A i \in 1..n : s[i] = Cell(uart_out_buf, i - 1)
    BY <2>1, QueueContents DEF TypeOK
  <2>3. \A i \in 0..(n - 1) : Follows(Out(i), Out(i + 1))
    BY DEF LineInv
  <2>4. <<udr>> \in Seq(Item) /\ Len(<<udr>>) = 1 /\ <<udr>>[1] = udr
    BY <2>1
  <2>5. /\ l \in Seq(Item) /\ Len(l) = n + 1
        /\ \A i \in 1..(n + 1) : l[i] = Out(i - 1)
    <3> HIDE DEF s, Item
    <3>1. /\ l \in Seq(Item) /\ Len(l) = 1 + n
          /\ \A i \in 1..(1 + n) : l[i] = IF i <= 1 THEN <<udr>>[i] ELSE s[i - 1]
      BY <2>2, <2>4, ConcatProperties
    <3> HIDE DEF l
    <3>2. \A i \in 1..(n + 1) : l[i] = Out(i - 1)
      <4> SUFFICES ASSUME NEW i \in 1..(n + 1) PROVE l[i] = Out(i - 1)
        OBVIOUS
      <4>1. CASE i = 1
        BY <2>1, <2>4, <3>1, <4>1 DEF Out
      <4>2. CASE i # 1
        <5>1. i - 1 \in 1..n /\ i \in 1..(1 + n) /\ ~ (i <= 1) /\ i - 1 # 0
          BY <2>1, <4>2
        <5> QED
          BY <2>2, <3>1, <5>1 DEF Out
      <4> QED
        BY <4>1, <4>2
    <3> QED
      BY <2>1, <3>1, <3>2
  <2> HIDE DEF l, s, Item
  <2>6. \A i \in 1..n : Follows(l[i], l[i + 1])
    <3> SUFFICES ASSUME NEW i \in 1..n PROVE Follows(l[i], l[i + 1])
      OBVIOUS
    <3>1. i - 1 \in 0..(n - 1) /\ (i - 1) + 1 = (i + 1) - 1 /\ i \in 1..(n + 1) /\ i + 1 \in 1..(n + 1)
      BY <2>1
    <3>2. l[i] = Out(i - 1) /\ l[i + 1] = Out((i - 1) + 1)
      BY <2>5, <3>1
    <3> QED
      BY <2>3, <3>1, <3>2
  <2>7. CASE p = NULL \/ Terminated(p)
    <3>1. Line = l
      BY <2>5, <2>7, ConcatEmptySeq DEF Line, l, s
    <3>2. j \in 1..n
      BY <2>1, <2>5, <3>1
    <3> QED
      BY <2>6, <3>1, <3>2
  <2>8. CASE ~ (p = NULL \/ Terminated(p))
    <3>1. Line = l \o <<p>>
      BY <2>8 DEF Line, l, s
    <3>2. <<p>> \in Seq(Item) /\ Len(<<p>>) = 1 /\ <<p>>[1] = p
      BY <2>1
    <3>3. /\ Len(Line) = (n + 1) + 1
          /\ \A i \in 1..((n + 1) + 1) : Line[i] = IF i <= n + 1 THEN l[i] ELSE <<p>>[i - (n + 1)]
      BY <2>5, <3>1, <3>2, ConcatProperties
    <3>4. \A i \in 1..(n + 1) : Line[i] = l[i]
      <4>1. \A i \in 1..(n + 1) : i \in 1..((n + 1) + 1) /\ i <= n + 1
        BY <2>1
      <4> QED
        BY <3>3, <4>1
    <3>5. Line[(n + 1) + 1] = p
      <4>1. /\ (n + 1) + 1 \in 1..((n + 1) + 1) /\ ~ ((n + 1) + 1 <= n + 1)
            /\ ((n + 1) + 1) - (n + 1) = 1
        BY <2>1
      <4> QED
        BY <3>2, <3>3, <4>1
    <3>6. j \in 1..(n + 1)
      BY <2>1, <3>3
    <3>7. CASE j = n + 1
      <4>1. Follows(Out(n), p)
        BY <2>8, NextFollows
      <4>2. Line[j] = Out(n)
        <5>1. n + 1 \in 1..(n + 1) /\ (n + 1) - 1 = n
          BY <2>1
        <5> QED
          BY <2>5, <3>4, <3>7, <5>1
      <4> QED
        BY <3>5, <3>7, <4>1, <4>2
    <3>8. CASE j # n + 1
      <4>1. j \in 1..n /\ j + 1 \in 1..(n + 1)
        BY <2>1, <3>6, <3>8
      <4> QED
        BY <2>6, <3>4, <3>6, <4>1
    <3> QED
      BY <3>7, <3>8
  <2> QED
    BY <2>7, <2>8
<1> QED
  BY <1>1, BufferInvariant, LineInvariant, PTL
=============================================================================
