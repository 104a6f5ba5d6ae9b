------------------------------- MODULE UartTx -------------------------------
(***************************************************************************)
(* The transmitting half of the serial line (uart.c, uart.h).              *)
(*                                                                         *)
(* Two protothreads of the main loop write to the line: the shell and the  *)
(* thread that shows received messages.  A thread takes uart_mutex, hands  *)
(* over one or more strings with uart_tx_str and gives the mutex back.     *)
(* uart_tx_str copies as many bytes as the ring buffer has room for and    *)
(* keeps its place in the static pointer p; the protothread calls it again *)
(* until the whole string is in the buffer.  The handler SIG_USART_DATA    *)
(* empties the buffer byte by byte whenever the UART is ready and the      *)
(* interrupt is enabled in UCSRB.                                          *)
(*                                                                         *)
(* The main program can be interrupted between any two of its actions, a   *)
(* handler runs to its end.  Byte i of a string of n bytes is [by |-> t,   *)
(* k |-> k, n |-> n, i |-> i] when thread t writes it and has k strings,   *)
(* this one included, left to write.                                       *)
(***************************************************************************)
EXTENDS Naturals, Sequences

CONSTANTS
  Size,      (* capacity of uart_out_buf                                    *)
  Writers,   (* the protothreads that write                                 *)
  Outputs,   (* what a thread may write: sequences of lengths of strings    *)
  Longest,   (* the longest string                                          *)
  Most       (* the most strings written in one go                          *)

(* A message that is shown may be empty, but what is written last is a     *)
(* prompt or ends a line (rxthread.c:34-42, shell.c).                      *)
ASSUME OutputsAssumption ==
  /\ Size \in Nat \ {0} /\ Size < 256
  /\ Longest \in Nat /\ Most \in Nat
  /\ "nobody" \notin Writers
  /\ \A o \in Outputs : /\ o \in Seq(0..Longest) /\ Len(o) <= Most
                        /\ Len(o) > 1 => o[Len(o)] # 0

VARIABLES
  pc,            (* "poll", or where uart_tx_str stands                     *)
  caller,        (* the thread that called uart_tx_str                      *)
  reg,           (* the copy of size in a register, in ringbuf_add          *)
  at, strings,   (* each thread: where it waits, lengths of what is left    *)
  uart_mutex,    (* uart.h: uart_mutex.count                                *)
  p,             (* uart.c: p, the next byte of the string begun, or NULL   *)
  uart_out_buf,  (* uart.c: uart_out_buf                                    *)
  udrie,         (* the UDRIE bit of UCSRB                                  *)
  udr            (* history: the last byte written to UDR                   *)

threads == <<at, strings, uart_mutex>>
vars == <<pc, caller, reg, threads, p, uart_out_buf, udrie, udr>>

Bytes == [by : Writers, k : 1..Most, n : 0..Longest, i : 1..(Longest + 1)]
NULL == [by |-> "nobody", k |-> 1, n |-> 0, i |-> 1]

StringOf(t) == [by |-> t, k |-> Len(strings[t]), n |-> Head(strings[t]), i |-> 1]

Ring == INSTANCE RingBuf WITH Max <- Size, Byte <- Bytes \cup {NULL}

Terminated(q) == q.i > q.n                                 (* *q is '\0'   *)

TypeOK ==
  /\ pc \in {"poll", "loop", "size"}
  /\ caller \in Writers
  /\ reg \in 0..Size
  /\ at \in [Writers -> {"idle", "mutex", "writing"}]
  /\ strings \in [Writers -> Seq(0..Longest)]
  /\ uart_mutex \in {0, 1}
  /\ p \in Bytes \cup {NULL}
  /\ uart_out_buf \in Ring!ringbuf_t
  /\ udrie \in BOOLEAN
  /\ udr \in Bytes \cup {NULL}

(* uart_init, before main() enables interrupts.                            *)
Init ==
  /\ pc = "poll"
  /\ caller \in Writers
  /\ reg = 0
  /\ at = [t \in Writers |-> "idle"]
  /\ strings = [t \in Writers |-> <<>>]
  /\ uart_mutex = 1
  /\ p = NULL
  /\ uart_out_buf = Ring!ringbuf_new([i \in Ring!Index |-> NULL])
  /\ udrie = TRUE
  /\ udr = NULL

-----------------------------------------------------------------------------
(* The protothreads, polled by the main loop.                              *)

(* A thread has something to print.                                        *)
Begin(t) ==
  /\ pc = "poll"
  /\ at[t] = "idle"
  /\ \E lengths \in Outputs : strings' = [strings EXCEPT ![t] = lengths]
  /\ at' = [at EXCEPT ![t] = "mutex"]
  /\ UNCHANGED <<pc, caller, reg, uart_mutex, p, uart_out_buf, udrie, udr>>

\* Mutant: the thread writes without waiting for its turn.
UartWaitSkipped(t) ==
  /\ pc = "poll"
  /\ at[t] = "mutex"
  /\ at' = [at EXCEPT ![t] = "writing"]
  /\ UNCHANGED <<pc, caller, reg, strings, uart_mutex, p, uart_out_buf, udrie, udr>>

UartWait(t) ==
  /\ pc = "poll"
  /\ at[t] = "mutex"
  /\ uart_mutex > 0
  /\ uart_mutex' = uart_mutex - 1
  /\ at' = [at EXCEPT ![t] = "writing"]
  /\ UNCHANGED <<pc, caller, reg, strings, p, uart_out_buf, udrie, udr>>

UartSignal(t) ==
  /\ pc = "poll"
  /\ at[t] = "writing"
  /\ strings[t] = <<>>
  /\ uart_mutex' = uart_mutex + 1
  /\ at' = [at EXCEPT ![t] = "idle"]
  /\ UNCHANGED <<pc, caller, reg, strings, p, uart_out_buf, udrie, udr>>

-----------------------------------------------------------------------------
(* uart_tx_str, called from a wait of thread t until it returns true.      *)

\* Mutant: the handler stays enabled while the buffer is filled.
TxBeginUnmasked(t) ==
  /\ pc = "poll"
  /\ at[t] = "writing"
  /\ strings[t] # <<>>
  /\ caller' = t
  /\ p' = IF p = NULL THEN StringOf(t) ELSE p
  /\ pc' = "loop"
  /\ UNCHANGED <<reg, threads, uart_out_buf, udrie, udr>>

TxBegin(t) ==
  /\ pc = "poll"
  /\ at[t] = "writing"
  /\ strings[t] # <<>>
  /\ udrie' = FALSE
  /\ caller' = t
  /\ p' = IF p = NULL THEN StringOf(t) ELSE p
  /\ pc' = "loop"
  /\ UNCHANGED <<reg, threads, uart_out_buf, udr>>

\* Mutant: a byte is added to a full buffer.
TxAddOverruns ==
  /\ pc = "loop"
  /\ ~ Terminated(p)
  /\ uart_out_buf' = Ring!Put(uart_out_buf, p)
  /\ reg' = uart_out_buf.size
  /\ pc' = "size"
  /\ UNCHANGED <<caller, threads, p, udrie, udr>>

(* ringbuf_add of the byte p points to, up to the store of size, ...       *)
TxAdd ==
  /\ pc = "loop"
  /\ ~ Terminated(p)
  /\ ~ Ring!Full(uart_out_buf)
  /\ uart_out_buf' = Ring!Put(uart_out_buf, p)
  /\ reg' = uart_out_buf.size
  /\ pc' = "size"
  /\ UNCHANGED <<caller, threads, p, udrie, udr>>

(* ... and from there, with the p++ of the loop.                           *)
TxStoreSize ==
  /\ pc = "size"
  /\ uart_out_buf' = [uart_out_buf EXCEPT !.size = reg + 1]
  /\ p' = [p EXCEPT !.i = @ + 1]
  /\ pc' = "loop"
  /\ UNCHANGED <<caller, reg, threads, udrie, udr>>

(* The string is in the buffer, ...                                        *)
TxDone ==
  /\ pc = "loop"
  /\ Terminated(p)
  /\ p' = NULL
  /\ strings' = [strings EXCEPT ![caller] = Tail(@)]
  /\ udrie' = TRUE
  /\ pc' = "poll"
  /\ UNCHANGED <<caller, reg, at, uart_mutex, uart_out_buf, udr>>

\* Mutant: the place in the string is forgotten when the buffer is full.
TxFullForgets ==
  /\ pc = "loop"
  /\ ~ Terminated(p)
  /\ Ring!Full(uart_out_buf)
  /\ p' = NULL
  /\ udrie' = TRUE
  /\ pc' = "poll"
  /\ UNCHANGED <<caller, reg, threads, uart_out_buf, udr>>

(* ... or the buffer is full and the thread has to call again.             *)
TxFull ==
  /\ pc = "loop"
  /\ ~ Terminated(p)
  /\ Ring!Full(uart_out_buf)
  /\ udrie' = TRUE
  /\ pc' = "poll"
  /\ UNCHANGED <<caller, reg, threads, p, uart_out_buf, udr>>

-----------------------------------------------------------------------------

(* uart_tx_thread, polled by main() with the threads.                      *)
uart_tx_thread ==
  /\ pc = "poll"
  /\ uart_out_buf.size > 0
  /\ udrie' = TRUE
  /\ UNCHANGED <<pc, caller, reg, threads, p, uart_out_buf, udr>>

(* SIG_USART_DATA: the UART is ready for a byte, and there is one, ...     *)
DataIsrSends ==
  /\ udrie
  /\ ~ Ring!Empty(uart_out_buf)
  /\ udr' = Ring!First(uart_out_buf)
  /\ uart_out_buf' = Ring!ringbuf_remove(uart_out_buf)
  /\ UNCHANGED <<pc, caller, reg, threads, p, udrie>>

(* ... or there is none.                                                   *)
DataIsrStops ==
  /\ udrie
  /\ Ring!Empty(uart_out_buf)
  /\ udrie' = FALSE
  /\ UNCHANGED <<pc, caller, reg, threads, p, uart_out_buf, udr>>

-----------------------------------------------------------------------------

uart_tx_str == TxAdd \/ TxStoreSize \/ TxDone \/ TxFull

Poll(t) == Begin(t) \/ UartWait(t) \/ UartSignal(t) \/ TxBegin(t)

DataIsr == DataIsrSends \/ DataIsrStops

Next ==
  \/ \E t \in Writers : Poll(t)
  \/ uart_tx_str
  \/ uart_tx_thread
  \/ DataIsr

Spec == Init /\ [][Next]_vars

(* The main loop polls every thread again and again, and uart_tx_str does  *)
(* not wait.  The UART finishes sending a byte and then keeps its request  *)
(* up, so that a handler that is enabled again and again gets its turn.    *)
FairSpec ==
  /\ Spec
  /\ \A t \in Writers : WF_vars(UartSignal(t)) /\ WF_vars(TxBegin(t))
  /\ WF_vars(uart_tx_str)
  /\ WF_vars(uart_tx_thread)
  /\ SF_vars(DataIsr)

-----------------------------------------------------------------------------
(* Properties.                                                             *)

(* Byte b may come after byte a on the line: the next one of the string,   *)
(* or after the last one the beginning of the next string that is not      *)
(* empty, of the same thread while that thread has strings left.           *)
Follows(a, b) ==
  IF a.i < a.n
    THEN b = [a EXCEPT !.i = @ + 1]
    ELSE b.i = 1 /\ (a.k > 1 => b.by = a.by /\ b.k < a.k)

(* The line, as far as it is known: the byte sent last, those waiting, and *)
(* the one uart_tx_str is about to add.                                    *)
Line == <<udr>> \o Ring!Contents(uart_out_buf)
          \o (IF p = NULL \/ Terminated(p) THEN <<>> ELSE <<p>>)

(* What a thread writes between UART_WAIT and UART_SIGNAL appears on the   *)
(* line whole, in order and not mixed with what another thread writes,     *)
(* although the threads share p and the buffer (uart.c:60-88).             *)
OutputsWhole == \A j \in 1..(Len(Line) - 1) : Follows(Line[j], Line[j + 1])

(* The transmit buffer is a queue for the program and the handler that     *)
(* share it: no byte is lost, repeated or overtaken (ringbuf.c:56-88).     *)
Queue == INSTANCE Fifo WITH Capacity <- Size, Item <- Bytes \cup {NULL},
                            queue <- Ring!Contents(uart_out_buf), out <- udr
ImplementsFifo == Queue!Spec

(* A thread that holds the line gets its strings out and gives the line    *)
(* back: the handler is never left disabled over a full buffer             *)
(* (uart.c:75-87).                                                         *)
OutputsFinish == \A t \in Writers : at[t] = "writing" ~> at[t] = "idle"

(* When nobody writes any more, the buffer runs empty: the last bytes are  *)
(* not left behind (uart.c:86, 96-102).                                    *)
Drains == <>[](\A t \in Writers : at[t] = "idle") => <>[](uart_out_buf.size = 0)
=============================================================================
