------------------------------- MODULE UartRx -------------------------------
(***************************************************************************)
(* The receiving half of the serial line (uart.c).                         *)
(*                                                                         *)
(* The handler SIG_USART_RECV puts every byte that arrives into the ring   *)
(* buffer; the shell takes them out with uart_rx while it waits for a      *)
(* command.  Nothing keeps the handler from interrupting ringbuf_remove,   *)
(* and both store the buffer's size: the handler's increment can fall      *)
(* between the main program's load and its store.  When the buffer is full *)
(* the handler calls watchdog_error, which waits for the watchdog to reset *)
(* the node.                                                               *)
(*                                                                         *)
(* A cell of the buffer holds "unread" from the moment the handler writes  *)
(* it until uart_rx takes it: what a byte is, no property asks.            *)
(***************************************************************************)
EXTENDS Naturals, FiniteSets

CONSTANT Size      (* capacity of uart_in_buf                               *)

ASSUME SizeAssumption == Size \in Nat \ {0} /\ Size < 256

VARIABLES
  pc,           (* "poll", or where ringbuf_remove stands                   *)
  reg,          (* the copy of size in a register, in ringbuf_remove        *)
  uart_in_buf,  (* uart.c: uart_in_buf                                      *)
  halted,       (* the node waits for its watchdog in watchdog_error        *)
  torn          (* history: the handler stored size between the load and    *)
                (* the store of ringbuf_remove                              *)

vars == <<pc, reg, uart_in_buf, halted, torn>>

Ring == INSTANCE RingBuf WITH Max <- Size, Byte <- {"unread", "read"}

Unread == {i \in Ring!Index : uart_in_buf.cells[i] = "unread"}

TypeOK ==
  /\ pc \in {"poll", "take", "size"}
  /\ reg \in 0..Size
  /\ uart_in_buf \in Ring!ringbuf_t
  /\ halted \in BOOLEAN
  /\ torn \in BOOLEAN

Init ==
  /\ pc = "poll"
  /\ reg = 0
  /\ uart_in_buf = Ring!ringbuf_new([i \in Ring!Index |-> "read"])
  /\ halted = FALSE
  /\ torn = FALSE

-----------------------------------------------------------------------------
\* Mutant: the handler does not ask whether there is room.
RecvIsrUnchecked ==
  /\ ~ halted
  /\ uart_in_buf' = Ring!ringbuf_add(uart_in_buf, "unread")
  /\ torn' = (torn \/ pc = "size")
  /\ UNCHANGED <<pc, reg, halted>>

(* SIG_USART_RECV: there is room for the byte, ...                         *)
RecvIsrAdds ==
  /\ ~ halted
  /\ ~ Ring!Full(uart_in_buf)
  /\ uart_in_buf' = Ring!ringbuf_add(uart_in_buf, "unread")
  /\ torn' = (torn \/ pc = "size")
  /\ UNCHANGED <<pc, reg, halted>>

(* ... or there is none.                                                   *)
RecvIsrOverrun ==
  /\ ~ halted
  /\ Ring!Full(uart_in_buf)
  /\ halted' = TRUE
  /\ UNCHANGED <<pc, reg, uart_in_buf, torn>>

(* The watchdog resets the node: it starts with a new buffer.              *)
WatchdogReset ==
  /\ halted
  /\ pc' = "poll"
  /\ reg' = 0
  /\ uart_in_buf' = Ring!ringbuf_new([i \in Ring!Index |-> "read"])
  /\ halted' = FALSE
  /\ torn' = FALSE

-----------------------------------------------------------------------------
(* uart_rx: ringbuf_remove.  Nothing changes when it finds the buffer      *)
(* empty.                                                                  *)

RxTest ==
  /\ ~ halted
  /\ pc = "poll"
  /\ ~ Ring!Empty(uart_in_buf)
  /\ pc' = "take"
  /\ UNCHANGED <<reg, uart_in_buf, halted, torn>>

RxTake ==
  /\ ~ halted
  /\ pc = "take"
  /\ uart_in_buf' =
       Ring!Take([uart_in_buf EXCEPT !.cells = [@ EXCEPT ![uart_in_buf.start] = "read"]])
  /\ reg' = uart_in_buf.size
  /\ pc' = "size"
  /\ UNCHANGED <<halted, torn>>

\* Mutant: the byte taken is still counted.
RxKeepsSize ==
  /\ ~ halted
  /\ pc = "size"
  /\ uart_in_buf' = [uart_in_buf EXCEPT !.size = reg]
  /\ pc' = "poll"
  /\ UNCHANGED <<reg, halted, torn>>

RxStoreSize ==
  /\ ~ halted
  /\ pc = "size"
  /\ uart_in_buf' = [uart_in_buf EXCEPT !.size = reg - 1]
  /\ pc' = "poll"
  /\ UNCHANGED <<reg, halted, torn>>

-----------------------------------------------------------------------------

uart_rx == RxTest \/ RxTake \/ RxStoreSize

Next == RecvIsrAdds \/ RecvIsrOverrun \/ WatchdogReset \/ uart_rx

Spec == Init /\ [][Next]_vars

-----------------------------------------------------------------------------
(* Properties.                                                             *)

(* As long as no byte arrives between the load and the store of size, size *)
(* is the number of bytes that wait, none of which is handed out twice,    *)
(* and the node resets itself over its serial line only when the user is   *)
(* Size - 1 bytes or more ahead of the shell: the other places where the   *)
(* handler interrupts ringbuf_remove do no harm (ringbuf.c:64, 76-85,      *)
(* uart.c:20).                                                             *)
ExactUntilTorn == ~ torn =>
  /\ ~ halted => uart_in_buf.size = Cardinality(Unread) + (IF pc = "size" THEN 1 ELSE 0)
  /\ pc = "take" => Ring!First(uart_in_buf) = "unread"
  /\ halted => Cardinality(Unread) >= Size - 1

(* uart_rx finds the buffer empty only when every byte that arrived has    *)
(* been handed out: the consumer needs no mutual exclusion against the     *)
(* producer (thesis/content.tex:521, ringbuf.c:76).                        *)
EmptyMeansDrained == pc = "poll" /\ Ring!Empty(uart_in_buf) => Unread = {}
=============================================================================
