------------------------------ MODULE RingBuf -------------------------------
(***************************************************************************)
(* The ring buffer of ringbuf.c as a data structure.                       *)
(*                                                                         *)
(* A buffer is written by one producer, which owns end, and read by one    *)
(* consumer, which owns start; size is written by both.  An operation that *)
(* nothing can interrupt is ringbuf_add or ringbuf_remove; one that can be *)
(* interrupted is Put or Take, which stop before size is stored, and a     *)
(* store of size.  The wrap of end and of start is made with the step that *)
(* advances it: nobody but its owner reads it.                             *)
(***************************************************************************)
EXTENDS Naturals, Sequences

CONSTANTS
  Max,     (* ringbuf_new(max): capacity in bytes, 10 for both of uart.c    *)
  Byte     (* what a cell holds, junk from malloc included                  *)

Index == 0..(Max - 1)

ringbuf_t == [cells : [Index -> Byte], start : Index, end : Index, size : 0..Max]

(* Where a pointer stands after it was advanced: at the end of the memory  *)
(* it is set back to its beginning.                                        *)
Wrap(i) == IF i = Max THEN 0 ELSE i

(* A new buffer with whatever malloc left in its memory.                   *)
ringbuf_new(memory) == [cells |-> memory, start |-> 0, end |-> 0, size |-> 0]

Full(b) == b.size = Max

\* Mutant: a buffer with one byte in it is taken for empty.
EmptyOffByOne(b) == b.size <= 1

Empty(b) == b.size = 0

(* The producer's half of ringbuf_add, and the consumer's of ringbuf_remove *)
Put(b, x) == [b EXCEPT !.cells = [@ EXCEPT ![b.end] = x],
                       !.end = Wrap(b.end + 1)]

First(b) == b.cells[b.start]

Take(b) == [b EXCEPT !.start = Wrap(b.start + 1)]

(* The whole operations; the caller has looked at Full and Empty.          *)
ringbuf_add(b, x) == [Put(b, x) EXCEPT !.size = @ + 1]

ringbuf_remove(b) == [Take(b) EXCEPT !.size = @ - 1]

(* The queue that size says the buffer holds, oldest byte first.           *)
Slot(b, i) == IF b.start + i < Max THEN b.start + i ELSE b.start + i - Max

Contents(b) == [i \in 1..b.size |-> b.cells[Slot(b, i - 1)]]
=============================================================================
