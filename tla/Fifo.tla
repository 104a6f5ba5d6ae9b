-------------------------------- MODULE Fifo --------------------------------
(***************************************************************************)
(* What the ring buffer between a protothread and an interrupt handler     *)
(* promises: a bounded queue.  Every byte put in comes out once, in the    *)
(* order in which the bytes were put in.  Module UartTx refines it.        *)
(***************************************************************************)
EXTENDS Naturals, Sequences

CONSTANTS
  Capacity,    (* bytes the queue has room for                              *)
  Item         (* what is queued                                            *)

VARIABLES
  queue,       (* what was put in and has not come out                      *)
  out          (* what came out last                                        *)

vars == <<queue, out>>

Init ==
  /\ queue = <<>>
  /\ out \in Item

Add(x) ==
  /\ Len(queue) < Capacity
  /\ queue' = Append(queue, x)
  /\ UNCHANGED out

Remove ==
  /\ queue # <<>>
  /\ out' = Head(queue)
  /\ queue' = Tail(queue)

Next ==
  \/ \E x \in Item : Add(x)
  \/ Remove

Spec == Init /\ [][Next]_vars
=============================================================================
