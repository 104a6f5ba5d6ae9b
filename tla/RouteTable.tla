----------------------------- MODULE RouteTable -----------------------------
(***************************************************************************)
(* The routing table of batman.c: the linked list of route_t as a          *)
(* sequence.  An entry says that target_addr can be reached over the       *)
(* neighbour gateway_addr, how many originator messages of the target have *)
(* been counted there, with what sequence number and when the last one     *)
(* came, and the shell's figure of lost ones.                              *)
(*                                                                         *)
(* seqno, cnt, time and lost are 16 bits wide; Word is 2^16 in the         *)
(* program.                                                                *)
(***************************************************************************)
EXTENDS Naturals, Sequences, FiniteSets

CONSTANTS
  Word,                (* values a uint16_t has                             *)
  PURGE_TIMEOUT,       (* net.h: seconds                                    *)
  MAX_ROUTE_ENTRIES    (* batman.h: 2550                                    *)

\* Mutant: a counter with more bits than the table keeps.
Wide(n) == n + 1

Inc(n) == (n + 1) % Word
Minus(n, d) == (n + Word - d) % Word

route_t(Addr) ==
  [target_addr : Addr, gateway_addr : Addr, seqno : 0..(Word - 1),
   cnt : 0..(Word - 1), time : 0..(Word - 1), lost : 0..(Word - 1)]

(* The indices of the entries for a target, and the one of the gateway     *)
(* that most messages came over, the first of equals.                      *)
For(table, target) == {i \in DOMAIN table : table[i].target_addr = target}

Best(table, target) == CHOOSE i \in For(table, target) :
  \A j \in For(table, target) :
    table[j].cnt < table[i].cnt \/ (table[j].cnt = table[i].cnt /\ i <= j)

route_present(table, target) == For(table, target) # {}

Gateway(table, target) == table[Best(table, target)].gateway_addr

(* A neighbour is taken for a bidirectional one while anything at all is   *)
(* routed over it.                                                         *)
route_is_bidirectional(table, neighbour) ==
  \E i \in DOMAIN table : table[i].gateway_addr = neighbour

(* The entries of a table at the indices in S, in their order.             *)
Rank(i, S) == Cardinality({k \in S : k <= i})

Nth(j, S) == CHOOSE i \in S : Rank(i, S) = j
Selected(table, S) == [j \in 1..Cardinality(S) |-> table[Nth(j, S)]]

\* Mutant: an entry is kept a second longer.
PurgedLate(table, now) ==
  Selected(table, {i \in DOMAIN table : Minus(now, table[i].time) <= PURGE_TIMEOUT + 1})

(* route_check_purge_timeout.                                              *)
Purged(table, now) ==
  Selected(table, {i \in DOMAIN table : Minus(now, table[i].time) <= PURGE_TIMEOUT})

NewRoute(target, gateway, seqno, now) ==
  [target_addr |-> target, gateway_addr |-> gateway, seqno |-> seqno,
   cnt |-> 1, time |-> now, lost |-> 0]

(* A second message of a target never counts as lost ones before it.       *)
Updated(r, seqno, now) ==
  [r EXCEPT !.seqno = seqno, !.time = now, !.cnt = Inc(@),
            !.lost = IF r.cnt # 1 /\ Minus(seqno, 1) # r.seqno
                     THEN (@ + Minus(seqno, r.seqno)) % Word ELSE @]

Over(table, target, gateway) ==
  {i \in For(table, target) : table[i].gateway_addr = gateway}

route_save_or_update(table, target, gateway, seqno, now) ==
  IF Over(table, target, gateway) # {}
    THEN [i \in DOMAIN table |->
            IF i \in Over(table, target, gateway)
              THEN Updated(table[i], seqno, now) ELSE table[i]]
  ELSE IF Len(table) # MAX_ROUTE_ENTRIES
    THEN Append(table, NewRoute(target, gateway, seqno, now))
  ELSE table
=============================================================================
