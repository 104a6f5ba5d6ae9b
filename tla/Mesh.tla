-------------------------------- MODULE Mesh --------------------------------
(***************************************************************************)
(* The mesh: several nodes that run batman.c over one radio channel.       *)
(*                                                                         *)
(* Every second a node broadcasts an originator message (OGM).  Who hears  *)
(* one from a neighbour known to hear him enters the originator in his     *)
(* routing table; in any case he broadcasts it again, so that it spreads.  *)
(* A unicast message travels over the gateways the tables name.            *)
(*                                                                         *)
(* A broadcast reaches any of the nodes in range whose packet buffer is    *)
(* free: packets are lost, neither delayed nor duplicated by the channel.  *)
(* A node is its batman_rx thread (it waits for a packet, sends one on, or *)
(* waits for rx_thread to show one), its batman_thread and its shell,      *)
(* which all share the table.  What they do between two waits is one       *)
(* action, and so is a transmission, which ends with the one thread that   *)
(* llc_tx tells of its end.  That two nodes that send at a time may        *)
(* destroy each other's frames is a loss like any other.                   *)
(***************************************************************************)
EXTENDS RouteTable

CONSTANTS
  Node,         (* the nodes' addresses                                     *)
  Links,        (* <<m, n>>: n can hear m, as long as the link is up        *)
  TTL,          (* config.c: CONFIG_TTL                                     *)
  BI_LINK_TIMEOUT,   (* net.h: seconds; batman.c does not use it            *)
  Talks,        (* <<from, to>>: whose users write to whom, at will         *)
  MessageLength,     (* bytes of a message, with its NUL                    *)
  Typists,      (* the nodes whose users type the command o                 *)
  Start,        (* bound: what the clock and the sequence number of a node  *)
                (* that has heard nobody yet have come to                   *)
  MaxSeconds,   (* bound: seconds looked at from there; Word is no bound    *)
  MaxOgms,      (* bound: originator messages sent from there; likewise     *)
  MaxAgain,     (* bound: how often batman_rx has to send a message again   *)
  MaxBusy       (* bound: a node begins a packet only while fewer others    *)
                (* have one; Cardinality(Node) is no bound                  *)

ASSUME MeshAssumption ==
  /\ Links \subseteq Node \X Node
  /\ \A n \in Node : <<n, n>> \notin Links
  /\ Talks \subseteq Node \X Node /\ Typists \subseteq Node
  /\ Word \in Nat /\ 1 < Word /\ PURGE_TIMEOUT \in Nat /\ MAX_ROUTE_ENTRIES \in Nat
  /\ PURGE_TIMEOUT < Word /\ BI_LINK_TIMEOUT \in Nat
  /\ MessageLength \in Nat
  /\ TTL \in 0..255 /\ Start \in 0..(Word - 1)
  /\ MaxOgms \in 0..Word /\ MaxSeconds \in 0..Word
  /\ MaxAgain \in Nat /\ MaxBusy \in Nat

BATMAN_HEADER_SIZE == 10
MaxLength == 252     (* net.h: PACKET_MAX_SIZE - LLC_HEADER_SIZE             *)

VARIABLES
  table,      (* batman.c: route_table                                      *)
  time,       (* clock.c: time                                              *)
  seqno,      (* batman.c: seqno                                            *)
  send_ogm,   (* batman.c: send_ogm                                         *)
  pt_thread,  (* batman_thread: idle, or waiting for the semaphore          *)
  mutex,      (* batman.c: mutex, between two actions: free, or with whom   *)
  slot,       (* llc.c: packet_rx, while needs_processing                   *)
  pt_rx,      (* batman_rx and rx_thread: where they wait, with a packet    *)
  talk,       (* the shell's packet, between route_present and llc_tx       *)
  heard,      (* history: <<n, m>>: m has heard an OGM from n himself       *)
  routed,     (* history: <<n, m>>: n has had a route to m                  *)
  age         (* history: <<n, m>>: seconds of n since m confirmed to n     *)
              (* that he hears him                                          *)

vars == <<table, time, seqno, send_ogm, pt_thread, mutex, slot, pt_rx, talk,
          heard, routed, age>>

Empty == [type |-> "none"]
Waiting == [at |-> "wait", packet |-> Empty]
Sending(p) == [at |-> "send", packet |-> p]
Showing(p) == [at |-> "show", packet |-> p]

(* Packets.  hops and again are a history: how many nodes sent the packet  *)
(* on, and how often one of them had to send it again.                     *)
Ogm(n, number) ==
  [type |-> "OGM", originator |-> n, sender |-> n, ttl |-> TTL,
   direct |-> FALSE, unidirectional |-> FALSE, seqno |-> number, hops |-> 0]

Unicast(n, target, gateway) ==
  [type |-> "UNICAST", originator |-> n, target |-> target, sender |-> n,
   gateway |-> gateway, ttl |-> TTL, hops |-> 0, again |-> 0,
   len |-> BATMAN_HEADER_SIZE + MessageLength]

Busy == {n \in Node : \/ slot[n] # Empty \/ talk[n] # Empty
                      \/ pt_rx[n] # Waiting \/ pt_thread[n] = "due"}
MayBegin(n) == Cardinality(Busy \ {n}) < MaxBusy

Init ==
  /\ table = [n \in Node |-> <<>>]
  /\ time = [n \in Node |-> Start]
  /\ seqno = [n \in Node |-> Start]
  /\ send_ogm = [n \in Node |-> FALSE]
  /\ pt_thread = [n \in Node |-> "idle"]
  /\ mutex = [n \in Node |-> "free"]
  /\ slot = [n \in Node |-> Empty]
  /\ pt_rx = [n \in Node |-> Waiting]
  /\ talk = [n \in Node |-> Empty]
  /\ heard = {}
  /\ routed = {}
  /\ age = [l \in Node \X Node |-> BI_LINK_TIMEOUT + 1]

-----------------------------------------------------------------------------
(* The channel: n sends p.  A packet that is too long for the buffer is    *)
(* heard by nobody.                                                        *)

Hearers(n, p) == {m \in Node :
  /\ <<n, m>> \in Links /\ slot[m] = Empty
  /\ p.type = "UNICAST" => p.len <= MaxLength}

Broadcast(n, p) == \E R \in SUBSET Hearers(n, p) :
  /\ slot' = [m \in Node |-> IF m \in R THEN p ELSE slot[m]]
  /\ heard' = heard \cup (IF p.type = "OGM" /\ p.originator = n
                            THEN {n} \X R ELSE {})

(* batman_rx sends a message on without the semaphore, so that its         *)
(* transmission and one of batman_thread or the shell, who has the         *)
(* semaphore, may be one: there is one frame, and the thread that polls    *)
(* llc_tx first after its last byte is told of the end.  The other starts  *)
(* llc_tx with its own packet then.                                        *)

Joins(n) == pt_rx[n].at = "send" /\ pt_rx[n].packet.type = "UNICAST"

(* The frame is the other thread's and batman_rx is told: its message has  *)
(* not been sent.  The other one keeps the semaphore and sends again.      *)
TellsRx(n, thread) ==
  /\ Joins(n)
  /\ pt_rx' = [pt_rx EXCEPT ![n] = Waiting]
  /\ mutex' = [mutex EXCEPT ![n] = thread]

(* llc_tx has stored the length it was told (12 bits), and is told another *)
(* header now.                                                             *)
Resent(p) == [p EXCEPT !.len = BATMAN_HEADER_SIZE + (@ % 4096),
                             !.again = @ + 1]

(* The frame is batman_rx's and the other thread is told, whose packet has *)
(* not been sent.  Bound: MaxAgain times for a message.                    *)
SendsAgain(n) ==
  /\ Joins(n) /\ pt_rx[n].packet.again < MaxAgain
  /\ Broadcast(n, pt_rx[n].packet)
  /\ pt_rx' = [pt_rx EXCEPT ![n] = Sending(Resent(@.packet))]

-----------------------------------------------------------------------------
(* The timer: clock_update, then batman_one_second_elapsed.                *)

Second(n) ==
  /\ Minus(time[n], Start) < MaxSeconds
  /\ time' = [time EXCEPT ![n] = Inc(@)]
  /\ table' = [table EXCEPT ![n] = Purged(@, Inc(time[n]))]
  /\ send_ogm' = [send_ogm EXCEPT ![n] = TRUE]
  /\ age' = [l \in Node \X Node |-> IF l[1] = n /\ age[l] <= BI_LINK_TIMEOUT
                                      THEN age[l] + 1 ELSE age[l]]
  /\ UNCHANGED <<seqno, pt_thread, mutex, slot, pt_rx, talk, heard, routed>>

(* The shell's command o: batman_one_second_elapsed, without the clock.    *)
(* Bound: not after the last originator message.                           *)
ShellSecond(n) ==
  /\ n \in Typists /\ Minus(seqno[n], Start) < MaxOgms
  /\ send_ogm' = [send_ogm EXCEPT ![n] = TRUE]
  /\ table' = [table EXCEPT ![n] = Purged(@, time[n])]
  /\ UNCHANGED <<time, seqno, pt_thread, mutex, slot, pt_rx, talk, heard, routed, age>>

(* batman_thread: the order to send is taken before the semaphore, so that *)
(* the next one may come while he waits.                                   *)
OgmDue(n) ==
  /\ pt_thread[n] = "idle" /\ send_ogm[n]
  /\ Minus(seqno[n], Start) < MaxOgms /\ MayBegin(n)
  /\ send_ogm' = [send_ogm EXCEPT ![n] = FALSE]
  /\ pt_thread' = [pt_thread EXCEPT ![n] = "due"]
  /\ UNCHANGED <<table, time, seqno, mutex, slot, pt_rx, talk, heard, routed, age>>

(* batman_thread is told that its transmission has ended.                  *)
OgmDone(n) ==
  /\ seqno' = [seqno EXCEPT ![n] = Inc(@)]
  /\ pt_thread' = [pt_thread EXCEPT ![n] = "idle"]
  /\ mutex' = [mutex EXCEPT ![n] = "free"]

SendOgm(n) ==
  /\ pt_thread[n] = "due" /\ mutex[n] \in {"free", "batman"}
  /\ Broadcast(n, Ogm(n, seqno[n]))
  /\ \/ OgmDone(n) /\ UNCHANGED pt_rx
     \/ TellsRx(n, "batman") /\ UNCHANGED <<seqno, pt_thread>>
  /\ UNCHANGED <<table, time, send_ogm, talk, routed, age>>

OgmTakesEnd(n) ==
  /\ pt_thread[n] = "due" /\ mutex[n] \in {"free", "batman"}
  /\ SendsAgain(n) /\ OgmDone(n)
  /\ UNCHANGED <<table, time, send_ogm, talk, routed, age>>

-----------------------------------------------------------------------------
(* batman_rx with an OGM p: ogm_rebroadcast.                               *)

Save(n, target, gateway, number) ==
  table' = [table EXCEPT
              ![n] = route_save_or_update(@, target, gateway, number, time[n])]

\* Mutant: the TTL is not looked at.
TtlUnchecked(n, p) == p.sender # n

Acceptable(n, p) == p.sender # n /\ p.ttl > 0

(* A neighbour has heard this node and says so.                            *)
OwnOgmDirect(n, p) ==
  /\ IF route_is_bidirectional(table[n], p.sender)
       THEN UNCHANGED table ELSE Save(n, p.sender, p.sender, 0)
  /\ age' = [age EXCEPT ![<<n, p.sender>>] = 0]
  /\ UNCHANGED pt_rx

\* Mutant: the flags are cleared, and not set again.
FlagLost(n, p) ==
  [p EXCEPT !.unidirectional = FALSE, !.direct = (p.sender = p.originator),
            !.sender = n, !.ttl = (@ + 255) % 256, !.hops = @ + 1]

\* Mutant: a flag once set stays set.
DirectKept(n, p) ==
  [p EXCEPT !.unidirectional = ~ route_is_bidirectional(table[n], p.sender),
            !.direct = @ \/ (p.sender = p.originator),
            !.sender = n, !.ttl = (@ + 255) % 256, !.hops = @ + 1]

Rebroadcast(n, p) ==
  [p EXCEPT !.unidirectional = ~ route_is_bidirectional(table[n], p.sender),
            !.direct = (p.sender = p.originator),
            !.sender = n, !.ttl = (@ + 255) % 256, !.hops = @ + 1]

ForeignOgm(n, p) ==
  /\ IF route_is_bidirectional(table[n], p.sender)
       THEN Save(n, p.originator, p.sender, p.seqno) ELSE UNCHANGED table
  /\ pt_rx' = [pt_rx EXCEPT ![n] = Sending(Rebroadcast(n, p))]
  /\ UNCHANGED age

OgmArrives(n) ==
  /\ pt_rx[n].at = "wait" /\ slot[n].type = "OGM"
  /\ LET p == slot[n] IN
       \/ Acceptable(n, p) /\ p.originator = n /\ p.direct /\ OwnOgmDirect(n, p)
       \/ Acceptable(n, p) /\ p.originator # n /\ ~ p.unidirectional /\ ForeignOgm(n, p)
       \/ /\ \/ ~ Acceptable(n, p)
             \/ p.originator = n /\ ~ p.direct
             \/ p.originator # n /\ p.unidirectional
          /\ UNCHANGED <<table, age, pt_rx>>
  /\ slot' = [slot EXCEPT ![n] = Empty]
  /\ routed' = routed \cup {<<n, table'[n][i].target_addr>> : i \in DOMAIN table'[n]}
  /\ UNCHANGED <<time, seqno, send_ogm, pt_thread, mutex, talk, heard>>

-----------------------------------------------------------------------------
(* batman_rx with a unicast packet p: batman_rebroadcast.                  *)

Forwards(n, p) ==
  /\ p.ttl # 0 /\ p.gateway = n /\ p.originator # n
  /\ route_present(table[n], p.target)

\* Mutant: the message keeps the gateway it came with.
GatewayKept(n, p) ==
  [p EXCEPT !.len = @ + BATMAN_HEADER_SIZE,
            !.sender = n, !.ttl = (@ + 255) % 256, !.hops = @ + 1]

(* llc_tx is told to send another header: the length that came in has one. *)
Forwarded(n, p) ==
  [p EXCEPT !.gateway = Gateway(table[n], p.target),
            !.len = @ + BATMAN_HEADER_SIZE,
            !.sender = n, !.ttl = (@ + 255) % 256, !.hops = @ + 1]

UnicastArrives(n) ==
  /\ pt_rx[n].at = "wait" /\ slot[n].type = "UNICAST"
  /\ LET p == slot[n] IN
       pt_rx' = [pt_rx EXCEPT ![n] =
                   IF p.target = n THEN Showing(p)
                   ELSE IF Forwards(n, p) THEN Sending(Forwarded(n, p)) ELSE @]
  /\ slot' = [slot EXCEPT ![n] = Empty]
  /\ UNCHANGED <<table, time, seqno, send_ogm, pt_thread, mutex, talk, heard, routed, age>>

(* llc_tx of the packet batman_rx sends on: of an OGM with the semaphore,  *)
(* of a message without.                                                   *)
SendOn(n) ==
  /\ pt_rx[n].at = "send"
  /\ pt_rx[n].packet.type = "OGM" => mutex[n] = "free"
  /\ Broadcast(n, pt_rx[n].packet)
  /\ pt_rx' = [pt_rx EXCEPT ![n] = Waiting]
  /\ UNCHANGED <<table, time, seqno, send_ogm, pt_thread, mutex, talk, routed, age>>

(* rx_thread has the message on the serial line.                           *)
Show(n) ==
  /\ pt_rx[n].at = "show"
  /\ pt_rx' = [pt_rx EXCEPT ![n] = Waiting]
  /\ UNCHANGED <<table, time, seqno, send_ogm, pt_thread, mutex, slot, talk, heard, routed,
                 age>>

-----------------------------------------------------------------------------
(* batman_tx for the shell: the gateway is looked up first, then the       *)
(* semaphore is waited for.  Without a route nothing is sent.              *)

Talk(n, target) ==
  /\ <<n, target>> \in Talks /\ MayBegin(n)
  /\ talk[n] = Empty
  /\ route_present(table[n], target)
  /\ talk' = [talk EXCEPT ![n] = Unicast(n, target, Gateway(table[n], target))]
  /\ UNCHANGED <<table, time, seqno, send_ogm, pt_thread, mutex, slot, pt_rx, heard, routed,
                 age>>

(* batman_tx is told that its transmission has ended.                      *)
TalkDone(n) ==
  /\ talk' = [talk EXCEPT ![n] = Empty]
  /\ mutex' = [mutex EXCEPT ![n] = "free"]

SendTalk(n) ==
  /\ talk[n] # Empty /\ mutex[n] \in {"free", "shell"}
  /\ Broadcast(n, talk[n])
  /\ \/ TalkDone(n) /\ UNCHANGED pt_rx
     \/ TellsRx(n, "shell") /\ UNCHANGED talk
  /\ UNCHANGED <<table, time, seqno, send_ogm, pt_thread, routed, age>>

TalkTakesEnd(n) ==
  /\ talk[n] # Empty /\ mutex[n] \in {"free", "shell"}
  /\ SendsAgain(n) /\ TalkDone(n)
  /\ UNCHANGED <<table, time, seqno, send_ogm, pt_thread, routed, age>>

-----------------------------------------------------------------------------

Next == \E n \in Node :
  \/ Second(n) \/ ShellSecond(n) \/ OgmDue(n) \/ SendOgm(n) \/ OgmTakesEnd(n)
  \/ OgmArrives(n) \/ UnicastArrives(n) \/ SendOn(n) \/ Show(n)
  \/ \E target \in Node : Talk(n, target)
  \/ SendTalk(n) \/ TalkTakesEnd(n)

Spec == Init /\ [][Next]_vars

-----------------------------------------------------------------------------
(* Properties.                                                             *)

Packets == {slot[n] : n \in Node} \cup {talk[n] : n \in Node}
             \cup {pt_rx[n].packet : n \in Node}

TypeOK ==
  /\ \A n \in Node : table[n] \in Seq(route_t(Node)) /\ Len(table[n]) <= MAX_ROUTE_ENTRIES
  /\ time \in [Node -> 0..(Word - 1)]
  /\ seqno \in [Node -> 0..(Word - 1)]
  /\ send_ogm \in [Node -> BOOLEAN]
  /\ pt_thread \in [Node -> {"idle", "due"}]
  /\ \A n \in Node : /\ mutex[n] \in {"free", "shell", "batman"}
                     /\ mutex[n] = "shell" => talk[n] # Empty
                     /\ mutex[n] = "batman" => pt_thread[n] = "due"
  /\ \A n \in Node : /\ pt_rx[n].at \in {"wait", "send", "show"}
                     /\ pt_rx[n].at = "wait" <=> pt_rx[n].packet = Empty
                     /\ talk[n].type \in {"none", "UNICAST"}
  /\ \A p \in Packets : p.type # "none" => p.ttl \in 0..255
  /\ heard \subseteq Links
  /\ routed \subseteq Node \X Node
  /\ age \in [Node \X Node -> 0..(BI_LINK_TIMEOUT + 1)]

(* A node routes over a neighbour only if that neighbour has heard him,    *)
(* so never over a link that works only towards him, whatever packets are  *)
(* lost (batman.c:182-199).                                                *)
GatewaysHeardUs == \A n \in Node : \A i \in DOMAIN table[n] :
  <<n, table[n][i].gateway_addr>> \in heard

(* Every packet dies out: no more than TTL nodes send it on.  A message    *)
(* grows by at most a header whenever batman_rx sends it; as long as no    *)
(* node had to send it again it fits into the packet buffers, if it leaves *)
(* room for a header at each hop (batman.c:177, 208, 251-253, 274,         *)
(* 307-308).                                                               *)
PacketsBounded == \A p \in Packets : p.type # "none" =>
  /\ p.hops <= TTL
  /\ p.type = "UNICAST" =>
       /\ p.len <= BATMAN_HEADER_SIZE * (1 + p.hops + p.again) + MessageLength
       /\ p.again = 0 => p.len <= MaxLength

(* A table has one entry for a target and a gateway, and none that is      *)
(* older than PURGE_TIMEOUT seconds, across the overflow of the clock      *)
(* (batman.c:84-98, 116-167).                                              *)
TablesTidy == \A n \in Node : \A i \in DOMAIN table[n] :
  /\ Minus(time[n], table[n][i].time) <= PURGE_TIMEOUT
  /\ \A j \in DOMAIN table[n] :
       table[n][i].target_addr = table[n][j].target_addr
         /\ table[n][i].gateway_addr = table[n][j].gateway_addr => i = j

(* Who is named as the next hop has had a route to where he is to lead,   *)
(* unless it leads to himself: what is heard over a one-way link is never  *)
(* passed on as a route (batman.c:189-199).                                *)
RoutesLeadOn == \A n \in Node : \A i \in DOMAIN table[n] :
  LET r == table[n][i] IN
    r.gateway_addr # r.target_addr => <<r.gateway_addr, r.target_addr>> \in routed

(* A message under way is addressed to a neighbour that has heard its      *)
(* sender and has had a route to the target, although the table it was     *)
(* addressed from may have changed before it was sent (batman.c:224-231,   *)
(* 267-269).                                                               *)
MessagesLeadOn == \A p \in Packets : p.type = "UNICAST" =>
  /\ <<p.sender, p.gateway>> \in heard
  /\ p.gateway # p.target => <<p.gateway, p.target>> \in routed

(* Only OGMs that came over a link known to work both ways are propagated  *)
(* as such: the neighbour confirmed it in the last BI_LINK_TIMEOUT seconds *)
(* (thesis/content.tex:1045, net.h:13, batman.c:192-199).                  *)
PropagatedLinksConfirmed ==
  [][\A n \in Node :
       pt_rx[n] = Waiting /\ pt_rx'[n].at = "send" /\ slot[n].type = "OGM"
         => \/ pt_rx'[n].packet.unidirectional
            \/ age[<<n, slot[n].sender>>] <= BI_LINK_TIMEOUT]_vars
=============================================================================
