----------------------------- MODULE MeshProofs -----------------------------
(***************************************************************************)
(* Proofs about Mesh, for any set of nodes, any links between them, any    *)
(* width of the counters and any limits.                                   *)
(***************************************************************************)
EXTENDS Mesh, FiniteSetTheorems, SequenceTheorems, TLAPS

-----------------------------------------------------------------------------
(* Sets of natural numbers and sequences.                                  *)

(* The least-number principle.                                             *)
LEMMA Smallest ==
  ASSUME NEW S \in SUBSET Nat, S # {}
  PROVE  \E m \in S : \A k \in S : m <= k
<1> DEFINE Less == {ss \in Nat \X Nat : ss[1] < ss[2]}
<1>1. IsWellFoundedOn(Less, Nat)
  <2>1. OpToRel(<, Nat) = Less
    BY DEF OpToRel
  <2> QED
    BY <2>1, NatLessThanWellFounded
<1> HIDE DEF Less
<1>2. PICK m \in S : \A k \in S : ~ (<<k, m>> \in Less)
  BY <1>1, WFMin
<1>3. ASSUME NEW k \in S, k < m PROVE FALSE
  <2>1. <<k, m>> \in Less
    BY <1>3 DEF Less
  <2> QED
    BY <2>1, <1>2
<1> QED
  BY <1>3

(* A function on 1..n is a sequence of length n.                           *)
LEMMA SeqOfLength ==
  ASSUME NEW S, NEW n \in Nat, NEW s \in [1..n -> S]
  PROVE  s \in Seq(S) /\ Len(s) = n
<1>1. s \in Seq(S)
  BY SeqDef
<1>2. Len(s) \in Nat /\ 1..Len(s) = 1..n
  BY <1>1, LenProperties
<1> QED
  BY <1>1, <1>2

(* The members of a finite set of numbers are numbered by their ranks.     *)
LEMMA Ranks ==
  ASSUME NEW n \in Nat, NEW S \in SUBSET (1..n)
  PROVE  /\ Cardinality(S) \in Nat /\ Cardinality(S) <= n
         /\ \A j \in 1..Cardinality(S) : \E i \in S : Rank(i, S) = j
<1>1. IsFiniteSet(S) /\ Cardinality(S) \in Nat /\ Cardinality(S) <= n
  <2>1. IsFiniteSet(1..n) /\ Cardinality(1..n) = n
    BY FS_Interval
  <2> QED
    BY <2>1, FS_Subset, FS_CardinalityType
<1> DEFINE UpTo(i) == {x \in S : x <= i}
           T == 1..Cardinality(S)
           f == [i \in S |-> Rank(i, S)]
<1>2. ASSUME NEW i \in S
      PROVE  Rank(i, S) \in T
  <2>1. IsFiniteSet(UpTo(i)) /\ Cardinality(UpTo(i)) <= Cardinality(S)
    BY <1>1, FS_Subset
  <2>2. Cardinality(UpTo(i)) \in Nat /\ UpTo(i) # {}
    BY <2>1, FS_CardinalityType
  <2>3. Cardinality(UpTo(i)) # 0
    BY <2>1, <2>2, FS_EmptySet
  <2> QED
    BY <1>1, <2>1, <2>2, <2>3 DEF Rank
<1>3. ASSUME NEW i \in S, NEW k \in S, i < k
      PROVE  Rank(i, S) # Rank(k, S)
  <2>1. \A x \in S : x <= i => x <= k
    BY <1>3
  <2>2. UpTo(i) \in SUBSET UpTo(k) /\ k \in UpTo(k) /\ k \notin UpTo(i)
    <3>1. k <= k /\ ~ (k <= i)
      BY <1>3
    <3>2. UpTo(i) \subseteq UpTo(k)
      BY <2>1
    <3> QED
      BY <3>1, <3>2
  <2>3. IsFiniteSet(UpTo(k))
    BY <1>1, FS_Subset
  <2>4. Cardinality(UpTo(k)) # Cardinality(UpTo(i))
    BY <2>2, <2>3, FS_Subset
  <2> QED
    BY <2>4 DEF Rank
<1>4. f \in Injection(S, T)
  BY <1>2, <1>3 DEF Injection, IsInjective
<1>5. f \in Surjection(S, T)
  <2>1. IsFiniteSet(T) /\ Cardinality(T) = Cardinality(S)
    BY <1>1, FS_Interval
  <2> QED
    BY <1>4, <2>1, FS_Injection
<1> QED
  BY <1>1, <1>5 DEF Surjection

(* The selected entries are those of the table, each once.                 *)
LEMMA SelectedEntries ==
  ASSUME NEW R, NEW t \in Seq(R), NEW S \in SUBSET DOMAIN t
  PROVE  /\ Selected(t, S) \in Seq(R) /\ Len(Selected(t, S)) <= Len(t)
         /\ \A j \in DOMAIN Selected(t, S) :
              /\ Nth(j, S) \in S /\ Selected(t, S)[j] = t[Nth(j, S)]
              /\ \A i \in DOMAIN Selected(t, S) : Nth(i, S) = Nth(j, S) => i = j
<1> DEFINE c == Cardinality(S)
<1>1. DOMAIN t = 1..Len(t) /\ Len(t) \in Nat /\ \A i \in DOMAIN t : t[i] \in R
  BY LenProperties, ElementOfSeq
<1>2. c \in Nat /\ c <= Len(t)
  BY <1>1, Ranks
<1>3. \A j \in 1..c : Nth(j, S) \in S /\ Rank(Nth(j, S), S) = j
  BY <1>1, Ranks DEF Nth
<1>4. Selected(t, S) = [j \in 1..c |-> t[Nth(j, S)]]
  BY DEF Selected
<1>5. Selected(t, S) \in Seq(R) /\ Len(Selected(t, S)) = c
  <2>1. Selected(t, S) \in [1..c -> R]
    BY <1>1, <1>3, <1>4
  <2> QED
    BY <1>2, <2>1, SeqOfLength
<1> QED
  BY <1>2, <1>3, <1>4, <1>5

-----------------------------------------------------------------------------
(* Routing tables.                                                         *)

Tables == {t \in Seq(route_t(Node)) : Len(t) <= MAX_ROUTE_ENTRIES}

Once(t) == \A i, j \in DOMAIN t :
  t[i].target_addr = t[j].target_addr /\ t[i].gateway_addr = t[j].gateway_addr => i = j

Fresh(t, now) == \A i \in DOMAIN t : Minus(now, t[i].time) <= PURGE_TIMEOUT

(* Words stay words.                                                       *)
LEMMA Words ==
  /\ Word \in Nat /\ 1 < Word /\ PURGE_TIMEOUT \in Nat /\ MAX_ROUTE_ENTRIES \in Nat
  /\ 0 \in 0..(Word - 1)
  /\ \A n \in 0..(Word - 1) : Inc(n) \in 0..(Word - 1) /\ Minus(n, n) = 0
  /\ \A n \in Nat : n % Word \in 0..(Word - 1)
<1>1. Word \in Nat /\ 1 < Word /\ PURGE_TIMEOUT \in Nat /\ MAX_ROUTE_ENTRIES \in Nat
  BY MeshAssumption
<1>2. \A n \in Nat : n % Word \in 0..(Word - 1)
  BY <1>1
<1>3. \A n \in 0..(Word - 1) : Inc(n) \in 0..(Word - 1)
  BY <1>1, <1>2 DEF Inc
<1>4. Word % Word = 0
  BY <1>1
<1>5. \A n \in 0..(Word - 1) : Minus(n, n) = 0
  <2> SUFFICES ASSUME NEW n \in 0..(Word - 1) PROVE Minus(n, n) = 0
    OBVIOUS
  <2>1. n + Word - n = Word
    BY <1>1
  <2> QED
    BY <1>4, <2>1 DEF Minus
<1> QED
  BY <1>1, <1>2, <1>3, <1>5

LEMMA NewRouteType ==
  ASSUME NEW target \in Node, NEW gateway \in Node,
         NEW number \in 0..(Word - 1), NEW now \in 0..(Word - 1)
  PROVE  NewRoute(target, gateway, number, now) \in route_t(Node)
BY Words DEF NewRoute, route_t

LEMMA UpdatedType ==
  ASSUME NEW r \in route_t(Node), NEW number \in 0..(Word - 1), NEW now \in 0..(Word - 1)
  PROVE  /\ Updated(r, number, now) \in route_t(Node)
         /\ Updated(r, number, now).target_addr = r.target_addr
         /\ Updated(r, number, now).gateway_addr = r.gateway_addr
         /\ Updated(r, number, now).time = now
<1>1. r.lost + Minus(number, r.seqno) \in Nat
  <2>1. r.seqno \in 0..(Word - 1) /\ r.lost \in 0..(Word - 1)
    BY DEF route_t
  <2>2. number + Word - r.seqno \in Nat
    BY <2>1, Words
  <2>3. Minus(number, r.seqno) \in 0..(Word - 1)
    BY <2>2, Words DEF Minus
  <2> QED
    BY <2>1, <2>3, Words
<1>2. (r.lost + Minus(number, r.seqno)) % Word \in 0..(Word - 1)
  BY Words, <1>1
<1>3. Inc(r.cnt) \in 0..(Word - 1)
  BY Words DEF route_t
<1> QED
  BY <1>2, <1>3 DEF Updated, route_t

(* What a purge leaves.                                                    *)
LEMMA PurgedTable ==
  ASSUME NEW t \in Tables, NEW now
  PROVE  /\ Purged(t, now) \in Tables
         /\ \A j \in DOMAIN Purged(t, now) : \E i \in DOMAIN t : Purged(t, now)[j] = t[i]
         /\ Fresh(Purged(t, now), now)
         /\ Once(t) => Once(Purged(t, now))
<1> DEFINE S == {i \in DOMAIN t : Minus(now, t[i].time) <= PURGE_TIMEOUT}
           u == Selected(t, S)
<1>1. t \in Seq(route_t(Node)) /\ Len(t) <= MAX_ROUTE_ENTRIES /\ Len(t) \in Nat
  BY LenProperties DEF Tables
<1>2. S \in SUBSET DOMAIN t
  OBVIOUS
<1>3. u \in Seq(route_t(Node)) /\ Len(u) <= Len(t)
  BY <1>1, <1>2, SelectedEntries
<1>4. \A j \in DOMAIN u :
        /\ Nth(j, S) \in S /\ u[j] = t[Nth(j, S)]
        /\ \A i \in DOMAIN u : Nth(i, S) = Nth(j, S) => i = j
  BY <1>1, <1>2, SelectedEntries
<1>5. u \in Tables
  BY <1>1, <1>3, LenProperties, Words DEF Tables
<1>6. \A j \in DOMAIN u : /\ Nth(j, S) \in DOMAIN t /\ u[j] = t[Nth(j, S)]
                          /\ Minus(now, t[Nth(j, S)].time) <= PURGE_TIMEOUT
  BY <1>4
<1>7. Once(t) => Once(u)
  BY <1>4, <1>6 DEF Once
<1>8. Purged(t, now) = u
  BY DEF Purged
<1> HIDE DEF u
<1> QED
  BY <1>5, <1>6, <1>7, <1>8 DEF Fresh

(* What route_save_or_update does to a table.                              *)
IsNew(r, target, gateway, now) ==
  r.target_addr = target /\ r.gateway_addr = gateway /\ r.time = now

LEMMA SavedTable ==
  ASSUME NEW t \in Tables, NEW target \in Node, NEW gateway \in Node,
         NEW number \in 0..(Word - 1), NEW now \in 0..(Word - 1),
         NEW u, u = route_save_or_update(t, target, gateway, number, now)
  PROVE  /\ u \in Tables
         /\ \A i \in DOMAIN u :
              (i \in DOMAIN t /\ u[i] = t[i]) \/ IsNew(u[i], target, gateway, now)
         /\ Once(t) => Once(u)
         /\ Len(t) < MAX_ROUTE_ENTRIES \/ Over(t, target, gateway) # {}
              => \E i \in DOMAIN u : IsNew(u[i], target, gateway, now)
<1> DEFINE New(r) == IsNew(r, target, gateway, now)
<1>1. /\ t \in Seq(route_t(Node)) /\ Len(t) <= MAX_ROUTE_ENTRIES /\ Len(t) \in Nat
      /\ DOMAIN t = 1..Len(t) /\ MAX_ROUTE_ENTRIES \in Nat
      /\ \A i \in DOMAIN t : t[i] \in route_t(Node)
  BY LenProperties, ElementOfSeq, Words DEF Tables
<1>2. CASE Over(t, target, gateway) # {}
  <2> DEFINE O == Over(t, target, gateway)
  <2>1. u = [i \in 1..Len(t) |-> IF i \in O THEN Updated(t[i], number, now) ELSE t[i]]
    BY <1>1, <1>2 DEF route_save_or_update
  <2>2. \A i \in O : i \in DOMAIN t /\ t[i].target_addr = target /\ t[i].gateway_addr = gateway
    BY DEF Over, For
  <2>3. \A i \in O : u[i] \in route_t(Node) /\ New(u[i])
    <3> SUFFICES ASSUME NEW i \in O PROVE u[i] \in route_t(Node) /\ New(u[i])
      OBVIOUS
    <3>1. u[i] = Updated(t[i], number, now) /\ t[i] \in route_t(Node)
      BY <1>1, <2>1, <2>2
    <3> QED
      BY <2>2, <3>1, UpdatedType DEF IsNew
  <2>4. \A i \in DOMAIN t \ O : u[i] = t[i]
    BY <1>1, <2>1
  <2>5. u \in [1..Len(t) -> route_t(Node)]
    BY <1>1, <2>1, <2>3, <2>4
  <2>6. u \in Tables
    BY <1>1, <2>5, SeqOfLength DEF Tables
  <2>7. DOMAIN u = DOMAIN t
    BY <1>1, <2>1
  <2>8. \A i \in DOMAIN t : u[i].target_addr = t[i].target_addr
                            /\ u[i].gateway_addr = t[i].gateway_addr
    BY <2>2, <2>3, <2>4 DEF IsNew
  <2>9. Once(t) => Once(u)
    BY <2>7, <2>8 DEF Once
  <2>10. \E i \in O : i \in DOMAIN u
    BY <1>2, <2>2, <2>7
  <2> HIDE DEF O
  <2> QED
    BY <2>3, <2>4, <2>6, <2>7, <2>9, <2>10
<1>3. CASE Over(t, target, gateway) = {} /\ Len(t) # MAX_ROUTE_ENTRIES
  <2> DEFINE e == NewRoute(target, gateway, number, now)
  <2>1. u = Append(t, e)
    BY <1>3 DEF route_save_or_update
  <2>2. e \in route_t(Node) /\ New(e)
    BY NewRouteType DEF NewRoute, IsNew
  <2>3. /\ u \in Seq(route_t(Node)) /\ Len(u) = Len(t) + 1
        /\ \A i \in 1..Len(t) : u[i] = t[i]
        /\ u[Len(t) + 1] = e
    BY <1>1, <2>1, <2>2, AppendProperties
  <2>4. DOMAIN u = 1..(Len(t) + 1)
    BY <2>3, LenProperties
  <2>5. u \in Tables
    <3>1. /\ Len(t) \in Nat /\ MAX_ROUTE_ENTRIES \in Nat
          /\ Len(t) # MAX_ROUTE_ENTRIES /\ Len(t) <= MAX_ROUTE_ENTRIES
      BY <1>1, <1>3
    <3>2. Len(t) + 1 <= MAX_ROUTE_ENTRIES
      BY <3>1
    <3> QED
      BY <2>3, <3>2 DEF Tables
  <2>6. \A i \in DOMAIN u : (i \in DOMAIN t /\ u[i] = t[i]) \/ (i = Len(t) + 1 /\ u[i] = e)
    BY <1>1, <2>3, <2>4
  <2>7. \A i \in DOMAIN t : ~ (t[i].target_addr = target /\ t[i].gateway_addr = gateway)
    BY <1>3 DEF Over, For
  <2>8. Once(t) => Once(u)
    BY <2>2, <2>6, <2>7 DEF Once, IsNew
  <2>9. Len(t) + 1 \in DOMAIN u
    BY <1>1, <2>4
  <2> HIDE DEF e
  <2> QED
    BY <1>1, <2>2, <2>3, <2>5, <2>6, <2>8, <2>9
<1>4. CASE Over(t, target, gateway) = {} /\ Len(t) = MAX_ROUTE_ENTRIES
  <2>1. u = t
    BY <1>4 DEF route_save_or_update
  <2> QED
    BY <1>1, <1>4, <2>1
<1> QED
  BY <1>2, <1>3, <1>4

(* The gateway chosen for a target that has a route is the gateway of one  *)
(* of its routes.                                                          *)
LEMMA GatewayOfRoute ==
  ASSUME NEW t \in Tables, NEW target, route_present(t, target)
  PROVE  \E i \in DOMAIN t : t[i].target_addr = target /\ Gateway(t, target) = t[i].gateway_addr
<1> DEFINE F == For(t, target)
<1>1. /\ F \subseteq DOMAIN t /\ F # {} /\ F \subseteq Nat
      /\ \A i \in F : t[i].cnt \in 0..(Word - 1) /\ t[i].target_addr = target
  <2>1. t \in Seq(route_t(Node)) /\ DOMAIN t = 1..Len(t) /\ Len(t) \in Nat
    BY LenProperties DEF Tables
  <2>2. \A i \in DOMAIN t : t[i] \in route_t(Node)
    BY <2>1, ElementOfSeq
  <2>3. DOMAIN t \subseteq Nat
    BY <2>1
  <2> QED
    BY <2>2, <2>3 DEF route_t, For, route_present
<1> DEFINE Rests == {Word - t[i].cnt : i \in F}
<1>2. PICK m \in Rests : \A k \in Rests : m <= k
  <2>1. Rests \in SUBSET Nat /\ Rests # {}
    BY <1>1, Words
  <2> HIDE DEF Rests
  <2> QED
    BY <2>1, Smallest
<1> DEFINE Firsts == {i \in F : Word - t[i].cnt = m}
<1>3. PICK b \in Firsts : \A k \in Firsts : b <= k
  <2>1. Firsts \in SUBSET Nat /\ Firsts # {}
    BY <1>1, <1>2
  <2> HIDE DEF Firsts
  <2> QED
    BY <2>1, Smallest
<1>4. b \in F /\ \A j \in F : t[j].cnt < t[b].cnt \/ (t[j].cnt = t[b].cnt /\ b <= j)
  <2> SUFFICES ASSUME NEW j \in F
               PROVE  t[j].cnt < t[b].cnt \/ (t[j].cnt = t[b].cnt /\ b <= j)
    BY <1>3
  <2>1. m <= Word - t[j].cnt /\ m = Word - t[b].cnt /\ b \in F
    BY <1>2, <1>3
  <2>2. CASE m = Word - t[j].cnt
    <3>1. t[j].cnt = t[b].cnt
      <4>1. t[j].cnt \in Int /\ t[b].cnt \in Int /\ Word \in Int
        BY <1>1, <2>1, Words
      <4>2. Word - t[j].cnt = Word - t[b].cnt
        BY <2>1, <2>2
      <4> QED
        BY <4>1, <4>2
    <3>2. b <= j
      BY <1>3, <2>2
    <3> QED
      BY <3>1, <3>2
  <2>3. CASE m # Word - t[j].cnt
    BY <1>1, <2>1, <2>3, Words
  <2> QED
    BY <2>2, <2>3
<1>5. Best(t, target) \in F
  BY <1>4 DEF Best
<1> QED
  BY <1>1, <1>5 DEF Gateway

-----------------------------------------------------------------------------
(* The inductive invariant.                                                *)

(* What a node or the channel may hold.                                    *)
Ogms ==
  [type : {"OGM"}, originator : Node, sender : Node, ttl : 0..255, direct : BOOLEAN,
   unidirectional : BOOLEAN, seqno : 0..(Word - 1), hops : Nat]

Messages ==
  [type : {"UNICAST"}, originator : Node, target : Node, sender : Node, gateway : Node,
   ttl : 0..255, hops : Nat, again : Nat, len : Nat]

Held == {Empty} \cup Ogms \cup Messages

StateType ==
  /\ table \in [Node -> Tables]
  /\ time \in [Node -> 0..(Word - 1)] /\ seqno \in [Node -> 0..(Word - 1)]
  /\ send_ogm \in [Node -> BOOLEAN] /\ pt_thread \in [Node -> {"idle", "due"}]
  /\ mutex \in [Node -> {"free", "shell", "batman"}]
  /\ slot \in [Node -> Held] /\ talk \in [Node -> {Empty} \cup Messages]
  /\ pt_rx \in [Node -> [at : {"wait", "send", "show"}, packet : Held]]
  /\ \A n \in Node : pt_rx[n].at = "wait" <=> pt_rx[n].packet = Empty
  /\ heard \subseteq Links /\ routed \subseteq Node \X Node
  /\ age \in [Node \X Node -> 0..(BI_LINK_TIMEOUT + 1)]

(* A packet's hops and its TTL make up for each other, and a message has   *)
(* grown by a header at each hop, and by one at most when sent again.      *)
Counted(p) == p.type # "none" =>
  /\ p.hops + p.ttl = TTL
  /\ p.type = "UNICAST" =>
       /\ p.len <= BATMAN_HEADER_SIZE * (1 + p.hops + p.again) + MessageLength
       /\ p.again = 0 => p.len = BATMAN_HEADER_SIZE * (1 + p.hops) + MessageLength

(* A flag says the truth: the sender heard the originator himself, or had  *)
(* a route to him.                                                         *)
Confirmed(p) == p.type = "OGM" /\ p.direct => <<p.originator, p.sender>> \in heard
Announced(p) == p.type = "OGM" /\ ~ p.unidirectional /\ p.sender # p.originator =>
  <<p.sender, p.originator>> \in routed

(* The sender of a packet is the node that sends it, and an OGM that is    *)
(* sent by its originator is his own.                                      *)
Signed == \A n \in Node :
  /\ pt_rx[n].packet.type = "OGM" =>
       pt_rx[n].packet.sender = n /\ pt_rx[n].packet.originator # n
  /\ slot[n].type = "OGM" /\ slot[n].sender = slot[n].originator =>
       <<slot[n].sender, n>> \in heard

(* Who has the semaphore between two actions is sending.                   *)
Owned == \A n \in Node :
  /\ mutex[n] = "shell" => talk[n] # Empty
  /\ mutex[n] = "batman" => pt_thread[n] = "due"

(* A node has no routes to himself or over himself.                        *)
Outward == \A n \in Node : \A i \in DOMAIN table[n] :
  table[n][i].target_addr # n /\ table[n][i].gateway_addr # n

MeshInv ==
  /\ StateType /\ Signed /\ Owned /\ Outward /\ GatewaysHeardUs
  /\ \A p \in Packets : Counted(p) /\ Confirmed(p)
  /\ \A n \in Node : Fresh(table[n], time[n]) /\ Once(table[n])


-----------------------------------------------------------------------------
(* Packets and the channel.                                                *)

LEMMA PacketKinds ==
  /\ Empty.type = "none" /\ Empty \notin Ogms \cup Messages
  /\ \A p \in Ogms : p.type = "OGM" /\ p # Empty
  /\ \A p \in Messages : p.type = "UNICAST" /\ p # Empty
  /\ \A p \in Held : /\ p.type = "OGM" <=> p \in Ogms
                     /\ p.type = "UNICAST" <=> p \in Messages
                     /\ p.type = "none" <=> p = Empty
                     /\ p # Empty => p \in Ogms \cup Messages
BY DEF Empty, Ogms, Messages, Held

(* A broadcast changes the free buffers in range and what has been heard.  *)
LEMMA Channel ==
  ASSUME StateType, NEW n \in Node, NEW p \in Ogms \cup Messages, Broadcast(n, p)
  PROVE  /\ slot' \in [Node -> Held] /\ heard \subseteq heard' /\ heard' \subseteq Links
         /\ \A m \in Node : \/ slot'[m] = slot[m]
                            \/ /\ slot'[m] = p
                               /\ p.type = "OGM" /\ p.originator = n => <<n, m>> \in heard'
<1>1. PICK R \in SUBSET Hearers(n, p) :
        /\ slot' = [m \in Node |-> IF m \in R THEN p ELSE slot[m]]
        /\ heard' = heard \cup (IF p.type = "OGM" /\ p.originator = n
                                  THEN {n} \X R ELSE {})
  BY DEF Broadcast
<1>2. \A m \in R : m \in Node /\ <<n, m>> \in Links
  BY DEF Hearers
<1>3. slot' \in [Node -> Held]
  BY <1>1 DEF StateType, Held
<1>4. heard \subseteq heard' /\ heard' \subseteq Links
  BY <1>1, <1>2 DEF StateType
<1>5. \A m \in Node : m \notin R => slot'[m] = slot[m]
  BY <1>1
<1>6. \A m \in R : slot'[m] = p /\ (p.type = "OGM" /\ p.originator = n => <<n, m>> \in heard')
  BY <1>1, <1>2
<1> QED
  BY <1>3, <1>4, <1>5, <1>6

LEMMA OwnOgm ==
  ASSUME NEW n \in Node, NEW number \in 0..(Word - 1)
  PROVE  /\ Ogm(n, number) \in Ogms /\ Counted(Ogm(n, number))
         /\ Confirmed(Ogm(n, number)) /\ Ogm(n, number).sender = n
         /\ Ogm(n, number).originator = n
BY MeshAssumption DEF Ogm, Ogms, Counted, Confirmed

LEMMA OwnMessage ==
  ASSUME NEW n \in Node, NEW target \in Node, NEW gateway \in Node
  PROVE  /\ Unicast(n, target, gateway) \in Messages
         /\ Counted(Unicast(n, target, gateway))
         /\ Unicast(n, target, gateway).type = "UNICAST"
BY MeshAssumption DEF Unicast, Messages, Counted, BATMAN_HEADER_SIZE

LEMMA RebroadcastOgm ==
  ASSUME NEW n \in Node, NEW p \in Ogms, Counted(p), p.ttl > 0,
         p.sender = p.originator => <<p.originator, n>> \in heard
  PROVE  /\ Rebroadcast(n, p) \in Ogms /\ Counted(Rebroadcast(n, p))
         /\ Confirmed(Rebroadcast(n, p)) /\ Rebroadcast(n, p).sender = n
         /\ Rebroadcast(n, p).originator = p.originator
<1> DEFINE q == Rebroadcast(n, p)
<1>1. p.ttl \in 1..255 /\ p.hops \in Nat /\ p.type = "OGM" /\ TTL \in 0..255
  BY MeshAssumption DEF Ogms
<1>2. (p.ttl + 255) % 256 = p.ttl - 1
  BY <1>1
<1>3. q \in Ogms
  <2>1. ASSUME NEW u \in BOOLEAN, NEW d \in BOOLEAN, NEW t \in 0..255, NEW h \in Nat
        PROVE  [p EXCEPT !.unidirectional = u, !.direct = d, !.sender = n,
                         !.ttl = t, !.hops = h] \in Ogms
    BY DEF Ogms
  <2>2. (~ route_is_bidirectional(table[n], p.sender)) \in BOOLEAN
        /\ (p.sender = p.originator) \in BOOLEAN
    OBVIOUS
  <2>3. (p.ttl + 255) % 256 \in 0..255 /\ p.hops + 1 \in Nat
    BY <1>1, <1>2
  <2> DEFINE u == ~ route_is_bidirectional(table[n], p.sender)
             d == p.sender = p.originator
             t == (p.ttl + 255) % 256
             h == p.hops + 1
  <2>4. u \in BOOLEAN /\ d \in BOOLEAN /\ t \in 0..255 /\ h \in Nat
    BY <2>2, <2>3
  <2>5. q = [p EXCEPT !.unidirectional = u, !.direct = d, !.sender = n, !.ttl = t, !.hops = h]
    BY DEF Rebroadcast
  <2> HIDE DEF q, u, d, t, h
  <2> QED
    BY <2>1, <2>4, <2>5
<1>4. /\ q.type = "OGM" /\ q.sender = n /\ q.originator = p.originator
      /\ q.ttl = p.ttl - 1 /\ q.hops = p.hops + 1
      /\ q.direct = (p.sender = p.originator)
  BY <1>1, <1>2 DEF Rebroadcast, Ogms
<1>5. Counted(q)
  BY <1>1, <1>4 DEF Counted
<1>6. Confirmed(q)
  BY <1>4 DEF Confirmed
<1> QED
  BY <1>3, <1>4, <1>5, <1>6

LEMMA ForwardedMessage ==
  ASSUME NEW n \in Node, NEW p \in Messages, Counted(p), table[n] \in Tables, Forwards(n, p)
  PROVE  /\ Forwarded(n, p) \in Messages /\ Counted(Forwarded(n, p))
         /\ Forwarded(n, p).sender = n /\ Forwarded(n, p).target = p.target
         /\ Forwarded(n, p).gateway = Gateway(table[n], p.target)
<1> DEFINE q == Forwarded(n, p)
<1>1. /\ p.ttl \in 1..255 /\ p.hops \in Nat /\ p.again \in Nat /\ p.len \in Nat
      /\ p.type = "UNICAST" /\ TTL \in 0..255 /\ MessageLength \in Nat
  BY MeshAssumption DEF Messages, Forwards
<1>2. (p.ttl + 255) % 256 = p.ttl - 1
  BY <1>1
<1>3. Gateway(table[n], p.target) \in Node
  <2>1. table[n] \in Seq(route_t(Node)) /\ DOMAIN table[n] = 1..Len(table[n])
    BY LenProperties DEF Tables
  <2>2. \A i \in DOMAIN table[n] : table[n][i].gateway_addr \in Node
    <3>1. \A i \in 1..Len(table[n]) : table[n][i] \in route_t(Node)
      BY <2>1, ElementOfSeq
    <3> QED
      BY <2>1, <3>1 DEF route_t
  <2> QED
    BY <2>2, GatewayOfRoute DEF Forwards
<1>4. q \in Messages
  <2>1. ASSUME NEW g \in Node, NEW l \in Nat, NEW t \in 0..255, NEW h \in Nat
        PROVE  [p EXCEPT !.gateway = g, !.len = l, !.sender = n,
                         !.ttl = t, !.hops = h] \in Messages
    BY DEF Messages
  <2>2. /\ (p.ttl + 255) % 256 \in 0..255 /\ p.hops + 1 \in Nat
        /\ p.len + BATMAN_HEADER_SIZE \in Nat
    BY <1>1, <1>2 DEF BATMAN_HEADER_SIZE
  <2> DEFINE g == Gateway(table[n], p.target)
             l == p.len + BATMAN_HEADER_SIZE
             t == (p.ttl + 255) % 256
             h == p.hops + 1
  <2>3. g \in Node /\ l \in Nat /\ t \in 0..255 /\ h \in Nat
    BY <1>3, <2>2
  <2>4. q = [p EXCEPT !.gateway = g, !.len = l, !.sender = n, !.ttl = t, !.hops = h]
    BY DEF Forwarded
  <2> HIDE DEF q, g, l, t, h
  <2> QED
    BY <2>1, <2>3, <2>4
<1>5. /\ q.type = "UNICAST" /\ q.sender = n /\ q.target = p.target
      /\ q.gateway = Gateway(table[n], p.target)
      /\ q.ttl = p.ttl - 1 /\ q.hops = p.hops + 1 /\ q.again = p.again
      /\ q.len = p.len + 10
  BY <1>1, <1>2 DEF Forwarded, Messages, BATMAN_HEADER_SIZE
<1>6. Counted(q)
  BY <1>1, <1>5 DEF Counted, BATMAN_HEADER_SIZE
<1> QED
  BY <1>4, <1>5, <1>6

(* Sent again, a message is the same but for a header.                     *)
LEMMA ResentMessage ==
  ASSUME NEW p \in Messages, Counted(p)
  PROVE  /\ Resent(p) \in Messages /\ Counted(Resent(p))
         /\ Resent(p).sender = p.sender /\ Resent(p).target = p.target
         /\ Resent(p).gateway = p.gateway
<1> DEFINE q == Resent(p)
<1>1. /\ p.ttl \in 0..255 /\ p.hops \in Nat /\ p.again \in Nat /\ p.len \in Nat
      /\ p.type = "UNICAST" /\ MessageLength \in Nat
  BY MeshAssumption DEF Messages
<1>2. /\ BATMAN_HEADER_SIZE + (p.len % 4096) \in Nat
      /\ BATMAN_HEADER_SIZE + (p.len % 4096) <= 10 + p.len
      /\ p.again + 1 \in Nat /\ p.again + 1 # 0
  BY <1>1 DEF BATMAN_HEADER_SIZE
<1>3. q \in Messages
  <2>1. ASSUME NEW l \in Nat, NEW a \in Nat
        PROVE  [p EXCEPT !.len = l, !.again = a] \in Messages
    BY DEF Messages
  <2> DEFINE l == BATMAN_HEADER_SIZE + (p.len % 4096)
             a == p.again + 1
  <2>2. l \in Nat /\ a \in Nat
    BY <1>2
  <2>3. q = [p EXCEPT !.len = l, !.again = a]
    BY DEF Resent
  <2> HIDE DEF q, l, a
  <2> QED
    BY <2>1, <2>2, <2>3
<1>4. /\ q.type = "UNICAST" /\ q.sender = p.sender /\ q.target = p.target
      /\ q.gateway = p.gateway /\ q.ttl = p.ttl /\ q.hops = p.hops
      /\ q.again = p.again + 1 /\ q.len = BATMAN_HEADER_SIZE + (p.len % 4096)
  BY <1>1 DEF Resent, Messages
<1>5. Counted(q)
  <2>1. /\ p.hops + p.ttl = TTL
        /\ p.len <= 10 * (1 + p.hops + p.again) + MessageLength
    BY <1>1 DEF Counted, BATMAN_HEADER_SIZE
  <2>2. q.len <= 10 * (1 + q.hops + q.again) + MessageLength
    <3>1. 10 + p.len <= 10 * (1 + p.hops + (p.again + 1)) + MessageLength
      BY <1>1, <2>1
    <3> HIDE DEF q
    <3>2. q.len \in Nat /\ q.len <= 10 + p.len
      BY <1>2, <1>4
    <3> QED
      BY <1>1, <1>4, <3>1, <3>2
  <2> HIDE DEF q
  <2> QED
    BY <1>2, <1>4, <2>1, <2>2 DEF Counted, BATMAN_HEADER_SIZE
<1> QED
  BY <1>3, <1>4, <1>5

-----------------------------------------------------------------------------
(* What a step does to a table: nothing, a purge, or an entry over a       *)
(* neighbour that has heard this node.                                     *)

Kept(m) == table'[m] = table[m] /\ time'[m] = time[m]

PurgedNow(m) == table'[m] = Purged(table[m], time'[m])

Learned(m, target, gateway, number) ==
  /\ table'[m] = route_save_or_update(table[m], target, gateway, number, time[m])
  /\ time'[m] = time[m]
  /\ target # m /\ gateway # m /\ <<m, gateway>> \in heard
  /\ \/ target = gateway
     \/ /\ slot[m].type = "OGM" /\ ~ slot[m].unidirectional
        /\ slot[m].sender = gateway /\ slot[m].originator = target

SavedNow(m) == \E target \in Node, gateway \in Node, number \in 0..(Word - 1) :
  Learned(m, target, gateway, number)

(* An OGM that batman_rx finds in the buffer.                              *)
LEMMA OgmInSlot ==
  ASSUME StateType, NEW n \in Node, slot[n].type = "OGM"
  PROVE  slot[n] \in Ogms
BY PacketKinds DEF StateType

LEMMA MessageInSlot ==
  ASSUME StateType, NEW n \in Node, slot[n].type = "UNICAST"
  PROVE  slot[n] \in Messages
BY PacketKinds DEF StateType

LEMMA TableStep ==
  ASSUME MeshInv, [Next]_vars, NEW m \in Node
  PROVE  Kept(m) \/ PurgedNow(m) \/ SavedNow(m)
<1>1. StateType /\ GatewaysHeardUs /\ table \in [Node -> Tables] /\ time \in [Node -> 0..(Word - 1)]
  BY DEF MeshInv, StateType
<1>2. CASE UNCHANGED vars
  BY <1>2 DEF vars, Kept
<1>3. CASE \E n \in Node : Second(n) \/ ShellSecond(n)
  <2>1. PICK n \in Node : Second(n) \/ ShellSecond(n)
    BY <1>3
  <2>2. /\ \A k \in Node : k # n => Kept(k)
        /\ PurgedNow(n)
    BY <1>1, <2>1 DEF Second, ShellSecond, Kept, PurgedNow
  <2> QED
    BY <2>2
<1>4. CASE \E n \in Node : OgmArrives(n)
  <2>1. PICK n \in Node : OgmArrives(n)
    BY <1>4
  <2> DEFINE p == slot[n]
  <2>2. p \in Ogms /\ p.type = "OGM" /\ time' = time
    BY <1>1, <2>1, OgmInSlot DEF OgmArrives
  <2>3. /\ p.originator \in Node /\ p.sender \in Node /\ p.seqno \in 0..(Word - 1)
        /\ 0 \in 0..(Word - 1)
    BY <2>2, Words DEF Ogms
  <2>4. CASE table' = table
    BY <2>2, <2>4 DEF Kept
  <2>5. CASE Acceptable(n, p) /\ p.originator = n /\ p.direct
             /\ Save(n, p.sender, p.sender, 0)
    <3>1. <<n, p.sender>> \in heard
      BY <2>2, <2>5 DEF MeshInv, Confirmed, Packets
    <3>2. Learned(n, p.sender, p.sender, 0)
      BY <1>1, <2>2, <2>5, <3>1 DEF Save, Learned, Acceptable
    <3>3. \A k \in Node : k # n => Kept(k)
      BY <1>1, <2>2, <2>5 DEF Save, Kept
    <3> QED
      BY <2>3, <3>2, <3>3 DEF SavedNow
  <2>6. CASE Acceptable(n, p) /\ p.originator # n /\ ~ p.unidirectional
             /\ route_is_bidirectional(table[n], p.sender)
             /\ Save(n, p.originator, p.sender, p.seqno)
    <3>1. <<n, p.sender>> \in heard
      BY <1>1, <2>6 DEF route_is_bidirectional, GatewaysHeardUs
    <3>2. Learned(n, p.originator, p.sender, p.seqno)
      BY <1>1, <2>2, <2>6, <3>1 DEF Save, Learned, Acceptable
    <3>3. \A k \in Node : k # n => Kept(k)
      BY <1>1, <2>2, <2>6 DEF Save, Kept
    <3> QED
      BY <2>3, <3>2, <3>3 DEF SavedNow
  <2> QED
    BY <2>1, <2>4, <2>5, <2>6 DEF OgmArrives, OwnOgmDirect, ForeignOgm
<1>5. CASE \E n \in Node :
             \/ OgmDue(n) \/ SendOgm(n) \/ OgmTakesEnd(n)
             \/ UnicastArrives(n) \/ SendOn(n) \/ Show(n)
             \/ \E target \in Node : Talk(n, target)
             \/ SendTalk(n) \/ TalkTakesEnd(n)
  <2>1. table' = table /\ time' = time
    BY <1>5 DEF OgmDue, SendOgm, OgmTakesEnd, UnicastArrives, SendOn, Show, Talk, SendTalk,
                TalkTakesEnd
  <2> QED
    BY <2>1 DEF Kept
<1> QED
  BY <1>2, <1>3, <1>4, <1>5 DEF Next

(* What has been heard and routed is never forgotten.                      *)
LEMMA HistoryGrows ==
  ASSUME StateType, [Next]_vars
  PROVE  heard \subseteq heard' /\ routed \subseteq routed'
<1>1. CASE UNCHANGED vars
  BY <1>1 DEF vars
<1>2. ASSUME NEW n \in Node, NEW p, Broadcast(n, p) PROVE heard \subseteq heard'
  BY <1>2 DEF Broadcast
<1>3. CASE Next
  BY <1>2, <1>3
     DEF Next, Second, ShellSecond, OgmDue, SendOgm, OgmTakesEnd, OgmArrives,
         UnicastArrives, SendOn, Show, Talk, SendTalk, TalkTakesEnd, SendsAgain
<1> QED
  BY <1>1, <1>3

(* The tables after a step.                                                *)
LEMMA NextTables ==
  ASSUME MeshInv, [Next]_vars, NEW m \in Node
  PROVE  /\ table'[m] \in Tables
         /\ Fresh(table'[m], time'[m]) /\ Once(table'[m])
         /\ \A i \in DOMAIN table'[m] :
              /\ table'[m][i].target_addr # m /\ table'[m][i].gateway_addr # m
              /\ <<m, table'[m][i].gateway_addr>> \in heard'
<1>1. /\ StateType /\ table[m] \in Tables /\ time[m] \in 0..(Word - 1)
      /\ Fresh(table[m], time[m]) /\ Once(table[m])
  BY DEF MeshInv, StateType
<1>2. heard \subseteq heard'
  BY <1>1, HistoryGrows
<1>3. \A i \in DOMAIN table[m] :
        /\ table[m][i].target_addr # m /\ table[m][i].gateway_addr # m
        /\ <<m, table[m][i].gateway_addr>> \in heard'
  BY <1>2 DEF MeshInv, Outward, GatewaysHeardUs
<1>4. CASE Kept(m)
  BY <1>1, <1>3, <1>4 DEF Kept
<1>5. CASE PurgedNow(m)
  <2> DEFINE u == table'[m]
             now == time'[m]
  <2>1. u = Purged(table[m], now)
    BY <1>5 DEF PurgedNow
  <2> HIDE DEF u, now
  <2>2. u \in Tables /\ Fresh(u, now) /\ Once(u)
        /\ \A j \in DOMAIN u : \E i \in DOMAIN table[m] : u[j] = table[m][i]
    BY <1>1, <2>1, PurgedTable
  <2>3. \A j \in DOMAIN u : u[j].target_addr # m /\ u[j].gateway_addr # m
                            /\ <<m, u[j].gateway_addr>> \in heard'
    BY <1>3, <2>2
  <2> QED
    BY <2>2, <2>3 DEF u, now
<1>6. CASE SavedNow(m)
  <2>1. PICK target \in Node, gateway \in Node, number \in 0..(Word - 1) :
          Learned(m, target, gateway, number)
    BY <1>6 DEF SavedNow
  <2> DEFINE u == table'[m]
             now == time[m]
  <2>2. /\ u = route_save_or_update(table[m], target, gateway, number, now)
        /\ time'[m] = now /\ target # m /\ gateway # m /\ <<m, gateway>> \in heard'
    BY <1>2, <2>1 DEF Learned
  <2>3. now \in 0..(Word - 1)
    BY <1>1
  <2> HIDE DEF u
  <2>4. /\ u \in Tables /\ Once(u)
        /\ \A i \in DOMAIN u :
             (i \in DOMAIN table[m] /\ u[i] = table[m][i]) \/ IsNew(u[i], target, gateway, now)
    BY <1>1, <2>2, <2>3, SavedTable
  <2>5. \A i \in DOMAIN u : u[i].target_addr # m /\ u[i].gateway_addr # m
                            /\ <<m, u[i].gateway_addr>> \in heard'
    BY <1>3, <2>2, <2>4 DEF IsNew
  <2>6. Minus(now, now) = 0 /\ 0 <= PURGE_TIMEOUT
    BY <2>3, Words
  <2>7. Fresh(u, now)
    BY <1>1, <2>4, <2>6 DEF Fresh, IsNew
  <2> QED
    BY <2>2, <2>4, <2>5, <2>7 DEF u
<1> QED
  BY <1>4, <1>5, <1>6, TableStep

-----------------------------------------------------------------------------
(* What a step does to the packets.                                        *)

Relays(n, p) == Acceptable(n, p) /\ p.originator # n /\ ~ p.unidirectional

(* A packet n makes in a step.                                             *)
Made(n, q) ==
  \/ q = Ogm(n, seqno[n])
  \/ \E target \in Node : /\ <<n, target>> \in Talks /\ route_present(table[n], target)
                          /\ q = Unicast(n, target, Gateway(table[n], target))
  \/ /\ slot[n].type = "OGM" /\ Relays(n, slot[n]) /\ OgmArrives(n)
     /\ q = Rebroadcast(n, slot[n])
  \/ slot[n].type = "UNICAST" /\ Forwards(n, slot[n]) /\ q = Forwarded(n, slot[n])
  \/ pt_rx[n].packet.type = "UNICAST" /\ q = Resent(pt_rx[n].packet)

(* An OGM that came from its originator was heard from him.                *)
LEMMA MadeOgm ==
  ASSUME MeshInv, NEW n \in Node, slot[n].type = "OGM", Relays(n, slot[n])
  PROVE  LET q == Rebroadcast(n, slot[n]) IN
         /\ q \in Ogms /\ Counted(q) /\ Confirmed(q) /\ q.sender = n
         /\ q.originator = slot[n].originator /\ q.originator # n
<1> DEFINE p == slot[n]
<1>1. p \in Ogms
  BY OgmInSlot DEF MeshInv
<1>2. Counted(p) /\ p.ttl > 0 /\ p.originator # n
  BY DEF MeshInv, Packets, Relays, Acceptable
<1>3. p.sender = p.originator => <<p.originator, n>> \in heard
  BY DEF MeshInv, Signed
<1> HIDE DEF p
<1>4. /\ Rebroadcast(n, p) \in Ogms /\ Counted(Rebroadcast(n, p))
      /\ Confirmed(Rebroadcast(n, p)) /\ Rebroadcast(n, p).sender = n
      /\ Rebroadcast(n, p).originator = p.originator
  BY <1>1, <1>2, <1>3, RebroadcastOgm
<1> QED
  BY <1>2, <1>4 DEF p

LEMMA MadeMessage ==
  ASSUME MeshInv, NEW n \in Node, slot[n].type = "UNICAST", Forwards(n, slot[n])
  PROVE  LET q == Forwarded(n, slot[n]) IN
         /\ q \in Messages /\ Counted(q) /\ q.sender = n
         /\ q.target = slot[n].target /\ q.gateway = Gateway(table[n], slot[n].target)
<1> DEFINE p == slot[n]
<1>1. p \in Messages /\ table[n] \in Tables
  BY MessageInSlot DEF MeshInv, StateType
<1>2. Counted(p)
  BY DEF MeshInv, Packets
<1> HIDE DEF p
<1>3. Forwards(n, p) => /\ Forwarded(n, p) \in Messages /\ Counted(Forwarded(n, p))
                        /\ Forwarded(n, p).sender = n /\ Forwarded(n, p).target = p.target
                        /\ Forwarded(n, p).gateway = Gateway(table[n], p.target)
  BY <1>1, <1>2, ForwardedMessage
<1> QED
  BY <1>3 DEF p

LEMMA MadeAgain ==
  ASSUME MeshInv, NEW n \in Node, pt_rx[n].packet.type = "UNICAST"
  PROVE  LET p == pt_rx[n].packet
             q == Resent(p) IN
         /\ p \in Packets /\ q \in Messages /\ Counted(q)
         /\ q.sender = p.sender /\ q.target = p.target /\ q.gateway = p.gateway
<1> DEFINE p == pt_rx[n].packet
<1>1. p \in Messages
  BY PacketKinds DEF MeshInv, StateType
<1>2. p \in Packets /\ Counted(p)
  BY DEF MeshInv, Packets
<1> HIDE DEF p
<1>3. /\ Resent(p) \in Messages /\ Counted(Resent(p))
      /\ Resent(p).sender = p.sender /\ Resent(p).target = p.target
      /\ Resent(p).gateway = p.gateway
  BY <1>1, <1>2, ResentMessage
<1> QED
  BY <1>2, <1>3 DEF p

LEMMA GatewayNode ==
  ASSUME NEW t \in Tables, NEW target, route_present(t, target)
  PROVE  Gateway(t, target) \in Node
<1>1. t \in Seq(route_t(Node)) /\ DOMAIN t = 1..Len(t)
  BY LenProperties DEF Tables
<1>2. \A i \in DOMAIN t : t[i] \in route_t(Node)
  BY <1>1, ElementOfSeq
<1>3. \A i \in DOMAIN t : t[i].gateway_addr \in Node
  BY <1>2 DEF route_t
<1> QED
  BY <1>3, GatewayOfRoute

LEMMA MadePacket ==
  ASSUME MeshInv, NEW n \in Node, NEW q, Made(n, q)
  PROVE  q \in Ogms \cup Messages /\ Counted(q) /\ Confirmed(q)
<1>1. table[n] \in Tables /\ seqno[n] \in 0..(Word - 1)
  BY DEF MeshInv, StateType
<1>2. CASE q = Ogm(n, seqno[n])
  BY <1>1, <1>2, OwnOgm
<1>3. CASE \E target \in Node : /\ route_present(table[n], target)
                                /\ q = Unicast(n, target, Gateway(table[n], target))
  <2>1. PICK target \in Node : /\ route_present(table[n], target)
                               /\ q = Unicast(n, target, Gateway(table[n], target))
    BY <1>3
  <2>2. Gateway(table[n], target) \in Node
    BY <1>1, <2>1, GatewayNode
  <2>3. q \in Messages /\ Counted(q) /\ q.type = "UNICAST"
    BY <2>1, <2>2, OwnMessage
  <2> QED
    BY <2>3 DEF Confirmed
<1>4. CASE slot[n].type = "OGM" /\ Relays(n, slot[n]) /\ q = Rebroadcast(n, slot[n])
  BY <1>4, MadeOgm
<1>5. CASE slot[n].type = "UNICAST" /\ Forwards(n, slot[n]) /\ q = Forwarded(n, slot[n])
  <2>1. q \in Messages /\ Counted(q)
    BY <1>5, MadeMessage
  <2> QED
    BY <2>1, PacketKinds DEF Confirmed
<1>6. CASE pt_rx[n].packet.type = "UNICAST" /\ q = Resent(pt_rx[n].packet)
  <2>1. q \in Messages /\ Counted(q)
    BY <1>6, MadeAgain
  <2> QED
    BY <2>1, PacketKinds DEF Confirmed
<1> QED
  BY <1>2, <1>3, <1>4, <1>5, <1>6 DEF Made

(* The three places a packet may be in, after a step.                      *)
LEMMA NextTalk ==
  ASSUME MeshInv, [Next]_vars
  PROVE  /\ talk' \in [Node -> {Empty} \cup Messages]
         /\ \A m \in Node : talk'[m] \in {talk[m], Empty} \/ Made(m, talk'[m])
<1>1. talk \in [Node -> {Empty} \cup Messages] /\ table \in [Node -> Tables]
  BY DEF MeshInv, StateType
<1>2. CASE talk' = talk
  BY <1>1, <1>2
<1>3. ASSUME NEW n \in Node, NEW target \in Node, Talk(n, target) PROVE
        /\ talk' \in [Node -> {Empty} \cup Messages]
        /\ \A m \in Node : talk'[m] \in {talk[m], Empty} \/ Made(m, talk'[m])
  <2> DEFINE q == Unicast(n, target, Gateway(table[n], target))
  <2>1. route_present(table[n], target) /\ talk' = [talk EXCEPT ![n] = q]
        /\ <<n, target>> \in Talks
    BY <1>3 DEF Talk
  <2>2. Gateway(table[n], target) \in Node
    BY <1>1, <2>1, GatewayNode
  <2>3. q \in Messages /\ Made(n, q)
    BY <2>1, <2>2, OwnMessage DEF Made
  <2> HIDE DEF q
  <2> QED
    BY <1>1, <2>1, <2>3
<1>4. ASSUME NEW n \in Node, SendTalk(n) \/ TalkTakesEnd(n) PROVE
        /\ talk' \in [Node -> {Empty} \cup Messages]
        /\ \A m \in Node : talk'[m] \in {talk[m], Empty}
  <2>1. talk' = talk \/ talk' = [talk EXCEPT ![n] = Empty]
    BY <1>4 DEF SendTalk, TalkTakesEnd, TalkDone
  <2> QED
    BY <1>1, <2>1
<1> QED
  BY <1>2, <1>3, <1>4
     DEF Next, vars, Second, ShellSecond, OgmDue, SendOgm, OgmTakesEnd, OgmArrives,
         UnicastArrives, SendOn, Show

LEMMA NextRx ==
  ASSUME MeshInv, [Next]_vars
  PROVE  /\ pt_rx' \in [Node -> [at : {"wait", "send", "show"}, packet : Held]]
         /\ \A m \in Node :
              /\ pt_rx'[m].at = "wait" <=> pt_rx'[m].packet = Empty
              /\ \/ pt_rx'[m] = pt_rx[m] \/ pt_rx'[m].packet \in {Empty, slot[m]}
                 \/ Made(m, pt_rx'[m].packet)
              /\ pt_rx'[m].packet.type = "OGM" =>
                   pt_rx'[m].packet.sender = m /\ pt_rx'[m].packet.originator # m
<1> DEFINE Places == [at : {"wait", "send", "show"}, packet : Held]
           Fits(m, r) == /\ r.at = "wait" <=> r.packet = Empty
                         /\ \/ r = pt_rx[m] \/ r.packet \in {Empty, slot[m]}
                            \/ Made(m, r.packet)
                         /\ r.packet.type = "OGM" =>
                              r.packet.sender = m /\ r.packet.originator # m
<1>1. /\ StateType /\ pt_rx \in [Node -> Places]
      /\ \A m \in Node : Fits(m, pt_rx[m])
  BY DEF MeshInv, StateType, Signed
<1>2. ASSUME NEW n \in Node, NEW r \in Places, Fits(n, r), pt_rx' = [pt_rx EXCEPT ![n] = r]
      PROVE  pt_rx' \in [Node -> Places] /\ \A m \in Node : Fits(m, pt_rx'[m])
  <2> HIDE DEF Places, Fits
  <2> QED
    BY <1>1, <1>2
<1>3. \A m \in Node : Waiting \in Places /\ Fits(m, Waiting)
  BY PacketKinds DEF Waiting, Held
<1>4. ASSUME NEW n \in Node, NEW q \in Held, q # Empty, q = slot[n] \/ Made(n, q),
             q.type = "OGM" => q.sender = n /\ q.originator # n
      PROVE  /\ Sending(q) \in Places /\ Fits(n, Sending(q))
             /\ Showing(q) \in Places /\ Fits(n, Showing(q))
  BY <1>4 DEF Sending, Showing
<1> HIDE DEF Places, Fits
<1>5. pt_rx' = pt_rx => pt_rx' \in [Node -> Places] /\ \A m \in Node : Fits(m, pt_rx'[m])
  BY <1>1
<1>6. ASSUME NEW n \in Node, OgmArrives(n)
      PROVE  pt_rx' = pt_rx \/ \E r \in Places : Fits(n, r) /\ pt_rx' = [pt_rx EXCEPT ![n] = r]
  <2> DEFINE q == Rebroadcast(n, slot[n])
  <2>1. slot[n].type = "OGM"
    BY <1>6 DEF OgmArrives
  <2>2. \/ pt_rx' = pt_rx
        \/ Relays(n, slot[n]) /\ pt_rx' = [pt_rx EXCEPT ![n] = Sending(q)]
    BY <1>6 DEF OgmArrives, OwnOgmDirect, ForeignOgm, Relays
  <2>3. ASSUME Relays(n, slot[n]) PROVE Sending(q) \in Places /\ Fits(n, Sending(q))
    <3>1. q \in Ogms /\ q.sender = n /\ q.originator # n /\ Made(n, q)
      BY <1>6, <2>1, <2>3, MadeOgm DEF Made
    <3> HIDE DEF q
    <3> QED
      BY <1>4, <3>1, PacketKinds DEF Held
  <2> HIDE DEF q
  <2> QED
    BY <2>2, <2>3
<1>7. ASSUME NEW n \in Node, UnicastArrives(n)
      PROVE  pt_rx' = pt_rx \/ \E r \in Places : Fits(n, r) /\ pt_rx' = [pt_rx EXCEPT ![n] = r]
  <2> DEFINE p == slot[n]
             q == Forwarded(n, slot[n])
  <2>1. p \in Messages /\ p.type = "UNICAST"
    BY <1>1, <1>7, MessageInSlot DEF UnicastArrives
  <2>2. \/ pt_rx' = [pt_rx EXCEPT ![n] = Showing(p)]
        \/ Forwards(n, p) /\ pt_rx' = [pt_rx EXCEPT ![n] = Sending(q)]
        \/ pt_rx' = pt_rx
    BY <1>1, <1>7 DEF UnicastArrives
  <2>3. Showing(p) \in Places /\ Fits(n, Showing(p))
    BY <1>4, <2>1, PacketKinds DEF Held
  <2>4. ASSUME Forwards(n, p) PROVE Sending(q) \in Places /\ Fits(n, Sending(q))
    <3>1. q \in Messages /\ Made(n, q)
      BY <2>1, <2>4, MadeMessage DEF Made
    <3> HIDE DEF q
    <3> QED
      BY <1>4, <3>1, PacketKinds DEF Held
  <2> HIDE DEF p, q
  <2> QED
    BY <2>2, <2>3, <2>4
<1>8. ASSUME NEW n \in Node, SendOn(n) \/ Show(n) \/ SendOgm(n) \/ SendTalk(n)
      PROVE  pt_rx' = pt_rx \/ pt_rx' = [pt_rx EXCEPT ![n] = Waiting]
  BY <1>8 DEF SendOn, Show, SendOgm, SendTalk, TellsRx
<1>10. ASSUME NEW n \in Node, SendsAgain(n)
       PROVE  \E r \in Places : Fits(n, r) /\ pt_rx' = [pt_rx EXCEPT ![n] = r]
  <2> DEFINE q == Resent(pt_rx[n].packet)
  <2>1. pt_rx[n].packet.type = "UNICAST" /\ pt_rx' = [pt_rx EXCEPT ![n] = Sending(q)]
    BY <1>1, <1>10 DEF SendsAgain, Joins, Places
  <2>2. q \in Messages /\ Made(n, q)
    BY <2>1, MadeAgain DEF Made
  <2> HIDE DEF q
  <2>3. Sending(q) \in Places /\ Fits(n, Sending(q))
    BY <1>4, <2>2, PacketKinds DEF Held
  <2> QED
    BY <2>1, <2>3
<1>9. pt_rx' \in [Node -> Places] /\ \A m \in Node : Fits(m, pt_rx'[m])
  <2>1. \/ pt_rx' = pt_rx
        \/ \E n \in Node : \/ OgmArrives(n) \/ UnicastArrives(n)
                           \/ SendOn(n) \/ Show(n) \/ SendOgm(n) \/ SendTalk(n)
                           \/ SendsAgain(n)
    BY DEF Next, vars, Second, ShellSecond, OgmDue, OgmTakesEnd, Talk, TalkTakesEnd
  <2>2. \/ pt_rx' = pt_rx
        \/ \E n \in Node : \E r \in Places : Fits(n, r) /\ pt_rx' = [pt_rx EXCEPT ![n] = r]
    BY <2>1, <1>3, <1>6, <1>7, <1>8, <1>10
  <2> QED
    BY <1>2, <1>5, <2>2
<1> QED
  BY <1>9 DEF Places, Fits

LEMMA NextSlot ==
  ASSUME MeshInv, [Next]_vars
  PROVE  /\ slot' \in [Node -> Held] /\ heard' \subseteq Links
         /\ \A m \in Node :
              /\ slot'[m] \in Packets \cup {Empty} \/ \E n \in Node : Made(n, slot'[m])
              /\ slot'[m].type = "OGM" /\ slot'[m].sender = slot'[m].originator =>
                   <<slot'[m].sender, m>> \in heard'
<1> DEFINE Fits(m, q) == /\ q \in Packets \cup {Empty} \/ \E n \in Node : Made(n, q)
                         /\ q.type = "OGM" /\ q.sender = q.originator =>
                              <<q.sender, m>> \in heard'
<1>1. /\ StateType /\ slot \in [Node -> Held] /\ heard \subseteq Links
      /\ heard \subseteq heard' /\ \A m \in Node : Fits(m, slot[m])
  BY HistoryGrows DEF MeshInv, StateType, Signed, Packets
<1>2. \A m \in Node : Empty \in Held /\ Fits(m, Empty)
  BY PacketKinds DEF Held
<1>3. ASSUME NEW n \in Node, NEW q \in Ogms \cup Messages, Broadcast(n, q),
             q \in Packets \/ Made(n, q),
             q.type = "OGM" => q.sender = n
      PROVE  /\ slot' \in [Node -> Held] /\ heard' \subseteq Links
             /\ \A m \in Node : Fits(m, slot'[m])
  <2>1. /\ slot' \in [Node -> Held] /\ heard' \subseteq Links
        /\ \A m \in Node : \/ slot'[m] = slot[m]
                           \/ /\ slot'[m] = q
                              /\ q.type = "OGM" /\ q.originator = n => <<n, m>> \in heard'
    BY <1>1, <1>3, Channel
  <2>2. \A m \in Node : slot'[m] = q /\ (q.type = "OGM" /\ q.originator = n => <<n, m>> \in heard')
                          => Fits(m, slot'[m])
    BY <1>3
  <2> HIDE DEF Fits
  <2> QED
    BY <1>1, <2>1, <2>2
<1> HIDE DEF Fits
<1>4. ASSUME NEW n \in Node, SendOgm(n)
      PROVE  slot' \in [Node -> Held] /\ heard' \subseteq Links /\ \A m \in Node : Fits(m, slot'[m])
  <2>1. seqno[n] \in 0..(Word - 1)
    BY <1>1 DEF StateType
  <2> QED
    BY <1>3, <1>4, <2>1, OwnOgm DEF SendOgm, Made
<1>5. ASSUME NEW n \in Node, SendOn(n) \/ SendsAgain(n)
      PROVE  slot' \in [Node -> Held] /\ heard' \subseteq Links /\ \A m \in Node : Fits(m, slot'[m])
  <2> DEFINE q == pt_rx[n].packet
  <2>1. q \in Held /\ q # Empty /\ (q.type = "OGM" => q.sender = n) /\ q \in Packets
    BY <1>1, <1>5 DEF SendOn, SendsAgain, Joins, StateType, MeshInv, Signed, Packets
  <2>2. Broadcast(n, q)
    BY <1>5 DEF SendOn, SendsAgain
  <2> HIDE DEF q
  <2> QED
    BY <1>3, <2>1, <2>2, PacketKinds
<1>6. ASSUME NEW n \in Node, SendTalk(n)
      PROVE  slot' \in [Node -> Held] /\ heard' \subseteq Links /\ \A m \in Node : Fits(m, slot'[m])
  <2>1. talk[n] \in Messages /\ talk[n] \in Packets /\ Broadcast(n, talk[n])
    BY <1>1, <1>6 DEF SendTalk, StateType, Packets
  <2> QED
    BY <1>3, <2>1, PacketKinds
<1>7. ASSUME NEW n \in Node, OgmArrives(n) \/ UnicastArrives(n)
      PROVE  slot' \in [Node -> Held] /\ heard' \subseteq Links /\ \A m \in Node : Fits(m, slot'[m])
  <2>1. slot' = [slot EXCEPT ![n] = Empty] /\ heard' = heard
    BY <1>7 DEF OgmArrives, UnicastArrives
  <2> QED
    BY <1>1, <1>2, <2>1
<1>8. slot' = slot /\ heard' = heard
        => slot' \in [Node -> Held] /\ heard' \subseteq Links /\ \A m \in Node : Fits(m, slot'[m])
  BY <1>1
<1>9. slot' \in [Node -> Held] /\ heard' \subseteq Links /\ \A m \in Node : Fits(m, slot'[m])
  <2>1. \/ slot' = slot /\ heard' = heard
        \/ \E n \in Node : \/ SendOgm(n) \/ SendOn(n) \/ SendTalk(n) \/ SendsAgain(n)
                           \/ OgmArrives(n) \/ UnicastArrives(n)
    BY DEF Next, vars, Second, ShellSecond, OgmDue, OgmTakesEnd, Talk, TalkTakesEnd, Show
  <2> QED
    BY <2>1, <1>4, <1>5, <1>6, <1>7, <1>8
<1> QED
  BY <1>9 DEF Fits

(* A packet is one that was there before, or one that a node has made.     *)
LEMMA PacketStep ==
  ASSUME MeshInv, [Next]_vars, NEW q \in Packets'
  PROVE  q \in Packets \cup {Empty} \/ \E n \in Node : Made(n, q)
<1>1. PICK n \in Node : q = slot'[n] \/ q = talk'[n] \/ q = pt_rx'[n].packet
  BY DEF Packets
<1>2. CASE q = slot'[n]
  BY <1>2, NextSlot
<1>3. CASE q = talk'[n]
  <2>1. talk'[n] \in {talk[n], Empty} \/ Made(n, talk'[n])
    BY NextTalk
  <2> QED
    BY <1>3, <2>1 DEF Packets
<1>4. CASE q = pt_rx'[n].packet
  <2>1. pt_rx'[n] = pt_rx[n] \/ pt_rx'[n].packet \in {Empty, slot[n]}
        \/ Made(n, pt_rx'[n].packet)
    BY NextRx
  <2> QED
    BY <1>4, <2>1 DEF Packets
<1> QED
  BY <1>1, <1>2, <1>3, <1>4

-----------------------------------------------------------------------------
(* The invariant is inductive.                                             *)

LEMMA MeshInit == Init => MeshInv
<1> SUFFICES ASSUME Init PROVE MeshInv
  OBVIOUS
<1>1. /\ <<>> \in Tables /\ DOMAIN <<>> = {}
  BY EmptySeq, Words DEF Tables
<1>2. Start \in 0..(Word - 1) /\ BI_LINK_TIMEOUT + 1 \in 0..(BI_LINK_TIMEOUT + 1)
  BY MeshAssumption
<1>3. Empty \in Held /\ Waiting \in [at : {"wait", "send", "show"}, packet : Held]
  BY DEF Held, Waiting
<1>4. StateType
  BY <1>1, <1>2, <1>3 DEF Init, StateType, Waiting
<1>5. Packets \subseteq {Empty}
  BY DEF Init, Packets, Waiting
<1>6. Signed
  BY PacketKinds DEF Init, Signed, Waiting
<1>7. \A n \in Node : DOMAIN table[n] = {}
  BY <1>1 DEF Init
<1>8. Outward /\ GatewaysHeardUs /\ \A n \in Node : Fresh(table[n], time[n]) /\ Once(table[n])
  BY <1>7 DEF Outward, GatewaysHeardUs, Fresh, Once
<1>9. \A p \in Packets : Counted(p) /\ Confirmed(p)
  BY <1>5, PacketKinds DEF Counted, Confirmed
<1>10. Owned
  BY DEF Init, Owned
<1> QED
  BY <1>4, <1>6, <1>8, <1>9, <1>10 DEF MeshInv

LEMMA NextClocks ==
  ASSUME StateType, [Next]_vars
  PROVE  /\ time' \in [Node -> 0..(Word - 1)] /\ seqno' \in [Node -> 0..(Word - 1)]
         /\ send_ogm' \in [Node -> BOOLEAN] /\ pt_thread' \in [Node -> {"idle", "due"}]
         /\ age' \in [Node \X Node -> 0..(BI_LINK_TIMEOUT + 1)]
<1>1. \A w \in 0..(Word - 1) : Inc(w) \in 0..(Word - 1)
  BY Words
<1>2. ASSUME NEW n \in Node, Second(n)
      PROVE  age' \in [Node \X Node -> 0..(BI_LINK_TIMEOUT + 1)]
  <2>1. \A l \in Node \X Node : age[l] \in 0..(BI_LINK_TIMEOUT + 1)
    BY DEF StateType
  <2>2. \A w \in 0..(BI_LINK_TIMEOUT + 1) :
          w <= BI_LINK_TIMEOUT => w + 1 \in 0..(BI_LINK_TIMEOUT + 1)
    BY MeshAssumption
  <2>3. \A l \in Node \X Node :
          (IF l[1] = n /\ age[l] <= BI_LINK_TIMEOUT THEN age[l] + 1 ELSE age[l])
            \in 0..(BI_LINK_TIMEOUT + 1)
    BY <2>1, <2>2
  <2> QED
    BY <1>2, <2>3 DEF Second
<1>3. ASSUME NEW n \in Node, OgmArrives(n)
      PROVE  age' \in [Node \X Node -> 0..(BI_LINK_TIMEOUT + 1)]
  <2>1. age' = age \/ age' = [age EXCEPT ![<<n, slot[n].sender>>] = 0]
    BY <1>3 DEF OgmArrives, OwnOgmDirect, ForeignOgm
  <2>2. 0 \in 0..(BI_LINK_TIMEOUT + 1)
    BY MeshAssumption
  <2> QED
    BY <2>1, <2>2 DEF StateType
<1>4. CASE UNCHANGED vars
  BY <1>4 DEF vars, StateType
<1>5. CASE Next
  <2>1. PICK n \in Node :
          \/ Second(n) \/ ShellSecond(n) \/ OgmDue(n) \/ SendOgm(n) \/ OgmTakesEnd(n)
          \/ OgmArrives(n) \/ UnicastArrives(n) \/ SendOn(n) \/ Show(n)
          \/ \E target \in Node : Talk(n, target)
          \/ SendTalk(n) \/ TalkTakesEnd(n)
    BY <1>5 DEF Next
  <2>2. CASE Second(n)
    BY <1>1, <1>2, <2>2 DEF Second, StateType
  <2>3. CASE ShellSecond(n) \/ OgmDue(n)
    BY <2>3 DEF ShellSecond, OgmDue, StateType
  <2>4. CASE SendOgm(n) \/ OgmTakesEnd(n)
    <3>1. /\ time' = time /\ send_ogm' = send_ogm /\ age' = age
          /\ \/ seqno' = seqno /\ pt_thread' = pt_thread
             \/ /\ seqno' = [seqno EXCEPT ![n] = Inc(@)]
                /\ pt_thread' = [pt_thread EXCEPT ![n] = "idle"]
      BY <2>4 DEF SendOgm, OgmTakesEnd, OgmDone
    <3>2. time \in [Node -> 0..(Word - 1)] /\ seqno \in [Node -> 0..(Word - 1)]
          /\ send_ogm \in [Node -> BOOLEAN] /\ pt_thread \in [Node -> {"idle", "due"}]
          /\ age \in [Node \X Node -> 0..(BI_LINK_TIMEOUT + 1)]
      BY DEF StateType
    <3>3. Inc(seqno[n]) \in 0..(Word - 1)
      BY <1>1, <3>2
    <3>4. [seqno EXCEPT ![n] = Inc(@)] \in [Node -> 0..(Word - 1)]
      BY <3>2, <3>3
    <3>5. [pt_thread EXCEPT ![n] = "idle"] \in [Node -> {"idle", "due"}]
      BY <3>2
    <3> QED
      BY <3>1, <3>2, <3>4, <3>5
  <2>5. CASE OgmArrives(n)
    BY <1>3, <2>5 DEF OgmArrives, StateType
  <2>6. CASE UnicastArrives(n) \/ SendOn(n) \/ Show(n) \/ SendTalk(n) \/ TalkTakesEnd(n)
    BY <2>6 DEF UnicastArrives, SendOn, Show, SendTalk, TalkTakesEnd, StateType
  <2>7. CASE \E target \in Node : Talk(n, target)
    BY <2>7 DEF Talk, StateType
  <2> QED
    BY <2>1, <2>2, <2>3, <2>4, <2>5, <2>6, <2>7
<1> QED
  BY <1>4, <1>5

LEMMA NextMutex ==
  ASSUME MeshInv, [Next]_vars
  PROVE  mutex' \in [Node -> {"free", "shell", "batman"}] /\ Owned'
<1> DEFINE Holders == [Node -> {"free", "shell", "batman"}]
<1>1. /\ mutex \in Holders /\ Owned
      /\ pt_thread \in [Node -> {"idle", "due"}] /\ talk \in [Node -> {Empty} \cup Messages]
      /\ table \in [Node -> Tables]
  BY DEF MeshInv, StateType
<1>2. CASE UNCHANGED <<mutex, talk, pt_thread>>
  BY <1>1, <1>2 DEF Owned
<1>3. ASSUME NEW n \in Node, OgmDue(n) PROVE mutex' \in Holders /\ Owned'
  BY <1>1, <1>3 DEF OgmDue, Owned
<1>4. ASSUME NEW n \in Node, SendOgm(n) \/ OgmTakesEnd(n)
      PROVE  mutex' \in Holders /\ Owned'
  <2>1. /\ pt_thread[n] = "due" /\ talk' = talk
        /\ \/ /\ pt_thread' = [pt_thread EXCEPT ![n] = "idle"]
              /\ mutex' = [mutex EXCEPT ![n] = "free"]
           \/ pt_thread' = pt_thread /\ mutex' = [mutex EXCEPT ![n] = "batman"]
    BY <1>4 DEF SendOgm, OgmTakesEnd, OgmDone, TellsRx
  <2> QED
    BY <1>1, <2>1 DEF Owned
<1>5. ASSUME NEW n \in Node, SendTalk(n) \/ TalkTakesEnd(n)
      PROVE  mutex' \in Holders /\ Owned'
  <2>1. /\ talk[n] # Empty /\ pt_thread' = pt_thread
        /\ \/ /\ talk' = [talk EXCEPT ![n] = Empty]
              /\ mutex' = [mutex EXCEPT ![n] = "free"]
           \/ talk' = talk /\ mutex' = [mutex EXCEPT ![n] = "shell"]
    BY <1>5 DEF SendTalk, TalkTakesEnd, TalkDone, TellsRx
  <2> QED
    BY <1>1, <2>1 DEF Owned
<1>6. ASSUME NEW n \in Node, NEW target \in Node, Talk(n, target)
      PROVE  mutex' \in Holders /\ Owned'
  <2> DEFINE q == Unicast(n, target, Gateway(table[n], target))
  <2>1. /\ route_present(table[n], target) /\ talk' = [talk EXCEPT ![n] = q]
        /\ mutex' = mutex /\ pt_thread' = pt_thread
    BY <1>6 DEF Talk
  <2>2. Gateway(table[n], target) \in Node
    BY <1>1, <2>1, GatewayNode
  <2>3. q # Empty
    BY <2>2, OwnMessage, PacketKinds
  <2> HIDE DEF q
  <2> QED
    BY <1>1, <2>1, <2>3 DEF Owned
<1> QED
  BY <1>2, <1>3, <1>4, <1>5, <1>6
     DEF Next, vars, Second, ShellSecond, OgmArrives, UnicastArrives, SendOn, Show

LEMMA NextRouted ==
  ASSUME MeshInv, [Next]_vars
  PROVE  table' \in [Node -> Tables] /\ routed' \subseteq Node \X Node
<1>1. table \in [Node -> Tables] /\ routed \subseteq Node \X Node
  BY DEF MeshInv, StateType
<1>2. \E t : table' = [n \in Node |-> t[n]]
  <2>1. table' = table \/ \E n \in Node : \E t : table' = [table EXCEPT ![n] = t]
    BY DEF Next, vars, Second, ShellSecond, OgmDue, SendOgm, OgmTakesEnd, OgmArrives,
           OwnOgmDirect, ForeignOgm, Save, UnicastArrives, SendOn, Show, Talk, SendTalk,
           TalkTakesEnd
  <2>2. table' = table \/ \E n \in Node : \E t : table' = [m \in Node |-> IF m = n THEN t ELSE table[m]]
    BY <1>1, <2>1
  <2> QED
    BY <1>1, <2>2
<1>3. table' \in [Node -> Tables]
  BY <1>2, NextTables
<1>4. ASSUME NEW n \in Node, OgmArrives(n) PROVE routed' \subseteq Node \X Node
  <2>1. table'[n] \in Seq(route_t(Node)) /\ DOMAIN table'[n] = 1..Len(table'[n])
    BY <1>3, LenProperties DEF Tables
  <2>2. \A i \in DOMAIN table'[n] : table'[n][i] \in route_t(Node)
    BY <2>1, ElementOfSeq
  <2>3. \A i \in DOMAIN table'[n] : table'[n][i].target_addr \in Node
    BY <2>2 DEF route_t
  <2> QED
    BY <1>1, <1>4, <2>3 DEF OgmArrives
<1>5. routed' = routed \/ \E n \in Node : OgmArrives(n)
  BY DEF Next, vars, Second, ShellSecond, OgmDue, SendOgm, OgmTakesEnd, UnicastArrives,
         SendOn, Show, Talk, SendTalk, TalkTakesEnd
<1> QED
  BY <1>1, <1>3, <1>4, <1>5

LEMMA MeshNext == MeshInv /\ [Next]_vars => MeshInv'
<1> SUFFICES ASSUME MeshInv, [Next]_vars PROVE MeshInv'
  OBVIOUS
<1>1. StateType
  BY DEF MeshInv
<1>2. StateType'
  BY <1>1, NextClocks, NextMutex, NextRouted, NextTalk, NextRx, NextSlot DEF StateType
<1>3. Signed'
  BY NextRx, NextSlot DEF Signed
<1>4. Outward' /\ GatewaysHeardUs' /\ \A n \in Node : Fresh(table'[n], time'[n]) /\ Once(table'[n])
  BY NextTables DEF Outward, GatewaysHeardUs
<1>5. ASSUME NEW q \in Packets' PROVE Counted(q) /\ Confirmed(q)'
  <2>1. heard \subseteq heard'
    BY <1>1, HistoryGrows
  <2>2. Counted(q) /\ Confirmed(q)
    <3>1. CASE q \in Packets
      BY <3>1 DEF MeshInv
    <3>2. CASE q = Empty
      BY <3>2, PacketKinds DEF Counted, Confirmed
    <3>3. CASE \E n \in Node : Made(n, q)
      BY <3>3, MadePacket
    <3> QED
      BY <3>1, <3>2, <3>3, PacketStep
  <2> QED
    BY <2>1, <2>2 DEF Confirmed
<1> QED
  BY <1>2, <1>3, <1>4, <1>5, NextMutex DEF MeshInv

LEMMA MeshInvariant == Spec => []MeshInv
BY MeshInit, MeshNext, PTL DEF Spec

(* Every variable has its type, and a routing table no more entries than   *)
(* MAX_ROUTE_ENTRIES (batman.c:133).                                       *)
THEOREM TypeCorrect == Spec => []TypeOK
<1>1. MeshInv => TypeOK
  <2> SUFFICES ASSUME MeshInv PROVE TypeOK
    OBVIOUS
  <2>1. StateType
    BY DEF MeshInv
  <2>2. \A n \in Node : table[n] \in Seq(route_t(Node)) /\ Len(table[n]) <= MAX_ROUTE_ENTRIES
    BY <2>1 DEF StateType, Tables
  <2>3. \A p \in Packets : p \in Held
    BY <2>1 DEF StateType, Packets, Held
  <2>4. \A p \in Packets : p.type # "none" => p.ttl \in 0..255
    BY <2>3, PacketKinds DEF Ogms, Messages
  <2>5. \A n \in Node : talk[n].type \in {"none", "UNICAST"}
    BY <2>1, PacketKinds DEF StateType
  <2>6. \A n \in Node : mutex[n] \in {"free", "shell", "batman"}
    BY <2>1 DEF StateType
  <2> QED
    BY <2>1, <2>2, <2>4, <2>5, <2>6 DEF MeshInv, Owned, StateType, TypeOK
<1> QED
  BY <1>1, MeshInvariant, PTL

(* A node routes over a neighbour only if that neighbour has heard him     *)
(* (batman.c:182-199).                                                     *)
THEOREM GatewaysReachable == Spec => []GatewaysHeardUs
<1>1. MeshInv => GatewaysHeardUs
  BY DEF MeshInv
<1> QED
  BY <1>1, MeshInvariant, PTL

(* A table has one entry for a target and a gateway, and none that is out  *)
(* of date (batman.c:84-98, 116-167).                                      *)
THEOREM TablesStayTidy == Spec => []TablesTidy
<1>1. MeshInv => TablesTidy
  BY DEF MeshInv, TablesTidy, Fresh, Once
<1> QED
  BY <1>1, MeshInvariant, PTL

(* A message leaves room in the packet buffer for a header of each of the  *)
(* TTL + 1 nodes that can send it, as in the program, where the shell's    *)
(* line holds 80 bytes and CONFIG_TTL is 10.                               *)
RoomForHeaders ==
  BATMAN_HEADER_SIZE + MessageLength + BATMAN_HEADER_SIZE * TTL <= MaxLength

(* No more than TTL nodes send a packet on.  A message grows by at most a  *)
(* header whenever batman_rx sends it, and does not outgrow the packet     *)
(* buffer as long as no node had to send it again, because another thread  *)
(* was told of the end of its transmission (batman.c:177, 208, 251-253,    *)
(* 274, 307-308).                                                          *)
THEOREM PacketsStayBounded ==
  ASSUME RoomForHeaders
  PROVE  Spec => []PacketsBounded
<1>1. MeshInv => PacketsBounded
  <2> SUFFICES ASSUME MeshInv, NEW p \in Packets, p.type # "none"
               PROVE  /\ p.hops <= TTL
                      /\ p.type = "UNICAST" =>
                           /\ p.len <= BATMAN_HEADER_SIZE * (1 + p.hops + p.again) + MessageLength
                           /\ p.again = 0 => p.len <= MaxLength
    BY DEF PacketsBounded
  <2>1. p \in Ogms \cup Messages
    BY PacketKinds DEF MeshInv, StateType, Packets, Held
  <2>2. p.hops \in Nat /\ p.ttl \in Nat /\ TTL \in Nat /\ MessageLength \in Nat
    BY <2>1, MeshAssumption DEF Ogms, Messages
  <2>3. p.hops + p.ttl = TTL
    BY DEF MeshInv, Counted
  <2>4. p.hops <= TTL
    BY <2>2, <2>3
  <2>5. p.type = "UNICAST" =>
          p.len <= BATMAN_HEADER_SIZE * (1 + p.hops + p.again) + MessageLength
    BY DEF MeshInv, Counted
  <2>6. ASSUME p.type = "UNICAST", p.again = 0 PROVE p.len <= MaxLength
    <3>1. p.len = 10 * (1 + p.hops) + MessageLength
      BY <2>6 DEF MeshInv, Counted, BATMAN_HEADER_SIZE
    <3>2. 10 + MessageLength + 10 * TTL <= 252
      BY RoomForHeaders DEF RoomForHeaders, BATMAN_HEADER_SIZE, MaxLength
    <3> HIDE DEF RoomForHeaders
    <3>3. p.len <= 252
      BY <2>2, <2>4, <3>1, <3>2
    <3> QED
      BY <3>3 DEF MaxLength
  <2> QED
    BY <2>4, <2>5, <2>6
<1> QED
  BY <1>1, MeshInvariant, PTL

-----------------------------------------------------------------------------
(* Where routes and messages lead.                                         *)

(* A table has room for a route to every other node over every other node. *)
RoomForRoutes ==
  /\ IsFiniteSet(Node)
  /\ \A n \in Node : Cardinality((Node \ {n}) \X (Node \ {n})) <= MAX_ROUTE_ENTRIES

RoutesInv == RoutesLeadOn /\ MessagesLeadOn /\ \A p \in Packets : Announced(p)

(* A table that lacks a route is not full.                                 *)
LEMMA RoomLeft ==
  ASSUME RoomForRoutes, NEW n \in Node, NEW t \in Tables, Once(t),
         \A i \in DOMAIN t : t[i].target_addr # n /\ t[i].gateway_addr # n,
         NEW target \in Node \ {n}, NEW gateway \in Node \ {n},
         Over(t, target, gateway) = {}
  PROVE  Len(t) < MAX_ROUTE_ENTRIES
<1> DEFINE P == (Node \ {n}) \X (Node \ {n})
           Q == P \ {<<target, gateway>>}
           f == [i \in 1..Len(t) |-> <<t[i].target_addr, t[i].gateway_addr>>]
<1>1. /\ t \in Seq(route_t(Node)) /\ DOMAIN t = 1..Len(t) /\ Len(t) \in Nat
      /\ \A i \in DOMAIN t : t[i] \in route_t(Node)
      /\ Len(t) <= MAX_ROUTE_ENTRIES /\ MAX_ROUTE_ENTRIES \in Nat
  BY LenProperties, ElementOfSeq, Words DEF Tables
<1>2. IsFiniteSet(P) /\ Cardinality(P) \in Nat /\ Cardinality(P) <= MAX_ROUTE_ENTRIES
  <2>1. IsFiniteSet(Node) /\ Cardinality(P) <= MAX_ROUTE_ENTRIES
    BY RoomForRoutes DEF RoomForRoutes
  <2>2. IsFiniteSet(Node \ {n})
    BY <2>1, FS_RemoveElement
  <2> QED
    BY <2>1, <2>2, FS_Product, FS_CardinalityType
<1>3. IsFiniteSet(Q) /\ Cardinality(Q) = Cardinality(P) - 1
  <2>1. <<target, gateway>> \in P
    OBVIOUS
  <2> HIDE DEF P
  <2> QED
    BY <1>2, <2>1, FS_RemoveElement
<1>4. f \in [1..Len(t) -> Q]
  <2> SUFFICES ASSUME NEW i \in 1..Len(t)
               PROVE  <<t[i].target_addr, t[i].gateway_addr>> \in Q
    OBVIOUS
  <2>1. t[i].target_addr \in Node \ {n} /\ t[i].gateway_addr \in Node \ {n}
    BY <1>1 DEF route_t
  <2>2. ~ (t[i].target_addr = target /\ t[i].gateway_addr = gateway)
    BY <1>1 DEF Over, For
  <2> QED
    BY <2>1, <2>2
<1>5. ~ \E i, j \in 1..Len(t) : i # j /\ f[i] = f[j]
  BY <1>1 DEF Once
<1>6. IsFiniteSet(1..Len(t)) /\ Cardinality(1..Len(t)) = Len(t)
  <2>1. ASSUME NEW k \in Nat PROVE IsFiniteSet(1..k) /\ Cardinality(1..k) = k
    BY FS_Interval
  <2> QED
    BY <1>1, <2>1
<1> HIDE DEF P, Q, f
<1>7. ~ (Cardinality(Q) < Cardinality(1..Len(t)))
  BY <1>3, <1>4, <1>5, <1>6, FS_PigeonHole
<1>8. Len(t) <= Cardinality(P) - 1
  BY <1>1, <1>2, <1>3, <1>6, <1>7
<1> QED
  BY <1>1, <1>2, <1>8

(* Who passes an OGM on as a route has a route to its originator.          *)
LEMMA RelayedIsRouted ==
  ASSUME MeshInv, RoomForRoutes, NEW n \in Node, OgmArrives(n),
         slot[n].type = "OGM", Relays(n, slot[n]),
         ~ Rebroadcast(n, slot[n]).unidirectional
  PROVE  <<n, slot[n].originator>> \in routed'
<1> DEFINE p == slot[n]
           t == table[n]
           u == table'[n]
<1>1. /\ p \in Ogms /\ p.originator \in Node \ {n} /\ p.sender \in Node \ {n}
      /\ p.seqno \in 0..(Word - 1)
  BY OgmInSlot DEF MeshInv, Ogms, Relays, Acceptable
<1>2. route_is_bidirectional(t, p.sender)
  BY <1>1 DEF Rebroadcast, Ogms
<1>3. table' = [table EXCEPT ![n] =
                  route_save_or_update(@, p.originator, p.sender, p.seqno, time[n])]
  BY <1>2 DEF OgmArrives, ForeignOgm, Relays, Save
<1>4. /\ t \in Tables /\ time[n] \in 0..(Word - 1) /\ table \in [Node -> Tables] /\ Once(t)
      /\ \A i \in DOMAIN t : t[i].target_addr # n /\ t[i].gateway_addr # n
  BY DEF MeshInv, StateType, Outward
<1>5. u = route_save_or_update(t, p.originator, p.sender, p.seqno, time[n])
  BY <1>3, <1>4
<1>6. routed' = routed \cup {<<n, u[i].target_addr>> : i \in DOMAIN u}
  BY DEF OgmArrives
<1> HIDE DEF p, t, u
<1>7. Len(t) < MAX_ROUTE_ENTRIES \/ Over(t, p.originator, p.sender) # {}
  BY <1>1, <1>4, RoomLeft
<1>8. \E i \in DOMAIN u : IsNew(u[i], p.originator, p.sender, time[n])
  <2>1. p.originator \in Node /\ p.sender \in Node
    BY <1>1
  <2> QED
    BY <1>1, <1>4, <1>5, <1>7, <2>1, SavedTable
<1>9. <<n, p.originator>> \in routed'
  BY <1>6, <1>8 DEF IsNew
<1> QED
  BY <1>9 DEF p

LEMMA RoutesInit == Init => RoutesInv
<1> SUFFICES ASSUME Init PROVE RoutesInv
  OBVIOUS
<1>1. Packets \subseteq {Empty} /\ \A n \in Node : DOMAIN table[n] = {}
  BY EmptySeq DEF Init, Packets, Waiting
<1> QED
  BY <1>1, PacketKinds DEF RoutesInv, RoutesLeadOn, MessagesLeadOn, Announced

(* The gateway that is named for a route leads on to the target.           *)
LEMMA GatewayLeadsOn ==
  ASSUME MeshInv, RoutesLeadOn, NEW n \in Node, NEW target, route_present(table[n], target)
  PROVE  LET g == Gateway(table[n], target) IN
         <<n, g>> \in heard /\ (g # target => <<g, target>> \in routed)
<1>1. table[n] \in Tables
  BY DEF MeshInv, StateType
<1>2. PICK i \in DOMAIN table[n] : /\ table[n][i].target_addr = target
                                   /\ Gateway(table[n], target) = table[n][i].gateway_addr
  BY <1>1, GatewayOfRoute
<1> QED
  BY <1>2 DEF MeshInv, GatewaysHeardUs, RoutesLeadOn

LEMMA RoutesNext ==
  ASSUME RoomForRoutes, MeshInv, RoutesInv, [Next]_vars
  PROVE  RoutesInv'
<1>1. heard \subseteq heard' /\ routed \subseteq routed' /\ StateType
  BY HistoryGrows DEF MeshInv
<1>2. RoutesLeadOn'
  <2> SUFFICES ASSUME NEW n \in Node, NEW i \in DOMAIN table'[n],
                      table'[n][i].gateway_addr # table'[n][i].target_addr
               PROVE  <<table'[n][i].gateway_addr, table'[n][i].target_addr>> \in routed'
    BY DEF RoutesLeadOn
  <2> DEFINE LeadsOn(r) == r.gateway_addr # r.target_addr
                             => <<r.gateway_addr, r.target_addr>> \in routed'
  <2>1. \A j \in DOMAIN table[n] : LeadsOn(table[n][j])
    BY <1>1 DEF RoutesInv, RoutesLeadOn
  <2> DEFINE t == table[n]
             u == table'[n]
  <2>2. t \in Tables /\ time[n] \in 0..(Word - 1)
    BY <1>1 DEF StateType
  <2>3. CASE Kept(n)
    BY <2>1, <2>3 DEF Kept
  <2>4. CASE PurgedNow(n)
    <3>1. u = Purged(t, time'[n])
      BY <2>4 DEF PurgedNow
    <3> HIDE DEF u
    <3>2. \A j \in DOMAIN u : \E k \in DOMAIN t : u[j] = t[k]
      BY <2>2, <3>1, PurgedTable
    <3>3. \A j \in DOMAIN u : LeadsOn(u[j])
      BY <2>1, <3>2
    <3> QED
      BY <3>3 DEF u
  <2>5. CASE SavedNow(n)
    <3>1. PICK target \in Node, gateway \in Node, number \in 0..(Word - 1) :
            Learned(n, target, gateway, number)
      BY <2>5 DEF SavedNow
    <3>2. target # gateway => <<gateway, target>> \in routed'
      <4>1. ASSUME target # gateway
            PROVE  /\ slot[n].type = "OGM" /\ ~ slot[n].unidirectional
                   /\ slot[n].sender = gateway /\ slot[n].originator = target
        BY <3>1, <4>1 DEF Learned
      <4>2. Announced(slot[n])
        BY DEF RoutesInv, Packets
      <4> QED
        BY <1>1, <4>1, <4>2 DEF Announced
    <3>3. u = route_save_or_update(t, target, gateway, number, time[n])
      BY <3>1 DEF Learned
    <3> HIDE DEF u
    <3>4. \A j \in DOMAIN u :
            (j \in DOMAIN t /\ u[j] = t[j]) \/ IsNew(u[j], target, gateway, time[n])
      BY <2>2, <3>3, SavedTable
    <3>5. \A j \in DOMAIN u : LeadsOn(u[j])
      BY <2>1, <3>2, <3>4 DEF IsNew
    <3> QED
      BY <3>5 DEF u
  <2> QED
    BY <2>3, <2>4, <2>5, TableStep
<1>3. MessagesLeadOn'
  <2> SUFFICES ASSUME NEW q \in Packets', q.type = "UNICAST"
               PROVE  /\ <<q.sender, q.gateway>> \in heard'
                      /\ q.gateway # q.target => <<q.gateway, q.target>> \in routed'
    BY DEF MessagesLeadOn
  <2>1. CASE q \in Packets
    BY <1>1, <2>1 DEF RoutesInv, MessagesLeadOn
  <2>4. ASSUME NEW n \in Node, pt_rx[n].packet.type = "UNICAST",
               q = Resent(pt_rx[n].packet)
        PROVE  /\ <<q.sender, q.gateway>> \in heard'
               /\ q.gateway # q.target => <<q.gateway, q.target>> \in routed'
    <3>1. /\ pt_rx[n].packet \in Packets /\ q.sender = pt_rx[n].packet.sender
          /\ q.target = pt_rx[n].packet.target /\ q.gateway = pt_rx[n].packet.gateway
      BY <2>4, MadeAgain
    <3> QED
      BY <1>1, <2>4, <3>1 DEF RoutesInv, MessagesLeadOn
  <2>2. ASSUME NEW n \in Node, Made(n, q),
               ~ (pt_rx[n].packet.type = "UNICAST" /\ q = Resent(pt_rx[n].packet))
        PROVE  /\ q.sender = n /\ route_present(table[n], q.target)
               /\ q.gateway = Gateway(table[n], q.target)
    <3>1. CASE q = Ogm(n, seqno[n])
      BY <3>1 DEF Ogm
    <3>2. CASE \E target \in Node : /\ route_present(table[n], target)
                                    /\ q = Unicast(n, target, Gateway(table[n], target))
      BY <3>2 DEF Unicast
    <3>3. CASE slot[n].type = "OGM" /\ Relays(n, slot[n]) /\ q = Rebroadcast(n, slot[n])
      BY <3>3, MadeOgm, PacketKinds
    <3>4. CASE slot[n].type = "UNICAST" /\ Forwards(n, slot[n]) /\ q = Forwarded(n, slot[n])
      BY <3>4, MadeMessage DEF Forwards
    <3> QED
      BY <2>2, <3>1, <3>2, <3>3, <3>4 DEF Made
  <2>3. ASSUME NEW n \in Node, Made(n, q)
        PROVE  /\ <<q.sender, q.gateway>> \in heard'
               /\ q.gateway # q.target => <<q.gateway, q.target>> \in routed'
    <3>1. CASE pt_rx[n].packet.type = "UNICAST" /\ q = Resent(pt_rx[n].packet)
      BY <2>4, <3>1
    <3>2. CASE ~ (pt_rx[n].packet.type = "UNICAST" /\ q = Resent(pt_rx[n].packet))
      BY <1>1, <2>2, <2>3, <3>2, GatewayLeadsOn DEF RoutesInv
    <3> QED
      BY <3>1, <3>2
  <2> QED
    BY <2>1, <2>3, PacketStep, PacketKinds
<1>4. ASSUME NEW q \in Packets' PROVE Announced(q)'
  <2>1. CASE q \in Packets
    BY <1>1, <2>1 DEF RoutesInv, Announced
  <2>2. CASE q = Empty
    BY <2>2, PacketKinds DEF Announced
  <2>3. ASSUME NEW n \in Node, Made(n, q) PROVE Announced(q)'
    <3>1. CASE q = Ogm(n, seqno[n])
      BY <3>1 DEF Ogm, Announced
    <3>2. CASE \E target \in Node : q = Unicast(n, target, Gateway(table[n], target))
      BY <3>2 DEF Unicast, Announced
    <3>3. CASE /\ slot[n].type = "OGM" /\ Relays(n, slot[n]) /\ OgmArrives(n)
               /\ q = Rebroadcast(n, slot[n])
      <4>1. q.sender = n /\ q.originator = slot[n].originator
        BY <3>3, MadeOgm
      <4>2. ~ q.unidirectional => <<n, slot[n].originator>> \in routed'
        BY <3>3, RelayedIsRouted
      <4> QED
        BY <4>1, <4>2 DEF Announced
    <3>4. CASE slot[n].type = "UNICAST" /\ Forwards(n, slot[n]) /\ q = Forwarded(n, slot[n])
      BY <3>4, MadeMessage, PacketKinds DEF Announced
    <3>5. CASE pt_rx[n].packet.type = "UNICAST" /\ q = Resent(pt_rx[n].packet)
      BY <3>5, MadeAgain, PacketKinds DEF Announced
    <3> QED
      BY <2>3, <3>1, <3>2, <3>3, <3>4, <3>5 DEF Made
  <2> QED
    BY <2>1, <2>2, <2>3, PacketStep
<1> QED
  BY <1>2, <1>3, <1>4 DEF RoutesInv

LEMMA RoutesInvariant ==
  ASSUME RoomForRoutes
  PROVE  Spec => []RoutesInv
<1>1. MeshInv /\ RoutesInv /\ [Next]_vars => RoutesInv'
  BY RoutesNext
<1> QED
  BY <1>1, RoutesInit, MeshInvariant, PTL DEF Spec

(* Who is named as the next hop has had a route to where he is to lead,    *)
(* unless it leads to himself (batman.c:189-199).                          *)
THEOREM RoutesAlwaysLeadOn ==
  ASSUME RoomForRoutes
  PROVE  Spec => []RoutesLeadOn
<1>1. RoutesInv => RoutesLeadOn
  BY DEF RoutesInv
<1> QED
  BY <1>1, RoutesInvariant, PTL

(* A message under way is addressed to a neighbour that has heard its      *)
(* sender and has had a route to the target (batman.c:224-231, 267-269).   *)
THEOREM MessagesAlwaysLeadOn ==
  ASSUME RoomForRoutes
  PROVE  Spec => []MessagesLeadOn
<1>1. RoutesInv => MessagesLeadOn
  BY DEF RoutesInv
<1> QED
  BY <1>1, RoutesInvariant, PTL
=============================================================================
