--------------------------- MODULE TxStackProofs ----------------------------
(***************************************************************************)
(* Proofs about TxStack, whatever packets arrive to be sent on: the        *)
(* semaphore of batman.c, and what it and a join mean for a frame.         *)
(***************************************************************************)
EXTENDS TxStack, FiniteSetTheorems, TLAPS

-----------------------------------------------------------------------------
(* The inductive invariant, in parts.                                      *)

Holders == {c \in Threads : Holds(c)}

(* The semaphore is free, or one thread holds it; batman_rx waits for it   *)
(* with an originator message only.                                        *)
MutexInv ==
  /\ \/ mutex = 1 /\ Holders = {}
     \/ mutex = 0 /\ \E c \in Threads : Holders = {c}
  /\ at["rx"] = "mutex" => forward = "ogm"

(* While llc_tx is in mac_tx, the thread whose packet it has is waiting    *)
(* for it.                                                                 *)
LlcInv ==
  /\ llc = "mac" <=> sender # "idle"
  /\ llc = "mac" => packet \in Inside

(* A thread that has not been joined is alone in llc_tx ...                *)
AloneInv == \A c \in Inside \ joined : Inside = {c}

(* ... and llc_tx is busy with its packet, the frame of which has been on  *)
(* the air once when mac_tx is told so, and not before.                    *)
SentInv == \A c \in Threads :
  /\ at[c] = "mutex" => sent[c] = 0
  /\ at[c] = "llc" /\ c \notin joined =>
       /\ llc = "begin" => sent[c] = 0
       /\ llc = "mac" => /\ packet = c
                         /\ sent[c] = IF sender = "sent" THEN 1 ELSE 0

TxInv == TypeOK /\ MutexInv /\ LlcInv /\ AloneInv /\ SentInv

-----------------------------------------------------------------------------

LEMMA TxInit == Init => TxInv
<1> SUFFICES ASSUME Init PROVE TxInv
  OBVIOUS
<1>1. TypeOK
  BY DEF Init, TypeOK, Threads, Radio!TypeOK, Radio!Owners, Radio!Senders, Radio!Modes
<1>2. Inside = {} /\ Holders = {}
  BY DEF Init, Inside, Holders, Holds
<1> QED
  BY <1>1, <1>2 DEF Init, TxInv, MutexInv, LlcInv, AloneInv, SentInv, Threads

(* What the actions of the threads have in common.                         *)
LEMMA Actors ==
  ASSUME TypeOK, [Next]_vars
  PROVE  \/ UNCHANGED vars
         \/ ShellCommand \/ OgmDue \/ RxForwards("ogm") \/ RxForwards("unicast")
         \/ NothingToSend \/ Timer \/ MutexWait \/ LlcBegin \/ MacLock \/ MacTransmit
         \/ LlcEnd \/ MacPoll \/ Receive \/ FrameSent
BY ArrivalsAssumption DEF Next, Work

LEMMA NextType == TypeOK /\ LlcInv /\ MutexInv /\ [Next]_vars => TypeOK'
<1> SUFFICES ASSUME TypeOK, LlcInv, MutexInv, [Next]_vars PROVE TypeOK'
  OBVIOUS
<1> USE DEF TypeOK, Threads, Radio!TypeOK, Radio!Owners, Radio!Senders, Radio!Modes
<1>1. CASE UNCHANGED vars
  BY <1>1 DEF vars, radio
<1>2. CASE ShellCommand
  BY <1>2 DEF ShellCommand, Begins, radio
<1>3. CASE OgmDue
  BY <1>3 DEF OgmDue, Begins, radio
<1>4. CASE RxForwards("ogm")
  BY <1>4 DEF RxForwards, Begins, radio
<1>5. CASE RxForwards("unicast")
  BY <1>5 DEF RxForwards, Begins, JoinedBy, Inside, radio
<1>6. CASE NothingToSend
  BY <1>6 DEF NothingToSend, Yield, NextTurn, radio
<1>7. CASE Timer
  <2>1. send_ogm' = send_ogm \/ send_ogm' = TRUE
    BY <1>7 DEF Timer
  <2>2. send_ogm' \in BOOLEAN
    BY <2>1, Zenon
  <2> QED
    BY <1>7, <2>2 DEF Timer, Yield, NextTurn, radio
<1>8. CASE MutexWait
  BY <1>8 DEF MutexWait, Yield, NextTurn, JoinedBy, Inside, radio
<1>9. CASE LlcBegin
  BY <1>9 DEF LlcBegin, InLlc, Radio!Prompt
<1>10. CASE MacLock \/ MacTransmit
  BY <1>10 DEF MacLock, MacTransmit, Radio!Acquire, Radio!TransmitterOn
<1>11. CASE LlcEnd
  <2>1. mutex' \in {0, 1}
    <3>1. CASE Holds(turn)
      <4>1. turn \in Holders
        BY <1>11, <3>1 DEF LlcEnd, InLlc, Holders
      <4>2. mutex = 0
        BY <4>1 DEF MutexInv
      <4> QED
        BY <1>11, <4>2 DEF LlcEnd
    <3>2. CASE ~ Holds(turn)
      BY <1>11, <3>2 DEF LlcEnd
    <3> QED
      BY <3>1, <3>2
  <2> QED
    BY <1>11, <2>1 DEF LlcEnd, InLlc, Radio!Notice, Yield, NextTurn
<1>12. CASE MacPoll
  BY <1>12 DEF MacPoll, InLlc, Yield, NextTurn, radio
<1>13. CASE Receive
  BY <1>13 DEF Receive, Radio!FirstByteReceived, Radio!LastByteReceived
<1>14. CASE FrameSent
  <2>1. \A k \in Nat : (IF k < MaxSent THEN k + 1 ELSE k) \in Nat
    BY DEF MaxSent
  <2>2. sent' \in [Threads -> Nat]
    BY <1>14, <2>1 DEF FrameSent
  <2> QED
    BY <1>14, <2>2 DEF FrameSent, Radio!LastByteSent
<1> QED
  BY <1>1, <1>2, <1>3, <1>4, <1>5, <1>6, <1>7, <1>8, <1>9, <1>10, <1>11, <1>12, <1>13,
     <1>14, Actors

(* The semaphore is taken by one thread, and given back by the one that    *)
(* holds it.                                                               *)
LEMMA NextMutex == TypeOK /\ MutexInv /\ [Next]_vars => MutexInv'
<1> SUFFICES ASSUME TypeOK, MutexInv, [Next]_vars PROVE MutexInv'
  OBVIOUS
<1> USE DEF Threads
<1>1. at \in [Threads -> {"idle", "mutex", "llc"}] /\ Holders \subseteq Threads
  BY DEF TypeOK, Holders
<1>2. ASSUME mutex' = mutex, at' = at, forward' = forward PROVE MutexInv'
  BY <1>2 DEF MutexInv, Holders, Holds
<1>3. CASE ShellCommand
  <2>1. /\ at["shell"] = "idle" /\ at' = [at EXCEPT !["shell"] = "mutex"]
        /\ UNCHANGED <<mutex, forward>>
    BY <1>3 DEF ShellCommand, Begins
  <2>2. Holders' = Holders
    BY <1>1, <2>1 DEF Holders, Holds
  <2> QED
    BY <1>1, <2>1, <2>2 DEF MutexInv
<1>4. CASE OgmDue
  <2>1. /\ at["batman"] = "idle" /\ at' = [at EXCEPT !["batman"] = "mutex"]
        /\ UNCHANGED <<mutex, forward>>
    BY <1>4 DEF OgmDue, Begins
  <2>2. Holders' = Holders
    BY <1>1, <2>1 DEF Holders, Holds
  <2> QED
    BY <1>1, <2>1, <2>2 DEF MutexInv
<1>5. ASSUME NEW kind \in {"ogm", "unicast"}, RxForwards(kind) PROVE MutexInv'
  <2>1. /\ at["rx"] = "idle" /\ forward' = kind /\ mutex' = mutex
        /\ at' = [at EXCEPT !["rx"] = IF kind = "ogm" THEN "mutex" ELSE "llc"]
    BY <1>5 DEF RxForwards, Begins
  <2>2. Holders' = Holders
    BY <1>1, <2>1 DEF Holders, Holds
  <2> QED
    BY <1>1, <2>1, <2>2 DEF MutexInv
<1>6. CASE MutexWait
  <2>1. CASE mutex = 0
    BY <1>2, <1>6, <2>1 DEF MutexWait
  <2>2. CASE mutex # 0
    <3>1. /\ mutex = 1 /\ Holders = {} /\ turn \in Threads /\ at[turn] = "mutex"
          /\ mutex' = 0 /\ at' = [at EXCEPT ![turn] = "llc"] /\ forward' = forward
      BY <1>6, <2>2 DEF MutexInv, MutexWait
    <3>2. Holders' = {turn}
      BY <1>1, <3>1 DEF Holders, Holds, MutexInv
    <3> QED
      BY <1>1, <3>1, <3>2 DEF MutexInv
  <2> QED
    BY <2>1, <2>2
<1>7. CASE LlcEnd
  <2>1. /\ turn \in Threads /\ at[turn] = "llc" /\ at' = [at EXCEPT ![turn] = "idle"]
        /\ mutex' = (IF Holds(turn) THEN mutex + 1 ELSE mutex) /\ forward' = forward
    BY <1>7 DEF LlcEnd, InLlc
  <2>2. Holders' = Holders \ {turn} /\ (turn \in Holders <=> Holds(turn))
    BY <1>1, <2>1 DEF Holders, Holds
  <2>3. CASE Holds(turn)
    <3>1. mutex = 0 /\ Holders = {turn}
      BY <2>2, <2>3 DEF MutexInv
    <3> QED
      BY <1>1, <2>1, <2>2, <2>3, <3>1 DEF MutexInv
  <2>4. CASE ~ Holds(turn)
    BY <1>1, <2>1, <2>2, <2>4 DEF MutexInv
  <2> QED
    BY <2>3, <2>4
<1>8. CASE UNCHANGED vars \/ NothingToSend \/ Timer \/ LlcBegin \/ MacLock \/ MacTransmit
           \/ MacPoll \/ Receive \/ FrameSent
  BY <1>2, <1>8 DEF vars, NothingToSend, Timer, LlcBegin, MacLock, MacTransmit, MacPoll,
                    Receive, FrameSent
<1> QED
  BY <1>3, <1>4, <1>5, <1>6, <1>7, <1>8, Actors

(* llc_tx and mac_tx begin and end together.                               *)
LEMMA NextLlc == TypeOK /\ LlcInv /\ [Next]_vars => LlcInv'
<1> SUFFICES ASSUME TypeOK, LlcInv, [Next]_vars PROVE LlcInv'
  OBVIOUS
<1>1. at \in [Threads -> {"idle", "mutex", "llc"}] /\ llc \in {"begin", "mac"}
  BY DEF TypeOK
<1>2. ASSUME llc' = llc, sender' = sender, packet' = packet,
             NEW c \in Threads, NEW w, at[c] # "llc", at' = [at EXCEPT ![c] = w]
      PROVE  LlcInv'
  BY <1>1, <1>2 DEF LlcInv, Inside
<1>3. CASE UNCHANGED vars
  BY <1>3 DEF LlcInv, Inside, vars, radio
<1>4. CASE ShellCommand
  BY <1>2, <1>4 DEF ShellCommand, Begins, radio, Threads
<1>5. CASE OgmDue
  BY <1>2, <1>5 DEF OgmDue, Begins, radio, Threads
<1>6. CASE RxForwards("ogm") \/ RxForwards("unicast")
  BY <1>2, <1>6 DEF RxForwards, Begins, radio, Threads
<1>7. CASE NothingToSend \/ Timer \/ MacPoll
  BY <1>7 DEF NothingToSend, Timer, MacPoll, LlcInv, Inside, radio
<1>8. CASE MutexWait
  <2>1. CASE mutex = 0
    BY <1>8, <2>1 DEF MutexWait, LlcInv, Inside, radio
  <2>2. CASE mutex # 0
    BY <1>2, <1>8, <2>2 DEF MutexWait, radio
  <2> QED
    BY <2>1, <2>2
<1>9. CASE LlcBegin
  BY <1>9 DEF LlcBegin, InLlc, LlcInv, Inside, Radio!Prompt
<1>10. CASE MacLock \/ MacTransmit
  BY <1>10 DEF MacLock, MacTransmit, LlcInv, Inside, Radio!Acquire, Radio!TransmitterOn
<1>11. CASE LlcEnd
  BY <1>11 DEF LlcEnd, LlcInv, Radio!Notice
<1>12. CASE Receive
  BY <1>12 DEF Receive, LlcInv, Inside, Radio!FirstByteReceived, Radio!LastByteReceived
<1>13. CASE FrameSent
  BY <1>13 DEF FrameSent, LlcInv, Inside, Radio!LastByteSent
<1> QED
  BY <1>3, <1>4, <1>5, <1>6, <1>7, <1>8, <1>9, <1>10, <1>11, <1>12, <1>13, Actors

(* Who enters llc_tx while another is in it is joined, and so is the       *)
(* other: one of the two has not got the semaphore.                        *)
LEMMA Enters ==
  ASSUME TypeOK, MutexInv, NEW c \in Threads, NEW locked \in BOOLEAN,
         locked => Holders = {}
  PROVE  /\ Inside # {} => Inside \cup {c} \subseteq JoinedBy(c, locked)
         /\ Inside = {} => JoinedBy(c, locked) = joined \ {c}
<1>1. \A d \in Inside : d \in Threads
  BY DEF Inside
<1> QED
  BY <1>1 DEF JoinedBy, Holders

LEMMA NextAlone == TypeOK /\ MutexInv /\ AloneInv /\ [Next]_vars => AloneInv'
<1> SUFFICES ASSUME TypeOK, MutexInv, AloneInv, [Next]_vars PROVE AloneInv'
  OBVIOUS
<1>1. at \in [Threads -> {"idle", "mutex", "llc"}]
  BY DEF TypeOK
<1>2. ASSUME NEW c \in Threads, at[c] # "llc", at' = [at EXCEPT ![c] = "mutex"],
             joined' = joined \ {c}
      PROVE  AloneInv'
  <2>1. Inside' = Inside /\ c \notin Inside
    BY <1>1, <1>2 DEF Inside
  <2> QED
    BY <1>2, <2>1 DEF AloneInv
<1>3. ASSUME NEW c \in Threads, at[c] # "llc", at' = [at EXCEPT ![c] = "llc"],
             NEW locked \in BOOLEAN, joined' = JoinedBy(c, locked), locked => Holders = {}
      PROVE  AloneInv'
  <2>1. Inside' = Inside \cup {c}
    BY <1>1, <1>3 DEF Inside
  <2>2. /\ Inside # {} => Inside \cup {c} \subseteq joined'
        /\ Inside = {} => joined' = joined \ {c}
    BY <1>3, Enters
  <2> QED
    BY <2>1, <2>2 DEF AloneInv
<1>4. ASSUME at' = at, joined' = joined PROVE AloneInv'
  BY <1>4 DEF AloneInv, Inside
<1>5. CASE ShellCommand
  BY <1>2, <1>5 DEF ShellCommand, Begins, Threads
<1>6. CASE OgmDue
  BY <1>2, <1>6 DEF OgmDue, Begins, Threads
<1>7. CASE RxForwards("ogm")
  BY <1>2, <1>7 DEF RxForwards, Begins, Threads
<1>8. CASE RxForwards("unicast")
  BY <1>3, <1>8 DEF RxForwards, Begins, Threads
<1>9. CASE MutexWait
  <2>1. CASE mutex = 0
    BY <1>4, <1>9, <2>1 DEF MutexWait
  <2>2. CASE mutex # 0
    <3>1. Holders = {}
      BY <2>2 DEF MutexInv
    <3> QED
      BY <1>3, <1>9, <2>2, <3>1 DEF MutexWait
  <2> QED
    BY <2>1, <2>2
<1>10. CASE LlcEnd
  <2>1. turn \in Inside /\ Inside' = Inside \ {turn} /\ joined' = joined
    BY <1>1, <1>10 DEF LlcEnd, InLlc, Inside
  <2> QED
    BY <2>1 DEF AloneInv
<1>11. CASE UNCHANGED vars \/ NothingToSend \/ Timer \/ LlcBegin \/ MacLock \/ MacTransmit
            \/ MacPoll \/ Receive \/ FrameSent
  BY <1>4, <1>11 DEF vars, NothingToSend, Timer, LlcBegin, MacLock, MacTransmit, MacPoll,
                     Receive, FrameSent
<1> QED
  BY <1>5, <1>6, <1>7, <1>8, <1>9, <1>10, <1>11, Actors

LEMMA NextSent ==
  TypeOK /\ MutexInv /\ LlcInv /\ AloneInv /\ SentInv /\ [Next]_vars => SentInv'
<1> SUFFICES ASSUME TypeOK, MutexInv, LlcInv, AloneInv, SentInv, [Next]_vars PROVE SentInv'
  OBVIOUS
<1>1. /\ at \in [Threads -> {"idle", "mutex", "llc"}] /\ sent \in [Threads -> Nat]
      /\ llc \in {"begin", "mac"}
  BY DEF TypeOK
<1>2. ASSUME at' = at, joined' = joined, sent' = sent, llc' = llc, packet' = packet,
             sender' = sender \/ (sender # "sent" /\ sender' # "sent")
      PROVE  SentInv'
  BY <1>2 DEF SentInv
<1>3. ASSUME NEW c \in Threads, at[c] = "idle", at' = [at EXCEPT ![c] = "mutex"],
             joined' = joined \ {c}, sent' = [sent EXCEPT ![c] = 0],
             UNCHANGED <<llc, packet, sender>>
      PROVE  SentInv'
  BY <1>1, <1>3 DEF SentInv
<1>4. ASSUME NEW c \in Threads, at[c] # "llc", at' = [at EXCEPT ![c] = "llc"],
             NEW locked \in BOOLEAN, joined' = JoinedBy(c, locked), locked => Holders = {},
             sent' = [sent EXCEPT ![c] = 0], UNCHANGED <<llc, packet, sender>>
      PROVE  SentInv'
  <2>1. /\ Inside # {} => Inside \cup {c} \subseteq joined'
        /\ Inside = {} => joined' = joined \ {c} /\ llc = "begin"
    BY <1>1, <1>4, Enters DEF LlcInv
  <2> SUFFICES ASSUME NEW d \in Threads
               PROVE  /\ at'[d] = "mutex" => sent'[d] = 0
                      /\ at'[d] = "llc" /\ d \notin joined' =>
                           /\ llc' = "begin" => sent'[d] = 0
                           /\ llc' = "mac" =>
                                /\ packet' = d
                                /\ sent'[d] = IF sender' = "sent" THEN 1 ELSE 0
    BY DEF SentInv
  <2>2. CASE d = c
    BY <1>1, <1>4, <2>1, <2>2
  <2>3. CASE d # c
    <3>1. at'[d] = at[d] /\ sent'[d] = sent[d]
      BY <1>1, <1>4, <2>3
    <3>2. at[d] = "llc" => d \in joined'
      BY <2>1 DEF Inside
    <3> QED
      BY <3>1, <3>2 DEF SentInv
  <2> QED
    BY <2>2, <2>3
<1>5. CASE ShellCommand
  BY <1>3, <1>5 DEF ShellCommand, Begins, Threads, radio
<1>6. CASE OgmDue
  BY <1>3, <1>6 DEF OgmDue, Begins, Threads, radio
<1>7. CASE RxForwards("ogm")
  BY <1>3, <1>7 DEF RxForwards, Begins, Threads, radio
<1>8. CASE RxForwards("unicast")
  BY <1>4, <1>8 DEF RxForwards, Begins, Threads, radio
<1>9. CASE MutexWait
  <2>1. CASE mutex = 0
    BY <1>2, <1>9, <2>1 DEF MutexWait, radio
  <2>2. CASE mutex # 0
    <3>1. Holders = {}
      BY <2>2 DEF MutexInv
    <3>2. turn \in Threads /\ at[turn] = "mutex" /\ sent[turn] = 0
      BY <1>9 DEF MutexWait, SentInv
    <3>3. sent' = [sent EXCEPT ![turn] = 0]
      BY <1>1, <1>9, <3>2 DEF MutexWait
    <3> QED
      BY <1>4, <1>9, <2>2, <3>1, <3>2, <3>3 DEF MutexWait, radio
  <2> QED
    BY <2>1, <2>2
<1>10. CASE LlcBegin
  <2>1. /\ turn \in Inside /\ llc = "begin" /\ llc' = "mac" /\ packet' = turn
        /\ sender' = "wanting" /\ UNCHANGED <<at, sent, joined>>
    BY <1>10 DEF LlcBegin, InLlc, Inside, Radio!Prompt
  <2>2. \A c \in Inside \ joined : c = turn
    BY <2>1 DEF AloneInv
  <2> QED
    BY <2>1, <2>2 DEF SentInv, Inside
<1>11. CASE MacLock \/ MacTransmit
  BY <1>2, <1>11 DEF MacLock, MacTransmit, Radio!Acquire, Radio!TransmitterOn
<1>12. CASE LlcEnd
  <2>1. /\ turn \in Inside /\ at' = [at EXCEPT ![turn] = "idle"]
        /\ UNCHANGED <<sent, joined>>
    BY <1>12 DEF LlcEnd, InLlc, Inside
  <2>2. \A c \in Inside : c # turn => c \in joined
    BY <2>1 DEF AloneInv
  <2>3. \A c \in Threads : c # turn => at'[c] = at[c]
    BY <1>1, <2>1
  <2>4. at'[turn] = "idle"
    BY <1>1, <2>1 DEF Inside
  <2> QED
    BY <2>1, <2>2, <2>3, <2>4 DEF SentInv, Inside
<1>13. CASE FrameSent
  <2>1. /\ llc = "mac" /\ sender = "sending" /\ sender' = "sent" /\ packet \in Inside
        /\ sent' = [sent EXCEPT ![packet] = IF @ < 2 THEN @ + 1 ELSE @]
        /\ UNCHANGED <<at, llc, packet, joined>>
    BY <1>1, <1>13 DEF FrameSent, Radio!LastByteSent, LlcInv, MaxSent
  <2>2. packet \in Threads /\ at[packet] = "llc"
    BY <2>1 DEF Inside
  <2>3. sent[packet] = 0 => sent'[packet] = 1
    BY <1>1, <2>1, <2>2
  <2>4. \A c \in Threads : c # packet => sent'[c] = sent[c]
    BY <1>1, <2>1
  <2> QED
    BY <2>1, <2>2, <2>3, <2>4 DEF SentInv
<1>14. CASE UNCHANGED vars \/ NothingToSend \/ Timer \/ MacPoll \/ Receive
  BY <1>2, <1>14 DEF vars, radio, NothingToSend, Timer, MacPoll, Receive,
                     Radio!FirstByteReceived, Radio!LastByteReceived
<1> QED
  BY <1>5, <1>6, <1>7, <1>8, <1>9, <1>10, <1>11, <1>12, <1>13, <1>14, Actors

LEMMA TxNext == TxInv /\ [Next]_vars => TxInv'
BY NextType, NextMutex, NextLlc, NextAlone, NextSent DEF TxInv

(* The inductive invariant of the transmit path.                           *)
THEOREM Transmitting == Spec => []TxInv
BY TxInit, TxNext, PTL DEF Spec

(* The semaphore of batman.c counts its holders, of whom there is one at   *)
(* most, and llc_tx and mac_tx begin and end together (batman.c:236-240,   *)
(* 295-317, llc.c:178-202).                                                *)
THEOREM BooksBalance == Spec => []Bookkeeping
<1>1. TxInv => Bookkeeping
  <2> SUFFICES ASSUME TxInv PROVE Bookkeeping
    OBVIOUS
  <2>1. mutex = 1 - Cardinality(Holders)
    <3>1. Cardinality({}) = 0 /\ \A c \in Threads : Cardinality({c}) = 1
      BY FS_EmptySet, FS_Singleton
    <3> QED
      BY <3>1 DEF TxInv, MutexInv
  <2>2. llc = "mac" => Inside # {} /\ packet \in Threads
    BY DEF TxInv, LlcInv, Inside
  <2> QED
    BY <2>1, <2>2 DEF TxInv, MutexInv, LlcInv, Bookkeeping, Holders
<1> QED
  BY <1>1, Transmitting, PTL

(* From the lock request to the last byte the frame is that of one packet, *)
(* also when another caller joins the transmission (llc.c:178-202).        *)
THEOREM PacketsKept == Spec => PacketStable
<1>1. LlcInv /\ [Next]_vars => [sender # "idle" => packet' = packet]_vars
  <2> SUFFICES ASSUME LlcInv, [Next]_vars, sender # "idle" PROVE packet' = packet
    OBVIOUS
  <2>1. ~ LlcBegin
    BY DEF LlcInv, LlcBegin
  <2> QED
    BY <2>1 DEF Next, Work, vars, ShellCommand, OgmDue, RxForwards, Begins, NothingToSend,
                Timer, MutexWait, MacLock, MacTransmit, LlcEnd, MacPoll, Receive, FrameSent
<1>2. TxInv => LlcInv
  BY DEF TxInv
<1> QED
  BY <1>1, <1>2, Transmitting, PTL DEF Spec, PacketStable

(* A thread that llc_tx has told the packet is sent has had it sent, once, *)
(* unless a unicast packet on its way through shared its stay in llc_tx    *)
(* (batman.c:307, llc.c:178-202).                                          *)
THEOREM SentUnlessMet == Spec => SentUnlessJoined
<1>1. TxInv /\ [Next]_vars =>
        [\A c \in Threads :
           at[c] = "llc" /\ at'[c] = "idle" /\ c \notin joined => sent[c] = 1]_vars
  <2> SUFFICES ASSUME TxInv, [Next]_vars, NEW c \in Threads,
                      at[c] = "llc", at'[c] = "idle", c \notin joined
               PROVE  sent[c] = 1
    OBVIOUS
  <2>1. at \in [Threads -> {"idle", "mutex", "llc"}]
    BY DEF TxInv, TypeOK
  <2>2. LlcEnd /\ turn = c
    <3>1. ASSUME NEW d \in Threads, NEW w, at' = [at EXCEPT ![d] = w], at[d] # "llc"
          PROVE  FALSE
      BY <2>1, <3>1
    <3>2. CASE ShellCommand \/ OgmDue \/ RxForwards("ogm") \/ RxForwards("unicast")
      BY <3>1, <3>2 DEF ShellCommand, OgmDue, RxForwards, Begins, Threads
    <3>3. CASE MutexWait
      BY <3>1, <3>3 DEF MutexWait
    <3>4. CASE LlcEnd
      BY <2>1, <3>4 DEF LlcEnd
    <3>5. CASE UNCHANGED vars \/ NothingToSend \/ Timer \/ LlcBegin \/ MacLock
               \/ MacTransmit \/ MacPoll \/ Receive \/ FrameSent
      BY <3>5 DEF vars, NothingToSend, Timer, LlcBegin, MacLock, MacTransmit, MacPoll,
                  Receive, FrameSent
    <3> QED
      BY <3>2, <3>3, <3>4, <3>5, Actors DEF TxInv
  <2>3. llc = "mac" /\ sender = "sent"
    BY <2>2 DEF LlcEnd, Radio!Notice
  <2> QED
    BY <2>3 DEF TxInv, SentInv
<1> QED
  BY <1>1, Transmitting, PTL DEF Spec, SentUnlessJoined
=============================================================================
