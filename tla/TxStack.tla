------------------------------ MODULE TxStack -------------------------------
(***************************************************************************)
(* The transmit path above the radio.  Three protothreads of the main loop *)
(* send packets through the one static protothread of llc_tx, which waits  *)
(* for the one static protothread of mac_tx:                               *)
(*                                                                         *)
(*   shell   batman_tx, for the user's message;                            *)
(*   batman  batman_thread, for this node's originator message;            *)
(*   rx      batman_rx, for an originator message or a unicast packet that *)
(*           has to be sent on.                                            *)
(*                                                                         *)
(* batman.c guards llc_tx with a semaphore, except where batman_rx sends a *)
(* unicast packet on (batman.c:307).  A second caller of llc_tx does not   *)
(* start a transmission: it resumes the static protothread inside the one  *)
(* in progress, and whoever polls first after the frame is out gets the    *)
(* PT_ENDED.                                                               *)
(*                                                                         *)
(* The main loop polls the threads in a fixed order; turn is the thread    *)
(* being polled and passes on when the thread returns.  The radio is the   *)
(* abstract HalfDuplex, which Rfm12 implements; where mac_tx stands is     *)
(* that module's sender.                                                   *)
(***************************************************************************)
EXTENDS Naturals, FiniteSets

CONSTANT Arrivals    (* kinds of packet llc_rx yields that must be sent on *)

ASSUME ArrivalsAssumption == Arrivals \subseteq {"ogm", "unicast"}

VARIABLES
  turn,       (* the thread main() is polling                               *)
  at,         (* where each sending thread waits                            *)
  mutex,      (* batman.c: mutex.count                                      *)
  send_ogm,   (* batman.c: send_ogm                                         *)
  forward,    (* kind of the packet batman_rx has to send on                *)
  llc,        (* llc.c: where llc_tx resumes                                *)
  packet,     (* llc.c: whose packet state_tx.packet is                     *)
  sent,       (* history: frames on the air for the thread's current packet *)
  joined,     (* history: threads that were in llc_tx together with one     *)
              (* that had not waited for the semaphore                      *)
  owner, sender, mode     (* the radio                                      *)

radio == <<owner, sender, mode>>
vars == <<turn, at, mutex, send_ogm, forward, llc, packet, sent, joined, radio>>

Threads == {"shell", "batman", "rx"}

Radio == INSTANCE HalfDuplex

TypeOK ==
  /\ turn \in Threads \cup {"timer"}
  /\ at \in [Threads -> {"idle", "mutex", "llc"}]
  /\ mutex \in {0, 1}
  /\ send_ogm \in BOOLEAN
  /\ forward \in {"ogm", "unicast"}
  /\ llc \in {"begin", "mac"}
  /\ packet \in Threads \cup {"none"}
  /\ sent \in [Threads -> Nat]
  /\ joined \subseteq Threads
  /\ Radio!TypeOK

Init ==
  /\ turn = "shell"
  /\ at = [c \in Threads |-> "idle"]
  /\ mutex = 1 /\ send_ogm = FALSE /\ forward = "ogm"
  /\ llc = "begin" /\ packet = "none"
  /\ sent = [c \in Threads |-> 0] /\ joined = {}
  /\ owner = "nobody" /\ sender = "idle" /\ mode = "RX"

-----------------------------------------------------------------------------
(* main(): shell, batman_thread, rx_thread, then the timer callbacks.      *)

NextTurn == CASE turn = "shell" -> "batman" [] turn = "batman" -> "rx"
              [] turn = "rx" -> "timer" [] turn = "timer" -> "shell"

Yield == turn' = NextTurn

(* Who is in llc_tx, and who among them holds the semaphore: all but       *)
(* batman_rx with a unicast packet (batman.c:295 and 307).                 *)
Inside == {c \in Threads : at[c] = "llc"}
Holds(c) == at[c] = "llc" /\ (c = "rx" => forward = "ogm")

(* The threads that have been joined when c enters llc_tx as well, with    *)
(* the semaphore or without.                                               *)
JoinedBy(c, locked) ==
  IF Inside # {} /\ (~ locked \/ \E d \in Inside : ~ Holds(d))
    THEN joined \cup Inside \cup {c} ELSE joined \ {c}

(* A thread begins on a new packet and goes on to its next wait.           *)
Begins(c, where) ==
  /\ turn = c /\ at[c] = "idle"
  /\ at' = [at EXCEPT ![c] = where]
  /\ sent' = [sent EXCEPT ![c] = 0]
  /\ UNCHANGED <<turn, mutex, llc, packet, radio>>

(* The user's s command, with a route to the target.                       *)
ShellCommand ==
  /\ Begins("shell", "mutex")
  /\ joined' = joined \ {"shell"}
  /\ UNCHANGED <<send_ogm, forward>>

OgmDue ==
  /\ send_ogm /\ Begins("batman", "mutex")
  /\ send_ogm' = FALSE
  /\ joined' = joined \ {"batman"}
  /\ UNCHANGED forward

(* An originator message waits for the semaphore, a unicast packet does    *)
(* not.                                                                    *)
RxForwards(kind) ==
  /\ Begins("rx", IF kind = "ogm" THEN "mutex" ELSE "llc")
  /\ forward' = kind
  /\ joined' = IF kind = "ogm" THEN joined \ {"rx"} ELSE JoinedBy("rx", FALSE)
  /\ UNCHANGED send_ogm

(* A thread that has nothing to send returns.                              *)
NothingToSend ==
  /\ turn \in Threads /\ at[turn] = "idle"
  /\ turn = "batman" => ~send_ogm
  /\ Yield
  /\ UNCHANGED <<at, mutex, send_ogm, forward, llc, packet, sent, joined, radio>>

(* batman_one_second_elapsed, if a second is over.                         *)
Timer ==
  /\ turn = "timer" /\ Yield
  /\ send_ogm' \in {send_ogm, TRUE}
  /\ UNCHANGED <<at, mutex, forward, llc, packet, sent, joined, radio>>

\* Mutant: the semaphore is taken whatever its count.
MutexIgnored ==
  /\ turn \in Threads /\ at[turn] = "mutex"
  /\ mutex' = 0 /\ at' = [at EXCEPT ![turn] = "llc"]
  /\ joined' = JoinedBy(turn, TRUE)
  /\ UNCHANGED <<turn, send_ogm, forward, llc, packet, sent, radio>>

(* PT_SEM_WAIT(&mutex).                                                    *)
MutexWait ==
  /\ turn \in Threads /\ at[turn] = "mutex"
  /\ IF mutex = 0
     THEN Yield /\ UNCHANGED <<at, mutex, joined>>
     ELSE /\ mutex' = mutex - 1
          /\ at' = [at EXCEPT ![turn] = "llc"]
          /\ joined' = JoinedBy(turn, TRUE)
          /\ UNCHANGED turn
  /\ UNCHANGED <<send_ogm, forward, llc, packet, sent, radio>>

InLlc == turn \in Threads /\ at[turn] = "llc"

\* Mutant: llc_tx takes the caller's packet before it resumes.
LlcAlwaysBegins ==
  /\ InLlc /\ packet # turn
  /\ llc' = "mac" /\ packet' = turn
  /\ IF llc = "begin" THEN Radio!Prompt ELSE UNCHANGED radio
  /\ UNCHANGED <<turn, at, mutex, send_ogm, forward, sent, joined>>

(* llc_tx from its beginning: the packet is taken and mac_tx called.       *)
LlcBegin ==
  /\ InLlc /\ llc = "begin"
  /\ llc' = "mac" /\ packet' = turn
  /\ Radio!Prompt
  /\ UNCHANGED <<turn, at, mutex, send_ogm, forward, sent, joined>>

(* llc_tx resumed in mac_tx, in turn: waiting for the radio mutex,         *)
(* listening for a free carrier and switching the transmitter on, waiting  *)
(* for FIN.                                                                *)
MacLock ==
  /\ InLlc /\ llc = "mac"
  /\ Radio!Acquire
  /\ UNCHANGED <<turn, at, mutex, send_ogm, forward, llc, packet, sent, joined>>

MacTransmit ==
  /\ InLlc /\ llc = "mac" /\ mode = "RX"
  /\ Radio!TransmitterOn
  /\ UNCHANGED <<turn, at, mutex, send_ogm, forward, llc, packet, sent, joined>>

(* mac_tx and llc_tx end; the caller signals if it holds the semaphore.    *)
(* batman_rx then loops to the next packet without returning to main.      *)

\* Mutant: PT_SEM_SIGNAL(&mutex) is left out.
LlcEndNoSignal ==
  /\ InLlc /\ llc = "mac"
  /\ Radio!Notice
  /\ llc' = "begin"
  /\ at' = [at EXCEPT ![turn] = "idle"]
  /\ IF turn = "rx" THEN UNCHANGED turn ELSE Yield
  /\ UNCHANGED <<mutex, send_ogm, forward, packet, sent, joined>>

LlcEnd ==
  /\ InLlc /\ llc = "mac"
  /\ Radio!Notice
  /\ llc' = "begin"
  /\ at' = [at EXCEPT ![turn] = "idle"]
  /\ mutex' = IF Holds(turn) THEN mutex + 1 ELSE mutex
  /\ IF turn = "rx" THEN UNCHANGED turn ELSE Yield
  /\ UNCHANGED <<send_ogm, forward, packet, sent, joined>>

(* A poll that finds the radio taken, the carrier busy or the frame not    *)
(* yet out returns.                                                        *)
MacPoll ==
  /\ InLlc /\ llc = "mac"
  /\ \/ sender = "wanting" /\ owner # "nobody"
     \/ sender = "sending"
  /\ Yield
  /\ UNCHANGED <<at, mutex, send_ogm, forward, llc, packet, sent, joined, radio>>

-----------------------------------------------------------------------------
(* The nIRQ handler: a reception begins or ends; the last byte goes out.   *)

MaxSent == 2    (* bound on the counts of sent                             *)

Receive ==
  /\ Radio!FirstByteReceived \/ Radio!LastByteReceived
  /\ UNCHANGED <<turn, at, mutex, send_ogm, forward, llc, packet, sent, joined>>

FrameSent ==
  /\ Radio!LastByteSent
  /\ sent' = [sent EXCEPT ![packet] = IF @ < MaxSent THEN @ + 1 ELSE @]
  /\ UNCHANGED <<turn, at, mutex, send_ogm, forward, llc, packet, joined>>

-----------------------------------------------------------------------------

Work ==
  \/ OgmDue \/ NothingToSend \/ Timer
  \/ MutexWait \/ LlcBegin \/ MacLock \/ MacTransmit \/ LlcEnd \/ MacPoll

Next ==
  \/ Work \/ ShellCommand
  \/ \E kind \in Arrivals : RxForwards(kind)
  \/ Receive \/ FrameSent

Spec == Init /\ [][Next]_vars

(* The main loop goes round, the transmitter drains a frame that it has    *)
(* begun, and a carrier that is waited for is not busy at every poll.      *)
Fairness ==
  WF_vars(Work) /\ WF_vars(FrameSent) /\ SF_vars(MacTransmit)

FairSpec == Spec /\ Fairness

-----------------------------------------------------------------------------
(* Properties.                                                             *)

(* The semaphore of batman.c counts its holders, of whom there is one at   *)
(* most, and mac_tx is in use exactly while llc_tx is: neither protothread *)
(* is left behind half way (batman.c:236-240, 295-317, llc.c:178-202).     *)
Bookkeeping ==
  /\ mutex = 1 - Cardinality({c \in Threads : Holds(c)}) /\ mutex \in {0, 1}
  /\ (llc = "mac") <=> (sender # "idle")
  /\ llc = "mac" => Inside # {} /\ packet \in Threads

(* A thread that llc_tx has told the packet is sent has had it sent, once. *)
SentExactlyOnce ==
  [][\A c \in Threads : at[c] = "llc" /\ at'[c] = "idle" => sent[c] = 1]_vars

(* The same of the threads whose stay in llc_tx no unicast packet on its   *)
(* way through has shared: a join harms those it meets and nobody after    *)
(* them (batman.c:307, llc.c:178-202).                                     *)
SentUnlessJoined ==
  [][\A c \in Threads :
       at[c] = "llc" /\ at'[c] = "idle" /\ c \notin joined => sent[c] = 1]_vars

(* From the lock request to the last byte the frame is that of one packet, *)
(* even when another caller joins the transmission.                        *)
PacketStable == [][sender # "idle" => packet' = packet]_vars

(* Receptions that follow each other closely enough keep the radio mutex   *)
(* from every sender; the property below is about a channel that has       *)
(* fallen silent, with packets still coming in from llc_rx.                *)
Quiet == owner # "receiver"

(* batman_rx gets an originator message through: the threads ahead of it   *)
(* in the main loop cannot take the semaphore in turn for ever.  And once  *)
(* there is nothing more to send on, every thread gets its packet out,     *)
(* also one whose transmission was joined; while there is, batman_rx may   *)
(* keep the semaphore to itself: it goes on to the next packet in the same *)
(* poll (batman.c:279-317).                                                *)
EveryoneFinishes ==
  /\ <>[]Quiet =>
       (at["rx"] # "idle" /\ forward = "ogm" ~> at["rx"] = "idle")
  /\ <>[](Quiet /\ at["rx"] = "idle") =>
       \A c \in Threads : (at[c] # "idle") ~> (at[c] = "idle")
=============================================================================
