------------------------------- MODULE Rfm12 --------------------------------
(***************************************************************************)
(* The RFM12 radio driver (rfm12.c) and the medium access layer (mac.c).   *)
(*                                                                         *)
(* Two flows of control share one radio: the main program, which runs the  *)
(* protothreads mac_tx and rfm12_lock, and the nIRQ interrupt handler,     *)
(* which runs the protothread rfm12_nirq_thread.  The handler cannot be    *)
(* interrupted, so one activation of it is one action.  The main program   *)
(* can be interrupted anywhere, so it takes one action per statement       *)
(* that touches shared state, and pc says which statement is next.         *)
(* A poll of a protothread that does not get past its wait leaves the      *)
(* state as it was.                                                        *)
(*                                                                         *)
(* Payload bytes are abstracted to "data": what llc.c encodes is not       *)
(* looked at here.  The configuration flags can be changed at any time     *)
(* from the shell, so reading one is a free choice.                        *)
(***************************************************************************)
EXTENDS Naturals, Sequences

CONSTANT Lengths    (* coded bytes a packet may have: 2 * (header + data)  *)

ASSUME LengthsAssumption == Lengths \subseteq Nat \ {0}

VARIABLES
  pc,           (* next statement of the main program                       *)
  gie,          (* global interrupt enable flag of the CPU (cli, sei)       *)
  nirq,         (* the nIRQ bit of GICR                                     *)
  mutex,        (* rfm12.c: mutex.count, an unsigned int of 16 bits         *)
  pt_nirq,      (* rfm12.c: where rfm12_nirq_thread resumes                 *)
  radio_state,  (* rfm12.c: radio_state                                     *)
  txreg, pm,    (* the radio: TX register enabled, power management         *)
  state, p,     (* mac.c: state, and p as an array and an index into it     *)
  len, cnt,     (* llc.c: coded bytes of the packet, state_tx.cnt           *)
  carrier,      (* the radio: RSSI, someone is on the air                   *)
  air,          (* history: bytes handed to the transmitter for this frame  *)
  open          (* history: llc_rx_mac was given bytes of an unended frame  *)

driver == <<mutex, pt_nirq, radio_state, txreg, pm>>
mac == <<state, p, len, cnt, air>>
vars == <<pc, gie, nirq, driver, mac, carrier, open>>

-----------------------------------------------------------------------------
(* Frames.                                                                 *)

Preamble == <<"SYNC", "SYNC", "2D", "D4">>
Postamble == <<"EOP", "DUMMY">>

Array(name) == IF name = "preamble" THEN Preamble
               ELSE IF name = "postamble" THEN Postamble ELSE <<>>

Start(name) == [of |-> name, at |-> 1]
Advanced(q) == [q EXCEPT !.at = @ + 1]
\* Mutant: the end of an array is seen one byte late.
TerminatedLate(q) == q.at > Len(Array(q.of)) + 1

Terminated(q) == q.at > Len(Array(q.of))              (* *p is '\0'        *)
Deref(q) == IF q.at \in 1..Len(Array(q.of)) THEN Array(q.of)[q.at] ELSE "garbage"

(* A whole frame with n coded payload bytes, as the receivers expect it.   *)
Frame(n) == [i \in 1..(n + 6) |-> IF i <= 4 THEN Preamble[i]
                                  ELSE IF i <= n + 4 THEN "data"
                                  ELSE Postamble[i - n - 4]]

-----------------------------------------------------------------------------
(* Program locations, in program order.                                    *)

Booting == {"boot", "boot_rx", "boot_nirq", "boot_sei"}
Locking == {"lock_cli", "lock_test", "lock_dec", "lock_mask", "lock_sei"}
Sending == {"mac_state", "mac_p", "mac_carrier", "tx_state", "tx_txreg",
            "tx_pm", "tx_pt", "release", "wait_fin"}
Locations == Booting \cup Locking \cup Sending \cup {"idle"}

FlagsOK ==
  /\ gie \in BOOLEAN /\ nirq \in BOOLEAN /\ txreg \in BOOLEAN
  /\ carrier \in BOOLEAN /\ open \in BOOLEAN

TypeOK ==
  /\ pc \in Locations
  /\ FlagsOK
  /\ mutex \in Nat /\ mutex < 65536
  /\ pt_nirq \in {"begin", "tx", "sem", "rx"}
  /\ radio_state \in {"RX", "TX"}
  /\ pm \in {"OFF", "RX", "TX"}
  /\ state \in {"PREAMBLE", "DATA", "POSTAMBLE", "FIN"}
  /\ p \in [of : {"null", "preamble", "postamble"}, at : Nat]
  /\ len \in Nat /\ cnt \in Nat
  /\ air \in Seq({"SYNC", "2D", "D4", "data", "EOP", "DUMMY"})

Inc(n) == (n + 1) % 65536
Dec(n) == (n + 65535) % 65536

-----------------------------------------------------------------------------
(* Power on and reset: C start-up leaves every static zero, the CPU has    *)
(* interrupts off, and the radio keeps what it was last told.              *)

Init ==
  /\ pc = "boot" /\ gie = FALSE /\ nirq = FALSE
  /\ mutex = 0 /\ pt_nirq = "begin" /\ radio_state = "TX"
  /\ txreg = FALSE /\ pm = "OFF" /\ carrier \in BOOLEAN
  /\ state = "PREAMBLE" /\ p = Start("null") /\ len = 0 /\ cnt = 0
  /\ air = <<>> /\ open = FALSE

WatchdogReset ==
  /\ pc # "boot"
  /\ pc' = "boot" /\ gie' = FALSE /\ nirq' = FALSE
  /\ mutex' = 0 /\ pt_nirq' = "begin" /\ radio_state' = "TX"
  /\ state' = "PREAMBLE" /\ p' = Start("null") /\ len' = 0 /\ cnt' = 0
  /\ air' = <<>> /\ open' = FALSE
  /\ UNCHANGED <<txreg, pm, carrier>>

Goto(from, to) == pc = from /\ pc' = to

\* Mutant: the receiver is not powered up again.
EnableRxKeepsPower == radio_state' = "RX" /\ txreg' = FALSE /\ UNCHANGED pm

rfm12_enable_rx == radio_state' = "RX" /\ txreg' = FALSE /\ pm' = "RX"

BootSemaphores ==
  /\ Goto("boot", "boot_rx")
  /\ nirq' = FALSE /\ pt_nirq' = "begin" /\ mutex' = 1
  /\ UNCHANGED <<gie, radio_state, txreg, pm, mac, carrier, open>>

BootReceiver ==
  /\ Goto("boot_rx", "boot_nirq")
  /\ rfm12_enable_rx
  /\ UNCHANGED <<gie, nirq, mutex, pt_nirq, mac, carrier, open>>

BootUnmask ==
  /\ Goto("boot_nirq", "boot_sei")
  /\ nirq' = TRUE
  /\ UNCHANGED <<gie, driver, mac, carrier, open>>

BootSei ==
  /\ Goto("boot_sei", "idle")
  /\ gie' = TRUE
  /\ UNCHANGED <<nirq, driver, mac, carrier, open>>

-----------------------------------------------------------------------------
(* The main program: llc_tx hands over a packet, mac_tx sends it.          *)

Request(n) ==
  /\ Goto("idle", "lock_cli")
  /\ len' = n /\ cnt' = 0
  /\ UNCHANGED <<gie, nirq, driver, state, p, air, carrier, open>>

\* Mutant: PT_SEM_WAIT instead of PT_SEM_WAIT_ATOMIC.
LockNotAtomic ==
  /\ Goto("lock_cli", "lock_test")
  /\ UNCHANGED <<gie, nirq, driver, mac, carrier, open>>

\* Mutant: the semaphore is taken whatever its count.
LockUntested ==
  /\ Goto("lock_test", "lock_dec")
  /\ UNCHANGED <<gie, nirq, driver, mac, carrier, open>>

\* Mutant: rfm12_disable_nirq_isr is forgotten.
LockUnmasked ==
  /\ Goto("lock_mask", "lock_sei")
  /\ UNCHANGED <<gie, nirq, driver, mac, carrier, open>>

(* rfm12_lock: PT_SEM_WAIT_ATOMIC, mask the nIRQ, sei.                     *)
LockCli ==
  /\ Goto("lock_cli", "lock_test")
  /\ gie' = FALSE
  /\ UNCHANGED <<nirq, driver, mac, carrier, open>>

LockTest ==
  /\ pc = "lock_test"
  /\ \/ mutex > 0 /\ pc' = "lock_dec" /\ gie' = gie
     \/ mutex = 0 /\ pc' = "lock_cli" /\ gie' = TRUE
  /\ UNCHANGED <<nirq, driver, mac, carrier, open>>

LockDec ==
  /\ Goto("lock_dec", "lock_mask")
  /\ mutex' = Dec(mutex)
  /\ UNCHANGED <<gie, nirq, pt_nirq, radio_state, txreg, pm, mac, carrier, open>>

LockMask ==
  /\ Goto("lock_mask", "lock_sei")
  /\ nirq' = FALSE
  /\ UNCHANGED <<gie, driver, mac, carrier, open>>

LockSei ==
  /\ Goto("lock_sei", "mac_state")
  /\ gie' = TRUE
  /\ UNCHANGED <<nirq, driver, mac, carrier, open>>

\* Mutant: the state of the previous frame is kept.
MacStateKept ==
  /\ Goto("mac_state", "mac_p")
  /\ UNCHANGED <<gie, nirq, driver, mac, carrier, open>>

MacState ==
  /\ Goto("mac_state", "mac_p")
  /\ state' = "PREAMBLE"
  /\ UNCHANGED <<gie, nirq, driver, p, len, cnt, air, carrier, open>>

(* p = preamble, then the COLLISION_DETECTION flag is read.                *)
MacPreamble ==
  /\ pc = "mac_p" /\ pc' \in {"mac_carrier", "tx_state"}
  /\ p' = Start("preamble")
  /\ UNCHANGED <<gie, nirq, driver, state, len, cnt, air, carrier, open>>

MacCarrierFree ==
  /\ Goto("mac_carrier", "tx_state")
  /\ ~carrier
  /\ UNCHANGED <<gie, nirq, driver, mac, carrier, open>>

(* rfm12_enable_tx, statement by statement.                                *)
TxState ==
  /\ Goto("tx_state", "tx_txreg")
  /\ radio_state' = "TX"
  /\ UNCHANGED <<gie, nirq, mutex, pt_nirq, txreg, pm, mac, carrier, open>>

TxRegisterOn ==
  /\ Goto("tx_txreg", "tx_pm")
  /\ txreg' = TRUE
  /\ UNCHANGED <<gie, nirq, mutex, pt_nirq, radio_state, pm, mac, carrier, open>>

TxPowerOn ==
  /\ Goto("tx_pm", "tx_pt")
  /\ pm' = "TX"
  /\ air' = <<>>
  /\ UNCHANGED <<gie, nirq, mutex, pt_nirq, radio_state, txreg, state, p, len, cnt,
                 carrier, open>>

TxRestartThread ==
  /\ Goto("tx_pt", "release")
  /\ pt_nirq' = "begin"
  /\ UNCHANGED <<gie, nirq, mutex, radio_state, txreg, pm, mac, carrier, open>>

Release ==
  /\ Goto("release", "wait_fin")
  /\ nirq' = TRUE
  /\ UNCHANGED <<gie, driver, mac, carrier, open>>

WaitFin ==
  /\ Goto("wait_fin", "idle")
  /\ state = "FIN"
  /\ UNCHANGED <<gie, nirq, driver, mac, carrier, open>>

-----------------------------------------------------------------------------
(* The interrupt handler.  It runs when interrupts are on, nIRQ is not     *)
(* masked and the radio says its FIFO (or its TX register) is ready.       *)

Interrupt == gie /\ nirq

\* Mutant: the state never becomes FIN.
MacTxNeverFin ==
  CASE state = "PREAMBLE" ->
         [byte |-> Deref(p), p |-> Advanced(p), cnt |-> cnt, fin |-> FALSE,
          state |-> IF Terminated(Advanced(p)) THEN "DATA" ELSE "PREAMBLE"]
    [] state = "DATA" ->
         [byte |-> "data", cnt |-> cnt + 1, fin |-> FALSE,
          p |-> IF cnt + 1 = len THEN Start("postamble") ELSE p,
          state |-> IF cnt + 1 = len THEN "POSTAMBLE" ELSE "DATA"]
    [] OTHER ->
         [byte |-> Deref(p), p |-> Advanced(p), cnt |-> cnt,
          fin |-> Terminated(Advanced(p)), state |-> state]

(* mac_tx_rfm12: the next byte of the frame, and whether it is the last.   *)
mac_tx_rfm12 ==
  CASE state = "PREAMBLE" ->
         [byte |-> Deref(p), p |-> Advanced(p), cnt |-> cnt, fin |-> FALSE,
          state |-> IF Terminated(Advanced(p)) THEN "DATA" ELSE "PREAMBLE"]
    [] state = "DATA" ->
         [byte |-> "data", cnt |-> cnt + 1, fin |-> FALSE,
          p |-> IF cnt + 1 = len THEN Start("postamble") ELSE p,
          state |-> IF cnt + 1 = len THEN "POSTAMBLE" ELSE "DATA"]
    [] state = "POSTAMBLE" ->
         [byte |-> Deref(p), p |-> Advanced(p), cnt |-> cnt,
          fin |-> Terminated(Advanced(p)),
          state |-> IF Terminated(Advanced(p)) THEN "FIN" ELSE "POSTAMBLE"]
    [] OTHER ->
         [byte |-> "garbage", p |-> p, cnt |-> cnt, fin |-> FALSE, state |-> state]

\* Mutant: the mutex is not signalled after the last byte.
IsrTxNoSignal ==
  /\ Interrupt
  /\ pt_nirq = "tx" \/ (pt_nirq = "begin" /\ radio_state = "TX")
  /\ LET tx == mac_tx_rfm12 IN
       /\ air' = Append(air, tx.byte)
       /\ state' = tx.state /\ p' = tx.p /\ cnt' = tx.cnt
       /\ IF tx.fin
          THEN rfm12_enable_rx /\ pt_nirq' = "begin"
          ELSE pt_nirq' = "tx" /\ UNCHANGED <<radio_state, txreg, pm>>
  /\ UNCHANGED <<pc, gie, nirq, mutex, len, carrier, open>>

(* rfm12_nirq_thread in STATE_TX: one byte; after the last one the mutex   *)
(* is signalled and the receiver switched on, in the same activation.      *)
IsrTx ==
  /\ Interrupt
  /\ pt_nirq = "tx" \/ (pt_nirq = "begin" /\ radio_state = "TX")
  /\ LET tx == mac_tx_rfm12 IN
       /\ air' = Append(air, tx.byte)
       /\ state' = tx.state /\ p' = tx.p /\ cnt' = tx.cnt
       /\ IF tx.fin
          THEN /\ mutex' = Inc(mutex) /\ rfm12_enable_rx /\ pt_nirq' = "begin"
          ELSE /\ pt_nirq' = "tx" /\ UNCHANGED <<mutex, radio_state, txreg, pm>>
  /\ UNCHANGED <<pc, gie, nirq, len, carrier, open>>

\* Mutant: a reception that loses the signal does not signal the mutex.
IsrRxLeak(status) ==
  /\ Interrupt
  /\ pt_nirq \in {"sem", "rx"} \/ (pt_nirq = "begin" /\ radio_state = "RX")
  /\ status = "LOST" => ~carrier
  /\ IF pt_nirq # "rx" /\ mutex = 0
     THEN pt_nirq' = "sem" /\ UNCHANGED <<mutex, radio_state, txreg, pm, open>>
     ELSE LET held == IF pt_nirq = "rx" THEN mutex ELSE Dec(mutex) IN
            IF status = "OK"
            THEN /\ mutex' = held /\ pt_nirq' = "rx" /\ open' = TRUE
                 /\ UNCHANGED <<radio_state, txreg, pm>>
            ELSE /\ mutex' = IF status = "LOST" THEN held ELSE Inc(held)
                 /\ pt_nirq' = "begin" /\ open' = FALSE
                 /\ rfm12_enable_rx
  /\ UNCHANGED <<pc, gie, nirq, mac, carrier>>

(* rfm12_nirq_thread in STATE_RX.  The byte read from the FIFO is coded    *)
(* data, the end of packet, or nothing of value because the signal was     *)
(* lost (RSSI detection).  A byte that finds the mutex taken is not read:  *)
(* the thread waits for the semaphore until the next interrupt.            *)
IsrRx(status) ==
  /\ Interrupt
  /\ pt_nirq \in {"sem", "rx"} \/ (pt_nirq = "begin" /\ radio_state = "RX")
  /\ status = "LOST" => ~carrier
  /\ IF pt_nirq # "rx" /\ mutex = 0
     THEN pt_nirq' = "sem" /\ UNCHANGED <<mutex, radio_state, txreg, pm, open>>
     ELSE LET held == IF pt_nirq = "rx" THEN mutex ELSE Dec(mutex) IN
            IF status = "OK"
            THEN /\ mutex' = held /\ pt_nirq' = "rx" /\ open' = TRUE
                 /\ UNCHANGED <<radio_state, txreg, pm>>
            ELSE /\ mutex' = Inc(held) /\ pt_nirq' = "begin" /\ open' = FALSE
                 /\ rfm12_enable_rx
  /\ UNCHANGED <<pc, gie, nirq, mac, carrier>>

(* Someone else starts or stops transmitting.                              *)
CarrierRises ==
  /\ ~carrier /\ carrier' = TRUE
  /\ UNCHANGED <<pc, gie, nirq, driver, mac, open>>

CarrierFalls ==
  /\ carrier /\ carrier' = FALSE
  /\ UNCHANGED <<pc, gie, nirq, driver, mac, open>>

-----------------------------------------------------------------------------

Boot == BootSemaphores \/ BootReceiver \/ BootUnmask \/ BootSei

Lock == LockCli \/ LockTest \/ LockDec \/ LockMask \/ LockSei

Send == \/ MacState \/ MacPreamble \/ MacCarrierFree
        \/ TxState \/ TxRegisterOn \/ TxPowerOn \/ TxRestartThread
        \/ Release \/ WaitFin

Isr == IsrTx \/ \E status \in {"OK", "EOP", "LOST"} : IsrRx(status)

Next ==
  \/ Boot \/ Lock \/ Send
  \/ \E n \in Lengths : Request(n)
  \/ Isr \/ CarrierRises \/ CarrierFalls \/ WatchdogReset

Spec == Init /\ [][Next]_vars

(* What is taken for granted of the scheduling: the main loop keeps        *)
(* resuming the protothreads, the transmitter keeps asking for the next    *)
(* byte, no foreign transmission lasts forever, and a sender that listens  *)
(* for a free carrier does not miss every moment when it is free.  Nothing *)
(* is assumed of receptions, which may follow each other without end.      *)
Fairness ==
  /\ WF_vars(Boot) /\ WF_vars(Lock) /\ WF_vars(Send)
  /\ WF_vars(CarrierFalls) /\ SF_vars(MacCarrierFree)
  /\ WF_vars(IsrTx)

FairSpec == Spec /\ Fairness

-----------------------------------------------------------------------------
(* Properties.                                                             *)

(* The main program owns the radio: from the decrement in rfm12_lock until *)
(* the handler has sent the last byte.                                     *)
SenderHolds ==
  \/ pc \in {"lock_mask", "lock_sei"} \cup (Sending \ {"wait_fin"})
  \/ pc = "wait_fin" /\ state # "FIN"

ReceiverHolds == pt_nirq = "rx"

(* The handler never waits for the semaphore (rfm12.c:134).  A handler     *)
(* that waits does not read the FIFO, so the level-triggered nIRQ would    *)
(* fire forever and starve the main program that has to signal.            *)
NirqNeverBlocks == pt_nirq # "sem"

(* The radio has one owner, and the semaphore is 0 exactly while it has    *)
(* one: no signal is lost, none is given twice, and a decrement by the     *)
(* main program never meets one by the handler.                            *)
OneOwner ==
  /\ ~(SenderHolds /\ ReceiverHolds)
  /\ pc # "boot" => mutex = IF SenderHolds \/ ReceiverHolds THEN 0 ELSE 1

(* A frame whose first bytes went up to llc_rx_mac stays the handler's     *)
(* until its end or its loss went up too: no PT_INIT(&pt_nirq) by          *)
(* rfm12_enable_tx cuts it short and leaks the mutex.                      *)
ReceptionNotCut == open => ReceiverHolds

(* When mac_tx sees FIN the transmitter was given exactly the preamble,    *)
(* every coded byte of this packet, and the postamble.                     *)
FrameOnAir == pc = "wait_fin" /\ state = "FIN" => air = Frame(len)

(* Whenever the handler may run, it believes the radio to be in the mode   *)
(* the hardware is in; also after a reset in the middle of a transmission. *)
ModeAgrees ==
  Interrupt => /\ txreg = (radio_state = "TX")
               /\ pm = radio_state

(* A transmission that has got the lock ends (or the watchdog resets).     *)
TransmissionCompletes == (pc \in Sending) ~> (pc \in {"idle", "boot"})

(* If the channel falls silent for good, a waiting sender gets the lock    *)
(* and sends: neither side ever keeps the mutex for itself.                *)
QuietChannelSends ==
  <>[](~ReceiverHolds) => ((pc = "lock_cli") ~> (pc \in {"idle", "boot"}))

-----------------------------------------------------------------------------
(* The refinement mapping to HalfDuplex.                                   *)

Owner == IF pc \in Booting \/ mutex # 0 THEN "nobody"
         ELSE IF ReceiverHolds THEN "receiver" ELSE "sender"

Sender == IF pc \in Booting THEN "down"
          ELSE IF pc = "idle" THEN "idle"
          ELSE IF pc \in {"lock_cli", "lock_test", "lock_dec"} THEN "wanting"
          ELSE IF SenderHolds THEN "sending" ELSE "sent"

HD == INSTANCE HalfDuplex WITH owner <- Owner, sender <- Sender, mode <- pm

(* The driver implements the half duplex radio.                            *)
ImplementsHalfDuplex == HD!Spec
=============================================================================
