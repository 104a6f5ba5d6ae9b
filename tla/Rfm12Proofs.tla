---------------------------- MODULE Rfm12Proofs -----------------------------
(***************************************************************************)
(* Machine-checked proofs about Rfm12, for every set of packet lengths:    *)
(* an inductive invariant, the safety properties that follow from it, and  *)
(* that the driver implements HalfDuplex.                                  *)
(***************************************************************************)
EXTENDS Rfm12, TLAPS

-----------------------------------------------------------------------------
(* The inductive invariant, in parts.                                      *)

(* Interrupts are off exactly inside the atomic section of rfm12_lock and  *)
(* before main_init ends; nIRQ is masked from the lock to the release.     *)
CpuInv ==
  /\ gie <=> (pc \notin Booting \cup (Locking \ {"lock_cli"}))
  /\ nirq <=> (pc \in {"boot_sei", "idle", "lock_cli", "lock_test", "lock_dec",
                     "lock_mask", "wait_fin"})

(* The radio listens unless the sender holds it and has switched it.       *)
Listening ==
  \/ pc \in {"boot_nirq", "boot_sei", "idle", "mac_state", "mac_p", "mac_carrier",
             "tx_state"} \cup Locking
  \/ pc = "wait_fin" /\ state = "FIN"

RadioInv ==
  /\ Listening => radio_state = "RX" /\ ~txreg /\ pm = "RX"
  /\ ~Listening /\ pc \notin Booting => radio_state = "TX"
  /\ pc \in {"tx_pm", "tx_pt", "release"} => txreg
  /\ pc \in {"tx_txreg", "tx_pm"} => pm = "RX"
  /\ pc \in {"tx_pt", "release"} => pm = "TX"
  /\ pc = "wait_fin" /\ state # "FIN" => txreg /\ pm = "TX"

(* Where the handler's thread can be, and who has taken the semaphore.     *)
OwnerInv ==
  /\ NirqNeverBlocks
  /\ OneOwner
  /\ pt_nirq = "tx" => pc = "wait_fin" /\ state # "FIN"
  /\ pc \in Booting \cup {"lock_dec"} => pt_nirq = "begin"
  /\ ReceptionNotCut

(* How far the frame on the air has got.                                   *)
Prefix == \A i \in 1..Len(air) : air[i] = Frame(len)[i]

FrameInv ==
  /\ pc \in Locking \cup Sending => len > 0
  /\ pc \in Locking \cup (Sending \ {"wait_fin"}) => cnt = 0
  /\ pc \in Sending \ {"mac_state", "wait_fin"} => state = "PREAMBLE"
  /\ pc \in Sending \ {"mac_state", "mac_p", "wait_fin"} => p = Start("preamble")
  /\ pc \in {"tx_pt", "release"} => air = <<>>
  /\ pc = "wait_fin" =>
       /\ Prefix
       /\ state = "PREAMBLE" => /\ p = [of |-> "preamble", at |-> Len(air) + 1]
                                /\ Len(air) < 4 /\ cnt = 0
       /\ state = "DATA" => Len(air) = 4 + cnt /\ cnt < len
       /\ state = "POSTAMBLE" =>
            /\ p = [of |-> "postamble", at |-> Len(air) - 3 - len]
            /\ Len(air) \in {len + 4, len + 5}
       /\ state = "FIN" => Len(air) = len + 6

IInv == TypeOK /\ CpuInv /\ RadioInv /\ OwnerInv /\ FrameInv

-----------------------------------------------------------------------------

(* The program starts in the invariant.                                    *)
LEMMA InitInv == ASSUME Init PROVE IInv
  <1> USE DEF Booting, Locking, Sending
  <1>1. TypeOK
    <2>1. pc \in Locations /\ mutex \in Nat /\ mutex < 65536 /\ len \in Nat /\ cnt \in Nat
      BY DEF Init, Locations
    <2>2. FlagsOK
      BY Zenon DEF Init, FlagsOK
    <2>3. p \in [of : {"null", "preamble", "postamble"}, at : Nat]
      BY DEF Init, Start
    <2>4. air \in Seq({"SYNC", "2D", "D4", "data", "EOP", "DUMMY"})
      BY DEF Init
    <2> QED  BY <2>1, <2>2, <2>3, <2>4 DEF Init, TypeOK
  <1>2. CpuInv        BY DEF Init, CpuInv
  <1>3. RadioInv      BY DEF Init, RadioInv, Listening
  <1>4. OwnerInv      BY DEF Init, OwnerInv, NirqNeverBlocks, OneOwner, SenderHolds,
                             ReceiverHolds, ReceptionNotCut
  <1>5. FrameInv      BY DEF Init, FrameInv
  <1> QED  BY <1>1, <1>2, <1>3, <1>4, <1>5 DEF IInv

(* The boolean variables stay boolean.                                     *)
LEMMA FlagsStep == ASSUME FlagsOK, Next PROVE FlagsOK'
  <1> USE DEF FlagsOK, Goto, driver
  <1>1. CASE Boot
    BY Zenon, <1>1 DEF Boot, BootSemaphores, BootReceiver, BootUnmask, BootSei,
                       rfm12_enable_rx
  <1>2. CASE Lock
    BY Zenon, <1>2 DEF Lock, LockCli, LockTest, LockDec, LockMask, LockSei
  <1>3. CASE Send
    BY Zenon, <1>3 DEF Send, MacState, MacPreamble, MacCarrierFree, TxState,
                       TxRegisterOn, TxPowerOn, TxRestartThread, Release, WaitFin
  <1>4. CASE \E n \in Lengths : Request(n)
    BY Zenon, <1>4 DEF Request
  <1>5. CASE IsrTx
    BY Zenon, <1>5 DEF IsrTx, rfm12_enable_rx
  <1>6. CASE \E status \in {"OK", "EOP", "LOST"} : IsrRx(status)
    BY Zenon, <1>6 DEF IsrRx, rfm12_enable_rx
  <1>7. CASE CarrierRises \/ CarrierFalls \/ WatchdogReset
    BY Zenon, <1>7 DEF CarrierRises, CarrierFalls, WatchdogReset
  <1> QED  BY <1>1, <1>2, <1>3, <1>4, <1>5, <1>6, <1>7 DEF Next, Isr

(* Start-up keeps the invariant.                                           *)
LEMMA BootKeepsInv == ASSUME IInv, Boot PROVE IInv'
  <1> USE DEF IInv, Goto, Booting, Locking, Sending
  <1>0. FlagsOK'
    <2>1. FlagsOK  BY DEF TypeOK
    <2> QED  BY <2>1, FlagsStep DEF Next
  <1>a. pt_nirq \in {"begin", "tx", "sem", "rx"}
    BY DEF TypeOK
  <1>1. CASE BootSemaphores
    <2>1. TypeOK'    BY <1>1, <1>0 DEF TypeOK, Locations, BootSemaphores, driver, mac
    <2>2. CpuInv'    BY <1>1 DEF CpuInv, BootSemaphores
    <2>3. RadioInv'  BY <1>1 DEF RadioInv, Listening, BootSemaphores, driver, mac
    <2>4. OwnerInv'  BY <1>1, <1>a DEF OwnerInv, NirqNeverBlocks, OneOwner, SenderHolds,
                            ReceiverHolds, ReceptionNotCut, BootSemaphores, driver, mac
    <2>5. FrameInv'  BY <1>1 DEF FrameInv, Prefix, BootSemaphores, mac
    <2> QED  BY <2>1, <2>2, <2>3, <2>4, <2>5
  <1>2. CASE BootReceiver
    <2>1. TypeOK'    BY <1>2, <1>0 DEF TypeOK, Locations, BootReceiver, driver, mac, rfm12_enable_rx
    <2>2. CpuInv'    BY <1>2 DEF CpuInv, BootReceiver
    <2>3. RadioInv'  BY <1>2 DEF RadioInv, Listening, BootReceiver, driver, mac, rfm12_enable_rx
    <2>4. OwnerInv'  BY <1>2, <1>a DEF OwnerInv, NirqNeverBlocks, OneOwner, SenderHolds,
                            ReceiverHolds, ReceptionNotCut, BootReceiver, driver, mac, rfm12_enable_rx
    <2>5. FrameInv'  BY <1>2 DEF FrameInv, Prefix, BootReceiver, mac, rfm12_enable_rx
    <2> QED  BY <2>1, <2>2, <2>3, <2>4, <2>5
  <1>3. CASE BootUnmask
    <2>1. TypeOK'    BY <1>3, <1>0 DEF TypeOK, Locations, BootUnmask, driver, mac
    <2>2. CpuInv'    BY <1>3 DEF CpuInv, BootUnmask
    <2>3. RadioInv'  BY <1>3 DEF RadioInv, Listening, BootUnmask, driver, mac
    <2>4. OwnerInv'  BY <1>3, <1>a DEF OwnerInv, NirqNeverBlocks, OneOwner, SenderHolds,
                            ReceiverHolds, ReceptionNotCut, BootUnmask, driver, mac
    <2>5. FrameInv'  BY <1>3 DEF FrameInv, Prefix, BootUnmask, mac
    <2> QED  BY <2>1, <2>2, <2>3, <2>4, <2>5
  <1>4. CASE BootSei
    <2>1. TypeOK'    BY <1>4, <1>0 DEF TypeOK, Locations, BootSei, driver, mac
    <2>2. CpuInv'    BY <1>4 DEF CpuInv, BootSei
    <2>3. RadioInv'  BY <1>4 DEF RadioInv, Listening, BootSei, driver, mac
    <2>4. OwnerInv'  BY <1>4, <1>a DEF OwnerInv, NirqNeverBlocks, OneOwner, SenderHolds,
                            ReceiverHolds, ReceptionNotCut, BootSei, driver, mac
    <2>5. FrameInv'  BY <1>4 DEF FrameInv, Prefix, BootSei, mac
    <2> QED  BY <2>1, <2>2, <2>3, <2>4, <2>5
  <1> QED  BY <1>1, <1>2, <1>3, <1>4 DEF Boot

(* rfm12_lock keeps it: it takes the semaphore with interrupts off.        *)
LEMMA LockKeepsInv == ASSUME IInv, Lock PROVE IInv'
  <1> USE DEF IInv, Goto, Booting, Locking, Sending
  <1>0. FlagsOK'
    <2>1. FlagsOK  BY DEF TypeOK
    <2> QED  BY <2>1, FlagsStep DEF Next
  <1>a. pt_nirq \in {"begin", "tx", "sem", "rx"}
    BY DEF TypeOK
  <1>1. CASE LockCli
    <2>1. TypeOK'    BY <1>1, <1>0 DEF TypeOK, Locations, LockCli, driver, mac
    <2>2. CpuInv'    BY <1>1 DEF CpuInv, LockCli
    <2>3. RadioInv'  BY <1>1 DEF RadioInv, Listening, LockCli, driver, mac
    <2>4. OwnerInv'  BY <1>1, <1>a DEF OwnerInv, NirqNeverBlocks, OneOwner, SenderHolds,
                            ReceiverHolds, ReceptionNotCut, LockCli, driver, mac
    <2>5. FrameInv'  BY <1>1 DEF FrameInv, Prefix, LockCli, mac
    <2> QED  BY <2>1, <2>2, <2>3, <2>4, <2>5
  <1>2. CASE LockTest
    <2>1. TypeOK'    BY <1>2, <1>0 DEF TypeOK, Locations, LockTest, driver, mac
    <2>2. CpuInv'    BY <1>2 DEF CpuInv, LockTest
    <2>3. RadioInv'  BY <1>2 DEF RadioInv, Listening, LockTest, driver, mac
    <2>4. OwnerInv'  BY <1>2, <1>a DEF OwnerInv, NirqNeverBlocks, OneOwner, SenderHolds,
                            ReceiverHolds, ReceptionNotCut, LockTest, driver, mac
    <2>5. FrameInv'  BY <1>2 DEF FrameInv, Prefix, LockTest, mac
    <2> QED  BY <2>1, <2>2, <2>3, <2>4, <2>5
  <1>3. CASE LockDec
    <2>1. TypeOK'    BY <1>3, <1>0 DEF TypeOK, Locations, LockDec, driver, mac, Dec
    <2>2. CpuInv'    BY <1>3 DEF CpuInv, LockDec
    <2>3. RadioInv'  BY <1>3 DEF RadioInv, Listening, LockDec, driver, mac, Dec
    <2>4. OwnerInv'  BY <1>3, <1>a DEF OwnerInv, NirqNeverBlocks, OneOwner, SenderHolds,
                            ReceiverHolds, ReceptionNotCut, LockDec, driver, mac, Dec
    <2>5. FrameInv'  BY <1>3 DEF FrameInv, Prefix, LockDec, mac, Dec
    <2> QED  BY <2>1, <2>2, <2>3, <2>4, <2>5
  <1>4. CASE LockMask
    <2>1. TypeOK'    BY <1>4, <1>0 DEF TypeOK, Locations, LockMask, driver, mac
    <2>2. CpuInv'    BY <1>4 DEF CpuInv, LockMask
    <2>3. RadioInv'  BY <1>4 DEF RadioInv, Listening, LockMask, driver, mac
    <2>4. OwnerInv'  BY <1>4, <1>a DEF OwnerInv, NirqNeverBlocks, OneOwner, SenderHolds,
                            ReceiverHolds, ReceptionNotCut, LockMask, driver, mac
    <2>5. FrameInv'  BY <1>4 DEF FrameInv, Prefix, LockMask, mac
    <2> QED  BY <2>1, <2>2, <2>3, <2>4, <2>5
  <1>5. CASE LockSei
    <2>1. TypeOK'    BY <1>5, <1>0 DEF TypeOK, Locations, LockSei, driver, mac
    <2>2. CpuInv'    BY <1>5 DEF CpuInv, LockSei
    <2>3. RadioInv'  BY <1>5 DEF RadioInv, Listening, LockSei, driver, mac
    <2>4. OwnerInv'  BY <1>5, <1>a DEF OwnerInv, NirqNeverBlocks, OneOwner, SenderHolds,
                            ReceiverHolds, ReceptionNotCut, LockSei, driver, mac
    <2>5. FrameInv'  BY <1>5 DEF FrameInv, Prefix, LockSei, mac
    <2> QED  BY <2>1, <2>2, <2>3, <2>4, <2>5
  <1> QED  BY <1>1, <1>2, <1>3, <1>4, <1>5 DEF Lock

(* mac_tx and rfm12_enable_tx keep it, with nIRQ masked until the release. *)
LEMMA SendKeepsInv == ASSUME IInv, Send PROVE IInv'
  <1> USE DEF IInv, Goto, Booting, Locking, Sending
  <1>0. FlagsOK'
    <2>1. FlagsOK  BY DEF TypeOK
    <2> QED  BY <2>1, FlagsStep DEF Next
  <1>a. pt_nirq \in {"begin", "tx", "sem", "rx"}
    BY DEF TypeOK
  <1>1. CASE MacState
    <2>1. TypeOK'    BY <1>1, <1>0 DEF TypeOK, Locations, MacState, driver, mac
    <2>2. CpuInv'    BY <1>1 DEF CpuInv, MacState
    <2>3. RadioInv'  BY <1>1 DEF RadioInv, Listening, MacState, driver, mac
    <2>4. OwnerInv'  BY <1>1, <1>a DEF OwnerInv, NirqNeverBlocks, OneOwner, SenderHolds,
                            ReceiverHolds, ReceptionNotCut, MacState, driver, mac
    <2>5. FrameInv'  BY <1>1 DEF FrameInv, Prefix, MacState, mac
    <2> QED  BY <2>1, <2>2, <2>3, <2>4, <2>5
  <1>2. CASE MacPreamble
    <2>1. TypeOK'    BY <1>2, <1>0 DEF TypeOK, Locations, MacPreamble, driver, mac, Start
    <2>2. CpuInv'    BY <1>2 DEF CpuInv, MacPreamble
    <2>3. RadioInv'  BY <1>2 DEF RadioInv, Listening, MacPreamble, driver, mac, Start
    <2>4. OwnerInv'  BY <1>2, <1>a DEF OwnerInv, NirqNeverBlocks, OneOwner, SenderHolds,
                            ReceiverHolds, ReceptionNotCut, MacPreamble, driver, mac, Start
    <2>5. FrameInv'  BY <1>2 DEF FrameInv, Prefix, MacPreamble, mac, Start
    <2> QED  BY <2>1, <2>2, <2>3, <2>4, <2>5
  <1>3. CASE MacCarrierFree
    <2>1. TypeOK'    BY <1>3, <1>0 DEF TypeOK, Locations, MacCarrierFree, driver, mac
    <2>2. CpuInv'    BY <1>3 DEF CpuInv, MacCarrierFree
    <2>3. RadioInv'  BY <1>3 DEF RadioInv, Listening, MacCarrierFree, driver, mac
    <2>4. OwnerInv'  BY <1>3, <1>a DEF OwnerInv, NirqNeverBlocks, OneOwner, SenderHolds,
                            ReceiverHolds, ReceptionNotCut, MacCarrierFree, driver, mac
    <2>5. FrameInv'  BY <1>3 DEF FrameInv, Prefix, MacCarrierFree, mac
    <2> QED  BY <2>1, <2>2, <2>3, <2>4, <2>5
  <1>4. CASE TxState
    <2>1. TypeOK'    BY <1>4, <1>0 DEF TypeOK, Locations, TxState, driver, mac
    <2>2. CpuInv'    BY <1>4 DEF CpuInv, TxState
    <2>3. RadioInv'  BY <1>4 DEF RadioInv, Listening, TxState, driver, mac
    <2>4. OwnerInv'  BY <1>4, <1>a DEF OwnerInv, NirqNeverBlocks, OneOwner, SenderHolds,
                            ReceiverHolds, ReceptionNotCut, TxState, driver, mac
    <2>5. FrameInv'  BY <1>4 DEF FrameInv, Prefix, TxState, mac
    <2> QED  BY <2>1, <2>2, <2>3, <2>4, <2>5
  <1>5. CASE TxRegisterOn
    <2>1. TypeOK'    BY <1>5, <1>0 DEF TypeOK, Locations, TxRegisterOn, driver, mac
    <2>2. CpuInv'    BY <1>5 DEF CpuInv, TxRegisterOn
    <2>3. RadioInv'  BY <1>5 DEF RadioInv, Listening, TxRegisterOn, driver, mac
    <2>4. OwnerInv'  BY <1>5, <1>a DEF OwnerInv, NirqNeverBlocks, OneOwner, SenderHolds,
                            ReceiverHolds, ReceptionNotCut, TxRegisterOn, driver, mac
    <2>5. FrameInv'  BY <1>5 DEF FrameInv, Prefix, TxRegisterOn, mac
    <2> QED  BY <2>1, <2>2, <2>3, <2>4, <2>5
  <1>6. CASE TxPowerOn
    <2>1. TypeOK'    BY <1>6, <1>0 DEF TypeOK, Locations, TxPowerOn, driver, mac
    <2>2. CpuInv'    BY <1>6 DEF CpuInv, TxPowerOn
    <2>3. RadioInv'  BY <1>6 DEF RadioInv, Listening, TxPowerOn, driver, mac
    <2>4. OwnerInv'  BY <1>6, <1>a DEF OwnerInv, NirqNeverBlocks, OneOwner, SenderHolds,
                            ReceiverHolds, ReceptionNotCut, TxPowerOn, driver, mac
    <2>5. FrameInv'  BY <1>6 DEF FrameInv, Prefix, TxPowerOn, mac
    <2> QED  BY <2>1, <2>2, <2>3, <2>4, <2>5
  <1>7. CASE TxRestartThread
    <2>1. TypeOK'    BY <1>7, <1>0 DEF TypeOK, Locations, TxRestartThread, driver, mac
    <2>2. CpuInv'    BY <1>7 DEF CpuInv, TxRestartThread
    <2>3. RadioInv'  BY <1>7 DEF RadioInv, Listening, TxRestartThread, driver, mac
    <2>4. OwnerInv'  BY <1>7, <1>a DEF OwnerInv, NirqNeverBlocks, OneOwner, SenderHolds,
                            ReceiverHolds, ReceptionNotCut, TxRestartThread, driver, mac
    <2>5. FrameInv'  BY <1>7 DEF FrameInv, Prefix, TxRestartThread, mac
    <2> QED  BY <2>1, <2>2, <2>3, <2>4, <2>5
  <1>8. CASE Release
    <2>1. TypeOK'    BY <1>8, <1>0 DEF TypeOK, Locations, Release, driver, mac
    <2>2. CpuInv'    BY <1>8 DEF CpuInv, Release
    <2>a. state = "PREAMBLE" /\ p = Start("preamble") /\ air = <<>> /\ cnt = 0 /\ len > 0
      BY <1>8 DEF FrameInv, Release
    <2>3. RadioInv'  BY <1>8, <2>a DEF RadioInv, Listening, Release, driver, mac
    <2>4. OwnerInv'  BY <1>8, <2>a, <1>a DEF OwnerInv, NirqNeverBlocks, OneOwner, SenderHolds,
                            ReceiverHolds, ReceptionNotCut, Release, driver, mac
    <2>5. FrameInv'
      <3>1. pc' = "wait_fin" /\ mac' = mac
        BY <1>8 DEF Release
      <3>2. Len(air) = 0
        BY <2>a
      <3>3. p = [of |-> "preamble", at |-> Len(air) + 1]
        BY <2>a, <3>2 DEF Start
      <3>4. Prefix
        BY <3>2 DEF Prefix
      <3> QED  BY <2>a, <3>1, <3>2, <3>3, <3>4 DEF FrameInv, Prefix, mac
    <2> QED  BY <2>1, <2>2, <2>3, <2>4, <2>5
  <1>9. CASE WaitFin
    <2>1. TypeOK'    BY <1>9, <1>0 DEF TypeOK, Locations, WaitFin, driver, mac
    <2>2. CpuInv'    BY <1>9 DEF CpuInv, WaitFin
    <2>3. RadioInv'  BY <1>9 DEF RadioInv, Listening, WaitFin, driver, mac
    <2>4. OwnerInv'  BY <1>9, <1>a DEF OwnerInv, NirqNeverBlocks, OneOwner, SenderHolds,
                            ReceiverHolds, ReceptionNotCut, WaitFin, driver, mac
    <2>5. FrameInv'  BY <1>9 DEF FrameInv, Prefix, WaitFin, mac
    <2> QED  BY <2>1, <2>2, <2>3, <2>4, <2>5
  <1> QED  BY <1>1, <1>2, <1>3, <1>4, <1>5, <1>6, <1>7, <1>8, <1>9 DEF Send

(* A new packet keeps it.                                                  *)
LEMMA RequestKeepsInv == ASSUME IInv, NEW n \in Lengths, Request(n) PROVE IInv'
  <1> USE DEF IInv, Goto, Booting, Locking, Sending
  <1>0. FlagsOK'
    <2>1. FlagsOK  BY DEF TypeOK
    <2> QED  BY <2>1, FlagsStep DEF Next
  <1>1. n \in Nat /\ n > 0
    BY LengthsAssumption
  <1>2. TypeOK'    BY <1>0, <1>1 DEF TypeOK, Locations, Request, driver
  <1>3. CpuInv'    BY DEF CpuInv, Request
  <1>4. RadioInv'  BY DEF RadioInv, Listening, Request, driver
  <1>5. OwnerInv'  BY DEF OwnerInv, NirqNeverBlocks, OneOwner, SenderHolds,
                          ReceiverHolds, ReceptionNotCut, Request, driver
  <1>6. FrameInv'  BY <1>1 DEF FrameInv, Prefix, Request
  <1> QED  BY <1>2, <1>3, <1>4, <1>5, <1>6

(* So do the carrier and the watchdog.                                     *)
LEMMA OthersKeepInv ==
  ASSUME IInv, CarrierRises \/ CarrierFalls \/ WatchdogReset PROVE IInv'
  <1> USE DEF IInv, Booting, Locking, Sending
  <1>0. FlagsOK'
    <2>1. FlagsOK  BY DEF TypeOK
    <2> QED  BY <2>1, FlagsStep DEF Next
  <1>1. CASE CarrierRises \/ CarrierFalls
    <2> USE <1>1 DEF CarrierRises, CarrierFalls, driver, mac
    <2>1. TypeOK'    BY <1>0 DEF TypeOK, Locations
    <2>2. CpuInv'    BY DEF CpuInv
    <2>3. RadioInv'  BY DEF RadioInv, Listening
    <2>4. OwnerInv'  BY DEF OwnerInv, NirqNeverBlocks, OneOwner, SenderHolds,
                            ReceiverHolds, ReceptionNotCut
    <2>5. FrameInv'  BY DEF FrameInv, Prefix
    <2> QED  BY <2>1, <2>2, <2>3, <2>4, <2>5
  <1>2. CASE WatchdogReset
    <2> USE <1>2 DEF WatchdogReset
    <2>1. TypeOK'
      <3>1. p' \in [of : {"null", "preamble", "postamble"}, at : Nat]
        BY DEF Start
      <3>2. air' \in Seq({"SYNC", "2D", "D4", "data", "EOP", "DUMMY"})
        OBVIOUS
      <3> QED  BY <1>0, <3>1, <3>2 DEF TypeOK, Locations
    <2>2. CpuInv'    BY DEF CpuInv
    <2>3. RadioInv'  BY DEF RadioInv, Listening
    <2>4. OwnerInv'  BY DEF OwnerInv, NirqNeverBlocks, OneOwner, SenderHolds,
                            ReceiverHolds, ReceptionNotCut
    <2>5. FrameInv'  BY DEF FrameInv
    <2> QED  BY <2>1, <2>2, <2>3, <2>4, <2>5
  <1> QED  BY <1>1, <1>2

(* A handler that runs finds the main program outside the atomic section   *)
(* of rfm12_lock and outside the stretch in which nIRQ is masked.          *)
LEMMA InterruptedAt ==
  ASSUME IInv, Interrupt
  PROVE  pc \in {"idle", "lock_cli", "wait_fin"}
  BY DEF IInv, CpuInv, TypeOK, Locations, Interrupt, Booting, Locking, Sending

(* The handler keeps it when it receives a byte.                           *)
LEMMA RxKeepsInv ==
  ASSUME IInv, NEW status \in {"OK", "EOP", "LOST"}, IsrRx(status)
  PROVE  IInv'
  <1> USE DEF IInv
  <1>0. FlagsOK'
    <2>1. FlagsOK  BY DEF TypeOK
    <2> QED  BY <2>1, FlagsStep DEF Next, Isr
  <1>1. pc \in {"idle", "lock_cli", "wait_fin"}
    BY InterruptedAt DEF IsrRx
  <1>2. pt_nirq = "rx" \/ (pt_nirq = "begin" /\ radio_state = "RX")
    BY DEF IsrRx, OwnerInv, NirqNeverBlocks
  <1>3. pc = "wait_fin" => state = "FIN"
    BY <1>1, <1>2 DEF OwnerInv, OneOwner, SenderHolds, ReceiverHolds, RadioInv,
                      Listening, Booting
  <1>4. ~SenderHolds
    BY <1>1, <1>3 DEF SenderHolds, Sending
  <1>5. mutex = IF pt_nirq = "rx" THEN 0 ELSE 1
    BY <1>1, <1>4 DEF OwnerInv, OneOwner, ReceiverHolds
  <1>6. UNCHANGED <<pc, gie, nirq, mac, carrier>>
    BY DEF IsrRx
  <1>7. radio_state = "RX" /\ ~txreg /\ pm = "RX"
    BY <1>1, <1>3 DEF RadioInv, Listening, Locking
  <1>8. \/ mutex' = 0 /\ pt_nirq' = "rx" /\ UNCHANGED <<radio_state, txreg, pm>>
        \/ /\ mutex' = 1 /\ pt_nirq' = "begin" /\ ~open'
           /\ radio_state' = "RX" /\ ~txreg' /\ pm' = "RX"
    <2>1. Dec(1) = 0 /\ Inc(0) = 1
      BY DEF Dec, Inc
    <2> QED  BY <1>2, <1>5, <2>1 DEF IsrRx, rfm12_enable_rx
  <1>9. TypeOK'
    BY <1>0, <1>6, <1>8 DEF TypeOK, mac
  <1>10. CpuInv'
    BY <1>6 DEF CpuInv
  <1>11. RadioInv'
    BY <1>1, <1>3, <1>6, <1>7, <1>8 DEF RadioInv, Listening, Booting, Locking, mac
  <1>12. OwnerInv'
    BY <1>1, <1>3, <1>6, <1>8 DEF OwnerInv, NirqNeverBlocks, OneOwner, SenderHolds,
       ReceiverHolds, ReceptionNotCut, Booting, Sending, mac
  <1>13. FrameInv'
    BY <1>6 DEF FrameInv, Prefix, mac
  <1> QED  BY <1>9, <1>10, <1>11, <1>12, <1>13

-----------------------------------------------------------------------------
(* Frames on the air.                                                      *)

Bytes == {"SYNC", "2D", "D4", "data", "EOP", "DUMMY"}

(* The bytes of a frame, by position.                                      *)
LEMMA FrameAt ==
  ASSUME NEW n \in Nat, NEW i \in 1..(n + 6)
  PROVE  /\ i <= 4 => Frame(n)[i] = Preamble[i]
         /\ i > 4 /\ i <= n + 4 => Frame(n)[i] = "data"
         /\ i > n + 4 => Frame(n)[i] = Postamble[i - n - 4]
  BY DEF Frame

(* Reading p inside one of the two arrays yields that array's byte, and p  *)
(* is terminated exactly past its last byte.                               *)
LEMMA Pointer ==
  ASSUME NEW i \in Nat
  PROVE  /\ i \in 1..4 => Deref([of |-> "preamble", at |-> i]) = Preamble[i]
         /\ i \in 1..2 => Deref([of |-> "postamble", at |-> i]) = Postamble[i]
         /\ Terminated([of |-> "preamble", at |-> i]) <=> i > 4
         /\ Terminated([of |-> "postamble", at |-> i]) <=> i > 2
  <1>1. Len(Preamble) = 4 /\ Len(Postamble) = 2
    BY DEF Preamble, Postamble
  <1>2. Array("preamble") = Preamble /\ Array("postamble") = Postamble
    BY DEF Array
  <1> QED  BY <1>1, <1>2 DEF Deref, Terminated

(* The two arrays hold bytes.                                              *)
LEMMA BytesOfArrays ==
  /\ \A i \in 1..4 : Preamble[i] \in Bytes
  /\ \A i \in 1..2 : Postamble[i] \in Bytes
  BY DEF Preamble, Postamble, Bytes

(* Appending the byte that comes next keeps what is on the air a prefix.   *)
LEMMA NextByte ==
  ASSUME Prefix, air \in Seq(Bytes), len \in Nat, NEW b \in Bytes,
         b = Frame(len)[Len(air) + 1], air' = Append(air, b), len' = len
  PROVE  Prefix' /\ air' \in Seq(Bytes) /\ Len(air') = Len(air) + 1
  BY DEF Prefix

(* The handler keeps it when it sends a byte.                              *)
LEMMA TxKeepsInv == ASSUME IInv, IsrTx PROVE IInv'
  <1> USE DEF IInv
  <1>0. FlagsOK'
    <2>1. FlagsOK  BY DEF TypeOK
    <2> QED  BY <2>1, FlagsStep DEF Next, Isr
  <1>1. pc \in {"idle", "lock_cli", "wait_fin"}
    BY InterruptedAt DEF IsrTx
  <1>2. pc = "wait_fin" /\ state # "FIN"
    BY <1>1 DEF IsrTx, OwnerInv, RadioInv, Listening, Locking
  <1>3. SenderHolds /\ mutex = 0
    BY <1>2 DEF SenderHolds, OwnerInv, OneOwner
  <1>4. ~open
    BY <1>2, <1>3 DEF OwnerInv, OneOwner, ReceptionNotCut
  <1>5. radio_state = "TX" /\ txreg /\ pm = "TX"
    BY <1>2 DEF RadioInv, Listening, Booting, Locking
  <1>6. UNCHANGED <<pc, gie, nirq, len, carrier, open>>
    BY DEF IsrTx
  <1>7. len \in Nat /\ len > 0 /\ cnt \in Nat /\ air \in Seq(Bytes) /\ Len(air) \in Nat
    BY <1>2 DEF TypeOK, FrameInv, Sending, Bytes
  <1>8. /\ Prefix
        /\ state = "PREAMBLE" => /\ p = [of |-> "preamble", at |-> Len(air) + 1]
                                 /\ Len(air) < 4 /\ cnt = 0
        /\ state = "DATA" => Len(air) = 4 + cnt /\ cnt < len
        /\ state = "POSTAMBLE" =>
             /\ p = [of |-> "postamble", at |-> Len(air) - 3 - len]
             /\ Len(air) \in {len + 4, len + 5}
    BY <1>2 DEF FrameInv
  <1> DEFINE tx == mac_tx_rfm12
  <1>9. /\ air' = Append(air, tx.byte)
        /\ state' = tx.state /\ p' = tx.p /\ cnt' = tx.cnt
        /\ tx.fin => mutex' = Inc(mutex) /\ rfm12_enable_rx /\ pt_nirq' = "begin"
        /\ ~tx.fin => pt_nirq' = "tx" /\ UNCHANGED <<mutex, radio_state, txreg, pm>>
    BY DEF IsrTx
  (* What the byte is, and where that leaves mac.c.                        *)
  <1>10. /\ tx.byte \in Bytes
         /\ tx.byte = Frame(len)[Len(air) + 1]
         /\ tx.cnt \in Nat
         /\ tx.state \in {"PREAMBLE", "DATA", "POSTAMBLE", "FIN"}
         /\ tx.p \in [of : {"null", "preamble", "postamble"}, at : Nat]
         /\ tx.fin <=> tx.state = "FIN"
         /\ tx.state = "PREAMBLE" =>
              /\ tx.p = [of |-> "preamble", at |-> Len(air) + 2]
              /\ Len(air) + 1 < 4 /\ tx.cnt = 0
         /\ tx.state = "DATA" => Len(air) + 1 = 4 + tx.cnt /\ tx.cnt < len
         /\ tx.state = "POSTAMBLE" =>
              /\ tx.p = [of |-> "postamble", at |-> Len(air) - 2 - len]
              /\ Len(air) + 1 \in {len + 4, len + 5}
         /\ tx.state = "FIN" => Len(air) + 1 = len + 6
    <2>1. CASE state = "PREAMBLE"
      <3> DEFINE i == Len(air) + 1
      <3>1. i \in 1..4 /\ i + 1 \in Nat /\ i \in Nat /\ i \in 1..(len + 6)
        BY <2>1, <1>7, <1>8
      <3>2. p = [of |-> "preamble", at |-> i]
        BY <2>1, <1>8
      <3>3. Advanced(p) = [of |-> "preamble", at |-> i + 1]
        BY <3>2 DEF Advanced
      <3>4. Deref(p) = Preamble[i] /\ (Terminated(Advanced(p)) <=> i + 1 > 4)
        BY <3>1, <3>2, <3>3, Pointer
      <3>5. tx = [byte |-> Preamble[i], p |-> [of |-> "preamble", at |-> i + 1],
                  cnt |-> cnt, fin |-> FALSE,
                  state |-> IF i + 1 > 4 THEN "DATA" ELSE "PREAMBLE"]
        BY <2>1, <3>3, <3>4 DEF mac_tx_rfm12
      <3>6. Preamble[i] \in Bytes /\ Preamble[i] = Frame(len)[i]
        BY <3>1, <1>7, FrameAt, BytesOfArrays
      <3> HIDE DEF tx
      <3> QED  BY <3>1, <3>5, <3>6, <2>1, <1>7, <1>8
    <2>2. CASE state = "DATA"
      <3>1. tx = [byte |-> "data", cnt |-> cnt + 1, fin |-> FALSE,
                  p |-> IF cnt + 1 = len THEN [of |-> "postamble", at |-> 1] ELSE p,
                  state |-> IF cnt + 1 = len THEN "POSTAMBLE" ELSE "DATA"]
        BY <2>2 DEF mac_tx_rfm12, Start
      <3>2. Frame(len)[Len(air) + 1] = "data"
        BY <2>2, <1>7, <1>8, FrameAt
      <3>3. p \in [of : {"null", "preamble", "postamble"}, at : Nat]
        BY DEF TypeOK
      <3> HIDE DEF tx
      <3> QED  BY <3>1, <3>2, <3>3, <2>2, <1>7, <1>8 DEF Bytes
    <2>3. CASE state = "POSTAMBLE"
      <3> DEFINE i == Len(air) - 3 - len
      <3>1. i \in 1..2 /\ i + 1 \in Nat /\ i \in Nat /\ Len(air) + 1 \in 1..(len + 6)
            /\ Len(air) + 1 > len + 4 /\ (Len(air) + 1) - len - 4 = i
        BY <2>3, <1>7, <1>8
      <3>2. p = [of |-> "postamble", at |-> i]
        BY <2>3, <1>8
      <3>3. Advanced(p) = [of |-> "postamble", at |-> i + 1]
        BY <3>2 DEF Advanced
      <3>4. Deref(p) = Postamble[i] /\ (Terminated(Advanced(p)) <=> i + 1 > 2)
        BY <3>1, <3>2, <3>3, Pointer
      <3>5. tx = [byte |-> Postamble[i], p |-> [of |-> "postamble", at |-> i + 1],
                  cnt |-> cnt, fin |-> Terminated(Advanced(p)),
                  state |-> IF i + 1 > 2 THEN "FIN" ELSE "POSTAMBLE"]
        BY <2>3, <3>3, <3>4 DEF mac_tx_rfm12
      <3>6. Postamble[i] \in Bytes /\ Postamble[i] = Frame(len)[Len(air) + 1]
        BY <3>1, <1>7, FrameAt, BytesOfArrays
      <3> HIDE DEF tx
      <3>7. /\ tx.byte = Postamble[i] /\ tx.p = [of |-> "postamble", at |-> i + 1]
            /\ tx.cnt = cnt /\ tx.state = IF i + 1 > 2 THEN "FIN" ELSE "POSTAMBLE"
        BY <3>5
      <3>8. tx.fin <=> i + 1 > 2
        BY Zenon, <3>4, <3>5
      <3>9. tx.p = [of |-> "postamble", at |-> Len(air) - 2 - len]
            /\ tx.p \in [of : {"null", "preamble", "postamble"}, at : Nat]
        BY <3>1, <3>7, <1>7
      <3>10. CASE i = 1
        BY <3>10, <3>1, <3>6, <3>7, <3>8, <3>9, <1>7
      <3>11. CASE i = 2
        BY <3>11, <3>1, <3>6, <3>7, <3>8, <3>9, <1>7
      <3> QED  BY <3>1, <3>10, <3>11
    <2> QED  BY <1>2, <2>1, <2>2, <2>3 DEF TypeOK
  <1> HIDE DEF tx
  <1>11. Prefix' /\ air' \in Seq(Bytes) /\ Len(air') = Len(air) + 1
    BY <1>6, <1>7, <1>8, <1>9, <1>10, NextByte
  <1>12. \/ /\ state' = "FIN" /\ mutex' = 1 /\ pt_nirq' = "begin"
            /\ radio_state' = "RX" /\ ~txreg' /\ pm' = "RX"
         \/ /\ state' # "FIN" /\ mutex' = 0 /\ pt_nirq' = "tx"
            /\ radio_state' = "TX" /\ txreg' /\ pm' = "TX"
    <2>1. Inc(0) = 1
      BY DEF Inc
    <2> QED  BY <1>3, <1>5, <1>9, <1>10, <2>1 DEF rfm12_enable_rx
  <1>13. TypeOK'
    BY <1>0, <1>6, <1>9, <1>10, <1>11, <1>12 DEF TypeOK, Bytes
  <1>14. CpuInv'
    BY <1>6 DEF CpuInv
  <1>15. RadioInv'
    BY <1>2, <1>6, <1>12 DEF RadioInv, Listening, Booting, Locking
  <1>16. OwnerInv'
    BY <1>2, <1>4, <1>6, <1>12 DEF OwnerInv, NirqNeverBlocks, OneOwner, SenderHolds,
       ReceiverHolds, ReceptionNotCut, Booting, Sending
  <1>17. FrameInv'
    BY <1>2, <1>6, <1>7, <1>9, <1>10, <1>11 DEF FrameInv, Locking, Sending
  <1> QED  BY <1>13, <1>14, <1>15, <1>16, <1>17

-----------------------------------------------------------------------------
(* The invariant is inductive.                                             *)
LEMMA StepInv == ASSUME IInv, [Next]_vars PROVE IInv'
  <1>1. CASE Next
    BY <1>1, BootKeepsInv, LockKeepsInv, SendKeepsInv, RequestKeepsInv, TxKeepsInv,
       RxKeepsInv, OthersKeepInv DEF Next, Isr
  <1>2. CASE UNCHANGED vars
    <2> USE <1>2 DEF vars, driver, mac, IInv
    <2>1. TypeOK'    BY DEF TypeOK, FlagsOK
    <2>2. CpuInv'    BY DEF CpuInv
    <2>3. RadioInv'  BY DEF RadioInv, Listening
    <2>4. OwnerInv'  BY DEF OwnerInv, NirqNeverBlocks, OneOwner, SenderHolds,
                            ReceiverHolds, ReceptionNotCut
    <2>5. FrameInv'  BY DEF FrameInv, Prefix
    <2> QED  BY <2>1, <2>2, <2>3, <2>4, <2>5
  <1> QED  BY <1>1, <1>2

(* The invariant holds in every reachable state.                           *)
THEOREM Invariance == Spec => []IInv
  BY InitInv, StepInv, PTL DEF Spec

(* Every variable keeps its type, the semaphore its 16 bits.               *)
THEOREM TypeCorrect == Spec => []TypeOK
  <1>1. IInv => TypeOK
    BY DEF IInv
  <1> QED  BY <1>1, Invariance, PTL

(* The nIRQ handler is never parked at PT_SEM_WAIT: whenever it runs, its  *)
(* own reception holds the mutex already or the mutex is free.             *)
THEOREM HandlerNeverBlocks == Spec => []NirqNeverBlocks
  <1>1. IInv => NirqNeverBlocks
    BY DEF IInv, OwnerInv
  <1> QED  BY <1>1, Invariance, PTL

(* The sender and the handler exclude each other, and the count of the     *)
(* semaphore is the number of owners still allowed.                        *)
THEOREM MutualExclusion == Spec => []OneOwner
  <1>1. IInv => OneOwner
    BY DEF IInv, OwnerInv
  <1> QED  BY <1>1, Invariance, PTL

(* A reception that has begun is not cut short by rfm12_enable_tx.         *)
THEOREM ReceptionsEnd == Spec => []ReceptionNotCut
  <1>1. IInv => ReceptionNotCut
    BY DEF IInv, OwnerInv
  <1> QED  BY <1>1, Invariance, PTL

(* Frames of every length go out whole and in order.                       *)
THEOREM WholeFrames == Spec => []FrameOnAir
  <1>1. IInv => FrameOnAir
    <2> SUFFICES ASSUME IInv, pc = "wait_fin", state = "FIN"
                 PROVE  air = Frame(len)
      BY DEF FrameOnAir
    <2>1. len \in Nat /\ air \in Seq(Bytes)
      BY DEF IInv, TypeOK, Bytes
    <2>2. Prefix /\ Len(air) = len + 6
      BY DEF IInv, FrameInv
    <2>3. DOMAIN air = 1..(len + 6) /\ air = [i \in 1..(len + 6) |-> air[i]]
      BY <2>1, <2>2
    <2>4. \A i \in 1..(len + 6) : air[i] = Frame(len)[i]
      BY <2>2 DEF Prefix
    <2>5. Frame(len) = [i \in 1..(len + 6) |-> Frame(len)[i]]
      BY <2>1 DEF Frame
    <2> QED  BY <2>3, <2>4, <2>5
  <1> QED  BY <1>1, Invariance, PTL

(* The handler never runs with the hardware in the other mode.             *)
THEOREM ModesAgree == Spec => []ModeAgrees
  <1>1. IInv => ModeAgrees
    <2> SUFFICES ASSUME IInv, Interrupt
                 PROVE  (txreg <=> radio_state = "TX") /\ pm = radio_state
      BY DEF ModeAgrees, IInv, TypeOK, FlagsOK
    <2>1. pc \in {"idle", "lock_cli", "wait_fin"}
      BY InterruptedAt
    <2> QED  BY <2>1 DEF IInv, RadioInv, Listening, Booting, Locking
  <1> QED  BY <1>1, Invariance, PTL

-----------------------------------------------------------------------------
(* The driver implements the half duplex radio.                            *)

(* Every step of the driver is a step of the abstract radio or leaves the  *)
(* abstract state alone.  Under the invariant the owner can be read off    *)
(* the program locations (<1>o).                                           *)
LEMMA StepRefines ==
  ASSUME IInv, IInv', [Next]_vars
  PROVE  [HD!Next]_(HD!vars)
  <1> USE DEF Goto, driver, mac, Booting, Locking, Sending
  <1>o. /\ Owner = IF pc \in Booting THEN "nobody"
                   ELSE IF SenderHolds THEN "sender"
                   ELSE IF ReceiverHolds THEN "receiver" ELSE "nobody"
        /\ Owner' = IF pc' \in Booting THEN "nobody"
                    ELSE IF SenderHolds' THEN "sender"
                    ELSE IF ReceiverHolds' THEN "receiver" ELSE "nobody"
    BY DEF IInv, OwnerInv, OneOwner, Owner
  <1>1. CASE BootSemaphores \/ BootUnmask
    <2>1. UNCHANGED <<Owner, Sender, pm>>
      BY <1>1, <1>o DEF BootSemaphores, BootUnmask, Sender
    <2> QED  BY <2>1 DEF HD!vars
  <1>2. CASE BootReceiver
    <2>1. Sender = "down" /\ Sender' = "down" /\ Owner' = Owner /\ pm' = "RX"
      BY <1>2, <1>o DEF BootReceiver, rfm12_enable_rx, Sender
    <2> QED  BY <2>1 DEF HD!Next, HD!ReceiverOn
  <1>3. CASE BootSei
    <2>1. /\ Sender = "down" /\ Sender' = "idle" /\ Owner' = Owner
          /\ pm = "RX" /\ pm' = pm
      BY <1>3, <1>o DEF BootSei, Sender, SenderHolds, ReceiverHolds,
         IInv, OwnerInv, RadioInv, Listening
    <2> QED  BY <2>1 DEF HD!Next, HD!Ready
  <1>4. CASE LockDec
    <2>1. /\ Sender = "wanting" /\ Sender' = "sending"
          /\ Owner = "nobody" /\ Owner' = "sender" /\ pm' = pm
      BY <1>4, <1>o DEF LockDec, Sender, SenderHolds, ReceiverHolds, IInv, OwnerInv
    <2> QED  BY <2>1 DEF HD!Next, HD!Acquire
  <1>5. CASE LockCli \/ LockTest \/ LockMask \/ LockSei
    <2>1. UNCHANGED <<Owner, Sender, pm>>
      BY <1>5, <1>o DEF LockCli, LockTest, LockMask, LockSei, Sender, SenderHolds,
         ReceiverHolds
    <2> QED  BY <2>1 DEF HD!vars
  <1>6. CASE TxPowerOn
    <2>1. /\ Sender = "sending" /\ Owner = "sender" /\ pm' = "TX"
          /\ Sender' = Sender /\ Owner' = Owner
      BY <1>6, <1>o DEF TxPowerOn, Sender, SenderHolds
    <2> QED  BY <2>1 DEF HD!Next, HD!TransmitterOn
  <1>7. CASE MacState \/ MacPreamble \/ MacCarrierFree \/ TxState \/ TxRegisterOn
             \/ TxRestartThread
    <2>1. UNCHANGED <<Owner, Sender, pm>>
      BY <1>7, <1>o DEF MacState, MacPreamble, MacCarrierFree, TxState, TxRegisterOn,
         TxRestartThread, Sender, SenderHolds
    <2> QED  BY <2>1 DEF HD!vars
  <1>8. CASE Release
    <2>1. state = "PREAMBLE" /\ state' = "PREAMBLE"
      BY <1>8 DEF Release, IInv, FrameInv
    <2>2. UNCHANGED <<Owner, Sender, pm>>
      BY <1>8, <1>o, <2>1 DEF Release, Sender, SenderHolds
    <2> QED  BY <2>2 DEF HD!vars
  <1>9. CASE WaitFin
    <2>1. Sender = "sent" /\ Sender' = "idle" /\ Owner' = Owner /\ pm' = pm
      BY <1>9, <1>o DEF WaitFin, Sender, SenderHolds, ReceiverHolds
    <2> QED  BY <2>1 DEF HD!Next, HD!Notice
  <1>10. CASE \E n \in Lengths : Request(n)
    <2>1. Sender = "idle" /\ Sender' = "wanting" /\ Owner' = Owner /\ pm' = pm
      BY <1>10, <1>o DEF Request, Sender, SenderHolds, ReceiverHolds
    <2> QED  BY <2>1 DEF HD!Next, HD!Prompt
  <1>11. CASE IsrTx
    <2>1. pc \in {"idle", "lock_cli", "wait_fin"}
      BY <1>11, InterruptedAt DEF IsrTx
    <2>2. pc = "wait_fin" /\ state # "FIN" /\ pc' = pc
      BY <1>11, <2>1 DEF IsrTx, IInv, OwnerInv, RadioInv, Listening
    <2>3. pm = "TX" /\ Sender = "sending" /\ Owner = "sender"
      BY <2>2, <1>o DEF IInv, RadioInv, Sender, SenderHolds
    <2>4. CASE state' = "FIN"
      <3>1. ~SenderHolds' /\ Sender' = "sent"
        BY <2>2, <2>4 DEF SenderHolds, Sender
      <3>2. ~ReceiverHolds'
        BY <1>11 DEF IsrTx, ReceiverHolds
      <3>3. pm' = "RX" /\ Owner' = "nobody"
        BY <2>2, <2>4, <3>1, <3>2, <1>o DEF IInv, RadioInv, Listening
      <3> QED  BY <2>3, <3>1, <3>3 DEF HD!Next, HD!LastByteSent
    <2>5. CASE state' # "FIN"
      <3>1. SenderHolds' /\ Sender' = "sending" /\ pm' = "TX"
        BY <2>2, <2>5 DEF SenderHolds, Sender, IInv, RadioInv
      <3>2. Owner' = "sender"
        BY <2>2, <3>1, <1>o
      <3> QED  BY <2>3, <3>1, <3>2 DEF HD!vars
    <2> QED  BY <2>4, <2>5
  <1>12. CASE \E status \in {"OK", "EOP", "LOST"} : IsrRx(status)
    <2>1. PICK status \in {"OK", "EOP", "LOST"} : IsrRx(status)
      BY <1>12
    <2>2. pc \in {"idle", "lock_cli", "wait_fin"} /\ UNCHANGED <<pc, state>>
      BY <2>1, InterruptedAt DEF IsrRx
    <2>3. ~SenderHolds /\ ~SenderHolds'
      <3>1. pc = "wait_fin" => state = "FIN"
        BY <2>1, <2>2 DEF IsrRx, IInv, OwnerInv, OneOwner, NirqNeverBlocks, SenderHolds,
           ReceiverHolds, RadioInv, Listening
      <3> QED  BY <2>2, <3>1 DEF SenderHolds
    <2>4. Sender' = Sender /\ Sender # "down"
      BY <2>2 DEF Sender, SenderHolds
    <2>5. pm = "RX" /\ pm' = "RX"
      BY <2>2, <2>3 DEF IInv, RadioInv, Listening, SenderHolds
    <2>6. Owner \in {"nobody", "receiver"} /\ Owner' \in {"nobody", "receiver"}
      BY <2>2, <2>3, <1>o
    <2> QED  BY <2>4, <2>5, <2>6
             DEF HD!Next, HD!vars, HD!FirstByteReceived, HD!LastByteReceived
  <1>13. CASE CarrierRises \/ CarrierFalls \/ UNCHANGED vars
    <2>1. UNCHANGED <<Owner, Sender, pm>>
      BY <1>13 DEF CarrierRises, CarrierFalls, vars, Owner, Sender, SenderHolds,
         ReceiverHolds
    <2> QED  BY <2>1 DEF HD!vars
  <1>14. CASE WatchdogReset
    <2>1. Sender' = "down" /\ Owner' = "nobody" /\ pm' = pm
      BY <1>14 DEF WatchdogReset, Sender, Owner
    <2> QED  BY <2>1 DEF HD!Next, HD!Reset
  <1> QED
    BY <1>1, <1>2, <1>3, <1>4, <1>5, <1>6, <1>7, <1>8, <1>9, <1>10, <1>11, <1>12, <1>13,
       <1>14 DEF Next, Boot, Lock, Send, Isr

(* Seen from above, the driver is a half duplex radio with one owner.      *)
THEOREM Refinement == Spec => ImplementsHalfDuplex
  <1>1. Init => HD!Init
    BY DEF Init, HD!Init, Owner, Sender, Booting
  <1> QED  BY <1>1, StepRefines, Invariance, PTL
           DEF Spec, ImplementsHalfDuplex, HD!Spec
=============================================================================
