--------------------------- MODULE MainLoopProofs ---------------------------
(***************************************************************************)
(* Proofs about MainLoop, for every length of a second and of the          *)
(* watchdog's patience that the assumption of MainLoop allows.             *)
(***************************************************************************)
EXTENDS MainLoop, SequenceTheorems, TLAPS

(* Where the main program is between the kick of the watchdog and the end  *)
(* of one_second_elapsed.                                                  *)
Polling == {"timer", "clear"}

(* The clock part of the type invariant.                                   *)
ClockType ==
  /\ pc \in Boot \cup Loop \cup Failing
  /\ step \in Nat /\ (pc = "callbacks" => step \in 1..2)
  /\ wdt \in 0..BITE
  /\ timer_cnt \in 0..(SECOND - 1) /\ behind \in Nat

(* timer_cnt tells how long ago the second that waits was over: after the  *)
(* last clearing, so not longer ago than the kick before it.               *)
NotLate ==
  second_notify => timer_cnt + 1 <= (IF pc \in Polling THEN BITE + wdt ELSE wdt)

ClearsOne == pc = "clear" => second_notify

(* While interrupts are off no second waits.                               *)
NoneWaits == pc \notin Loop => ~ second_notify

ClockInv == ClockType /\ NotLate /\ ClearsOne /\ NoneWaits /\ SecondsCounted

(* The list has the two callbacks, the clock's first.                      *)
LEMMA Callbacks ==
  /\ Len(cb_list) = 2
  /\ cb_list[1] = "clock_update" /\ cb_list[2] # "clock_update"
BY DEF cb_list, timer_register_cb

(* The clock keeps up from the start.                                      *)
LEMMA ClockInit == Init => ClockInv
BY MainLoopAssumption
DEF Init, ClockInv, ClockType, NotLate, ClearsOne, NoneWaits, SecondsCounted, Boot, Loop, Failing,
    Transfer, Polling, RECORD

(* No step lets the clock fall behind.                                     *)
LEMMA ClockStep == ClockInv /\ [Next]_vars => ClockInv'
<1> SUFFICES ASSUME ClockInv, [Next]_vars PROVE ClockInv'
  OBVIOUS
<1> USE MainLoopAssumption, Callbacks
    DEF ClockInv, ClockType, NotLate, ClearsOne, NoneWaits, SecondsCounted, Boot, Loop, Failing,
        Transfer, Polling, clock, report, settings, radio, RECORD
<1>1. CASE config_init \/ watchdog_init \/ Erase \/ main_init
  <2>1. CASE config_init
    BY <2>1 DEF config_init
  <2>2. CASE watchdog_init
    <3>1. /\ pc = "watchdog_init" /\ pc' = "erase" /\ step' = 0 /\ wdt' = 0
          /\ timer_cnt' = timer_cnt /\ second_notify' = second_notify /\ behind' = behind
      BY <2>2 DEF watchdog_init
    <3> QED
      BY <3>1
  <2>3. CASE Erase
    BY <2>3 DEF Erase, Rewritten
  <2>4. CASE main_init
    BY <2>4 DEF main_init
  <2> QED
    BY <1>1, <2>1, <2>2, <2>3, <2>4
<1>2. CASE Threads \/ watchdog \/ TimerTest
  BY <1>2 DEF Threads, watchdog, TimerTest
<1>3. CASE TimerClear
  BY <1>3 DEF TimerClear
<1>4. CASE Callback
  BY <1>4 DEF Callback
<1>5. CASE ConfigLow \/ ConfigHigh \/ \E v \in Values : ConfigSet(v)
  BY <1>5 DEF ConfigLow, ConfigHigh, ConfigSet
<1>6. CASE Shift
  BY <1>6 DEF Shift, BusStep
<1>7. CASE DeselectRadio \/ \E w \in {"status", "command"} : SelectRadio(w)
  BY <1>7 DEF DeselectRadio, SelectRadio
<1>8. CASE ShiftedOut \/ \E ready \in BOOLEAN : NirqHandler(ready)
  BY <1>8 DEF ShiftedOut, NirqHandler
<1>9. CASE watchdog_error \/ \E e \in Errors : RaiseError(e)
  <2>1. CASE watchdog_error
    BY <2>1 DEF watchdog_error, Rewritten
  <2>2. CASE \E e \in Errors : RaiseError(e)
    BY <2>2 DEF RaiseError, Forgotten
  <2> QED
    BY <1>9, <2>1, <2>2
<1>10. CASE Tick
  <2>1. wdt \in 0..(BITE - 1) /\ wdt' = wdt + 1 /\ UNCHANGED <<pc, step>>
    BY <1>10 DEF Tick
  <2>2. CASE ~ Running
    BY <1>10, <2>1, <2>2 DEF Tick
  <2>3. CASE Running /\ timer_cnt + 1 # SECOND
    <3>1. timer_cnt' = timer_cnt + 1 /\ (second_notify' <=> second_notify) /\ behind' = behind
      BY <1>10, <2>3 DEF Tick, TimerHandler
    <3> QED
      BY <2>1, <2>3, <3>1
  <2>4. CASE Running /\ timer_cnt + 1 = SECOND
    <3>1. ~ second_notify
      BY <2>1, <2>4
    <3>2. timer_cnt' = 0 /\ second_notify' = TRUE /\ behind' = behind + 1
      BY <1>10, <2>4 DEF Tick, TimerHandler
    <3>3. NotLate' /\ ClockType'
      BY <2>1, <3>2
    <3>4. ClearsOne' /\ NoneWaits'
      BY <2>1, <2>4, <3>2 DEF Running
    <3>5. SecondsCounted'
      BY <2>1, <3>1, <3>2
    <3> QED
      BY <3>3, <3>4, <3>5
  <2> QED
    BY <2>2, <2>3, <2>4
<1>11. CASE WatchdogBites \/ UserResets
  <2>1. Reset
    BY <1>11 DEF WatchdogBites, UserResets
  <2> QED
    BY <2>1 DEF Reset, Forgotten
<1>12. CASE UNCHANGED vars
  BY <1>12 DEF vars
<1> QED
  BY <1>1, <1>2, <1>3, <1>4, <1>5, <1>6, <1>7, <1>8, <1>9, <1>10, <1>11, <1>12
  DEF Next, Main, Time

(* No second is lost or counted twice, whatever the main loop does between *)
(* two kicks of its watchdog (timer.c:18-70).                              *)
THEOREM NoSecondLost == Spec => []SecondsCounted
<1>1. ClockInv => SecondsCounted
  BY DEF ClockInv
<1> QED
  BY ClockInit, ClockStep, <1>1, PTL DEF Spec

-----------------------------------------------------------------------------
(* The settings.                                                           *)

Pair == Nat \X Nat

(* Torn only between the two bytes, and from then to the next config_init. *)
SettingsInv ==
  /\ int_settings \in Pair /\ answered \in Pair
  /\ pc \notin {"config_init", "config_lo", "config_hi"} \cup Failing =>
       int_settings = answered /\ int_settings_eemem = answered
  /\ pc = "config_lo" => int_settings_eemem = answered
  /\ pc = "config_hi" => int_settings_eemem = <<int_settings[1], answered[2]>>
  /\ SettingsKept

(* Two pairs with the same bytes are the same word.                        *)
LEMMA PairIsItsBytes == \A v \in Pair : v = <<v[1], v[2]>> /\ v[1] \in Nat /\ v[2] \in Nat
BY DEF Pair

(* Both have the stored setting at first.                                  *)
LEMMA SettingsInit == Init => SettingsInv
BY ValuesAssumption
DEF Init, SettingsInv, SettingsKept, Pair, Running, Loop, Transfer, Failing

(* No step mixes more than the two bytes that are being written.           *)
LEMMA SettingsStep == SettingsInv /\ [Next]_vars => SettingsInv'
<1> SUFFICES ASSUME SettingsInv, [Next]_vars PROVE SettingsInv'
  OBVIOUS
<1> USE DEF SettingsInv, SettingsKept, Running, Loop, Transfer, Failing,
            clock, report, settings, radio
<1>1. CASE config_init
  <2>1. int_settings_eemem \in Pair
    BY PairIsItsBytes DEF Pair
  <2>2. pc' = "watchdog_init" /\ int_settings' = int_settings_eemem
        /\ answered' = int_settings_eemem /\ int_settings_eemem' = int_settings_eemem
    BY <1>1 DEF config_init
  <2> QED
    BY <2>1, <2>2
<1>2. CASE watchdog_init \/ Erase \/ main_init
  BY <1>2 DEF watchdog_init, Erase, main_init
<1>3. CASE Threads \/ watchdog \/ TimerTest \/ TimerClear \/ Callback
  BY <1>3 DEF Threads, watchdog, TimerTest, TimerClear, Callback
<1>4. CASE \E v \in Values : ConfigSet(v)
  BY <1>4, ValuesAssumption DEF ConfigSet, Pair
<1>5. CASE ConfigLow
  BY <1>5 DEF ConfigLow
<1>6. CASE ConfigHigh
  <2>1. int_settings = <<int_settings[1], int_settings[2]>>
    BY PairIsItsBytes
  <2>2. int_settings_eemem[1] = int_settings[1]
    BY <1>6 DEF ConfigHigh
  <2> QED
    BY <1>6, <2>1, <2>2 DEF ConfigHigh
<1>7. CASE Shift
  BY <1>7 DEF Shift, BusStep
<1>8. CASE DeselectRadio \/ \E w \in {"status", "command"} : SelectRadio(w)
  BY <1>8 DEF DeselectRadio, SelectRadio
<1>9. CASE ShiftedOut \/ \E ready \in BOOLEAN : NirqHandler(ready)
  BY <1>9 DEF ShiftedOut, NirqHandler
<1>10. CASE watchdog_error \/ \E e \in Errors : RaiseError(e)
  BY <1>10 DEF watchdog_error, RaiseError
<1>11. CASE Time \/ UserResets
  BY <1>11 DEF Time, Tick, WatchdogBites, UserResets, Reset
<1>12. CASE UNCHANGED vars
  BY <1>12 DEF vars
<1> QED
  BY <1>1, <1>2, <1>3, <1>4, <1>5, <1>6, <1>7, <1>8, <1>9, <1>10, <1>11, <1>12
  DEF Next, Main

(* A reset in the middle of eeprom_write_word leaves the old word, the new *)
(* one, or the new low byte with the old high byte, whatever the words are *)
(* (config.c:20-39).                                                       *)
THEOREM SettingsSurvive == Spec => []SettingsKept
<1>1. SettingsInv => SettingsKept
  BY DEF SettingsInv
<1> QED
  BY SettingsInit, SettingsStep, <1>1, PTL DEF Spec

-----------------------------------------------------------------------------
(* The error record.                                                       *)

(* A tick since the last byte.                                             *)
Ticks == IF late THEN 1 ELSE 0

(* A record of the error alone, without which start-up finds none.         *)
Whole == record = IF raised = "none" THEN Erased ELSE [k \in 1..RECORD |-> raised]

RecordType ==
  /\ pc \in Boot \cup Loop \cup Failing
  /\ step \in Nat /\ wdt \in Nat
  /\ record \in [1..RECORD -> Errors \cup {Default}]
  /\ raised \in Errors \cup {"none"}

NothingElse == \A k \in 1..RECORD : record[k] \in {Default, raised}

(* The record is erased in time, as the watchdog has just been kicked.     *)
Erasing ==
  pc = "erase" => /\ step < RECORD /\ wdt <= step + Ticks
                  /\ \A k \in 1..step : record[k] = Default

NoError == pc \in {"main_init"} \cup Loop => record = Erased /\ raised = "none"

(* An error that is not too late is written before the watchdog bites.     *)
Reporting ==
  pc = "error" => /\ step < RECORD /\ raised # "none"
                  /\ \A k \in 1..step : record[k] = raised
                  /\ ~ cut => wdt + RECORD <= BITE + step + Ticks

Reported ==
  /\ pc = "halt" => raised # "none" /\ Whole
  /\ pc \in {"config_init", "watchdog_init"} => (~ cut => Whole)

ReportInv == RecordType /\ NothingElse /\ Erasing /\ NoError /\ Reporting /\ Reported

(* A record that has all its bytes of the same kind.                       *)
LEMMA SameBytes ==
  ASSUME NEW b, RecordType, step + 1 = RECORD, \A k \in 1..step : record[k] = b
  PROVE  [record EXCEPT ![step + 1] = b] = [k \in 1..RECORD |-> b]
<1>1. step \in Nat /\ record \in [1..RECORD -> Errors \cup {Default}]
  BY DEF RecordType
<1>2. \A k \in 1..RECORD : k # step + 1 => record[k] = b
  BY <1>1 DEF RECORD
<1> QED
  BY <1>1, <1>2

(* In the main loop the record stays erased.                               *)
LEMMA LoopKeepsReport ==
  ASSUME ReportInv, pc \in {"main_init"} \cup Loop, pc' \in Loop,
         step' \in Nat, wdt' \in Nat, UNCHANGED report
  PROVE  ReportInv'
BY DEF ReportInv, RecordType, NothingElse, Erasing, NoError, Reporting, Reported, Boot, Loop,
       Transfer, Failing, report

(* At first there is no error.                                             *)
LEMMA ReportInit == Init => ReportInv
BY MainLoopAssumption
DEF Init, ReportInv, RecordType, NothingElse, Erasing, NoError, Reporting, Reported, Whole,
    Erased, Boot, Loop, Transfer, Failing, RECORD, Default

(* No step of the program, of its handlers or of time spoils a record that *)
(* was raised in time.                                                     *)
LEMMA ReportStep == ReportInv /\ [Next]_vars => ReportInv'
<1> SUFFICES ASSUME ReportInv, [Next]_vars PROVE ReportInv'
  OBVIOUS
<1> USE MainLoopAssumption
    DEF ReportInv, RecordType, NothingElse, Erasing, NoError, Reporting, Reported, Whole,
        Boot, Loop, Transfer, Failing, Ticks, clock, report, settings, radio
<1>1. CASE config_init
  BY <1>1 DEF config_init
<1>2. CASE watchdog_init
  BY <1>2 DEF watchdog_init, RECORD
<1>3. CASE Erase
  <2>1. CASE step + 1 = RECORD
    <3>1. record' = Erased
      BY <1>3, <2>1, SameBytes DEF Erase, Rewritten, Erased
    <3>2. pc' = "main_init" /\ step' = RECORD /\ wdt' = wdt /\ raised' = "none"
      BY <1>3, <2>1 DEF Erase, Rewritten
    <3> QED
      BY <3>1, <3>2 DEF Erased, RECORD, Default
  <2>2. CASE step + 1 # RECORD
    BY <1>3, <2>2 DEF Erase, Rewritten, RECORD, Default
  <2> QED
    BY <2>1, <2>2
<1>4. CASE main_init
  BY <1>4, LoopKeepsReport DEF main_init
<1>5. CASE Threads \/ watchdog \/ TimerTest \/ TimerClear
  BY <1>5, LoopKeepsReport DEF Threads, watchdog, TimerTest, TimerClear
<1>6. CASE Callback
  BY <1>6, LoopKeepsReport DEF Callback
<1>7. CASE ConfigLow \/ ConfigHigh \/ \E v \in Values : ConfigSet(v)
  BY <1>7, LoopKeepsReport DEF ConfigLow, ConfigHigh, ConfigSet
<1>8. CASE Shift \/ DeselectRadio \/ \E w \in {"status", "command"} : SelectRadio(w)
  BY <1>8, LoopKeepsReport DEF Shift, BusStep, DeselectRadio, SelectRadio
<1>9. CASE ShiftedOut \/ \E ready \in BOOLEAN : NirqHandler(ready)
  <2>1. UNCHANGED <<pc, step, wdt, late, report>>
    BY <1>9 DEF ShiftedOut, NirqHandler
  <2> QED
    BY <2>1
<1>10. CASE \E e \in Errors : RaiseError(e)
  <2>1. PICK e \in Errors : RaiseError(e)
    BY <1>10
  <2>2. /\ pc' = "error" /\ step' = 0 /\ ~ late' /\ raised' = e /\ wdt' = wdt
        /\ record' = Erased /\ (cut' <=> wdt + RECORD > BITE)
    BY <2>1 DEF RaiseError, Running
  <2>3. RecordType' /\ NothingElse'
    BY <2>2 DEF Erased, Default
  <2>4. Reporting'
    BY <2>2, MainLoopAssumption DEF RECORD
  <2> QED
    BY <2>2, <2>3, <2>4
<1>11. CASE watchdog_error
  <2>1. CASE step + 1 = RECORD
    <3>1. record' = [k \in 1..RECORD |-> raised]
      BY <1>11, <2>1, SameBytes DEF watchdog_error, Rewritten
    <3>2. pc' = "halt" /\ step' = RECORD /\ wdt' = wdt /\ raised' = raised /\ raised # "none"
      BY <1>11, <2>1 DEF watchdog_error, Rewritten
    <3> QED
      BY <3>1, <3>2 DEF RECORD
  <2>2. CASE step + 1 # RECORD
    BY <1>11, <2>2 DEF watchdog_error, Rewritten, RECORD, Default
  <2> QED
    BY <2>1, <2>2
<1>12. CASE Tick
  <2>1. UNCHANGED <<pc, step, record, raised, cut>> /\ wdt' = wdt + 1
    BY <1>12 DEF Tick, report
  <2>2. CASE Writing
    <3>1. ~ late /\ late'
      BY <1>12, <2>2 DEF Tick, MayPass
    <3> QED
      BY <2>1, <2>2, <3>1 DEF Writing, RECORD
  <2>3. CASE ~ Writing
    BY <2>1, <2>3 DEF Writing
  <2> QED
    BY <2>2, <2>3
<1>13. CASE WatchdogBites
  BY <1>13 DEF WatchdogBites, MayPass, WatchdogOn, Writing, Reset, RECORD
<1>14. CASE UserResets
  BY <1>14 DEF UserResets, Reset, Writing
<1>15. CASE UNCHANGED vars
  BY <1>15 DEF vars
<1> QED
  BY <1>1, <1>2, <1>3, <1>4, <1>5, <1>6, <1>7, <1>8, <1>9, <1>10, <1>11, <1>12, <1>13,
     <1>14, <1>15
  DEF Next, Main, Time

(* What start-up reports is the error that ended the last life, whatever   *)
(* the watchdog's patience (watchdog.c:52-79).                             *)
THEOREM ReportsTrue == Spec => ReportTrue
<1>1. ReportInv /\ [Next]_vars =>
        [ watchdog_init =>
            /\ \A k \in 1..RECORD : record[k] \in {Default, raised}
            /\ ~ cut => record = IF raised = "none" THEN Erased
                                 ELSE [k \in 1..RECORD |-> raised] ]_vars
  BY DEF ReportInv, NothingElse, Reported, Whole, watchdog_init
<1> QED
  BY ReportInit, ReportStep, <1>1, PTL DEF Spec, ReportTrue

-----------------------------------------------------------------------------
(* The SPI.                                                                *)

Fields == {"shifting", "spif", "seen", "selected", "got"}

IsBus(b) ==
  DOMAIN b = Fields /\ b.spif \in BOOLEAN /\ b.seen \in BOOLEAN /\ b.selected \in BOOLEAN

Bus(b, shifting, spif, seen, selected, got) ==
  /\ IsBus(b)
  /\ b.shifting = shifting /\ (b.spif <=> spif) /\ (b.seen <=> seen)
  /\ (b.selected <=> selected) /\ b.got = got

Idle(b) == Bus(b, Nothing, FALSE, FALSE, FALSE, <<>>)

(* The bus while the main program alone uses it: a byte is being sent, ... *)
Sending(byte, got) == Bus(bus, byte, FALSE, FALSE, TRUE, got)
(* ... it is out, ...                                                      *)
Out(got) == Bus(bus, Nothing, TRUE, FALSE, TRUE, got)
(* ... the main program has seen that, ...                                 *)
Seen(got) == Bus(bus, Nothing, TRUE, TRUE, TRUE, got)
(* ... and has read what came back.                                        *)
Quiet(got) == Bus(bus, Nothing, FALSE, FALSE, TRUE, got)

Alone ==
  LET first == <<Hi(word)>>
      both == <<Hi(word), Lo(word)>>
  IN  \/ pc = "write_hi" /\ Quiet(<<>>)
      \/ pc = "wait_hi" /\ (Sending(Hi(word), <<>>) \/ Out(first))
      \/ pc = "read_hi" /\ Seen(first)
      \/ pc = "write_lo" /\ Quiet(first)
      \/ pc = "wait_lo" /\ (Sending(Lo(word), first) \/ Out(both))
      \/ pc = "read_lo" /\ Seen(both)
      \/ pc = "ss_high" /\ Quiet(both)

(* The handler has been there since the radio was selected, and has        *)
(* deselected it.  Only the command d lets it.                             *)
Intruded ==
  /\ word = "status" /\ IsBus(bus) /\ ~ bus.selected /\ bus.got = <<>>
  /\ bus.spif => bus.shifting = Nothing
  /\ bus.seen => bus.spif
  /\ pc \in {"write_hi", "write_lo", "ss_high"} => Idle(bus)
  /\ pc \in {"read_hi", "read_lo"} => bus.shifting = Nothing /\ (bus.spif => bus.seen)
  /\ pc \in {"wait_hi", "wait_lo"} => ~ bus.seen

BusInv ==
  /\ IF pc \in Transfer THEN word \in {"status", "command"} /\ (Alone \/ Intruded)
                        ELSE word = "none" /\ Idle(bus) /\ ~ garbled
  /\ garbled => pc \in {"wait_hi", "wait_lo"} /\ word = "status" /\ Idle(bus)

LEMMA Bytes ==
  /\ Part # Nothing /\ <<"status8">> # Nothing
  /\ \A w : Hi(w) # Nothing /\ Lo(w) # Nothing
BY DEF Part, Nothing, Hi, Lo

LEMMA IdleAtFirst == Idle(SpiIdle)
BY DEF Idle, Bus, IsBus, Fields, SpiIdle

(* What the operations of Spi make of a bus.                               *)
LEMMA AccessedBus ==
  ASSUME NEW b, IsBus(b)
  PROVE  LET c == Accessed(b)
         IN  /\ IsBus(c) /\ c.shifting = b.shifting /\ (c.spif <=> b.spif /\ ~ b.seen)
             /\ ~ c.seen /\ (c.selected <=> b.selected) /\ c.got = b.got
BY DEF Accessed, IsBus, Fields

LEMMA WrittenBus ==
  ASSUME NEW b, IsBus(b), NEW x
  PROVE  LET c == SpdrWrite(b, x)
         IN  /\ IsBus(c) /\ c.shifting = (IF b.shifting = Nothing THEN x ELSE b.shifting)
             /\ (c.spif <=> b.spif /\ ~ b.seen)
             /\ ~ c.seen /\ (c.selected <=> b.selected) /\ c.got = b.got
<1> DEFINE a == Accessed(b)
<1>1. /\ IsBus(a) /\ a.shifting = b.shifting /\ (a.spif <=> b.spif /\ ~ b.seen)
      /\ ~ a.seen /\ (a.selected <=> b.selected) /\ a.got = b.got
  BY AccessedBus
<1>2. SpdrWrite(b, x) = [a EXCEPT !.shifting = IF @ = Nothing THEN x ELSE @]
  BY DEF SpdrWrite
<1> HIDE DEF a
<1> QED
  BY <1>1, <1>2 DEF IsBus, Fields

LEMMA ShiftedBus ==
  ASSUME NEW b, IsBus(b)
  PROVE  LET c == Shifted(b)
         IN  /\ IsBus(c) /\ c.shifting = Nothing /\ c.spif
             /\ (c.seen <=> b.seen) /\ (c.selected <=> b.selected)
             /\ c.got = (IF b.selected THEN Append(b.got, b.shifting) ELSE b.got)
BY DEF Shifted, IsBus, Fields

LEMMA ReadBus ==
  ASSUME NEW b, IsBus(b)
  PROVE  LET c == SpsrRead(b)
         IN  /\ IsBus(c) /\ c.shifting = b.shifting /\ (c.spif <=> b.spif)
             /\ c.seen /\ (c.selected <=> b.selected) /\ c.got = b.got
BY DEF SpsrRead, IsBus, Fields

LEMMA SelectedBus ==
  ASSUME NEW b, IsBus(b)
  PROVE  LET c == spi_ss_low(b)
         IN  /\ IsBus(c) /\ (c.spif <=> b.spif) /\ (c.seen <=> b.seen) /\ c.selected
             /\ c.shifting = (IF b.selected \/ b.shifting = Nothing THEN b.shifting ELSE Part)
             /\ c.got = (IF b.selected THEN b.got ELSE <<>>)
BY DEF spi_ss_low, Split, IsBus, Fields

LEMMA DeselectedBus ==
  ASSUME NEW b, IsBus(b), b.selected
  PROVE  LET c == spi_ss_high(b)
         IN  /\ IsBus(c) /\ (c.spif <=> b.spif) /\ (c.seen <=> b.seen) /\ ~ c.selected
             /\ c.shifting = (IF b.shifting = Nothing THEN Nothing ELSE Part)
             /\ c.got = <<>>
BY DEF spi_ss_high, Split, IsBus, Fields

(* A byte that waits to be shifted out or has just been.                   *)
LEMMA BlockedBus ==
  ASSUME NEW b, IsBus(b), ~ b.spif
  PROVE  LET c == spi_block_until_sent(b)
         IN  /\ IsBus(c) /\ c.shifting = Nothing /\ c.spif
             /\ c.seen /\ (c.selected <=> b.selected)
             /\ c.got = (IF b.selected THEN Append(b.got, b.shifting) ELSE b.got)
<1> DEFINE s == Shifted(b)
<1>1. /\ IsBus(s) /\ s.shifting = Nothing /\ s.spif
      /\ (s.seen <=> b.seen) /\ (s.selected <=> b.selected)
      /\ s.got = (IF b.selected THEN Append(b.got, b.shifting) ELSE b.got)
  BY ShiftedBus
<1>2. spi_block_until_sent(b) = SpsrRead(s)
  BY DEF spi_block_until_sent
<1> HIDE DEF s
<1> QED
  BY <1>1, <1>2, ReadBus

(* The handler takes a byte that is being sent for its own and leaves the  *)
(* bus idle, unless SPIF was up before it came and nobody had seen it:     *)
(* then it leaves a part of its own byte on the bus.                       *)
LEMMA Polled ==
  ASSUME NEW b, IsBus(b)
  PROVE  LET c == spi_tx(b, <<"status8">>)
         IN  IF b.spif /\ ~ b.seen THEN Bus(c, Part, FALSE, FALSE, FALSE, <<>>) ELSE Idle(c)
<1>1. PICK b1 : b1 = spi_ss_low(b)
  OBVIOUS
<1>2. IsBus(b1) /\ (b1.spif <=> b.spif) /\ (b1.seen <=> b.seen) /\ b1.selected
  BY <1>1, SelectedBus
<1>3. PICK b2 : b2 = SpdrWrite(b1, <<"status8">>)
  OBVIOUS
<1>4. /\ IsBus(b2) /\ b2.shifting # Nothing /\ (b2.spif <=> b.spif /\ ~ b.seen)
      /\ ~ b2.seen /\ b2.selected
  <2>1. PICK x : x = <<"status8">>
    OBVIOUS
  <2>2. x # Nothing /\ b2 = SpdrWrite(b1, x)
    BY <1>3, <2>1, Bytes
  <2>3. IsBus(b2) /\ ~ b2.seen /\ (b2.selected <=> b1.selected) /\ b2.shifting # Nothing
    BY <1>2, <2>2, WrittenBus
  <2>4. b2.spif <=> b1.spif /\ ~ b1.seen
    BY <1>2, <2>2, WrittenBus
  <2> QED
    BY <1>2, <2>2, <2>3, <2>4
<1>5. PICK b3 : b3 = spi_block_until_sent(b2)
  OBVIOUS
<1>6. /\ IsBus(b3) /\ b3.spif /\ b3.seen /\ b3.selected
      /\ b3.shifting = (IF b.spif /\ ~ b.seen THEN b2.shifting ELSE Nothing)
  <2>1. CASE b2.spif
    <3>1. b3 = SpsrRead(b2)
      BY <1>5, <2>1 DEF spi_block_until_sent
    <3> QED
      BY <1>4, <2>1, <3>1, ReadBus
  <2>2. CASE ~ b2.spif
    BY <1>4, <1>5, <2>2, BlockedBus
  <2> QED
    BY <2>1, <2>2
<1>7. PICK b4 : b4 = spi_ss_high(b3)
  OBVIOUS
<1>8. /\ IsBus(b4) /\ b4.spif /\ b4.seen /\ ~ b4.selected /\ b4.got = <<>>
      /\ b4.shifting = (IF b.spif /\ ~ b.seen THEN Part ELSE Nothing)
  BY <1>4, <1>6, <1>7, DeselectedBus
<1>9. PICK b5 : b5 = SpdrRead(b4)
  OBVIOUS
<1>10. /\ IsBus(b5) /\ ~ b5.spif /\ ~ b5.seen /\ ~ b5.selected
       /\ b5.got = <<>> /\ b5.shifting = b4.shifting
  BY <1>8, <1>9, AccessedBus DEF SpdrRead
<1>11. spi_tx(b, <<"status8">>) = b5
  BY <1>1, <1>3, <1>5, <1>7, <1>9 DEF spi_tx
<1> QED
  BY <1>8, <1>10, <1>11 DEF Bus, Idle

LEMMA TwoBytes == ASSUME NEW x, NEW y PROVE Append(Append(<<>>, x), y) = <<x, y>>
<1> DEFINE s == Append(Append(<<>>, x), y)
           t == <<x, y>>
<1>1. s \in Seq({x, y}) /\ Len(s) = 2 /\ s[1] = x /\ s[2] = y
  OBVIOUS
<1>2. t \in Seq({x, y}) /\ Len(t) = 2
  OBVIOUS
<1>3. t[1] = x /\ t[2] = y
  OBVIOUS
<1>4. \A i \in 1..2 : s[i] = t[i]
  <2>1. \A i \in 1..2 : i = 1 \/ i = 2
    OBVIOUS
  <2> HIDE DEF s, t
  <2> QED
    BY <1>1, <1>3, <2>1
<1>5. s = t
  <2> HIDE DEF s, t
  <2> QED
    BY <1>1, <1>2, <1>4, SeqEqual
<1> QED
  BY <1>5

(* A command that finds the bus idle reaches the radio, and after any      *)
(* command the bus is idle.                                                *)
LEMMA CommandSent ==
  ASSUME NEW b, NEW s, Bus(b, s, FALSE, FALSE, FALSE, <<>>)
  PROVE  LET last == spi_tx16_sent(b, Hi("command"), Lo("command"))
         IN  Idle(spi_ss_high(last)) /\ (s = Nothing => Received(last) = Command)
<1> DEFINE h == Hi("command")
           l == Lo("command")
<1>1. h # Nothing /\ l # Nothing
  BY Bytes
<1> HIDE DEF h, l
<1>2. PICK b1 : b1 = spi_ss_low(b)
  OBVIOUS
<1>3. /\ IsBus(b1) /\ ~ b1.spif /\ ~ b1.seen /\ b1.selected
      /\ b1.got = <<>> /\ (s = Nothing => b1.shifting = Nothing)
  BY <1>2, SelectedBus DEF Bus
<1>4. PICK b2 : b2 = SpdrWrite(b1, h)
  OBVIOUS
<1>5. /\ IsBus(b2) /\ ~ b2.spif /\ ~ b2.seen /\ b2.selected
      /\ b2.got = <<>> /\ (s = Nothing => b2.shifting = h)
  BY <1>3, <1>4, WrittenBus
<1>6. PICK b3 : b3 = spi_block_until_sent(b2)
  OBVIOUS
<1>7. /\ IsBus(b3) /\ b3.spif /\ b3.seen /\ b3.selected
      /\ b3.shifting = Nothing /\ (s = Nothing => b3.got = Append(<<>>, h))
  BY <1>5, <1>6, BlockedBus
<1>8. PICK b4 : b4 = SpdrRead(b3)
  OBVIOUS
<1>9. /\ IsBus(b4) /\ ~ b4.spif /\ ~ b4.seen /\ b4.selected
      /\ b4.shifting = Nothing /\ (s = Nothing => b4.got = Append(<<>>, h))
  BY <1>7, <1>8, AccessedBus DEF SpdrRead
<1>10. PICK b5 : b5 = SpdrWrite(b4, l)
  OBVIOUS
<1>11. /\ IsBus(b5) /\ ~ b5.spif /\ ~ b5.seen /\ b5.selected
       /\ b5.shifting = l /\ (s = Nothing => b5.got = Append(<<>>, h))
  BY <1>9, <1>10, WrittenBus
<1>12. PICK b6 : b6 = spi_block_until_sent(b5)
  OBVIOUS
<1>13. /\ IsBus(b6) /\ b6.spif /\ b6.seen /\ b6.selected
       /\ b6.shifting = Nothing /\ (s = Nothing => b6.got = Append(Append(<<>>, h), l))
  BY <1>11, <1>12, BlockedBus
<1>14. PICK b7 : b7 = SpdrRead(b6)
  OBVIOUS
<1>15. /\ IsBus(b7) /\ ~ b7.spif /\ ~ b7.seen /\ b7.selected
       /\ b7.shifting = Nothing /\ (s = Nothing => b7.got = Append(Append(<<>>, h), l))
  BY <1>13, <1>14, AccessedBus DEF SpdrRead
<1>16. spi_tx16_sent(b, h, l) = b7
  BY <1>2, <1>4, <1>6, <1>8, <1>10, <1>12, <1>14 DEF spi_tx16_sent
<1>17. Idle(spi_ss_high(b7))
  BY <1>15, DeselectedBus DEF Idle, Bus
<1>18. s = Nothing => Received(b7) = Command
  <2>1. Append(Append(<<>>, h), l) = <<h, l>>
    BY TwoBytes
  <2>2. <<h, l>> \o <<>> = <<h, l>>
    OBVIOUS
  <2>3. s = Nothing => Received(b7) = <<h, l>>
    BY <1>15, <2>1, <2>2 DEF Received
  <2> QED
    BY <2>3 DEF Command, h, l
<1> QED
  BY <1>16, <1>17, <1>18 DEF h, l

LEMMA BusInit == Init => BusInv
BY IdleAtFirst DEF Init, BusInv, Transfer

(* The radio is selected, ...                                              *)
LEMMA BusSelected ==
  ASSUME BusInv, NEW w \in {"status", "command"}, SelectRadio(w)
  PROVE  BusInv'
<1>1. /\ pc = "shell" /\ pc' = "write_hi" /\ word' = w /\ bus' = spi_ss_low(bus)
      /\ garbled' = garbled
  BY DEF SelectRadio
<1>2. Idle(bus) /\ ~ garbled
  BY <1>1 DEF BusInv, Transfer
<1>3. Bus(bus', Nothing, FALSE, FALSE, TRUE, <<>>)
  BY <1>1, <1>2, SelectedBus DEF Idle, Bus
<1> QED
  BY <1>1, <1>2, <1>3 DEF BusInv, Transfer, Alone, Quiet

(* ... gets the bytes of the word, ...                                     *)
LEMMA BusShifts ==
  ASSUME BusInv, Shift
  PROVE  BusInv'
<1>1. /\ pc \in Transfer /\ word \in {"status", "command"} /\ (Alone \/ Intruded)
      /\ IsBus(bus) /\ word' = word /\ garbled' = garbled
  BY DEF BusInv, Shift, BusStep, Transfer, Alone, Intruded, Sending, Out, Seen, Quiet, Bus
<1>2. ~ garbled
  BY DEF BusInv, Shift, BusStep, Idle, Bus
<1>3. \/ pc = "write_hi" /\ pc' = "wait_hi" /\ bus' = SpdrWrite(bus, Hi(word))
      \/ pc = "wait_hi" /\ pc' = "read_hi" /\ bus' = SpsrRead(bus) /\ bus.spif
      \/ pc = "read_hi" /\ pc' = "write_lo" /\ bus' = Accessed(bus)
      \/ pc = "write_lo" /\ pc' = "wait_lo" /\ bus' = SpdrWrite(bus, Lo(word))
      \/ pc = "wait_lo" /\ pc' = "read_lo" /\ bus' = SpsrRead(bus) /\ bus.spif
      \/ pc = "read_lo" /\ pc' = "ss_high" /\ bus' = Accessed(bus)
  BY DEF Shift, BusStep, SpdrRead
<1>4. pc' \in Transfer
  BY <1>3 DEF Transfer
<1>5. CASE Alone
  <2>1. CASE pc = "write_hi"
    <3>1. Bus(bus', Hi(word), FALSE, FALSE, TRUE, <<>>) /\ pc' = "wait_hi"
      BY <1>3, <1>5, <2>1, WrittenBus DEF Alone, Quiet, Bus
    <3> QED
      BY <1>1, <1>2, <1>4, <3>1 DEF BusInv, Alone, Sending
  <2>2. CASE pc = "wait_hi"
    <3>1. Bus(bus', Nothing, TRUE, TRUE, TRUE, <<Hi(word)>>) /\ pc' = "read_hi"
      BY <1>3, <1>5, <2>2, ReadBus DEF Alone, Sending, Out, Bus
    <3> QED
      BY <1>1, <1>2, <1>4, <3>1 DEF BusInv, Alone, Seen
  <2>3. CASE pc = "read_hi"
    <3>1. Bus(bus', Nothing, FALSE, FALSE, TRUE, <<Hi(word)>>) /\ pc' = "write_lo"
      BY <1>3, <1>5, <2>3, AccessedBus DEF Alone, Seen, Bus
    <3> QED
      BY <1>1, <1>2, <1>4, <3>1 DEF BusInv, Alone, Quiet
  <2>4. CASE pc = "write_lo"
    <3>1. Bus(bus', Lo(word), FALSE, FALSE, TRUE, <<Hi(word)>>) /\ pc' = "wait_lo"
      BY <1>3, <1>5, <2>4, WrittenBus DEF Alone, Quiet, Bus
    <3> QED
      BY <1>1, <1>2, <1>4, <3>1 DEF BusInv, Alone, Sending
  <2>5. CASE pc = "wait_lo"
    <3>1. Bus(bus', Nothing, TRUE, TRUE, TRUE, <<Hi(word), Lo(word)>>) /\ pc' = "read_lo"
      BY <1>3, <1>5, <2>5, ReadBus DEF Alone, Sending, Out, Bus
    <3> QED
      BY <1>1, <1>2, <1>4, <3>1 DEF BusInv, Alone, Seen
  <2>6. CASE pc = "read_lo"
    <3>1. Bus(bus', Nothing, FALSE, FALSE, TRUE, <<Hi(word), Lo(word)>>) /\ pc' = "ss_high"
      BY <1>3, <1>5, <2>6, AccessedBus DEF Alone, Seen, Bus
    <3> QED
      BY <1>1, <1>2, <1>4, <3>1 DEF BusInv, Alone, Quiet
  <2> QED
    BY <1>3, <2>1, <2>2, <2>3, <2>4, <2>5, <2>6
<1>6. CASE Intruded
  <2>1. word' = "status" /\ ~ bus.selected /\ bus.got = <<>>
    BY <1>1, <1>6 DEF Intruded
  <2>2. CASE pc \in {"write_hi", "write_lo"}
    <3>1. IsBus(bus') /\ ~ bus'.selected /\ bus'.got = <<>> /\ ~ bus'.spif /\ ~ bus'.seen
      BY <1>3, <1>6, <2>2, WrittenBus DEF Intruded, Idle, Bus
    <3>2. pc' \in {"wait_hi", "wait_lo"}
      BY <1>3, <2>2
    <3> QED
      BY <1>1, <1>2, <1>4, <2>1, <3>1, <3>2 DEF BusInv, Intruded
  <2>3. CASE pc \in {"wait_hi", "wait_lo"}
    <3>1. /\ IsBus(bus') /\ ~ bus'.selected /\ bus'.got = <<>> /\ bus'.spif /\ bus'.seen
          /\ bus'.shifting = Nothing
      BY <1>1, <1>3, <1>6, <2>3, ReadBus DEF Intruded
    <3>2. pc' \in {"read_hi", "read_lo"}
      BY <1>3, <2>3
    <3> QED
      BY <1>1, <1>2, <1>4, <2>1, <3>1, <3>2 DEF BusInv, Intruded
  <2>4. CASE pc \in {"read_hi", "read_lo"}
    <3>1. bus' = Accessed(bus) /\ pc' \in {"write_lo", "ss_high"}
      BY <1>3, <2>4
    <3>2. bus.shifting = Nothing /\ (bus.spif => bus.seen)
      BY <1>6, <2>4 DEF Intruded
    <3>3. /\ IsBus(bus') /\ ~ bus'.selected /\ bus'.got = <<>> /\ ~ bus'.spif /\ ~ bus'.seen
          /\ bus'.shifting = Nothing
      BY <1>1, <2>1, <3>1, <3>2, AccessedBus
    <3> QED
      BY <1>1, <1>2, <1>4, <2>1, <3>1, <3>3 DEF BusInv, Intruded, Idle, Bus
  <2> QED
    BY <1>3, <2>2, <2>3, <2>4
<1> QED
  BY <1>1, <1>5, <1>6

(* ... and is deselected with a whole command.                             *)
LEMMA BusDeselected ==
  ASSUME BusInv, DeselectRadio
  PROVE  BusInv'
<1>1. /\ pc = "ss_high" /\ pc' = "shell" /\ word' = "none" /\ bus' = spi_ss_high(bus)
      /\ garbled' = (garbled \/ (word = "command" /\ Received(bus) # Command))
  BY DEF DeselectRadio
<1>2. ~ garbled /\ word \in {"status", "command"} /\ (Alone \/ Intruded)
  BY <1>1 DEF BusInv, Transfer
<1>3. CASE Alone
  <2>1. Bus(bus, Nothing, FALSE, FALSE, TRUE, <<Hi(word), Lo(word)>>)
    BY <1>1, <1>3 DEF Alone, Quiet
  <2>2. Idle(bus')
    BY <1>1, <2>1, DeselectedBus DEF Idle, Bus
  <2>3. word = "command" => Received(bus) = Command
    <3>1. <<Hi(word), Lo(word)>> \o <<>> = <<Hi(word), Lo(word)>>
      OBVIOUS
    <3>2. Received(bus) = <<Hi(word), Lo(word)>>
      BY <2>1, <3>1 DEF Received, Bus
    <3> QED
      BY <3>2 DEF Command
  <2> QED
    BY <1>1, <1>2, <2>2, <2>3 DEF BusInv, Transfer
<1>4. CASE Intruded
  <2>1. word = "status" /\ Idle(bus)
    BY <1>1, <1>4 DEF Intruded
  <2>2. bus' = bus
    BY <1>1, <2>1 DEF spi_ss_high, Idle, Bus
  <2> QED
    BY <1>1, <1>2, <2>1, <2>2 DEF BusInv, Transfer, Idle
<1> QED
  BY <1>2, <1>3, <1>4

(* The hardware.                                                           *)
LEMMA BusHardware ==
  ASSUME BusInv, ShiftedOut
  PROVE  BusInv'
<1>1. bus.shifting # Nothing /\ bus' = Shifted(bus) /\ UNCHANGED <<pc, word, garbled>>
  BY DEF ShiftedOut
<1>2. /\ pc \in Transfer /\ word \in {"status", "command"} /\ (Alone \/ Intruded)
      /\ ~ garbled
  BY <1>1 DEF BusInv, Idle, Bus
<1>3. CASE Alone
  <2>1. \/ pc = "wait_hi" /\ Sending(Hi(word), <<>>)
        \/ pc = "wait_lo" /\ Sending(Lo(word), <<Hi(word)>>)
    BY <1>1, <1>3 DEF Alone, Quiet, Seen, Out, Bus
  <2>2. CASE pc = "wait_hi"
    <3>1. Bus(bus', Nothing, TRUE, FALSE, TRUE, Append(<<>>, Hi(word)))
      BY <1>1, <2>1, <2>2, ShiftedBus DEF Sending, Bus
    <3>2. Append(<<>>, Hi(word)) = <<Hi(word)>>
      OBVIOUS
    <3> QED
      BY <1>1, <1>2, <2>2, <3>1, <3>2 DEF BusInv, Alone, Out
  <2>3. CASE pc = "wait_lo"
    <3>1. Bus(bus', Nothing, TRUE, FALSE, TRUE, Append(<<Hi(word)>>, Lo(word)))
      BY <1>1, <2>1, <2>3, ShiftedBus DEF Sending, Bus
    <3>2. Append(<<Hi(word)>>, Lo(word)) = <<Hi(word), Lo(word)>>
      <4>1. Append(<<>>, Hi(word)) = <<Hi(word)>>
        OBVIOUS
      <4> QED
        BY <4>1, TwoBytes
    <3> QED
      BY <1>1, <1>2, <2>3, <3>1, <3>2 DEF BusInv, Alone, Out
  <2> QED
    BY <2>1, <2>2, <2>3
<1>4. CASE Intruded
  <2>1. pc \in {"wait_hi", "wait_lo"}
    BY <1>1, <1>2, <1>4 DEF Intruded, Transfer, Idle, Bus
  <2>2. /\ IsBus(bus') /\ ~ bus'.selected /\ bus'.got = <<>> /\ bus'.spif /\ ~ bus'.seen
        /\ bus'.shifting = Nothing
    BY <1>1, <1>4, <2>1, ShiftedBus DEF Intruded
  <2> QED
    BY <1>1, <1>2, <1>4, <2>1, <2>2 DEF BusInv, Intruded
<1> QED
  BY <1>2, <1>3, <1>4

(* The radio's handler.                                                    *)
LEMMA BusHandler ==
  ASSUME BusInv, NEW ready \in BOOLEAN, NirqHandler(ready)
  PROVE  BusInv'
<1>1. word # "command" /\ pc \in Loop /\ UNCHANGED <<pc, word>> /\ IsBus(bus)
  BY DEF NirqHandler, Masked, Running, BusInv, Idle, Bus, Alone, Intruded, Sending, Out, Seen, Quiet
<1>2. PICK c : c = spi_tx(bus, <<"status8">>)
  OBVIOUS
<1>3. PICK last : last = spi_tx16_sent(c, Hi("command"), Lo("command"))
  OBVIOUS
<1>4. \/ bus' = spi_ss_high(last) /\ garbled' = (garbled \/ Received(last) # Command)
      \/ bus' = c /\ garbled' = garbled
  BY <1>2, <1>3 DEF NirqHandler
<1>5. IF bus.spif /\ ~ bus.seen THEN Bus(c, Part, FALSE, FALSE, FALSE, <<>>) ELSE Idle(c)
  BY <1>1, <1>2, Polled
<1>6. Idle(spi_ss_high(last)) /\ (Idle(c) => Received(last) = Command)
  BY <1>3, <1>5, CommandSent DEF Idle
<1>7. CASE bus.spif /\ ~ bus.seen
  <2>1. pc \in {"wait_hi", "wait_lo"} /\ word = "status" /\ ~ garbled
    BY <1>1, <1>7
       DEF BusInv, Idle, Bus, Alone, Intruded, Transfer, Sending, Out, Seen, Quiet
  <2>2. \/ Idle(bus')
        \/ Bus(bus', Part, FALSE, FALSE, FALSE, <<>>) /\ garbled' = garbled
    BY <1>4, <1>5, <1>6, <1>7
  <2>3. Intruded'
    BY <1>1, <2>1, <2>2 DEF Intruded, Idle, Bus
  <2>4. garbled' => Idle(bus')
    BY <2>1, <2>2
  <2> QED
    BY <1>1, <2>1, <2>2, <2>3, <2>4 DEF BusInv, Transfer
<1>8. CASE ~ (bus.spif /\ ~ bus.seen)
  <2>1. Idle(bus')
    BY <1>4, <1>5, <1>6, <1>8
  <2>2. garbled' => garbled
    BY <1>4, <1>5, <1>6, <1>8
  <2>3. CASE pc \in Transfer
    <3>1. word = "status"
      BY <1>1, <2>3 DEF BusInv
    <3>2. Intruded'
      BY <1>1, <2>1, <3>1 DEF Intruded, Idle, Bus
    <3> QED
      BY <1>1, <2>1, <2>2, <2>3, <3>1, <3>2 DEF BusInv
  <2>4. CASE pc \notin Transfer
    BY <1>1, <2>1, <2>2, <2>4 DEF BusInv
  <2> QED
    BY <2>3, <2>4
<1> QED
  BY <1>7, <1>8

LEMMA BusNext == BusInv /\ [Next]_vars => BusInv'
<1> SUFFICES ASSUME BusInv, [Next]_vars PROVE BusInv'
  OBVIOUS
<1>1. ASSUME UNCHANGED radio, pc \notin Transfer, pc' \notin Transfer PROVE BusInv'
  BY <1>1 DEF radio, BusInv
<1>2. ASSUME UNCHANGED radio, pc' = pc PROVE BusInv'
  BY <1>2 DEF radio, BusInv, Alone, Intruded, Sending, Out, Seen, Quiet
<1>3. ASSUME Forgotten, pc' \notin Transfer PROVE BusInv'
  BY <1>3, IdleAtFirst DEF Forgotten, BusInv, Transfer
<1>4. CASE config_init \/ watchdog_init \/ Erase
  BY <1>1, <1>4 DEF config_init, watchdog_init, Erase, Transfer
<1>5. CASE main_init
  BY <1>5, IdleAtFirst DEF main_init, BusInv, Transfer
<1>6. CASE Threads \/ watchdog \/ TimerTest \/ TimerClear \/ Callback
  BY <1>1, <1>6 DEF Threads, watchdog, TimerTest, TimerClear, Callback, Transfer
<1>7. CASE ConfigLow \/ ConfigHigh \/ \E v \in Values : ConfigSet(v)
  BY <1>1, <1>7 DEF ConfigLow, ConfigHigh, ConfigSet, Transfer
<1>8. CASE watchdog_error
  BY <1>1, <1>8 DEF watchdog_error, Transfer
<1>9. CASE \E e \in Errors : RaiseError(e)
  BY <1>3, <1>9 DEF RaiseError, Transfer
<1>10. CASE Tick
  BY <1>2, <1>10 DEF Tick
<1>11. CASE WatchdogBites \/ UserResets
  BY <1>3, <1>11 DEF WatchdogBites, UserResets, Reset, Transfer
<1>12. CASE UNCHANGED vars
  BY <1>2, <1>12 DEF vars
<1> QED
  BY <1>4, <1>5, <1>6, <1>7, <1>8, <1>9, <1>10, <1>11, <1>12,
     BusSelected, BusShifts, BusDeselected, BusHardware, BusHandler
  DEF Next, Main, Time

LEMMA BusInvariant == Spec => []BusInv
BY BusInit, BusNext, PTL DEF Spec

(* A command reaches the radio as it was sent, or the main program waits   *)
(* for a byte that is never sent, until the watchdog resets the node       *)
(* (spi.c:38-58, rfm12.c:41-52, 145-150, 195-204, shell.c:65).             *)
THEOREM CommandsReachTheRadio == Spec => []CommandsWhole
<1>1. BusInv => CommandsWhole
  BY DEF BusInv, CommandsWhole, Stuck, NeverSent, Idle, Bus
<1> QED
  BY <1>1, BusInvariant, PTL

-----------------------------------------------------------------------------
(* Types: what the invariants above do not say of them.                    *)

StepType == step \in 0..RECORD

FlagType ==
  /\ late \in BOOLEAN /\ second_notify \in BOOLEAN /\ cut \in BOOLEAN /\ garbled \in BOOLEAN
  /\ word \in {"none", "status", "command"}

LEMMA StepTypeInit == Init => StepType
BY DEF Init, StepType, RECORD

LEMMA FlagTypeInit == Init => FlagType
BY Zenon DEF Init, FlagType

LEMMA StepTypeStep == ClockInv /\ StepType /\ [Next]_vars => StepType'
<1> SUFFICES ASSUME ClockInv, StepType, [Next]_vars PROVE StepType'
  OBVIOUS
<1>1. CASE UNCHANGED step
  BY <1>1 DEF StepType
<1>2. CASE step' = 0 \/ step' = 1
  BY <1>2 DEF StepType, RECORD
<1>3. CASE Rewritten(Default) \/ Rewritten(raised)
  BY <1>3 DEF StepType, Rewritten, RECORD
<1>4. CASE Callback
  <2>1. step \in 1..2
    BY <1>4 DEF ClockInv, ClockType, Callback
  <2> QED
    BY <1>4, <2>1, Callbacks DEF Callback, StepType, RECORD
<1> QED
  BY <1>1, <1>2, <1>3, <1>4
  DEF Next, Main, Time, vars, config_init, watchdog_init, Erase, main_init, Threads, watchdog,
      TimerTest, TimerClear, ConfigLow, ConfigHigh, ConfigSet, Shift, BusStep, DeselectRadio,
      SelectRadio, ShiftedOut, NirqHandler, watchdog_error, RaiseError, Tick, WatchdogBites,
      UserResets, Reset

LEMMA FlagTypeStep == FlagType /\ [Next]_vars => FlagType'
<1> SUFFICES ASSUME FlagType, [Next]_vars PROVE FlagType'
  OBVIOUS
<1> USE DEF FlagType, clock, report, settings, radio
<1>1. CASE config_init \/ watchdog_init \/ main_init
  BY <1>1, Zenon DEF config_init, watchdog_init, main_init
<1>2. CASE Erase
  <2>1. late' = FALSE /\ (cut' = FALSE \/ cut' = cut) /\ UNCHANGED <<second_notify, garbled, word>>
    BY <1>2 DEF Erase, Rewritten
  <2> QED
    BY <2>1, Zenon
<1>3. CASE watchdog_error
  BY <1>3, Zenon DEF watchdog_error, Rewritten
<1>4. CASE Threads \/ watchdog \/ TimerTest \/ TimerClear \/ Callback
  BY <1>4, Zenon DEF Threads, watchdog, TimerTest, TimerClear, Callback
<1>5. CASE ConfigLow \/ ConfigHigh \/ \E v \in Values : ConfigSet(v)
  BY <1>5, Zenon DEF ConfigLow, ConfigHigh, ConfigSet
<1>6. CASE Shift \/ ShiftedOut \/ \E w \in {"status", "command"} : SelectRadio(w)
  BY <1>6 DEF Shift, BusStep, ShiftedOut, SelectRadio
<1>7. CASE DeselectRadio
  BY <1>7, Zenon DEF DeselectRadio
<1>8. ASSUME NEW ready \in BOOLEAN, NirqHandler(ready) PROVE FlagType'
  <2>1. /\ UNCHANGED <<late, second_notify, cut, word>>
        /\ garbled' = garbled \/ \E c : garbled' = (garbled \/ c # Command)
    BY <1>8 DEF NirqHandler
  <2>2. garbled' \in BOOLEAN
    <3>1. CASE garbled' = garbled
      BY <3>1
    <3>2. ASSUME NEW c, garbled' = (garbled \/ c # Command) PROVE garbled' \in BOOLEAN
      BY <3>2, Zenon
    <3> QED
      BY <2>1, <3>1, <3>2
  <2>3. late' \in BOOLEAN /\ second_notify' \in BOOLEAN /\ cut' \in BOOLEAN
    BY <2>1, Zenon
  <2>4. word' = word
    BY <2>1, Zenon
  <2> QED
    BY <2>2, <2>3, <2>4, Zenon
<1>9. ASSUME NEW e \in Errors, RaiseError(e) PROVE FlagType'
  <2>1. /\ late' = FALSE /\ second_notify' = FALSE /\ garbled' = FALSE /\ word' = "none"
        /\ cut' = (wdt + RECORD > BITE)
    BY <1>9, Zenon DEF RaiseError, Forgotten
  <2>2. cut' \in BOOLEAN
    <3>1. PICK b : b = (wdt + RECORD > BITE) /\ b \in BOOLEAN
      <4>1. (wdt + RECORD > BITE) \in BOOLEAN
        OBVIOUS
      <4> QED
        BY <4>1
    <3> QED
      BY <2>1, <3>1
  <2> QED
    BY <2>1, <2>2, Zenon
<1>10. CASE Tick
  <2>1. /\ late' = Writing /\ UNCHANGED <<cut, word, garbled>>
        /\ second_notify' = second_notify \/ \E c : second_notify' = (second_notify \/ c = SECOND)
    BY <1>10, Zenon DEF Tick, TimerHandler
  <2>2. second_notify' \in BOOLEAN
    <3>1. CASE second_notify' = second_notify
      BY <3>1
    <3>2. ASSUME NEW c, second_notify' = (second_notify \/ c = SECOND)
          PROVE  second_notify' \in BOOLEAN
      BY <3>2, Zenon
    <3> QED
      BY <2>1, <3>1, <3>2
  <2>3. late' \in BOOLEAN
    <3>1. late' = (pc = "erase" \/ pc = "error")
      BY <1>10 DEF Tick, Writing
    <3> QED
      BY <3>1, Zenon
  <2> QED
    BY <2>1, <2>2, <2>3, Zenon
<1>11. CASE WatchdogBites \/ UserResets
  BY <1>11, Zenon DEF WatchdogBites, UserResets, Reset, Forgotten, Writing
<1>12. CASE UNCHANGED vars
  BY <1>12 DEF vars
<1> QED
  BY <1>1, <1>2, <1>3, <1>4, <1>5, <1>6, <1>7, <1>8, <1>9, <1>10, <1>11, <1>12
  DEF Next, Main, Time

(* Every variable keeps its type: no count of ticks, bytes or callbacks    *)
(* leaves its range, and no second is counted before it is over            *)
(* (timer.c:18-70, watchdog.c:52-79, main.c:90-103).                       *)
THEOREM TypeCorrect == Spec => []TypeOK
<1>1. ClockInv /\ ReportInv /\ StepType /\ FlagType => TypeOK
  BY Callbacks DEF TypeOK, ClockInv, ClockType, ReportInv, RecordType, StepType, FlagType
<1>2. ClockInv /\ StepType /\ [Next]_vars => StepType'
  BY StepTypeStep
<1>3. FlagType /\ [Next]_vars => FlagType'
  BY FlagTypeStep
<1> QED
  BY <1>1, <1>2, <1>3, StepTypeInit, FlagTypeInit, ClockInit, ClockStep, ReportInit, ReportStep,
     PTL DEF Spec
=============================================================================
