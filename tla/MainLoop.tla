------------------------------ MODULE MainLoop ------------------------------
(***************************************************************************)
(* The main program from reset on, against its timer handler, the handler  *)
(* of the radio, and its watchdog (main.c, timer.c, watchdog.c, config.c,  *)
(* spi.c and the command d of shell.c).                                    *)
(*                                                                         *)
(* Time passes in ticks, the overflows of timer 0.  SECOND of them make a  *)
(* second; the watchdog resets the node when it has not been kicked for    *)
(* BITE of them.  Apart from that the main program may take its time at    *)
(* any step.                                                               *)
(*                                                                         *)
(* The EEPROM holds an error record, written by watchdog_error and read    *)
(* and erased at the next start, and the settings, of which the model has  *)
(* one.  A word is written as two bytes, the low one first, and a reset    *)
(* may come between any two bytes.                                         *)
(*                                                                         *)
(* Words to the radio go over the SPI in steps, and the radio's handler    *)
(* may come between any two of them unless it is masked.  It is, whenever  *)
(* the MAC layer talks to the radio; it is not when the command d reads    *)
(* the radio's status.                                                     *)
(***************************************************************************)
EXTENDS Naturals, Spi

CONSTANTS
  SECOND,      (* timer.c: 61                                               *)
  BITE,        (* WDTO_500MS in ticks: 30                                   *)
  Errors,      (* what watchdog_error is called with                        *)
  Values       (* the settings the user orders: pairs of low and high byte  *)

RECORD == 4    (* bytes of the error record: source and line                *)

ASSUME MainLoopAssumption ==
  /\ SECOND \in Nat /\ BITE \in Nat
  /\ 2 * BITE <= SECOND      (* see SecondsCounted                          *)
  /\ BITE > RECORD           (* a record is written or erased in time       *)
  /\ "default" \notin Errors /\ "none" \notin Errors

ASSUME ValuesAssumption == Values \subseteq Nat \X Nat /\ Values # {}

VARIABLES
  pc,               (* where the main program stands, or watchdog_error     *)
  step,             (* bytes of the record done, or timer.c: cb             *)
  wdt,              (* ticks since the watchdog was kicked                  *)
  late,             (* the EEPROM's byte has taken a tick                   *)
  timer_cnt, second_notify,   (* timer.c                                    *)
  behind,           (* history: seconds that are over and that clock.c has  *)
                    (* not counted                                          *)
  record,           (* watchdog.c: eeprom_source, eeprom_line               *)
  raised,           (* history: the error that is to be reported            *)
  cut,              (* history: the record could not be finished            *)
  int_settings,     (* config.c: a setting, in RAM                          *)
  int_settings_eemem,         (* config.c: and in the EEPROM                *)
  answered,         (* history: the setting as the user knows it            *)
  bus,              (* the SPI                                              *)
  word,             (* what is being sent over it                           *)
  garbled           (* history: a command did not reach the radio as it was *)
                    (* sent                                                 *)

clock == <<timer_cnt, second_notify, behind>>
report == <<record, raised, cut>>
settings == <<int_settings, int_settings_eemem, answered>>
radio == <<bus, word, garbled>>
vars == <<pc, step, wdt, late, clock, report, settings, radio>>

Default == "default"
Erased == [k \in 1..RECORD |-> Default]

Boot == {"config_init", "watchdog_init", "erase", "main_init"}
Failing == {"error", "halt"}
Transfer == {"write_hi", "wait_hi", "read_hi", "write_lo", "wait_lo", "read_lo", "ss_high"}
Loop == {"shell", "config_lo", "config_hi", "watchdog", "timer", "clear", "callbacks"}
          \cup Transfer

(* Interrupts are enabled.                                                 *)
Running == pc \in Loop

Init ==
  /\ pc = "config_init" /\ step = 0
  /\ wdt = 0 /\ late = FALSE
  /\ timer_cnt = 0 /\ second_notify = FALSE /\ behind = 0
  /\ record = Erased /\ raised = "none" /\ cut = FALSE
  /\ int_settings_eemem \in Values
  /\ int_settings = int_settings_eemem /\ answered = int_settings_eemem
  /\ bus = SpiIdle /\ word = "none" /\ garbled = FALSE

-----------------------------------------------------------------------------
(* main_init.                                                              *)

(* After bootstrap_delay: what the EEPROM has is the setting from now on.  *)
config_init ==
  /\ pc = "config_init"
  /\ int_settings' = int_settings_eemem /\ answered' = int_settings_eemem
  /\ pc' = "watchdog_init"
  /\ UNCHANGED <<step, wdt, late, clock, report, int_settings_eemem, radio>>

(* The watchdog is enabled and the record read, ...                        *)
watchdog_init ==
  /\ pc = "watchdog_init"
  /\ wdt' = 0
  /\ pc' = "erase" /\ step' = 0 /\ late' = FALSE
  /\ UNCHANGED <<clock, report, settings, radio>>

Rewritten(byte) ==
  /\ step < RECORD
  /\ record' = [record EXCEPT ![step + 1] = byte]
  /\ step' = step + 1 /\ late' = FALSE

\* Mutant: only the source is erased.
EraseSource ==
  /\ pc = "erase" /\ step < 2 /\ Rewritten(Default)
  /\ IF step' = 2 THEN pc' = "main_init" /\ raised' = "none" /\ cut' = FALSE
                  ELSE UNCHANGED <<pc, raised, cut>>
  /\ UNCHANGED <<wdt, clock, settings, radio>>

(* ... then erased.                                                        *)
Erase ==
  /\ pc = "erase" /\ Rewritten(Default)
  /\ IF step' = RECORD THEN pc' = "main_init" /\ raised' = "none" /\ cut' = FALSE
                       ELSE UNCHANGED <<pc, raised, cut>>
  /\ UNCHANGED <<wdt, clock, settings, radio>>

(* From timer_init to sei.                                                 *)
main_init ==
  /\ pc = "main_init"
  /\ timer_cnt' = 0 /\ second_notify' = FALSE /\ behind' = 0
  /\ bus' = SpiIdle /\ word' = "none" /\ garbled' = FALSE
  /\ pc' = "shell" /\ step' = 0
  /\ UNCHANGED <<wdt, late, report, settings>>

timer_register_cb(list, cb) == Append(list, cb)

(* clock_init comes before batman_init.                                    *)
cb_list ==
  timer_register_cb(timer_register_cb(<<>>, "clock_update"), "batman_one_second_elapsed")

-----------------------------------------------------------------------------
(* The main loop, as far as time goes.                                     *)

\* Mutant: the threads kick the watchdog as well.
ThreadsKick ==
  /\ pc = "shell"
  /\ pc' \in {"shell", "watchdog"} /\ wdt' = 0
  /\ UNCHANGED <<step, late, clock, report, settings, radio>>

(* The threads have nothing more to do in this round.                      *)
Threads ==
  /\ pc = "shell"
  /\ pc' = "watchdog"
  /\ UNCHANGED <<step, wdt, late, clock, report, settings, radio>>

watchdog ==
  /\ pc = "watchdog"
  /\ wdt' = 0
  /\ pc' = "timer"
  /\ UNCHANGED <<step, late, clock, report, settings, radio>>

(* timer_thread: one_second_elapsed tests and then clears, ...             *)
TimerTest ==
  /\ pc = "timer"
  /\ pc' = IF second_notify THEN "clear" ELSE "shell"
  /\ UNCHANGED <<step, wdt, late, clock, report, settings, radio>>

TimerClear ==
  /\ pc = "clear"
  /\ second_notify' = FALSE
  /\ pc' = "callbacks" /\ step' = 1
  /\ UNCHANGED <<wdt, late, timer_cnt, behind, report, settings, radio>>

\* Mutant: the end of the list is found one callback too late.
CallbackLate ==
  /\ pc = "callbacks"
  /\ behind' = IF cb_list[step] = "clock_update" THEN behind - 1 ELSE behind
  /\ IF step > Len(cb_list) THEN pc' = "shell" /\ step' = 0
                            ELSE step' = step + 1 /\ UNCHANGED pc
  /\ UNCHANGED <<wdt, late, timer_cnt, second_notify, report, settings, radio>>

(* ... and the callbacks are called one after the other.                   *)
Callback ==
  /\ pc = "callbacks"
  /\ behind' = IF cb_list[step] = "clock_update" THEN behind - 1 ELSE behind
  /\ IF step = Len(cb_list) THEN pc' = "shell" /\ step' = 0
                            ELSE step' = step + 1 /\ UNCHANGED pc
  /\ UNCHANGED <<wdt, late, timer_cnt, second_notify, report, settings, radio>>

-----------------------------------------------------------------------------
(* The command c of the shell: config_set.                                 *)

ConfigSet(v) ==
  /\ pc = "shell"
  /\ int_settings' = v
  /\ pc' = "config_lo"
  /\ UNCHANGED <<step, wdt, late, clock, report, int_settings_eemem, answered, radio>>

ConfigLow ==
  /\ pc = "config_lo"
  /\ int_settings_eemem' = <<int_settings[1], int_settings_eemem[2]>>
  /\ pc' = "config_hi"
  /\ UNCHANGED <<step, wdt, late, clock, report, int_settings, answered, radio>>

\* Mutant: the setting is stored as one byte.
ConfigByte ==
  /\ pc = "config_hi"
  /\ answered' = int_settings
  /\ pc' = "shell"
  /\ UNCHANGED <<step, wdt, late, clock, report, int_settings, int_settings_eemem, radio>>

ConfigHigh ==
  /\ pc = "config_hi"
  /\ int_settings_eemem' = <<int_settings_eemem[1], int_settings[2]>>
  /\ answered' = int_settings
  /\ pc' = "shell"
  /\ UNCHANGED <<step, wdt, late, clock, report, int_settings, radio>>

-----------------------------------------------------------------------------
(* spi_tx16 in the main program: a command of the MAC layer, with the      *)
(* radio's handler masked, or the status for the command d.                *)

Hi(w) == <<w, "hi">>
Lo(w) == <<w, "lo">>

(* A command that reached the radio whole.                                 *)
Command == <<Hi("command"), Lo("command")>>

SelectRadio(w) ==
  /\ pc = "shell"
  /\ bus' = spi_ss_low(bus) /\ word' = w
  /\ pc' = "write_hi"
  /\ UNCHANGED <<step, wdt, late, clock, report, settings, garbled>>

BusStep(from, to, b) ==
  /\ pc = from
  /\ bus' = b
  /\ pc' = to
  /\ UNCHANGED <<step, wdt, late, clock, report, settings, word, garbled>>

Shift ==
  \/ BusStep("write_hi", "wait_hi", SpdrWrite(bus, Hi(word)))
  \/ bus.spif /\ BusStep("wait_hi", "read_hi", SpsrRead(bus))
  \/ BusStep("read_hi", "write_lo", SpdrRead(bus))
  \/ BusStep("write_lo", "wait_lo", SpdrWrite(bus, Lo(word)))
  \/ bus.spif /\ BusStep("wait_lo", "read_lo", SpsrRead(bus))
  \/ BusStep("read_lo", "ss_high", SpdrRead(bus))

DeselectRadio ==
  /\ pc = "ss_high"
  /\ bus' = spi_ss_high(bus)
  /\ garbled' = (garbled \/ (word = "command" /\ Received(bus) # Command))
  /\ pc' = "shell" /\ word' = "none"
  /\ UNCHANGED <<step, wdt, late, clock, report, settings>>

(* The hardware gets on with a byte.                                       *)
ShiftedOut ==
  /\ bus.shifting # Nothing
  /\ bus' = Shifted(bus)
  /\ UNCHANGED <<pc, step, wdt, late, clock, report, settings, word, garbled>>

-----------------------------------------------------------------------------
(* The radio's handler: it reads the first byte of the status, and if the  *)
(* radio seems to be ready it sends a command.  Further ones of the same   *)
(* activation are as good as those of the next.                            *)

\* Mutant: the MAC layer does not mask the handler.
NeverMasked == FALSE

Masked == word = "command"

NirqHandler(ready) ==
  /\ Running /\ ~ Masked
  /\ LET polled == spi_tx(bus, <<"status8">>)
         last == spi_tx16_sent(polled, Hi("command"), Lo("command"))
     IN  IF ready THEN /\ bus' = spi_ss_high(last)
                       /\ garbled' = (garbled \/ Received(last) # Command)
                  ELSE bus' = polled /\ UNCHANGED garbled
  /\ UNCHANGED <<pc, step, wdt, late, clock, report, settings, word>>

-----------------------------------------------------------------------------
(* watchdog_error, in the handler of the serial line: interrupts stay off. *)

(* What only the RAM and the registers hold is not looked at again before  *)
(* the next start: it may as well be forgotten at once.                    *)
Forgotten ==
  /\ timer_cnt' = 0 /\ second_notify' = FALSE /\ behind' = 0
  /\ bus' = SpiIdle /\ word' = "none" /\ garbled' = FALSE

RaiseError(e) ==
  /\ Running
  /\ pc' = "error" /\ step' = 0 /\ late' = FALSE
  /\ raised' = e /\ cut' = (wdt + RECORD > BITE)
  /\ Forgotten
  /\ UNCHANGED <<wdt, record, settings>>

watchdog_error ==
  /\ pc = "error" /\ Rewritten(raised)
  /\ pc' = IF step' = RECORD THEN "halt" ELSE pc
  /\ UNCHANGED <<wdt, clock, raised, cut, settings, radio>>

-----------------------------------------------------------------------------
(* Time, and resets.                                                       *)

\* Mutant: wdt_enable is left out.
NeverOn == FALSE

WatchdogOn == pc \notin {"config_init", "watchdog_init"}

(* A byte of the record takes a tick at most.                              *)
Writing == pc \in {"erase", "error"}
MayPass == WatchdogOn /\ (Writing => ~ late)

(* SIG_OVERFLOW0.                                                          *)
TimerHandler ==
  LET over == timer_cnt + 1 = SECOND
  IN  /\ timer_cnt' = IF over THEN 0 ELSE timer_cnt + 1
      /\ second_notify' = (second_notify \/ over)
      /\ behind' = IF over THEN behind + 1 ELSE behind

Tick ==
  /\ MayPass /\ wdt < BITE
  /\ wdt' = wdt + 1 /\ late' = Writing
  /\ IF Running THEN TimerHandler ELSE UNCHANGED clock
  /\ UNCHANGED <<pc, step, report, settings, radio>>

(* The RAM is cleared; the EEPROM keeps what it has.  rfm12_init sends the *)
(* radio all its commands again.                                           *)
Reset ==
  /\ pc' = "config_init" /\ step' = 0 /\ wdt' = 0 /\ late' = FALSE
  /\ Forgotten
  /\ UNCHANGED <<record, raised, settings>>

WatchdogBites ==
  /\ MayPass /\ wdt = BITE
  /\ Reset /\ UNCHANGED cut

(* The user resets the node, at any time.                                  *)
UserResets ==
  /\ Reset
  /\ cut' = (cut \/ Writing)

-----------------------------------------------------------------------------

Main ==
  \/ config_init \/ watchdog_init \/ Erase \/ main_init
  \/ Threads \/ watchdog \/ TimerTest \/ TimerClear \/ Callback
  \/ ConfigLow \/ ConfigHigh \/ \E v \in Values : ConfigSet(v)
  \/ Shift \/ DeselectRadio \/ \E w \in {"status", "command"} : SelectRadio(w)

Time == Tick \/ WatchdogBites

Next ==
  \/ Main \/ ShiftedOut
  \/ \E ready \in BOOLEAN : NirqHandler(ready)
  \/ watchdog_error \/ \E e \in Errors : RaiseError(e)
  \/ Time \/ UserResets

Spec == Init /\ [][Next]_vars

(* Time passes, and the EEPROM takes the bytes of watchdog_error.  Of the  *)
(* main program nothing is asked.                                          *)
FairSpec == Spec /\ WF_vars(Time) /\ WF_vars(watchdog_error)

-----------------------------------------------------------------------------
(* Properties.                                                             *)

TypeOK ==
  /\ pc \in Boot \cup Loop \cup Failing
  /\ step \in 0..RECORD /\ (pc = "callbacks" => step \in 1..Len(cb_list))
  /\ wdt \in 0..BITE /\ late \in BOOLEAN
  /\ timer_cnt \in 0..(SECOND - 1) /\ second_notify \in BOOLEAN /\ behind \in Nat
  /\ record \in [1..RECORD -> Errors \cup {Default}]
  /\ raised \in Errors \cup {"none"} /\ cut \in BOOLEAN
  /\ word \in {"none", "status", "command"} /\ garbled \in BOOLEAN

(* No second is lost and none is counted twice, although one_second_elapsed*)
(* tests and clears a flag that its handler may set in between, and at     *)
(* most one waits: the watchdog does not let the main loop take two seconds*)
(* from one clearing to the next.  And batman.c is told of a second when   *)
(* clock.c has counted it (timer.c:18-37, 57-70, main.c:90-103).           *)
SecondsCounted ==
  behind = (IF second_notify THEN 1 ELSE 0)
         + (IF pc = "callbacks" /\ step = 1 THEN 1 ELSE 0)

(* What start-up reports is the error that ended the last life, all of it  *)
(* unless it came too late or the user reset the node in the middle; no    *)
(* error is reported twice, mixed with another or made up                  *)
(* (watchdog.c:52-79).                                                     *)
ReportTrue ==
  [][ watchdog_init =>
        /\ \A k \in 1..RECORD : record[k] \in {Default, raised}
        /\ ~ cut => record = IF raised = "none" THEN Erased
                             ELSE [k \in 1..RECORD |-> raised] ]_vars

(* Between two commands of the user RAM and EEPROM have the setting he was *)
(* answered.  A reset finds that one or, if it came before the answer, the *)
(* one he asked for, or the new low byte with the old high byte            *)
(* (config.c:20-39).                                                       *)
SettingsKept ==
  /\ Running /\ pc \notin {"config_lo", "config_hi"} =>
       int_settings = answered /\ int_settings_eemem = answered
  /\ int_settings_eemem \in {answered, int_settings, <<int_settings[1], answered[2]>>}

(* The main program waits for what will not happen.                        *)
Stuck ==
  \/ pc = "halt"
  \/ pc \in {"wait_hi", "wait_lo"} /\ NeverSent(bus)

(* Every command reaches the radio as it was sent; or the handler has come *)
(* between the bytes of the command d at a moment that leaves the main     *)
(* program waiting for ever, and the reset that ends this sends the radio  *)
(* its set-up again (spi.c:38-58, rfm12.c:41-52, 145-150, 195-204,         *)
(* shell.c:65).                                                            *)
CommandsWhole == garbled => Stuck

(* A node that waits for ever is reset: the watchdog is kicked by the main *)
(* loop alone (watchdog.c:59-62, 81-85, spi.c:15).                         *)
StuckIsReset == Stuck ~> pc = "config_init"
=============================================================================
