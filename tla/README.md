# Hopemesh in TLA+

Hopemesh is the firmware of a wireless mesh node: an ATmega162 with an RFM12
radio, programmed in C with protothreads (`src/src`), described in a thesis
(`src/thesis/content.tex`). This directory holds TLA+ models of the firmware,
TLC configurations that check them on small instances, and TLAPS proofs that the
safety properties which hold there hold of every instance that the stated
assumptions allow. What TLC alone speaks for is that things come to an end.

Two kinds of control share the processor. The main loop (`main.c`) polls
cooperative protothreads in a fixed order; interrupt handlers run between any
two instructions of it. Most of what can go wrong lies between these two, or
between two protothreads that share one static protothread below them.

## 1. Inventory

| Component | State | Operations | Interacts with |
|---|---|---|---|
| RFM12 driver `rfm12.c` | `mutex`, `radio_state`, `pt_nirq`, the nIRQ mask, the radio's registers | `rfm12_init`, `rfm12_lock`, `rfm12_enable_tx`, `rfm12_release`, the handler `SIG_RFM12_NIRQ` | MAC (calls down, callbacks up, from the handler) |
| MAC `mac.c` | `state`, `p` | `mac_tx` (main loop), `mac_tx_rfm12`, `mac_rx_rfm12` (handler) | driver, LLC |
| LLC `llc.c` | `state_tx`, `pt_tx`, `state_rx`, `packet_rx`, `needs_processing` | `llc_tx`, `llc_rx` (main loop), `llc_tx_mac`, `llc_rx_mac` (handler) | MAC, batman |
| B.A.T.M.A.N. `batman.c` | `route_table`, `seqno`, `send_ogm`, `mutex`, three protothreads | `batman_tx`, `batman_rx`, `batman_thread`, `batman_one_second_elapsed` | LLC, clock, timer, other nodes |
| Layer 4 `l4.c` | one protothread | `l4_tx` | shell, batman |
| Receive thread `rxthread.c` | a packet, a text buffer | `rx_thread` | `batman_rx`, UART |
| Shell `shell.c` | command line, a cursor into the routing table | `shell` and its commands | UART, l4, batman, config, SPI |
| UART `uart.c`, `uart.h` | `p`, `uart_mutex`, two ring buffers, the UDRIE mask | `uart_tx_str`, `uart_rx`, `uart_tx_thread`, two handlers | shell, receive thread |
| Ring buffer `ringbuf.c` | `start`, `end`, `size`, the memory | `ringbuf_add`, `ringbuf_remove` | UART, both sides |
| Timer, clock `timer.c`, `clock.c` | `timer_cnt`, `second_notify`, the callbacks; `time` | overflow handler, `timer_thread`, `clock_update` | batman |
| Watchdog `watchdog.c` | the error's source and line in the EEPROM | `watchdog`, `watchdog_error_line`, `watchdog_init` | everything, by resetting it |
| Configuration `config.c` | settings in RAM and EEPROM | `config_init`, `config_get`, `config_set` | MAC, batman, shell |
| Hamming code `hamming.c` | two tables | encoding, decoding | LLC |
| SPI `spi.c` | the processor's SPI registers | `spi_tx`, `spi_tx16` | driver, and the shell's command `d` past it |
| Debug, utilities | counters; none | printing | shell |

What is hard, and what makes each part correct:

- **Driver and MAC**: the main loop and the handler take the same semaphore,
  switch the same radio and advance the same frame. One owner at a time; the
  handler never blocks; frames go out whole and receptions are not cut;
  `radio_state` tells the truth when it is read; every transmission ends.
- **LLC transmission and the batman threads**: three threads call one static
  protothread. A thread told that its packet is sent has had it sent; waiting
  threads get their turn.
- **LLC reception**: one buffer between handler and main loop, entered and
  left in the middle of frames. Only whole packets come out, and a whole
  packet does come out, although any byte of it may have a wrong bit.
- **UART**: two threads and a handler share a pointer and a ring buffer.
  Outputs come out whole; the buffer is a queue; it is emptied.
- **Routing**: several nodes, lossy one-way links, stale tables, an
  overflowing clock. Routes go over neighbours that hear the node and that
  have a route themselves; packets die out; tables hold nothing old or twice; a
  message that grows on its way still fits as long as no node sends it again.
- **Shell**: a cursor over a table that is purged, a command line that goes on
  changing.
- **Main loop, timer, watchdog, configuration, SPI**: a notification cleared
  without masking, an error record and a setting that a reset may tear, an SPI
  transfer without the lock. No second is lost; what start-up reports is what
  happened; a setting is the one the user was told; a command reaches the radio
  as it was sent, and where it does not the node resets itself.

`PROJECT.json` lists each hazard at its line with the properties about it.

## 2. Modules

| Module | Models | Stands on |
|---|---|---|
| `HalfDuplex` | what the driver promises: one radio, one owner | |
| `Rfm12` | `rfm12.c`, `mac.c` towards the radio, the watchdog's reset | implements `HalfDuplex` |
| `Rfm12Proofs` | theorems about `Rfm12` | `Rfm12`, TLAPS |
| `TxStack` | `batman_tx`, `batman_thread`, `batman_rx`, `llc_tx`, `mac_tx` as threads of one main loop | `HalfDuplex` for the radio |
| `TxStackProofs` | theorems about `TxStack` | `TxStack`, TLAPS |
| `RingBuf` | `ringbuf.c` as operators on a record | |
| `Fifo` | what a ring buffer promises: a bounded queue | |
| `UartTx` | the output half of `uart.c`, with the macros of `uart.h` | `RingBuf`; implements `Fifo` |
| `UartTxProofs` | theorems about `UartTx` | `UartTx`, TLAPS |
| `UartRx` | the input half of `uart.c` | `RingBuf` |
| `UartRxProofs` | theorems about `UartRx` | `UartRx`, TLAPS |
| `Hamming` | the tables of `hamming.c`, and what a byte may become on the air | |
| `LlcRx` | the receiving half of `llc.c` with `mac_rx_rfm12` | `Hamming` |
| `LlcRxProofs` | theorems about `LlcRx` | `LlcRx`, TLAPS |
| `RouteTable` | the routing table of `batman.c` | |
| `Mesh` | `batman.c` on several nodes over a lossy channel | `RouteTable` |
| `MeshProofs` | theorems about `Mesh` and `RouteTable` | `Mesh`, TLAPS |
| `Shell` | the line editor and the route listing of `shell.c`, over `batman.c`'s linked list | |
| `ShellProofs` | theorems about `Shell` | `Shell`, TLAPS |
| `Spi` | the SPI's registers and the transfers of `spi.c` as operators on a record | |
| `MainLoop` | `main.c`, `timer.c`, `watchdog.c`, `config.c` and the commands `c` and `d` of `shell.c`, against the handlers of timer and radio, time and resets | `Spi` |
| `MainLoopProofs` | theorems about `MainLoop` | `MainLoop`, TLAPS |
| `MC...` | the instances for TLC | |

How state and actions correspond to the code:

- **Rfm12.** One action of the main program is one statement that touches
  shared state; `pc` names the next one (`LockCli` ... `LockSei` are the lines
  of `PT_SEM_WAIT_ATOMIC` and `rfm12_lock`). One activation of the handler is
  one action (`IsrTx`, `IsrRx`), enabled when `gie` and `nirq` are. Flags the
  shell can change at any time (carrier sensing, signal loss) are read as free
  choices. `WatchdogReset` keeps the radio's registers and clears the rest.
- **TxStack.** `turn` is the thread the main loop polls, `at` where each thread
  waits; `llc` and `packet` are the static protothread of `llc_tx` and
  `state_tx.packet`. A second caller of `llc_tx` resumes it, as the C code
  does. `joined` remembers which threads were in `llc_tx` together with one that
  had not waited for the semaphore. The radio is `HalfDuplex`, which `Rfm12`
  implements.
- **UartTx, UartRx.** In the half of a ring buffer operation that can be
  interrupted, load and store of `size` are steps of their own (`TxAdd` and
  `TxStoreSize`, `RxTake` and `RxStoreSize`).
- **LlcRx.** A packet is what distinguishes it: whose first byte it has,
  whether its type is right, whether every byte under the CRC is in its place,
  its length field. The CRC is taken to tell a whole packet from every other
  one. What the receiver makes of a byte is computed from the code's tables over
  all 16 code words and 256 bytes received (`Hamming!Outcomes`): with no wrong
  bit, one, or more of them, it is right, wrong, or taken for EOP. `llc_rx` is
  called only while `batman_rx` waits for a packet (`batman.c:288`):
  `packet_arrived` is set from the copy until the caller is back there
  (`CallerReturns`), and meanwhile nobody looks at the buffer.
- **Mesh.** What a node's threads do between two waits is one action;
  `pt_rx`, `pt_thread` and `talk` say where they wait, `slot` is the LLC's
  packet. A transmission is one action, at whose end one thread is told so.
  `batman_rx` sends messages on without the semaphore, so its transmission and
  one of `batman_thread` or the shell may be one: either the other's packet is on
  the air and `batman_rx` is told (`TellsRx`), or the message is and the other is
  told (`OgmTakesEnd`, `TalkTakesEnd`). Who was not told starts `llc_tx` again with
  his own packet; `mutex` says who has kept the semaphore for that. `Second` is one pass of `timer_thread` over both its callbacks.
  Histories (`heard`, `routed`, `age`, a packet's `hops` and `again`) are read by
  properties only (`again` also by the bound `MaxAgain`). A message's `len` is
  `llc->len`: it counts the header already, and every call of `llc_tx` adds
  another, also the one that sends the same message again (`Resent`):
  `batman.c:308` reads the length anew at each poll, and `llc.c:188` has stored the
  grown one. A message that has outgrown the 252 bytes is heard by nobody.
- **Shell.** `pt` is where the shell waits. The routing table is kept as memory:
  blocks and their `next`, and `From` is what can be reached from one; a freed block keeps its link, as avr-libc leaves it,
  until `malloc` hands it out again. `Save` and `Purge` are what `batman_rx` and
  `timer_thread` do to it meanwhile.

- **MainLoop.** `pc` is the next access of the main program to something that a
  handler or a reset can meet: a byte of the EEPROM, `second_notify`, an SPI
  register. The handlers are single actions, enabled while interrupts are on
  (`Running`) and, for the radio's, while it is not masked. Time is counted in
  overflows of timer 0 (`Tick`); nothing else bounds the main program but the
  watchdog, which bites after `BITE` of them. The EEPROM survives `Reset`, the
  RAM does not. `Spi` has the one subtle rule of that hardware: SPIF is cleared
  by an access to SPDR after SPSR was read with SPIF set, whoever accesses it.

Simplifications to know of: in `Mesh` a transmission takes no time, joined or
not (what happens in the course of one is the subject of `TxStack`), every node
has one address for good, and `malloc` (`batman.c:136`, whose result the program
does not look at) always has memory for a new entry; `TxStack` keeps no packet contents; a protothread is represented by where
it waits. In `MainLoop` one setting stands for the three, `config_set` gets a
valid index (the shell does not check it), a byte of the EEPROM is old or new
after a reset, and the several polls of one activation of the radio's handler
are those of several activations.

## 3. Runs

| Run | Question | Result |
|---|---|---|
| `radio` | Do driver and handler exclude each other, agree with the hardware, send whole frames, come to an end and implement `HalfDuplex`, with resets at any time? | yes |
| `send` | With OGMs and unicast packets to send on: has each thread that no unicast packet joined exactly its packet sent, is the semaphore's count and the frame under way left alone, and do the threads finish? | yes |
| `send_join` | And is the packet of any thread that was told so sent? | no (finding 1) |
| `serial_out` | Are outputs whole, is the buffer a queue, is it emptied? | yes |
| `serial_in` | Is the input exact as long as no byte arrives between load and store of `size`? | yes |
| `serial_in_race` | And when one does? | no (finding 2) |
| `receive` | Do only whole packets come out of the LLC, and do all that have at most one wrong bit in each byte? | yes, unless that bit makes an EOP (below), if the caller of `llc_rx` always comes back |
| `mesh` | Do routes and messages lead over neighbours that hear the node and lead on, and are tables free of duplicates and old entries while the clock overflows? | yes |
| `mesh_joined` | With messages sent on in the middle of other transmissions, and sent again: do packets die out, do messages fit all the way, and has whoever keeps the semaphore a packet to send? | yes; the fit if no node had to send the message again |
| `shell` | Does a command find the line as it was typed, and is a listing exact while the table changes? | yes, until the entry on the line itself is purged |
| `mesh_stale_link` | Are only links confirmed lately propagated? | no (finding 3) |
| `mainloop` | Is every second counted, the error that happened reported, a setting torn in no way but one, and does a command reach the radio whole or the node reset itself? | yes |

Findings:

1. `batman.c:307` sends a unicast packet on without the semaphore that every
   other caller of `llc_tx` takes. If another transmission is under way the
   call joins it and returns as if the packet had been sent; it never was. Or the
   thread that joined is told of the end of the message's transmission: then
   `batman_rx` finds `llc_tx` at its beginning at the next poll and sends the
   message again, with the same `ttl` and with another header's worth of length
   (`batman.c:308` reads it anew, `llc.c:188` has stored it). The thesis has the TTL
   decreased before each retransmission (`content.tex:1073`).
2. `ringbuf.c:81` decrements `size` in the main loop while the receive handler
   increments it. An interrupt between load and store loses its increment: the
   byte stays in the buffer uncounted. The thesis (`content.tex:521`) argues
   from head and tail only.
3. A neighbour that once rebroadcast an OGM of the node counts as bidirectional
   as long as anything is heard from him (`batman.c:100-114`, `192-195`). His
   messages go on as routes after he has stopped hearing the node;
   `BI_LINK_TIMEOUT` (`net.h:13`) is used nowhere.

What the passing runs had to leave out, and a maintainer should know:

- `CleanFramesKept` excepts one byte: a single wrong bit turns the code word of
  15 (0xEA) into 0xAA, which is EOP, and `mac_rx_rfm12` compares before it
  decodes (`mac.c:66`). The frame ends there and is lost, where the thesis has
  the code correct any single bit (`content.tex:928`, `976`). `Outcomes` has
  this case as the only one of a single wrong bit that is not decoded rightly.
- `EveryoneFinishes` promises an OGM in `batman_rx` its turn while other packets
  come in, and everything else only when they stop. A unicast packet takes no
  semaphore and shares the transmissions of others: each may end in another
  thread's poll, and it waits for the next. And `batman_rx` goes on to its next
  packet in the poll in which it gave the semaphore back, so that the threads
  ahead of it find it taken.
- `CommandsWhole` excepts the command `d` (`shell.c:65`): the handler may come
  between its bytes, where it takes the SPIF the main program waits for, and in
  one such place sends a command that the radio does not read as such. The main
  program then waits in `spi_block_until_sent` until the watchdog bites, and the
  radio is set up again.
- `SettingsKept` has the torn word: new low byte, old high byte (`config.c:30`).
- `ReportTrue` has two exceptions: an error raised less than four EEPROM bytes
  before the watchdog would have bitten anyway, and a reset by the user between
  the bytes.
- `PacketsBounded` has the fit of a message only as long as no node had to send it
  again (finding 1), and because it leaves room for a header at every hop. The
  shell's line is far shorter than that; `l4_tx` itself checks nothing. It bounds
  the number of nodes that send a packet on, not how often one of them does so.
- `WholePacketsHandedOut` has a hypothesis: the caller always comes back to
  `batman.c:288`. Without it the property fails: a whole packet stays in the buffer
  while `batman_rx` waits for the semaphore or the radio, or `rx_thread` for
  `uart_mutex`, and the node is deaf meanwhile.

### Bounds

- `radio`: packets of 1 to 3 coded bytes. The first, a middle and the last byte
  are the cases `llc_tx_mac` and `mac_tx_rfm12` distinguish; the proofs cover
  every length. No other bound: the state is finite.
- `send`, `send_join`: one packet at a time for each of the three threads, any
  number one after the other; `MaxSent` = 2 tells once from more than once.
- `serial_out`: a buffer of 3 bytes; a string longer than the buffer, an output
  of three strings with an empty one among them, and an empty output. So `p`
  is resumed over a full buffer, the indices wrap, and threads meet in the
  middle of an output. `serial_in`: 4 cells, any number of bytes.
- `receive`: `PACKET_MAX_SIZE` 6 for a 4-byte header and frames with 0, 1 and 2
  bytes of data, the last of which fills the buffer; length fields as wrong as
  noise can make them; at most `MaxOverlong` = 3 bytes after the end of a
  frame, enough to run past the end of the buffer.
- `mesh`: three nodes in a line and a fourth link that works one way only; one
  OGM from each, two seconds for each node, TTL 3, any number of messages from end to
  end. The message is 232 bytes long: with one header at the first hop and
  one at the second it fills the LLC's 252 bytes exactly. `MaxBusy` = 3 nodes are no
  bound, and with one OGM from each no transmission is joined (`MaxAgain`).
  That is the least in which an OGM travels two hops and back, a route over a
  gateway comes into being and is purged again between `Talk` and `SendTalk`,
  and the TTL runs out. `Start` lets the clock pass its overflow in the course
  of it. `PURGE_TIMEOUT` 0 makes an entry go with the next second; the theorem
  `TablesStayTidy` is about any timeout and any number of overflows.
- `mesh_joined`: the line without the fourth link, TTL 2, with messages also from
  the node in the middle and a second OGM of his (the shell's command `o`), both of
  which may share a transmission with a message he sends on. `MaxAgain` = 2: sent
  once, a second and a third time. The message of 222 bytes leaves room for a header
  at each of the three nodes that TTL 2 allows, so the theorem's hypothesis holds;
  sent on a third time it is too long for everybody. `MaxBusy` = 1: a node begins a
  packet of its own when no other node has one, which keeps the state space
  small and takes nothing from what happens inside the node in the middle, whose
  threads may all be busy at a time.
- `shell`: a buffer of 4 characters, so lines of up to 2 keys: empty, half full
  and full; three blocks, so an entry can go before, at and behind the one
  listed, and its memory come back at the end of the list.
- `mainloop`: the times of the program. An overflow is 1024 * 256 cycles at
  16 MHz, 16.4 ms: 61 make a second, and the watchdog's nominal 500 ms are 30.5
  (`BITE` = 30). Two errors and two settings that differ in both bytes.
- `Word` stands for 2^16; differences modulo `Word` behave alike for any `Word`
  larger than the timeouts.
- `routed` is about tables that never fill up: a node whose table is full
  passes an OGM on without an entry of its own (`batman.c:149`). Two targets
  over two gateways fit into `MAX_ROUTE_ENTRIES` = 4. The program has 2550,
  enough for 51 nodes: 50 targets over 50 gateways. The theorems say that this is
  all that is needed (`RoomForRoutes`).
- `MaxSeconds` and `MaxOgms` of `Word` are no bounds: what has been counted is a
  difference modulo `Word`. The theorems hold for these values too, and so for
  nodes that never stop.

### Fairness

- The main loop goes round and no thread keeps the processor (it would be reset
  by the watchdog): weak fairness of its steps.
- The transmitter asks for the next byte until a frame ends: weak fairness of
  `IsrTx` and `FrameSent`. The UART keeps its request pending while it is
  masked: strong fairness of `DataIsr`.
- Time passes and the EEPROM takes its bytes: weak fairness of `Time` and
  `watchdog_error`. Of the main program `StuckIsReset` asks nothing: it is about
  a node that is stuck.
- No foreign carrier lasts forever and a sender that listens does not miss
  every gap: weak fairness of `CarrierFalls`, strong fairness of
  `MacCarrierFree` and `MacTransmit`.
- `llc_rx` goes on when it is called: weak fairness of its steps. That it is called
  is not assumed: `CallerReturns` has no fairness, and `WholePacketsHandedOut` says
  itself that the caller comes back infinitely often. When he does is another
  matter: his waits for the semaphore and the radio end on a quiet channel
  (`EveryoneFinishes`), his wait for `uart_mutex` may not end.
- Nothing is assumed of receptions, input, users or lost packets. Receptions
  that follow each other without a gap do keep a sender from the radio, so
  `QuietChannelSends` and `EveryoneFinishes` are about a channel that falls
  silent. `uart_mutex` is not fair either: the shell may retake it in the
  same poll, so `OutputsFinish` starts where a thread holds it.

`SecondsCounted` needs `2 * BITE <= SECOND` (61 and 30): `TimerClear` of one
second and `TimerTest` of the next have one kick of the watchdog between them and
one before, so at most two patiences lie between two clearings. The RC oscillator
of the watchdog is not exact; patiences over half a second matter only to a main
loop that really takes as long, twice running.

`CHECK_DEADLOCK FALSE` only in the mesh runs: nobody has to speak, and the
bounds stop the clocks.

## 4. Proofs

Every invariant and action property of section 3 that holds is a theorem, and so
are both refinements. A theorem is about all behaviours of `Spec`, for every value
of the constants that the module's assumptions allow; these, and two hypotheses of
`MeshProofs`, are all that the theorems rest on, apart from a fact about the
Hamming tables that TLC goes through.

| Module | Theorem | States |
|---|---|---|
| `Rfm12Proofs` | `Invariance` | `Spec => []IInv` |
| | `TypeCorrect` | `[]TypeOK` |
| | `HandlerNeverBlocks` | `[]NirqNeverBlocks` |
| | `MutualExclusion` | `[]OneOwner` |
| | `ReceptionsEnd` | `[]ReceptionNotCut` |
| | `WholeFrames` | `[]FrameOnAir` |
| | `ModesAgree` | `[]ModeAgrees` |
| | `Refinement` | `ImplementsHalfDuplex`: every behaviour is one of `HalfDuplex` |
| `TxStackProofs` | `Transmitting` | `[]TxInv` |
| | `BooksBalance` | `[]Bookkeeping` |
| | `PacketsKept` | `PacketStable`, an action property |
| | `SentUnlessMet` | `SentUnlessJoined`, an action property |
| `UartTxProofs` | `TypeCorrect` | `[]TypeOK` |
| | `Refinement` | `ImplementsFifo`: the ring buffer is a `Fifo` |
| | `WholeOutputs` | `[]OutputsWhole` |
| `UartRxProofs` | `TypeCorrect` | `[]TypeOK` |
| | `ExactUntilItTears` | `[]ExactUntilTorn` |
| `LlcRxProofs` | `Receiving` | `[]RxInv` |
| | `BufferNotOverrun` | `[]TypeOK` |
| | `WholePackets` | `[]OnlyWholePackets` |
| | `ReadyForFrames` | `[]ReadyBetweenFrames` |
| | `CleanFrames` | `CleanFramesKept`, an action property |
| `MeshProofs` | `TypeCorrect` | `[]TypeOK` |
| | `GatewaysReachable` | `[]GatewaysHeardUs` |
| | `TablesStayTidy` | `[]TablesTidy` |
| | `PacketsStayBounded` | `[]PacketsBounded`, under `RoomForHeaders` |
| | `RoutesAlwaysLeadOn` | `[]RoutesLeadOn`, under `RoomForRoutes` |
| | `MessagesAlwaysLeadOn` | `[]MessagesLeadOn`, under `RoomForRoutes` |
| `ShellProofs` | `TypeCorrect` | `[]TypeOK` |
| | `CommandsRead` | `[]CommandAsTyped` |
| | `ListingsExact` | `[]ListingExact` |
| `MainLoopProofs` | `TypeCorrect` | `[]TypeOK` |
| | `NoSecondLost` | `[]SecondsCounted` |
| | `SettingsSurvive` | `[]SettingsKept` |
| | `ReportsTrue` | `ReportTrue`, an action property |
| | `CommandsReachTheRadio` | `[]CommandsWhole` |

The arguments, module by module. Each has an inductive invariant in named parts;
a lemma for each part or group of actions shows that a step keeps it, with a step
of the proof for each action.

**`Rfm12Proofs`**, for every set `Lengths` of positive packet lengths
(`LengthsAssumption`). None of the properties is inductive alone. `OneOwner` speaks
of the semaphore's value, and a step of the handler preserves it only if the
handler runs where the main program does not hold the radio: hence `CpuInv`,
which ties the two interrupt masks to `pc`. `ModeAgrees` is about the states in
which the handler may run; `RadioInv` says for every `pc` what the registers are,
so that it holds when the mask is lifted. `FrameOnAir` needs to know how far the
frame has got: `FrameInv` keeps what is on the air a prefix of the frame and
relates its length to `state`, `p` and `cnt`. `OwnerInv` holds the rest. The
conjunction with `TypeOK` is `IInv`. `Refinement` maps initial state to initial
state and each action under `IInv` to a step of `HalfDuplex` or a stutter.

**`TxStackProofs`**, for whatever kinds of packets arrive to be sent on
(`ArrivalsAssumption`). `MutexInv`: the semaphore is free or one thread holds it,
and only OGMs make `batman_rx` wait for it. `LlcInv`: `llc_tx` and `mac_tx` are under
way together, with the packet of a thread that waits. `AloneInv`: a thread that
nobody joined has `llc_tx` to itself; the semaphore gives it that as it comes in,
and whoever comes in without the semaphore turns it into a joined one. From the two,
`SentInv`: the frame of such a thread has been on the air once when `mac_tx` is
told so.

**`UartTxProofs`**, for any buffer of 1 to 255 bytes, any writers and any outputs of
which no longer one ends with an empty string, as in `rxthread.c` and `shell.c`
(`OutputsAssumption`). `BufferInv` has the semaphore with its one writer
(`MutexInv`), what `p` points into (`PointerInv`), the masked handler while
`uart_tx_str` runs (`StrInv`) and `RingInv`: `end` is `size` cells behind `start`, or
one more between the store of the byte and the store of `size`. With it a step of
main loop or handler leaves the bytes in the buffer as they are, adds one behind
them or takes the first (`RingStep`), which is `Fifo`'s next-state relation.
`LineInv` goes over the line cell by cell: each byte follows the one before it, and
`p` follows the last. The emptied string at the end of an output is where an
output could break off (`Over`), whence the assumption.

**`UartRxProofs`**, for any buffer of 1 to 255 bytes (`SizeAssumption`). Types hold
always, since neither store of `size` leaves its range even when they meet.
`ExactInv` is about the time before they do: the unread cells are the stretch of
`size` cells from `start` on, less the one that has been taken and is still counted.
`StretchGrows` and `StretchShrinks` give its cardinality.

**`LlcRxProofs`**, for all frames with their lengths, every size of the buffer above
a header's and any amount of noise behind a frame (`SizesAssumption`).
`OnlyWholePackets` is about the copy `packet`; a step keeps it only if the buffer
at the copy holds a packet that is complete and whole. `Processing` gives `llc_rx`
the buffer for itself from its test to its reset; `Complete`, `WithinPacket` and
`LengthKnown` tie `state`, `cnt` and the length field together, so that `FIN` comes
with the last byte of the length the header named, and no byte lands behind the
buffer. `CleanFrames` adds `InStep`: of a clean frame the buffer holds exactly what
has arrived. It alone rests on `Hamming!TablesCorrect`: no assumption on a constant
but a fact about the tables, 16 code words and 256 bytes, which TLC goes through
at the start of `receive` instead of a proof.

**`MeshProofs`**, for any nodes, any links between them, any width of the counters and
any timeouts, limits and starting times (`MeshAssumption`), so also where nothing bounds
the seconds and the OGMs.

- `MeshInv` is about one node's table or one packet at a time. `Confirmed`: the flag
  of a directly received OGM is the truth, its originator was heard by its sender;
  so a gateway is a node that has heard this one. `Counted`: `hops` and `ttl` add up
  to `TTL`, and a message's length is at most what `hops + again` headers have made of
  it, and exactly that if `again` is 0. `Owned`: who has kept the semaphore after a
  joined transmission still has his packet. Tables
  hold no entry twice (`Once`) and none out of date (`Fresh`), because only the
  clock makes an entry older and the purge comes with every tick.
- `RoomForHeaders`, for `PacketsBounded`: the message and `TTL + 1` headers of 10
  bytes fit into 252. In the program a line has 80 bytes and `CONFIG_TTL` is 10. It
  is needed for the fit of a message that was not sent again, and nothing is said of
  the fit of another. It is true in the run `mesh_joined`.
- `RoomForRoutes`, for the routes: a table has room for all pairs of another node and
  another gateway. Without it the property fails in the code: a node whose table is
  full passes an OGM on as a route that it has not saved (`batman.c:149`, `199`).
  `RoomLeft` is the pigeonhole argument: entries are different pairs, so a table
  that lacks one is not full. `RoutesInv` adds to `MeshInv` that a packet without
  the unidirectional flag comes from a node that has had the route (`Announced`).
- Lemmas about the operators: what `Purged` keeps and in which order
  (`SelectedEntries`, `PurgedTable`), what `route_save_or_update` changes
  (`SavedTable`), which gateway is chosen (`GatewayOfRoute`).

**`ShellProofs`**, for any buffer of 3 characters or more, any keys and any heap, also an
infinite one (`ShellAssumption`). `EditorInv`: `cmd` is the length of the line, and the
buffer begins with it. `ListInv`: the entries are linked in some order without
repetitions, and of a listing that shows the k-th of them those behind it are
still to come. `ListSaved` and `ListPurged` show it of the two operations, where
an entry is taken out at the head, in the middle or at the end; `FromEntry` says
that what is reachable from the k-th entry is what stands from there on.

**`MainLoopProofs`**, for all times with `2 * BITE <= SECOND` and `BITE > RECORD`, all errors
and all settings (`MainLoopAssumption`, `ValuesAssumption`).

- `ClockInv`: a second that waits has not waited longer than since the kick
  before the last clearing; so `timer_cnt`, which counts from the notification,
  is bounded by `wdt`, by `BITE + wdt` between the kick and the clearing
  (`NotLate`). When the next second is over, `timer_cnt + 1 = SECOND` would
  exceed both: nothing waits, and nothing is overwritten.
- `SettingsInv`: which word the EEPROM holds at each `pc`; torn only between the
  two bytes, and from there to the next `config_init`.
- `ReportInv`: how far the record is written or erased at each `pc`, and that the
  watchdog's patience covers the bytes left (`Erasing`, `Reporting`): a byte
  takes a tick at most.
- `BusInv`: at each `pc` of a transfer, what the SPI's registers hold if nobody else
  has been at them (`Alone`), and what is left to say if the handler has
  (`Intruded`, which only the command `d` lets happen). A command that went wrong
  leaves the bus idle with the main program waiting for it, which is `Stuck`.

Where an argument needs the least number with some property (a table's first
entry of those with the highest count, the first cell where a linked list leaves the
order), the library's well-founded `<` on the naturals gives it (`Smallest`), and
takes the place of induction.

Model-checked only: liveness (`TransmissionCompletes`, `QuietChannelSends`,
`EveryoneFinishes`, `OutputsFinish`, `Drains`, `WholePacketsHandedOut`,
`StuckIsReset`), for which the prover has no rules about fairness and ENABLED; and
`Hamming!TablesCorrect`, a finite computation. The three runs that expect a
violation are counterexamples and have nothing to prove.

## 5. Plan

Done, in order of importance: the radio and its proofs, the transmit path, the
serial line, LLC reception, the mesh, the shell, the main loop with timer,
watchdog, settings and SPI, the Hamming code, packet lengths; the proofs about all
of them.

Left:

1. `Mesh` with four nodes in a ring, for echoes and loops, once a promise about
   the route that wins is written down.
2. Proofs of more than the runs ask: that `RoomForRoutes` may be weakened to the
   nodes that are in reach of each other.

## 6. Not modelled

- The radio's set-up words, the port directions and the baud rate: written once,
  looked at by nothing.
- `get_mcucsr` and the copy of MCUCSR, which the command `d` displays.
- `debug.c`, `util.c`, `error.h`: counters and messages for the developer.
- `seqno` and `lost` of a route are kept in the model for the code's sake; the
  program only displays them.
- The tests and mocks (`src/src/test`), the Petri net, the board and the thesis
  itself are not part of the program. They are read as its authors' account of
  it.
