# Verification of the ethernet controller

This directory models the ethernet controller of the repository in TLA+: the
hardware (`src/src/hw`), the driver (`src/src/sw`) and the cocotb bench with its
reference model and its tests (`src/src/hw/axi_eth/verif`). TLC checks the models
on small instances and TLAPS proves the main safety properties for every size.

## 1. The system

The controller moves packets between a 64-bit memory bus and an RGMII PHY.

    driver (ethernet.c)
       |  64-bit reads and writes
    memory bus: bus.sv, ethernet_mem_map.sv, RO/WO filters
       |            |              |                   |
    CSR file    TX buffer      RX buffer      descriptor table
       |            |              |                   |
       |        TX framing         +---- RX framing ---+
       |            |               (filter, ring buffer)
       |            |                     |
       |            +---- loopback mux ---+
       |            |                     |
       |         MAC TX                MAC RX
       |            |                     |
       +-------- RGMII: clock divider, speed detection

### Inventory

| Part | State | Operations | What makes it correct |
|---|---|---|---|
| RX ring buffer (`axis_pkt_ring_buffer*.sv`) | write pointer, head of the packet under way, sticky abandon flag, descriptor table, RAM | one beat of the stream with an external abandon; a pop; all in the same cycle | committed packets stay readable; a lost packet is reported once; no incomplete packets |
| Random-access FIFO (`random_access_fifo.sv`) | two pointers with wrap flags, storage, read register | push, pop, clear, random read, in any combination | it is a bounded queue |
| Loopback (`axis_pkt_mux.sv`, `axis_pkt_isolate.sv`, `ethernet_loopback.sv`) | per path: packet in progress, held decision; registered isolation | beats on both paths, change of `loopback_en` | packets are not spliced; a switch completes |
| TX framing (`ethernet_tx_framing.sv`, `ram_downsizer_w64_r8.sv`) | busy flag, byte address, RAM with output register | kick, byte taken or not taken, word write | the stream is the packet in the buffer; a transmission ends |
| CSR file (`ethernet_csr.sv`) | configuration, interrupt mask, sticky events | read or write of a register, hardware events | an error has no effect; events are reported until acknowledged |
| MAC address filter (`mac_address_filter.sv`) | byte counter, three match registers | one beat | the verdict is that of the address |
| RX framing (`ethernet_rx_framing.sv`, `ram_upsizer_w8_r64.sv`) | filter and ring buffer | one beat, a pop | only wanted packets are kept, none vanishes unreported |
| Driver (`ethernet.c`) | the cached RX word; its local variables | send; pending, metadata, byte read, read-and-pop, pop | the caller's bytes go out; the packet returned is the packet received |
| MAC transmitter (`axis_gmii_tx.sv`) | frame FSM, counters, byte register, ready | a working or a held cycle | frame format, gap, handshake |
| MAC receiver (`axis_gmii_rx.sv`) | five-stage delay line, FSM, CRC | a cycle | good frames are delivered, bad ones are marked |
| Memory bus (`bus.sv`, `ethernet_mem_map.sv`, `mem_to_*_mem.sv`) | registered selection, filter error | a request each cycle | an answer belongs to its request |
| Speed detection (`eth_mac_1g_rgmii.sv`) | prescaler, synchronisers, two counters, speed | a cycle | the detected speed is the PHY's |
| TX clock (`rgmii_phy_if.sv`) | divider, clock levels | a cycle | one edge per symbol; the enable comes in time |
| Reference model (`AxiEthernetModel` of `models.py`) | packets received, TX buffer, registers, packets under way, log of packets sent | the calls of the driver, a packet begins or ends | it is a copy of the design whenever that is at rest |
| Bench (`AxiEthernetWrapper`, `AxiEthernetDutWithMirror`, `dut_utils.py`, `create_test`) | coroutines, the bus they share, the variables of the test | an access is issued and answered; a wait sees a packet begin or end; a test begins, fails, ends | comparisons fail only for faults of the design; each test starts from the reset state; each test ends |
| Tests (`coco_top.py`) | none of their own | 64 scripts of these calls | their assertions hold whatever the random choices, which four of them miss (section 3) |

Parts interact in three ways. Within a clock domain, everything happens in
every cycle, and the models take one step per clock cycle with the inputs of that
cycle. Between driver and hardware, any number of cycles passes between two
accesses. Between clock domains (speed detection), the receive clock is an actor
of its own whose samples may be a cycle late. The bench is a set of coroutines
that run in no time between two awaits; one bus serves them in turn, and the
design goes on while they wait.

The hard behaviours are those of "hazards" in `PROJECT.json`: pops in the middle
of a packet that is being stored, acknowledgement in the cycle of an event,
loopback switched in mid-packet, one-cycle RAM and bus latency, a ready signal
that moves only with the clock enable, rings and counters at their limits, a cached word that
outlives its contents, and waits that must end. In the bench: a mirror that
compares with the state after an await, a model that is updated a fixed number of
cycles after a pin falls, an address written in two accesses by concurrent
coroutines, tests that fail half-way, and loops that poll.

## 2. Modules

Every step is a clock cycle unless stated otherwise. Variables carry the names of
the registers, operators the names of the wires; history variables are marked
`history` where they are declared and are read by properties only (plus, where
noted in the module, by the bound on the length of packets).

| Module | Models | Notes |
|---|---|---|
| `RingBuffer` | ring buffer and pointer logic | `Cycle(b, pop)`: beat `b` (with the external abandon) and pop. The table is a sequence: that the FIFO implements one is `RandomAccessFifo`'s result. |
| `PacketStore` | what the ring buffer promises | A queue of byte strings, bounded in packets and in bytes; no pointers and no memory. `RingBuffer` maps to it by reading the bytes of each descriptor back from the RAM (`ImplementsStore`). |
| `RandomAccessFifo` | the FIFO, refined to `BoundedQueue` | `QueueOps` holds the queue operators both share. The refinement mapping `queue` reads the entries from the read pointer on. |
| `PktMux` | mux, isolators, loopback wiring | A beat is its path and its position in the packet, all the splicing property needs. |
| `TxFraming` | TX FSM and TX buffer | Operators of the hardware's half of a step. |
| `SendPacket` | `ethernet_send_packet` on `TxFraming` | The call's checks, one word per step, the write of `TX_CTRL`. |
| `Csr` | register file | A value is the set of its 1 bits; byte enables are abstracted to "byte 0" and "exactly one half". |
| `MacFilter` | filter | The configuration may change in any cycle, half an address at a time. |
| `RxFraming` | filter (EXTENDS) and ring buffer (INSTANCE) | `RingBeat` is the abandon decision. |
| `RxDriver` | the receiving half of the driver; extends `RingBuffer` | One bus access per step, one beat of the stream in each. Pops come in any cycle in which no call is under way, so the ring buffer is as free as in its own specification. |
| `Gmii` | symbols and check sequence shared by the MAC | The CRC is abstracted to "a function of all the bytes", as symbols that name the bytes they were computed from. |
| `MacTx`, `MacRx` | MAC transmitter and receiver | Byte times; see section 7 for what MII mode leaves out. |
| `MacLink` | a transmitter and a receiver at the two ends of a cable | At full rate each symbol on the wire is the receiver's input; the receiver's specification leaves its input free, here it is `OnCable`. |
| `MemBus` | bus, memory map, RO and WO filters | Real addresses. |
| `SpeedDetect`, `TxClock`, `Rgmii` | RGMII clocks | `Rgmii` feeds the measured speed to the divider. `TellsApart` says which widths and clocks the measurement can work with. |
| `Loopback` | `SendPacket` and `PktMux` as `ethernet_top.sv` connects them | One stream goes to the MAC and to the multiplexer, which counts it in the cycles in which the MAC is ready. |
| `EthernetModel` | `AxiEthernetModel` | The object is a record, a method an operator. A packet is destination, contents and length in bytes; real lengths, since the tests are about 8192 and 1524. |
| `EthernetDut` | the design as the bench meets it | Packet by packet: registers, table, two packets on their way, with the cycles between the events the bench can see. What happens inside these cycles is the subject of the modules above. |
| `BenchScripts` | calls, `prep_tx_buffer`, `reinitialise_dut_state`, `health_test`, the arguments of `create_test` | A script is a sequence of calls with the arguments they are drawn from, what is asserted of the answer, and where to go on. |
| `TestPrograms` | the tests | One definition per test, under its name. |
| `TestBench` | wrapper, mirror, coroutines, time, the life of a test | `Issue` and `Answer` are the two ends of a bus access: the design changes at the first, the model at the second. `Wait`, once no coroutine can go on, lets the clock run to the next event (`Elapse`) or, if none will ever come, ends the test by its time limit (`TimeLimit`). `failed` records which test failed, where, by which call and with how many packets in the table. |
| `AnyTest` | every test of one thread that uses the mirror | The same model and design under calls and arguments that are arbitrary. A packet is waited for before the next call. It has no run: it is what `BenchProofs` proves about. |
| `MC*` | symmetry, views and definitions of constants the cfg files name | |
| `*Proofs` | theorems | One module per group of components that share lemmas; the models state the inductive invariants. |

Operators whose comment begins with "Fault:" are not part of a model. Each is a
plausible mistake in the definition below it; with the definition replaced by it,
the property it is listed with under "mutants" fails.

## 3. Runs

| Run | Bounds | Shows |
|---|---|---|
| `rx_driver` | ring of 4 bytes, 2 descriptors, packets up to 3 bytes, words of 2 bytes, 2 byte values | Ring buffer: `ImplementsStore`, `CommittedIntact`, `LostExactlyOnce`, `BufAlmostFullWhenFull`; driver: `ReadsPacket`, `PopsPacketRead`. Packets wrap, fill buffer or table, are abandoned in any beat and share words, which the cache needs. Symmetry in the byte values; the VIEW leaves out the bytes of the RAM that belong to no packet, of which only what the driver has cached can be read. |
| `random_access_fifo` | depth 2, 3 items | `ImplementsQueue`: every input in every cycle. |
| `loopback` | words of 1 byte, 3 words, lengths 2 and 3, received packets up to 3 beats | `SendsRequested`, `QuietWhileBusy`, `AxisStable`, `EveryKickEnds`, `NeverMixPaths`, `NoSplice`, `SwitchCompletes`, `LoopsRequested`. Back-to-back packets, stalls of the MAC and switches in every cycle; three beats outlast a switch and the switch back. That words of several bytes are packed and unpacked alike is part of the proofs, which hold for every word size. |
| `csr` | the rows of the interrupt registers, CTRL and STATUS, TX_CTRL, RX_POP and MDIO_CTRL, two data values | `EventsStick`, `ErrorMeansNoEffect`. The rows left out are the MAC address, which is plain storage, constants, and reserved addresses, of which these rows have some too. |
| `rx_framing` | addresses of 2 bytes, prefix 1, 2 MAC addresses, 1 descriptor, packets up to 3 bytes | `ReasonDecided`, `NoEarlyReject`, `OnlyWantedPackets`, `NothingWantedDisappears`. Station, multicast and foreign addresses all occur, and the broadcast address, which is a multicast one here: with two values for a byte the multicast prefix is also how the broadcast address begins, so the verdict MAC_BROADCAST does not occur in the run and rests on the theorem `FilterReasonDecided`. (With three values the run takes longer than five minutes.) The configuration changes in any cycle. The VIEW leaves out the bytes in the RAM, which nothing in this run reads. |
| `mac_link` | preamble 3, minimum payload 3, FCS 2, gap 2, packets of 1 to 4 bytes, both rates | `FrameCorrect`, `TakesOnlyCurrent`, `GapKept`, `PacketTaken` of the transmitter, `LinkDelivers` of the two together. Packets below, at and above the minimum; the gap is the smallest the receiver can do with, so each frame meets it as early as it may. |
| `mac_rx` | FCS 2, bursts up to 6 symbols, gaps of 2 or more | `DeliversGoodFrames`, `OneBurstPerPacket`. |
| `mem_bus` | first and last address of every device, gaps, an alias above 64 KiB | `ReachesItsMemory`, `AnswersTheRequest`. |
| `rgmii` | reference counter of 6 bits, changes every 39, 11 and 4 cycles; periods of 10 and 5 cycles | `SpeedIsRight`, `SpeedSettles`, `OneEdgePerSymbol`, `EnabledInTime`. TLC also evaluates `TellsApart` for the real numbers (7 bits; 200, 20, 4). |
| `bench` | the ends of each range of random numbers and the values in between at which the outcome is another (1530 cycles in `crc_error_test`, a ninth packet of 380 bytes in `rgmii_pop_during_rx_table_full`, 1024 bytes in `long_random_simultaneous_rx_tx_test`); two values for random bytes; `Few` = 2 turns of loops whose turns are alike and leave nothing behind; logs of the last `MaxLog` = 2 packets; the two long tests as below | `MirrorInSync`, `TestsPass`, `ReinitIsReset`, `TestsFinish`. All 64 tests in any order, each on the design the one before left behind. Cycles: 8 from TX_CTRL to the first byte, 1 from the last byte to its commit in loopback, 4 on the receive path, 4 per bus access, 2 until the PHY begins a frame. |

`long_random_test` has any number of rounds, with packets of the longest length (1518 of 60..1518).
`long_random_simultaneous_rx_tx_test` has two rounds of ten packets each way, of ten such rounds in the code. The packets received,
wanted or not, have 60, 1024 or 1518 bytes and fill the table, the buffer or both; in a round they have the same data and none is longer
than the one before. Those transmitted have 1518 bytes in the first round and 60 in the second. After a round
any one of the received packets is read, and of those transmitted the ones the logs keep.

The real lengths and limits are kept in `bench`, so buffer and table fill, to the byte where a test aims at
it. Data is two values because a fresh packet must differ from the one before it, and no test compares more than
that. The table holds 8 packets and several tests fill it.

A one-byte packet is outside what `ethernet.rdl` permits. `mac_link` includes it because the
transmitter's answer to it is drastic: the frame fails, the FSM waits for the end of the *next*
packet and may start in the middle of one. `FrameCorrect`, `TakesOnlyCurrent` and `LinkDelivers` therefore speak of the time
before the first one, `GapKept` and `PacketTaken` of all time.

No run constrains the state space. The lengths of packets are bounded in the
guards (`MaxPktLen`, `MaxBeats`, `MinLen`/`MaxLen`, `MaxBurst`), histories that
count are capped (`gap`, `windows`, `periods`).

### Fairness

* `Loopback`: the clock keeps ticking, WF(LoopNext), and a byte on offer is taken in
  the end. `axis_gmii_tx` raises ready in every payload byte and comes back to idle
  after every frame; `PacketTaken` of `MacTx` is this fact. `SwitchCompletes` also
  assumes that packets end, which the sources guarantee.
* `MacLink`: working cycles of the transmitter come again and again, and at the lower speeds so do held
  ones after each. `OneEdgePerSymbol` and `EnabledInTime` of `TxClock` are the
  reason.
* `Rgmii`: the 125 MHz clock keeps ticking, WF(RgmiiCycle).
* `TestBench`: the simulator goes on while there is an event. This is WF(Next), written
  out as "the suite is over again and again, or steps are taken again and again", which
  TLC checks much faster; it is the same because nothing else stops `Next` (the run
  checks deadlock).

### Findings

Two runs check what the repository says of the program and find a
counterexample.

* `ring_buffer_truncation`. With the table full at the start of a packet, its
  bytes are not written, but the packet is not marked as abandoned either. If
  software pops before the last beat, the rest is committed as a packet.
  README.md:136 rules this out. `CommittedIntact` says what does hold: a committed
  packet is always a suffix of the packet received, and all of it unless a beat
  met a full table.
* `rx_driver_wrap`. `ethernet_read_and_pop_oldest_packet` does not wrap at the end
  of the RX buffer, where the descriptor table and then nothing follows.
  `ReadsPacket` holds for packets that do not run over the end.

Three more exceptions are written into the properties. Each module also states the property without the
exception, and TLC refutes it when it is added to the cfg.

* `EventsStick` exempts events in a cycle with a write to `INTR_STATE`: the set
  branch of all sticky bits is skipped in such a cycle (`ethernet_csr.sv:135`), even for bits that are not being
  acknowledged. Without the exception: `EventsNeverLost`.
* `OnlyWantedPackets` is about packets longer than an address: one that ends with its sixth byte is judged
  without that byte (`mac_address_filter.sv:98`). Without the exception:
  `KeptPacketsAreAddressed`.
* `ReadsPacket` is about `ethernet_read_and_pop_oldest_packet`. Two packets may share a
  word; if a byte of the first is read before the second arrives, a read of the second
  without a pop in between returns the old contents of the cached word
  (`ethernet.c:126`). Read-and-pop never meets this, since a pop invalidates the word and
  the packets before the oldest have been popped. For the calls that do not pop:
  `PeeksPacket`.

### What the bench shows of itself

Four tests fail on this design by their own random choices. `TestsPass` names the four failures and admits no
other; TLC reaches each of them.

* `SixFit`. `buffer_full_packet_lost_test` (`coco_top.py:672`) expects its sixth packet to be lost.
  The lengths are drawn from 1350..1518; if the six have at most 8192 bytes together, which six of up to
  1365 bytes do, the packet fits and the assertion "Expected packet lost flag" fails.
* `Truncated`. In `rgmii_pop_during_rx_table_full` the design commits the truncated packet of the finding
  `ring_buffer_truncation`, the model the whole one. The test looks at the number of packets and at the flags. With eight
  packets of 900 bytes and a ninth of 380 (`coco_top.py:1087`) popped about 18 bytes in, the design holds 6662 bytes and no
  almost-full flag, the model 6680 and the flag, and the comparison of STATUS fails. For most lengths both are on the same
  side of the threshold and the test passes.
* `FrameMissed`. `crc_error_test` lets up to 1531 cycles of a frame pass (`coco_top.py:810`), toggles a bit, waits one edge more and calls
  `wait_for_rx_done`. After 1531 cycles the frame is over, and `models.py:466` waits for it to begin until `with_timeout` ends the
  test. This is with a PHY model that begins a frame two cycles after it is given one; with one that begins a cycle earlier, 1530 would be
  enough too.
* `UnwantedLost`. `long_random_simultaneous_rx_tx_test` lets ten packets in before it looks. If those kept fill the
  buffer (eight of 1024 bytes, say) and one for somebody else follows, the design sets packet_lost before the filter has
  rejected that packet; the model sets it for wanted packets only (`models.py:303`). The comparison of INTR_STATE fails. Eight packets are what the
  lengths of the run give; others fill the buffer with fewer.

`MirrorInSync` leaves out the packet_lost flag of the last one, and two tests:

* `rgmii_pop_during_rx_table_full`, as above.
* `change_loopback_during_loopback`: the model clears `rx_packet_in_progress` only if loopback is
  still on when the transmission ends (`models.py:261`). The test leaves the packet behind in the model, while the design, which
  switches between packets, keeps it. No call after it compares the two.

Other things met while modelling:

* `dut_utils.py:63` says that a pop "guarantees there will now be space for a loopback". A pop of a 60-byte
  packet from a full buffer leaves less than the 64 bytes the health test sends. No test ends with such a buffer.
* A packet for somebody else that meets a full buffer is the failure `UnwantedLost`.
  One byte of room is not enough either: the filter's verdict on the first
  byte acts a cycle later, when the second has met the full buffer. `packet_lost_non_match_test`, which is about such packets,
  fills the table, not the buffer. `BenchProofs` shows that this is the only case in which a packet of two bytes or more, sent or
  received to its end by a test of one thread, leaves the two different. In `EthernetDut` an address differs from others in its first byte; one
  that is more alike stays undecided for up to six bytes and needs that much more room.
* No test aims at a packet one byte longer than what is left, and no length of the run hits it. A model whose limit were 8193 would
  pass the run; that the limits agree to the byte is proved (`EveryTestAgrees`).
* In `rgmii_simultaneous_tx_rx_loopback` the model takes up the looped packet when the wait for the *received*
  one ends, if that comes first; the test compares only after both.
* `AxiEthernetModel.rx_buffer_read_byte` compares an offset with `>` where the next packet begins at
  `>=` (`models.py:232`), and the mirror compares its number with the bytes of the wrapper. No test calls it.
* `models.py:636` speaks of four cycles and the code waits five; four is the delay of the design, and with three `TestsPass` fails.

## 4. Proofs

All assumptions are the named ASSUMEs on constants: sizes positive, thresholds in range,
at least two idle symbols between bursts, a transmitter whose gap is as long (`LinkAssumption`), clocks that can be told apart (`TellsApart`), a
divided clock that is high for half of its period and a counter wide enough for it
(`DividerAssumption`; in the code it rises after count 24 of 0 to 49, or 2 of 0 to 4). Nothing bounds the sizes.

**`RingBufferProofs`**. `CommittedIntact` is not inductive: it says nothing of
where the next byte goes. `IInv` adds `Layout` (seen from the oldest head pointer, the
stored packets follow each other without overlap, the packet under way comes
after them and does not reach round to the oldest), `InProgress` (what is written
of the packet under way is the end of what arrived), `StoredMeansRoom` (once a byte
is stored the table cannot fill up before the end, which is why the stored bytes are contiguous)
and `StickyMeaning` (the flag is set exactly if the packet was abandoned or
reported). Most of the work is modular arithmetic on pointers, in lemmas of its own.
For the refinement of `PacketStore` one more invariant is needed, `NoGaps`: `Layout` allows unused bytes between
packets, and the store counts no such bytes. A packet that falls back gives its bytes up, and one that is committed starts where the
one before ended; so the space the pointers leave is the capacity less the lengths in the table, and the ring refuses a
byte exactly when the store does. The other half of the mapping is that a write goes to no byte that can be read back.
Results: `RingBufferInvariant`, `RingBufferType`, `CommittedPacketsIntact`,
`PacketLostOnce`, `AlmostFullWhenFull`, `RingBufferImplementsStore`; from the refinements of the ring buffer in
the compositions, `DriverImplementsStore` (in `RxDriverProofs`) and `FramingImplementsStore` (in `RxFramingProofs`).

**`LoopbackProofs`**. For the multiplexer, `MuxInv`: one path is always isolated; a path in
mid-packet keeps the decision it began with; the beat on the output continues the packet of the
path that passes. For the driver with TX framing, `IInv`: while sending, buffer contents, byte
address, RAM output register and bytes delivered agree with the caller's packet (`Sending`); when
idle the last packet was delivered (`Resting`); while copying, the words up to `i` are in the buffer
and the transmitter is idle (`Copying`). For the two together, `LoopInv`: MAC and multiplexer count
the same bytes of the packet under way; while that packet passes, what the receive side has been
given together with the output register is what the MAC has taken, and of a packet that is held
back it has been given nothing. `LoopbackImplementsSend` and `LoopbackImplementsMux` show that the
composition is a behaviour of both parts, so that their results hold in it. Results: `SendPacketInvariant`,
`SendPacketType`, `DriverQuietWhileBusy`, `DriverSendsRequested`, the action property
`OfferedByteStable`, `PktMuxInvariant`, `PktMuxType`, `PathsNeverMix`, `OutputNeverSpliced`,
`LoopbackInvariant`, `LoopbackLoopsRequested`.

**`RxFramingProofs`**. The filter's `IInv` says what each match register means after the bytes seen
so far. It needed one conjunct that TLC never missed: a packet that has not begun is steady
(`seen = <<>> => steady`). `FramingInv` ties the filter to the ring buffer: both count the same packet,
every entry of the table has the reason and the log entry of its packet, and an abandoned packet has a reason
to be (`AbandonReason`). The results of the ring buffer are used through an instance of its proofs, for
which `FramingImplementsRing` shows that the composed steps are ring buffer steps. Results: `FilterReasonDecided`,
`FilterNoEarlyReject`, `FramingReasons` (the same two in the composition), `FramingOnlyWanted`, `FramingNothingDisappears`.

**`RxDriverProofs`**. The cache of the driver is not kept in step with the memory: a stale word stays in it.
`CacheFresh` says why this does no harm to `ethernet_read_and_pop`: the word that is kept was read since the last pop
and agrees with the RAM on the bytes of the oldest packet, which cannot change before the pop
(`CommittedIntact` of the ring buffer). `CopiesOldest` is the invariant of the copy loop. Results: `DriverImplementsRing`,
`DriverInvariant`, `DriverReadsPacket`, `DriverPopsPacketRead`.

**`BusProofs`**. For the bus, `Decoder` proves for every address that the masks of the memory map select the ranges
they stand for and that these are disjoint. `BusInv` says that the registered selection and the registers of the filters
remember of the last request what its answer needs. For the CSR file behind it, `EventsStick` is inductive once the
registers are known to be sets of bits (`TypeOK`), and `CsrErrorMeansNoEffect` goes through the registers one by one:
each write enable implies that the access was not an error. For the FIFO behind the descriptor table, `FifoType` is
inductive: the wrap flags and pointers describe at most `Depth` entries. `FifoImplementsQueue` proves that the initial
state maps to the empty queue and each cycle to one of the queue's, by comparing the sequences `queue` and
`queue'` entry by entry. Results: `FifoType`, `FifoImplementsQueue`, `MemBusInvariant`, `BusReachesItsMemory`,
`BusAnswersTheRequest`, `CsrInvariant`, `CsrEventsStick`, the action property `CsrErrorMeansNoEffect`.

**`MacProofs`**. For the transmitter, `MacTxInv` has three parts. `StreamInv`: what is on offer belongs to the packet being
sent or to the next one, and tready is up only in the cycle after the FSM worked, which is why no byte is taken
twice at the slow rates. `GapInv`: the silence counted so far, state by state. `SendInv`: state by state, the
symbols sent, the bytes taken, the frame pointer and the CRC register relative to `Encode(current)`. All three hold for both rates.
For the receiver, `MacRxInv` has three parts too. `LineInv`: the delay line holds the newest symbols of the burst, and what
is left in it of earlier ones is not valid. `InPacket`: the bytes passed on, and those the check covers, are the beginning of the
frame up to the end of the line. A burst that ends with only a check behind the delimiter is the odd case: its packet begins when
the wire is already silent, which is why two idle symbols are needed before the next burst. `BetweenPackets`: the delimiter of
the burst on the wire is still in the line, or the FSM waits for the end of a frame it gave up because of an error.
That a burst with a delimiter has a first one rests on the well-foundedness of the naturals.
For the two together, `Follows` says that the receiver is one symbol behind the transmitter and that the silence it has
seen is the transmitter's gap, which must be one the receiver can do with (`LinkAssumption`: `IfgDelay >= MinGap`; the code has 12 and
needs 2). The receiver's own invariant holds for any input with such gaps, so `SentFrameIsGood`, that `Encode(p)` is a good frame
whose content is `p` with its padding, gives `LinkDelivers`: each packet sent is delivered, once, whole and in the cycle in which its
frame ends, and nothing else is.
Results: `LinkImplementsTx`, `SentFrameIsGood`, `LinkInvariant`, `LinkDeliversPackets`, `MacTxInvariant`, `MacKeepsGap`, `MacTakesOnlyCurrent`, `MacFrameCorrect`, `MacRxInvariant`,
`MacDeliversGoodFrames`, `MacOneBurstPerPacket`.

**`RgmiiProofs`**. `SpeedIsRight` needs to know how much time a measurement has covered. `Passing` says in which cycle after
a change of the prescaler's bit each synchroniser stage shows it, late sample or not, so that one change at most is on its way
(`AfterReset` describes the first cycles, in which there was none). `Measured` then bounds the reference count from both sides:
with `n` changes counted or on their way it is between `n - 1` and `n` periods of the bit, give or take where in its period the
bit is; when the count of changes is full, this leaves a range for each speed that `TellsApart` keeps apart. The divider is
proved for a speed that may change in any cycle. `WaitInv`: the counter has counted the cycles since the last enable, or more. `Regular`:
after one enable at a steady speed periods begin at 0, after two the outputs are in step with the counter, after three the
record of the period is that of a well-formed one. `RgmiiImplementsSpeedDetect` shows that the composition is a behaviour
of the speed detection alone. Results: `MeasuredSpeedIsRight`, `RgmiiImplementsSpeedDetect`, `RgmiiInvariant`,
`RgmiiOneEdgePerSymbol`, `RgmiiEnabledInTime`.

**`BenchProofs`**. The tests compare the design with a model at the end of each call, so what a test finds is a fault of the
design only if a right design agrees with the model. `DutInv` bounds the design whatever the bench does: at most one of the two
packets on their way is let through to the buffer, and what is stored of it has room beside the table
(`AdvanceInBounds`, `AccessInBounds`). The design judges a packet byte by byte, the model at its end. `Taken(d, a, k)` is what
the design knows of a packet after `k` bytes; a step of `n` cycles takes `Taken(d, a, k)` to `Taken(d, a, k + n)`, so
it does not matter how the bench divides the time (`ReceptionRuns`, `TransmissionRuns`), and after the last byte it is
the model's verdict (`ReceptionMirrored`, `TransmissionMirrored`). `MirrorInv` puts this together for `AnyTest`: at rest model and
design are in sync; while a packet is on its way the design is on the run that began in sync with it. The names for unknown or
mixed data that the packet-level design makes up are assumed to be among the names. That a full buffer means the same
on both sides rests on `BytesOf`, which adds up lengths; what it does on `Append` and `Tail` is proved from the function that
computes it, by minimal counterexamples. Excluded, in the guards of `AnyTest`: packets of less than two bytes; sending a
buffer the test has not filled; and the unwanted packet that meets a buffer full, or full but for one byte, for which the two really differ
(section 3). Results: `AdvanceInBounds`, `AccessInBounds`, `BoundsGiveDutOK`, `ReceptionRuns`, `TransmissionRuns`, `ReadsAgree`,
`RegistersMirrored`, `ReceptionMirrored`, `TransmissionMirrored`, `MirrorInvariant`, `EveryTestAgrees`, `EveryTestInBounds`.

## 5. What is only model-checked

* Liveness (`SwitchCompletes`, `EveryKickEnds`, `PacketTaken`, `SpeedSettles`, `TestsFinish`): reasoning
  about fairness and ENABLED is out of the prover's reach.
* `TypeOK`, `MirrorInSync`, `TestsPass` and `ReinitIsReset` of `TestBench`, as statements about the 64 scripts. They depend
  on what each script does before: a length such as 8192 less what is stored is a length only because of the calls
  above it, `ReinitIsReset` is true because no script leaves a frame behind on the wire, and some scripts run threads
  beside each other. A proof would execute the scripts one by one, which is what TLC does, completely up to the
  named bounds. What can be said for every script of one thread is proved: the mirror's comparisons (`EveryTestAgrees`,
  the counterpart of `MirrorInSync`) and the bounds of the design (`EveryTestInBounds`, those of `TypeOK`).

## 6. Plan

Done, in this order: ring buffer and FIFO, loopback, transmission with driver, CSR,
reception with filter and driver, MAC, bus, RGMII clocks; proofs of the first four;
transmission composed with loopback; the cocotb bench with its model and tests; proofs of CSR, reception,
loopback, bus, MAC and RGMII clocks; the ring buffer as an implementation of `PacketStore`; `MacLink`; proofs about the
bench for every test of one thread.

Left:

1. `RxCdc`: the asynchronous FIFO between the MAC's receive clock and the logic
   clock (`eth_mac_1g_rgmii_wrapper.sv`) with two clocks as actors; it never
   overflows at the permitted ratios.
2. The nibble paths of MII mode in `MacTx` and `MacRx`, and the hand-over of
   `mii_select` into both domains.
3. The rest of the driver: initialisation, mode and interrupt calls, MDIO.
4. Interrupt service: `Csr` with a handler that reads, serves and acknowledges.
5. Proofs for what 1, 2 and 4 add. Every safety property a run checks outside the bench is proved now.
6. Tests with threads beside each other in `AnyTest`, two packets on their way at a time.

## 7. What is not modelled

* CRC-32 arithmetic (`rgmii_lfsr.sv`): a fixed XOR network. `Gmii` keeps that the check
  covers every byte, in order, and nothing else.
* MII nibbles: in MII mode a byte takes two enabled cycles. `MacTx` keeps the
  timing this gives the handshake (two working cycles never follow each other); `MacRx` is byte mode only.
* `tuser` towards the MAC transmitter: tied to zero by `ethernet_tx_framing.sv`.
* I/O cells (`iddr`, `oddr`, `ssio_ddr_in`), DDR output of data and control, reset
  synchronisers.
* Wiring: `ethernet_top` as far as `Loopback`, `RxFraming` and `RxDriver` do not compose it, `mac_wrapper`, `eth_mac_1g`, `rgmii_core`, `rgmii_soc`, the
  AXI top level and its external bridge.
* Of the cocotb bench: how long a test takes, since the words of a buffer are two accesses here, and so whether it is over
  before the time limit of `create_test` (a limit ends a wait that has nothing to wait for, no other); the reset between tests, which its configuration replaces by
  reinitialisation; the selection by tag; `loopback_b2b_edge_case_test`, which has no body; `illegal_long_packet_test`, which
  is skipped; `mdio_read_test`, which reads back input pins; `rx_buffer_read_byte` and `rx_buffer_read64` of model and mirror, which no test calls.
  External and assumed: the AXI driver serves one access at a time, in the order of the requests; reads and
  writes do not overlap; the PHY model begins a frame two cycles after it is given one.
* The SystemVerilog benches, coverage and assertion files. The assertions are used as sources of properties; those
  that are checked carry the assertion's name in their comment.
* Reset in mid-operation: a reset returns every module to Init.
