----------------------------- MODULE TestBench ------------------------------
(***************************************************************************)
(* The cocotb bench at work: the tests of TestPrograms run one after the   *)
(* other against the design (EthernetDut), through AxiEthernetWrapper and, *)
(* for most of them, through AxiEthernetDutWithMirror, which keeps         *)
(* AxiEthernetModel (EthernetModel) beside the design and compares the two *)
(* at every read.  After each test comes the health test, then             *)
(* reinitialise_dut_state brings the design back for the next test, whose  *)
(* model starts from its constructor.                                      *)
(*                                                                         *)
(* Time.  Coroutines run in no time between two awaits; Elapse lets the    *)
(* clock run to the next thing anybody waits for, once no coroutine can    *)
(* run.  A bus access takes effect when it is issued and answers BusCycles *)
(* later.  The AXI driver is external: it serves one access at a time,     *)
(* the others in the order in which they asked for it.                     *)
(***************************************************************************)
EXTENDS TestPrograms

CONSTANTS
    BusCycles,      \* from the effect of a bus access to its response
    Suite           \* names of the tests that are run

ASSUME BenchAssumption == BusCycles \in Nat \ {0} /\ Suite \subseteq DOMAIN Tests

VARIABLES
    dut,        \* the design
    model,      \* the mirror's model
    part,       \* "reinit", "test" or "health"
    test,       \* the test being run
    st,         \* the stage of the part
    th,         \* the coroutines of the stage
    bus,        \* the access in flight, and who waits with a second one
    mem,        \* local variables of the test functions
    serial,     \* which random value comes next
    failed      \* the test that failed last, where and by what, and the packets held

vars == <<dut, model, part, test, st, th, bus, mem, serial, failed>>

-----------------------------------------------------------------------------
(* The program. *)

Programs == [t \in DOMAIN Tests |-> Configured(Tests[t])]

StagesOf(p, t) ==
    CASE p = "reinit" -> reinitialise_dut_state
      [] p = "test"   -> Programs[t]
      [] p = "health" -> health_test

Stage == StagesOf(part, test)[st]

\* Reinitialisation and health test run on the wrapper inside the mirror.
Mirrored == part = "test" /\ Tests[test].mirror

Ready == [pc |-> 1, at |-> "call", left |-> 0, arg |-> 0, val |-> 0]
Fresh(stage) == [t \in 1 .. Len(stage.procs) |-> Ready]

Done(t) == th[t].pc > Len(Stage.procs[t])
This(t) == Stage.procs[t][th[t].pc]

FreeBus == [owner |-> 0, left |-> 0, waiting |-> <<>>]
NoMem == [used |-> 0, first |-> 0, n |-> 0]
NoFailure == [test |-> "none", part |-> "none", by |-> "none", n |-> 0]

RandomData == <<"r1", "r2">>
NextSerial(used) == IF used THEN (serial % Len(RandomData)) + 1 ELSE serial

\* What the argument of call i is drawn from.
Options(i) ==
    CASE i.rel = "remaining"       -> {8192 - mem.used}
      [] i.rel = "to_threshold"    -> {6667 - mem.used}
      [] i.rel = "first_plus_1"    -> {mem.first + 1}
      [] i.rel = "length_minus_10" -> {mem.first - 10}
      [] i.rel = "newest"          -> {mem.n - 1}
      [] i.rel = "any"             -> 0 .. Len(dut.table) - 1
      [] i.rel = "if_none"         -> IF mem.n = 0 THEN i.arg ELSE {1}
      [] i.rel = "random"          -> {RandomData[serial]}
      [] OTHER                     -> i.arg

\* What call i with argument a, answered by v, leaves in the test's variables.
MemAfter(i, a, v) ==
    CASE i.rel \in {"first", "length"} -> [mem EXCEPT !.used = @ + a, !.first = a]
      [] i.rel = "add"  -> [mem EXCEPT !.used = @ + a]
      [] i.rel \in {"save", "less", "more"} -> [mem EXCEPT !.n = v.n]
      [] OTHER -> mem

-----------------------------------------------------------------------------
(* AxiEthernetWrapper: what a bus access does to the design, and returns. *)

BusOps ==
    {"intr_state_get", "intr_mask_set", "intr_mask_get", "test_intr", "clear_test_intr",
     "clear_tx_done_flag", "clear_packet_lost_flag", "status_get", "mode_set", "mode_get",
     "mac_address_set", "mac_address_get", "rx_pop_packet", "tx_write_dst", "tx_write_rest",
     "rx_buffer_metadata_get", "rx_packet_pending", "read_packet", "tx_packet_send",
     "tx_busy", "raw_read", "raw_write", "write_mdio_ctrl_reg"}

\* Calls of two accesses, one awaited after the other.
TwoAccesses == {"mac_address_set", "mac_address_get", "read_packet"}

Written(op, a, second) ==
    CASE op = "intr_mask_set"          -> WriteIntrMask(dut, a)
      [] op = "test_intr"              -> WriteIntrTest(dut)
      [] op = "clear_test_intr"        -> WriteIntrState(dut, {6})
      [] op = "clear_tx_done_flag"     -> WriteIntrState(dut, {5})
      [] op = "clear_packet_lost_flag" -> WriteIntrState(dut, {4})
      [] op = "mode_set"               -> WriteCtrl(dut, a)
      [] op = "mac_address_set"        -> IF second THEN WriteMacHi(dut, a) ELSE WriteMacLo(dut, a)
      [] op = "rx_pop_packet"          -> WriteRxPop(dut)
      [] op = "tx_write_dst"           -> WriteTxWord(dut, 0, a)
      [] op = "tx_write_rest"          -> WriteTxWord(dut, 1, a)
      [] op = "tx_packet_send"         -> WriteTxCtrl(dut, a)
      [] op = "write_mdio_ctrl_reg"    -> WriteMdio(dut, a)
      [] OTHER                         -> dut

\* The second access of read_packet reads where the first one pointed.
Returned(op, a, second, first) ==
    CASE op = "intr_state_get"         -> INTR_STATE(dut)
      [] op = "intr_mask_get"          -> dut.mask
      [] op = "status_get"             -> STATUS(dut)
      [] op = "mode_get"               -> <<dut.prom, dut.loop>>
      [] op = "mac_address_get"        -> IF second THEN <<first, dut.mac.hi>> ELSE dut.mac.lo
      [] op = "rx_buffer_metadata_get" -> ReadTable(dut, a)
      [] op = "rx_packet_pending"      -> 0 \in STATUS(dut).bits
      [] op = "read_packet"            -> IF second THEN first ELSE ReadTable(dut, a)
      [] op = "tx_busy"                -> 7 \in STATUS(dut).bits
      [] op = "raw_read"               -> Response(dut, "read", a)
      [] op = "raw_write"              -> Response(dut, "write", a)
      [] OTHER                         -> 0

-----------------------------------------------------------------------------
(* AxiEthernetDutWithMirror: what it does with the model once the design   *)
(* has answered, and what it asserts.                                      *)

ModelAfter(op, a) ==
    CASE op = "intr_mask_set"          -> intr_mask_set(model, a)
      [] op = "test_intr"              -> test_intr(model)
      [] op = "clear_test_intr"        -> clear_test_intr(model)
      [] op = "clear_tx_done_flag"     -> clear_tx_done_flag(model)
      [] op = "clear_packet_lost_flag" -> clear_packet_lost_flag(model)
      [] op = "mode_set"               -> mode_set(model, a)
      [] op = "mac_address_set"        -> mac_address_set(model, a)
      [] op = "rx_pop_packet"          -> rx_pop_packet(model)
      [] op = "tx_write_dst"           -> tx_buffer_write64(model, 0, a)
      [] op = "tx_write_rest"          -> tx_buffer_write64(model, 1, a)
      [] op = "tx_packet_send"         -> tx_packet_send(model, a)
      [] OTHER                         -> model

IrqAgrees == ethernet_irq_o(dut) = irq_pending(model)

Agrees(op, a, v) ==
    CASE op = "intr_state_get"    -> v = intr_state_get(model) /\ IrqAgrees
      [] op = "intr_mask_get"     -> v = model.intr_mask
      [] op = "status_get"        -> v = status_get(model)
      [] op = "mode_get"          -> v = mode_get(model)
      [] op = "mac_address_get"   -> v = <<model.mac_address, model.mac_address>>
      [] op = "rx_packet_pending" -> v = rx_packet_pending(model)
      [] op = "tx_busy"           -> v = tx_busy(model)
      [] op = "rx_buffer_metadata_get" ->
            /\ a < Len(model.rx_packets)
            /\ v.reason = model.rx_packets[a + 1].reason
            /\ v.pkt.len = model.rx_packets[a + 1].pkt.len
      [] op = "read_packet" ->
            /\ a < Len(model.rx_packets)
            /\ v.pkt = model.rx_packets[a + 1].pkt
      [] OTHER -> TRUE

\* What the test functions assert of an answer.
Expected(i, a, v) ==
    CASE i.op = "status_get" ->
            /\ i.exp.has \subseteq v.bits /\ i.exp.hasnt \cap v.bits = {} /\ v.n \in i.exp.n
            /\ i.rel = "less" => v.n = Max({0, mem.n - 1})
            /\ i.rel = "more" => v.n = mem.n + 1
      [] i.op = "intr_state_get" -> i.exp.has \subseteq v /\ i.exp.hasnt \cap v = {}
      [] i.op \in {"rx_packet_pending", "irq_pending"} -> (IF v THEN 1 ELSE 0) \in i.exp.n
      [] i.op \in {"raw_read", "raw_write"} -> v \in i.exp.n
      [] i.op = "write_mdio_ctrl_reg" -> dut.mdio = a
      [] i.rel = "both" -> v = <<TRUE, TRUE>>
      [] i.op = "rx_buffer_metadata_get" /\ i.rel = "newest" -> v.pkt.len = 64
      [] i.op = "read_packet" /\ i.rel = "newest" ->
            v.pkt = [dst |-> "zero", data |-> "pattern", len |-> 64]
      [] i.rel = "just_set" -> v = <<"CAFEBEEFBADD", "CAFEBEEFBADD">>
      [] OTHER -> TRUE

\* Whether the answer counts as true for the branch that follows.
Truth(op, v) ==
    CASE op = "status_get" -> v.n > 0
      [] op \in {"rx_packet_pending", "tx_busy", "irq_pending"} -> v
      [] OTHER -> TRUE

-----------------------------------------------------------------------------
(* Coroutines. *)

\* The coroutine goes on after its call.
Resume(t, n) == th' = [th EXCEPT ![t] = [Ready EXCEPT !.pc = th[t].pc + n]]

Follow(t, v) == LET i == This(t) IN Resume(t, IF Truth(i.op, v) THEN i.tt ELSE i.ff)

Pause(t, at, left) == th' = [th EXCEPT ![t].at = at, ![t].left = left]

\* An exception ends the test and all its coroutines; the next test begins
\* with the reinitialisation.
Raise(by) ==
    /\ failed' = [test |-> test, part |-> part, by |-> by, n |-> Len(dut.table)]
    /\ part' = "reinit" /\ st' = 1 /\ th' = Fresh(reinitialise_dut_state[1])
    /\ test' = "none" /\ mem' = NoMem /\ serial' = 1 /\ bus' = FreeBus
    /\ model' = InitModel

Same(vs) == UNCHANGED <<part, test, st, failed>> /\ UNCHANGED vs

-----------------------------------------------------------------------------
(* Bus accesses. *)

WantsBus(t) == ~Done(t) /\ This(t).op \in BusOps

\* Coroutines ask for the bus when they are started, in their order, which a
\* test may have shuffled.
Asking(t) == WantsBus(t) /\ th[t].pc = 1 /\ th[t].at = "call"

HasTurn(t) ==
    /\ bus.owner = 0
    /\ IF th[t].at = "second"
       THEN t = Head(bus.waiting) /\ ~\E u \in DOMAIN th : Asking(u)
       ELSE \/ Asking(t) /\ (Stage.shuffle \/ ~\E u \in 1 .. t - 1 : Asking(u))
            \/ th[t].pc > 1 /\ bus.waiting = <<>> /\ ~\E u \in DOMAIN th : Asking(u)

\* An access is issued; the second one of a call with the argument of the first.
Issue(t) ==
    LET i      == This(t)
        second == th[t].at = "second"
    IN  /\ WantsBus(t) /\ th[t].at \in {"call", "second"} /\ HasTurn(t)
        /\ \E a \in IF second THEN {th[t].arg} ELSE Options(i) :
              /\ dut' = Written(i.op, a, second)
              /\ th' = [th EXCEPT ![t].at = IF second \/ i.op \notin TwoAccesses
                                            THEN "answer" ELSE "half",
                                  ![t].arg = a,
                                  ![t].val = Returned(i.op, a, second, th[t].val)]
        /\ bus' = [owner |-> t, left |-> BusCycles,
                   waiting |-> IF second THEN Tail(bus.waiting) ELSE bus.waiting]
        /\ serial' = NextSerial(i.rel = "random")
        /\ Same(<<model, mem>>)

\* The first of two accesses has been answered; the coroutine asks again.
Half(t) ==
    /\ th[t].at = "half" /\ bus.owner = t /\ bus.left = 0
    /\ bus' = [owner |-> 0, left |-> 0, waiting |-> Append(bus.waiting, t)]
    /\ th' = [th EXCEPT ![t].at = "second"]
    /\ Same(<<dut, model, mem, serial>>)

\* The call returns: the mirror compares, then updates; the test asserts.
Answer(t) ==
    LET i  == This(t)
        a  == th[t].arg
        v  == th[t].val
    IN  /\ th[t].at = "answer" /\ bus.owner = t /\ bus.left = 0
        /\ IF (Mirrored => Agrees(i.op, a, v)) /\ Expected(i, a, v)
           THEN /\ model' = IF Mirrored THEN ModelAfter(i.op, a) ELSE model
                /\ mem' = MemAfter(i, a, v)
                /\ bus' = [bus EXCEPT !.owner = 0]
                /\ Follow(t, v)
                /\ Same(<<dut, serial>>)
           ELSE Raise(i.op) /\ UNCHANGED dut

-----------------------------------------------------------------------------
(* Calls that do not use the bus. *)

Calls(t, op) == ~Done(t) /\ th[t].at = "call" /\ This(t).op = op

irqPending(t) ==
    LET v == ethernet_irq_o(dut)
    IN  /\ Calls(t, "irq_pending")
        /\ IF (Mirrored => IrqAgrees) /\ Expected(This(t), 0, v)
           THEN Follow(t, v) /\ Same(<<dut, model, bus, mem, serial>>)
           ELSE Raise("irq_pending") /\ UNCHANGED dut

beginRxPacket(t) ==
    /\ Calls(t, "begin_rx_packet") /\ ~dut.wire.on
    /\ \E a \in This(t).arg :
          LET random == a[3] = "random"
              data   == IF random THEN RandomData[serial] ELSE a[3]
              p      == [dst |-> a[1], data |-> data, len |-> a[2]]
          IN  /\ random \/ mem.first = 0 \/ p.len <= mem.first
              /\ dut' = SendToWire(dut, p)
              /\ IF Mirrored /\ begin_rx_raises(model) THEN Raise("begin_rx_packet")
                 ELSE /\ model' = IF Mirrored THEN begin_rx_packet(model, p) ELSE model
                      /\ serial' = NextSerial(random)
                      /\ mem' = IF random THEN mem ELSE [mem EXCEPT !.first = p.len]
                      /\ Resume(t, 1)
                      /\ Same(<<bus>>)

\* A bit on the RGMII pins is toggled in the middle of a frame.
CorruptFrame(t) ==
    /\ Calls(t, "corrupt")
    /\ dut' = [dut EXCEPT !.wire.bad = rx_ctl(dut)]
    /\ Resume(t, 1)
    /\ Same(<<model, bus, mem, serial>>)

getTransmittedPacket(t) ==
    /\ Calls(t, "get_transmitted_packet") /\ dut.sent # <<>>
    /\ dut' = [dut EXCEPT !.sent = Tail(@)]
    /\ IF Mirrored => model.tx_log # <<>> /\ Head(model.tx_log) = Head(dut.sent)
       THEN /\ model' = IF Mirrored THEN get_transmitted_packet(model) ELSE model
            /\ Resume(t, 1)
            /\ Same(<<bus, mem, serial>>)
       ELSE Raise("get_transmitted_packet")

WaitCycles(t) ==
    /\ Calls(t, "cycles")
    /\ \E n \in Options(This(t)) : Pause(t, "tail", n)
    /\ Same(<<dut, model, bus, mem, serial>>)

JumpBy(t) ==
    /\ Calls(t, "jump")
    /\ \E n \in Options(This(t)) : Resume(t, n)
    /\ Same(<<dut, model, bus, mem, serial>>)

-----------------------------------------------------------------------------
(* wait_for_tx_done and wait_for_rx_done: wait until the packet has begun, *)
(* until it has ended, and some cycles for the design to settle.           *)

Waits == {"wait_for_tx_done", "wait_for_rx_done"}
IsWait(t) == ~Done(t) /\ This(t).op \in Waits

Active(op) == IF op = "wait_for_tx_done" THEN tx_status(dut) ELSE rx_ctl(dut)

SeeStart(t) ==
    /\ IsWait(t) /\ th[t].at = "call" /\ Active(This(t).op)
    /\ \E tail \in This(t).arg :
          th' = [th EXCEPT ![t].at = "busy", ![t].arg = tail]
    /\ Same(<<dut, model, bus, mem, serial>>)

\* Fault: the mirror does not wait for the edge after the transmission.
SettleCycles_none(op, tail) ==
    IF Mirrored THEN IF op = "wait_for_tx_done" THEN 0 ELSE 5
    ELSE IF op = "wait_for_tx_done" THEN Max({1, tail}) ELSE tail
\* Fault: the mirror waits three cycles after a reception, less than it takes.
SettleCycles_short(op, tail) ==
    IF Mirrored THEN IF op = "wait_for_tx_done" THEN 1 ELSE 3
    ELSE IF op = "wait_for_tx_done" THEN Max({1, tail}) ELSE tail

\* The mirror waits one edge after a transmission and five after a reception
\* before it updates the model; the wrapper alone waits the whole tail.
SettleCycles(op, tail) ==
    IF Mirrored THEN IF op = "wait_for_tx_done" THEN 1 ELSE 5
    ELSE IF op = "wait_for_tx_done" THEN Max({1, tail}) ELSE tail

SeeEnd(t) ==
    /\ IsWait(t) /\ th[t].at = "busy" /\ ~Active(This(t).op)
    /\ Pause(t, "settle", SettleCycles(This(t).op, th[t].arg))
    /\ Same(<<dut, model, bus, mem, serial>>)

Settle(t) ==
    /\ th[t].at = "settle" /\ th[t].left = 0
    /\ IF Mirrored
       THEN /\ model' = IF This(t).op = "wait_for_tx_done"
                        THEN wait_for_tx_done(model) ELSE wait_for_rx_done(model)
            /\ Pause(t, "tail", th[t].arg)
       ELSE UNCHANGED model /\ Resume(t, 1)
    /\ Same(<<dut, bus, mem, serial>>)

TailOver(t) ==
    /\ th[t].at = "tail" /\ th[t].left = 0
    /\ Resume(t, 1)
    /\ Same(<<dut, model, bus, mem, serial>>)

Coroutine(t) ==
    \/ Issue(t) \/ Half(t) \/ Answer(t)
    \/ irqPending(t) \/ beginRxPacket(t) \/ CorruptFrame(t) \/ getTransmittedPacket(t)
    \/ WaitCycles(t) \/ JumpBy(t)
    \/ SeeStart(t) \/ SeeEnd(t) \/ Settle(t) \/ TailOver(t)

-----------------------------------------------------------------------------
(* Stages and tests. *)

AllDone == \A t \in DOMAIN th : Done(t)

\* Combine returns when all coroutines of the stage have.  No test uses a local
\* variable that a stage has left.
NextStage ==
    /\ AllDone /\ st < Len(StagesOf(part, test))
    /\ st' = st + 1
    /\ th' = Fresh(StagesOf(part, test)[st + 1])
    /\ mem' = NoMem
    /\ UNCHANGED <<dut, model, part, test, bus, serial, failed>>

\* The test function has returned: the health test, then the next test, which
\* begins with the reinitialisation.
EndOfPart ==
    /\ AllDone /\ st = Len(StagesOf(part, test)) /\ part # "reinit"
    /\ part' = IF part = "test" THEN "health" ELSE "reinit"
    /\ test' = IF part = "test" THEN test ELSE "none"
    /\ st' = 1 /\ th' = Fresh(StagesOf(part', test')[1])
    /\ model' = InitModel /\ mem' = NoMem /\ serial' = 1
    /\ UNCHANGED <<dut, bus, failed>>

\* The design is reinitialised, the next test has not begun.
Between == AllDone /\ part = "reinit" /\ st = Len(reinitialise_dut_state)

\* A test of the suite, each of which runs once: mdio_write_test, whose last
\* value nothing takes back, is taken to be the last one.  What the buffers
\* hold is unknown to it; a new PHY model has received nothing.
Begin ==
    /\ Between /\ dut.mdio = {}
    /\ \E t \in Suite : test' = t
    /\ part' = "test" /\ st' = 1 /\ th' = Fresh(Programs[test'][1])
    /\ dut' = [dut EXCEPT !.buf = InitDut.buf, !.sent = <<>>]
    /\ failed' = NoFailure
    /\ UNCHANGED <<model, bus, mem, serial>>

SuiteOver == Between /\ dut.mdio # {}

Finished == SuiteOver /\ UNCHANGED vars

-----------------------------------------------------------------------------
(* Time. *)

\* A coroutine that can go on without waiting.
CanRun(t) ==
    CASE Done(t) -> FALSE
      [] th[t].at \in {"half", "answer"} -> bus.left = 0
      [] th[t].at = "second" -> HasTurn(t)
      [] th[t].at = "busy" -> ~Active(This(t).op)
      [] th[t].at \in {"settle", "tail"} -> th[t].left = 0
      [] This(t).op \in BusOps -> HasTurn(t)
      [] This(t).op \in Waits -> Active(This(t).op)
      [] This(t).op = "get_transmitted_packet" -> dut.sent # <<>>
      [] This(t).op = "begin_rx_packet" -> ~dut.wire.on
      [] OTHER -> TRUE

Timers ==
    Horizon(dut) \cup {bus.left} \cup {th[t].left : t \in DOMAIN th}

Minus(x, n) == IF x > n THEN x - n ELSE 0

Elapse ==
    /\ Timers # {0}
    /\ LET n == Min(Timers \ {0})
       IN  /\ dut' = Advance(dut, n)
           /\ bus' = [bus EXCEPT !.left = Minus(@, n)]
           /\ th' = [t \in DOMAIN th |-> [th[t] EXCEPT !.left = Minus(@, n)]]
    /\ UNCHANGED <<model, part, test, st, mem, serial, failed>>

\* create_test runs test and health test under with_timeout, the reinitialisation
\* without: a wait for an event that will not come ends with the time limit.
TimeLimit ==
    /\ Timers = {0} /\ part # "reinit"
    /\ Raise("with_timeout") /\ UNCHANGED dut

\* Every coroutine that is not done waits for something.
Wait ==
    /\ ~AllDone /\ \A t \in DOMAIN th : ~CanRun(t)
    /\ Elapse \/ TimeLimit

-----------------------------------------------------------------------------
\* The first test finds the design reset.
Init ==
    /\ dut = InitDut /\ model = InitModel
    /\ part = "reinit" /\ test = "none" /\ st = Len(reinitialise_dut_state)
    /\ th = <<[Ready EXCEPT !.pc = 2]>>
    /\ bus = FreeBus /\ mem = NoMem /\ serial = 1 /\ failed = NoFailure

Next ==
    \/ \E t \in DOMAIN th : Coroutine(t)
    \/ NextStage \/ EndOfPart \/ Finished
    \/ Begin
    \/ Wait

\* The simulator goes on as long as there is something to do: weak fairness of
\* Next, written out.  A step of Next is one that changes vars, and there is one
\* unless the suite is over (the run checks that there is no other deadlock).
Fairness == []<>SuiteOver \/ []<><<TRUE>>_vars

Spec == Init /\ [][Next]_vars /\ Fairness

-----------------------------------------------------------------------------
(* Properties. *)

\* The records of model, design and coroutines stay in their bounds.
TypeOK ==
    /\ ModelOK(model) /\ DutOK(dut)
    /\ part \in {"reinit", "test", "health"}
    /\ test \in Suite \cup {"none"}
    /\ st \in 1 .. Len(StagesOf(part, test))
    /\ DOMAIN th = 1 .. Len(Stage.procs)
    /\ bus.owner \in {0} \cup DOMAIN th /\ bus.left \in 0 .. BusCycles

\* Between two calls, with nothing on its way through the design.
AtRest ==
    /\ Idle(dut) /\ bus.owner = 0
    /\ \A t \in DOMAIN th : th[t].at = "call"

\* Tests whose disturbance the packet-level model does not follow: loopback
\* switched off under a packet, and the truncated packet that a pop leaves when
\* the table was full as the packet began.
Disturbing == {"change_loopback_during_loopback", "rgmii_pop_during_rx_table_full"}

\* No room for the two bytes of an unwanted packet that come before it is dropped:
\* the design reports it lost, the model does not (AnyTest, LeavesNoTrace).
NoRoom == test = "long_random_simultaneous_rx_tx_test" /\ Used(dut) + 1 >= RxBytes

\* The mirror's model is a faithful copy of the design: whenever the design is
\* at rest, both hold the same packets in the same order, the same registers and
\* flags, and have sent the same packets; whatever ran concurrently before.  With
\* the buffer full and unwanted packets coming, all but the packet-lost flag.
MirrorInSync ==
    Mirrored /\ AtRest /\ test \notin Disturbing =>
        InSync(IF NoRoom THEN [model EXCEPT !.packet_lost = 4 \in dut.sticky] ELSE model, dut)

\* The four ways in which a test fails on this design by its own random choices.
\* The sixth packet, expected to be lost, fits if the six have 8192 bytes or less.
SixFit ==
    [test |-> "buffer_full_packet_lost_test", part |-> "test", by |-> "intr_state_get", n |-> 6]
\* The truncated packet of the design and the whole one of the model lie on
\* different sides of the almost-full threshold.
Truncated ==
    [test |-> "rgmii_pop_during_rx_table_full", part |-> "test", by |-> "status_get", n |-> 8]
\* The frame is over when wait_for_rx_done first looks for it.
FrameMissed ==
    [test |-> "crc_error_test", part |-> "test", by |-> "with_timeout", n |-> 0]
\* An unwanted packet has come when the buffer was full.
UnwantedLost ==
    [test |-> "long_random_simultaneous_rx_tx_test", part |-> "test",
     by |-> "intr_state_get", n |-> 8]

\* No comparison of the mirror, no assertion of a test, of the health test or of
\* the model and no time limit fails on this design, for any of the random choices
\* of TestPrograms, but for these four.
TestsPass == failed \in {NoFailure, SixFit, Truncated, FrameMissed, UnwantedLost}

\* reinitialise_dut_state: "Get the DUT back to its reset state without actually
\* resetting it", whatever test ran before, to its end or not.
ReinitIsReset ==
    Between =>
        dut = [InitDut EXCEPT !.buf = dut.buf, !.mdio = dut.mdio, !.sent = dut.sent]

\* Every test ends and leaves the bench ready for the next one: every polling loop
\* comes to an end without the time limits, and every wait for an event that has
\* passed by them (TestsPass: there is one).  (Of long_random_test, whose rounds are
\* not counted, this is not claimed.)
TestsFinish == (test # "long_random_test") ~> Between
=============================================================================
