---------------------------- MODULE BenchScripts ----------------------------
(***************************************************************************)
(* The language the tests of coco_top.py are written in here.  A script is *)
(* the sequence of calls one coroutine awaits; a call is a record with the *)
(* method, the set its random argument is drawn from, what the test        *)
(* asserts of the result, and by how much to move on in the script when    *)
(* the result is true or false.  A stage is a set of coroutines started    *)
(* together and awaited with Combine; a test is a sequence of stages with  *)
(* the configuration that create_test gives it.                            *)
(***************************************************************************)
EXTENDS EthernetDut, SequencesExt

Anything == [has |-> {}, hasnt |-> {}, n |-> 0 .. 8]

\* rel says which of the test's variables the call uses or sets.
Call(op, arg) ==
    <<[op |-> op, arg |-> arg, exp |-> Anything, rel |-> "none", tt |-> 1, ff |-> 1]>>

Rel(call, rel) == <<[call[1] EXCEPT !.rel = rel]>>
\* Asserting of a result: bits set, bits clear, the number of packets.
Having(call, bits) == <<[call[1] EXCEPT !.exp.has = bits]>>
Lacking(call, bits) == <<[call[1] EXCEPT !.exp.hasnt = bits]>>
Count(call, n) == <<[call[1] EXCEPT !.exp.n = {n}]>>
\* Moving on by t calls if the result is true, by f if it is false.
Branch(call, t, f) == <<[call[1] EXCEPT !.tt = t, !.ff = f]>>

Rep(k, script) == FlattenSeq([i \in 1 .. k |-> script])
Each(k, script(_)) == FlattenSeq([i \in 1 .. k |-> script(i - 1)])

Alone(script) == [shuffle |-> FALSE, procs |-> <<script>>]
Combine(procs) == [shuffle |-> FALSE, procs |-> procs]
Shuffled(procs) == [shuffle |-> TRUE, procs |-> procs]

-----------------------------------------------------------------------------
(* Calls, named after the methods of the wrapped design. *)

IntrStateGet == Call("intr_state_get", {0})
IntrMaskSet(masks) == Call("intr_mask_set", masks)
IntrMaskGet == Call("intr_mask_get", {0})
TestIntr == Call("test_intr", {0})
ClearTestIntr == Call("clear_test_intr", {0})
ClearTxDoneFlag == Call("clear_tx_done_flag", {0})
ClearPacketLostFlag == Call("clear_packet_lost_flag", {0})
StatusGet == Call("status_get", {0})
ModeSet(modes) == Call("mode_set", modes)
ModeGet == Call("mode_get", {0})
MacAddressSet(macs) == Call("mac_address_set", macs)
MacAddressGet == Call("mac_address_get", {0})
RxPopPacket == Call("rx_pop_packet", {0})
TxBufferWrite64(w, values) == Call(IF w = 0 THEN "tx_write_dst" ELSE "tx_write_rest", values)
RxBufferMetadataGet(i) == Call("rx_buffer_metadata_get", {i})
RxPacketPending == Call("rx_packet_pending", {0})
ReadPacket(i) == Call("read_packet", {i})
TxPacketSend(lens) == Call("tx_packet_send", lens)
TxBusy == Call("tx_busy", {0})
IrqPending == Call("irq_pending", {0})
WaitForTxDone(tails) == Call("wait_for_tx_done", tails)
WaitForRxDone(tails) == Call("wait_for_rx_done", tails)
BeginRxPacket(dsts, lens) == Call("begin_rx_packet", dsts \X lens \X {"random"})
\* Packets with the same data, none longer than the one before.
BeginRxShorter(dsts, lens) == Call("begin_rx_packet", dsts \X lens \X {"r1"})
GetTransmittedPacket == Call("get_transmitted_packet", {0})
WriteMdioCtrlReg(values) == Call("write_mdio_ctrl_reg", values)
RawRead(region) == Call("raw_read", {region})
RawWrite(region) == Call("raw_write", {region})
Cycles(numbers) == Call("cycles", numbers)
Corrupt == Call("corrupt", {0})
\* random.randint(0,1) and the like deciding which call comes next.
Jump(offsets) == Call("jump", offsets)

\* simulate_rx_packet
SimulateRxPacket(dsts, lens) == BeginRxPacket(dsts, lens) \o WaitForRxDone({10})

\* rx_packet_pending and irq_pending with an assertion on the answer.
Pending(b) == <<[RxPacketPending[1] EXCEPT !.exp.n = IF b THEN {1} ELSE {0}]>>
Irq(b) == <<[IrqPending[1] EXCEPT !.exp.n = IF b THEN {1} ELSE {0}]>>

\* Random words: a fresh value each time.
RandomRest == Rel(TxBufferWrite64(1, {0}), "random")

\* Random bytes: the destination is nobody's address, the rest a fresh value.
RandomPacket == TxBufferWrite64(0, {"other"}) \o RandomRest

\* tx_packet_send and wait_for_tx_done with the default tail.
Send(lens) == TxPacketSend(lens) \o WaitForTxDone({10})

\* The same with a packet of random bytes.
SendRandom(lens) == RandomPacket \o Send(lens)

-----------------------------------------------------------------------------
(* What create_test wraps around a test. *)

MyMac == "DEADBEEFCAFE"

Test(mirror, modes, macs, prep, stages) ==
    [mirror |-> mirror, modes |-> modes, macs |-> macs, prep |-> prep, stages |-> stages]

Mode(prom, loop) == {<<prom, loop>>}
LoopbackPromiscuous == Mode(TRUE, TRUE)
NoMode == Mode(FALSE, FALSE)
NoMac == {}

\* prep_tx_buffer: all words written by coroutines of their own, then two clocks.
prep_tx_buffer ==
    <<Combine(<<TxBufferWrite64(0, {"other"}), RandomRest>>),
      Alone(Cycles({2}))>>

\* create_test: the registers are written only if the test asks for it.
Configured(t) ==
    (IF t.modes = NoMode THEN <<>> ELSE <<Alone(ModeSet(t.modes))>>) \o
    (IF t.macs = NoMac THEN <<>> ELSE <<Alone(MacAddressSet(t.macs))>>) \o
    (IF t.prep THEN prep_tx_buffer ELSE <<>>) \o
    t.stages

\* Fault: the interrupt mask is not cleared.
reinitialise_dut_state_keeps_mask ==
    <<Alone(Branch(TxBusy, 1, 3) \o Cycles({1}) \o Jump({-2}) \o
            Branch(RxPacketPending, 1, 3) \o RxPopPacket \o Jump({-2})),
      Combine(<<ModeSet(NoMode), MacAddressSet({"zero"}), ClearTestIntr,
                ClearTxDoneFlag, ClearPacketLostFlag>>),
      Alone(Cycles({2}))>>

\* Fault: the packets are waited for instead of popped.
reinitialise_dut_state_no_pop ==
    <<Alone(Branch(TxBusy, 1, 3) \o Cycles({1}) \o Jump({-2}) \o
            Branch(RxPacketPending, 1, 3) \o Cycles({1}) \o Jump({-2})),
      Combine(<<ModeSet(NoMode), MacAddressSet({"zero"}), IntrMaskSet({{}}),
                ClearTestIntr, ClearTxDoneFlag, ClearPacketLostFlag>>),
      Alone(Cycles({2}))>>

\* reinitialise_dut_state: drain, then overwrite the registers all at once.
reinitialise_dut_state ==
    <<Alone(Branch(TxBusy, 1, 3) \o Cycles({1}) \o Jump({-2}) \o
            Branch(RxPacketPending, 1, 3) \o RxPopPacket \o Jump({-2})),
      Combine(<<ModeSet(NoMode), MacAddressSet({"zero"}), IntrMaskSet({{}}),
                ClearTestIntr, ClearTxDoneFlag, ClearPacketLostFlag>>),
      Alone(Cycles({2}))>>

\* health_test: pop, loopback mode, one packet round, the MAC registers.
health_test ==
    <<Alone(Branch(Rel(StatusGet, "save"), 1, 2) \o RxPopPacket \o
            Rel(StatusGet, "less") \o
            ModeSet(LoopbackPromiscuous) \o Rel(ModeGet, "both") \o
            TxBufferWrite64(0, {"zero"}) \o TxBufferWrite64(1, {"pattern"}) \o
            Send({64}) \o
            Rel(StatusGet, "more") \o
            Rel(RxBufferMetadataGet(0), "newest") \o Rel(ReadPacket(0), "newest") \o
            MacAddressSet({"CAFEBEEFBADD"}) \o Rel(MacAddressGet, "just_set"))>>
=============================================================================
