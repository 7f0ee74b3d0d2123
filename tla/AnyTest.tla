------------------------------ MODULE AnyTest -------------------------------
(***************************************************************************)
(* The most general test written with the mirror as one thread: any number *)
(* of calls of AxiEthernetDutWithMirror in any order, a packet being sent  *)
(* or received to its end before the next call.  The 64 tests of           *)
(* coco_top.py, TestBench runs them, are particular and may run threads    *)
(* beside each other; here the calls and their arguments are arbitrary.    *)
(*                                                                         *)
(* A call is one step.  While a packet is on its way the clock may be      *)
(* stopped after any number of cycles that does not pass an event of the   *)
(* design: the bench watches the pins at every edge.                       *)
(***************************************************************************)
EXTENDS EthernetDut

CONSTANT Names      \* addresses and data

VARIABLES
    model,      \* the mirror's model
    dut,        \* the design
    job,        \* "rest", or the packet on its way: "rx" or "tx"
    packet,     \* the packet
    before      \* history: model and design before it

vars == <<model, dut, job, packet, before>>

Init ==
    /\ model = InitModel /\ dut = InitDut
    /\ job = "rest" /\ packet = None /\ before = [m |-> InitModel, d |-> InitDut]

-----------------------------------------------------------------------------
(* Calls that are one access, two for the address. *)

Both(m, d) ==
    /\ job = "rest" /\ model' = m /\ dut' = d
    /\ UNCHANGED <<job, packet, before>>

IntrMaskSet == \E bits \in SUBSET (0 .. 31) : Both(intr_mask_set(model, bits), WriteIntrMask(dut, bits))
TestIntr == Both(test_intr(model), WriteIntrTest(dut))
ClearTestIntr == Both(clear_test_intr(model), WriteIntrState(dut, {6}))
ClearTxDoneFlag == Both(clear_tx_done_flag(model), WriteIntrState(dut, {5}))
ClearPacketLostFlag == Both(clear_packet_lost_flag(model), WriteIntrState(dut, {4}))
ModeSet == \E mode \in BOOLEAN \X BOOLEAN : Both(mode_set(model, mode), WriteCtrl(dut, mode))
MacAddressSet == \E a \in Names : Both(mac_address_set(model, a), WriteMacHi(WriteMacLo(dut, a), a))
RxPopPacket == Both(rx_pop_packet(model), WriteRxPop(dut))
TxBufferWrite64 ==
    \E w \in {0, 1}, v \in Names : Both(tx_buffer_write64(model, w, v), WriteTxWord(dut, w, v))
GetTransmittedPacket ==
    /\ dut.sent # <<>>
    /\ Both(get_transmitted_packet(model), [dut EXCEPT !.sent = Tail(@)])

-----------------------------------------------------------------------------
(* Packets. *)

\* An unwanted packet leaves no trace as long as its first two bytes, the second
\* of which comes with the verdict of the filter, find room.
LeavesNoTrace(d, dst) ==
    Used(d) + 1 < RxBytes \/ d.prom \/ ReasonFor(dst, dst = d.mac.hi) # "NON_MAC_MATCH"

BeginRxPacket ==
    /\ job = "rest"
    /\ \E p \in Packet(Names) :
          /\ p.len >= 2 /\ (~dut.loop => LeavesNoTrace(dut, p.dst))
          /\ model' = begin_rx_packet(model, p) /\ dut' = SendToWire(dut, p) /\ packet' = p
    /\ job' = "rx" /\ before' = [m |-> model, d |-> dut]

\* The test has filled the transmit buffer before it sends it.
TxPacketSend ==
    /\ job = "rest" /\ model.tx_buffer = dut.buf
    /\ \E len \in Nat :
          /\ len >= 2 /\ (dut.loop => LeavesNoTrace(dut, dut.buf.dst))
          /\ model' = tx_packet_send(model, len) /\ dut' = WriteTxCtrl(dut, len)
          /\ packet' = [dst |-> dut.buf.dst, data |-> dut.buf.data, len |-> len]
    /\ job' = "tx" /\ before' = [m |-> model, d |-> dut]

\* The clock runs; when the packet is through, the wait for it returns.
Run ==
    /\ job # "rest"
    /\ \E n \in Nat \ {0} : (\A x \in Horizon(dut) : n <= x) /\ dut' = Advance(dut, n)
    /\ IF ~Idle(dut') THEN UNCHANGED <<model, job>>
       ELSE /\ model' = IF job = "rx" THEN wait_for_rx_done(model) ELSE wait_for_tx_done(model)
            /\ job' = "rest"
    /\ UNCHANGED <<packet, before>>

Next ==
    \/ IntrMaskSet \/ TestIntr \/ ClearTestIntr \/ ClearTxDoneFlag \/ ClearPacketLostFlag
    \/ ModeSet \/ MacAddressSet \/ RxPopPacket \/ TxBufferWrite64 \/ GetTransmittedPacket
    \/ BeginRxPacket \/ TxPacketSend \/ Run

Spec == Init /\ [][Next]_vars

-----------------------------------------------------------------------------
\* Between two calls the model is a copy of the design, nothing is on its way in
\* either, and every value the mirror reads and compares is the same in both.
MirrorAgrees ==
    job = "rest" =>
        /\ Idle(dut) /\ InSync(model, dut)
        /\ intr_state_get(model) = INTR_STATE(dut) /\ status_get(model) = STATUS(dut)
        /\ irq_pending(model) = ethernet_irq_o(dut)

\* At every moment, packets on their way included, the design is in its bounds.
InBounds == DutOK(dut)
=============================================================================
