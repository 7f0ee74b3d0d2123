---------------------------- MODULE TestPrograms ----------------------------
(***************************************************************************)
(* The tests of coco_top.py, each under its own name; a loop over the      *)
(* words of a buffer is one write to word 0 and one to the rest.           *)
(*                                                                         *)
(* Bounds.  A random length or number of cycles is drawn from the ends of  *)
(* its range, which is where randint is biased to, and from the values in  *)
(* between at which the outcome is another; addresses, masks and the like  *)
(* from a few values.  A loop whose iterations are alike and leave nothing *)
(* behind runs Few times.  Both long tests have bounds of their own.       *)
(***************************************************************************)
EXTENDS BenchScripts

Few == 2

\* Lengths: shortest and longest packet of a range.
Short == {60, 100}
AnyLen == {60, 1518}
Long == {1350, 1518}
Macs == {"DEADBEEFCAFE", "other"}
Masks == {{}, {0, 2, 4, 6}, 0 .. 6}
Modes == BOOLEAN \X BOOLEAN
Scrambled == {1, 32}        \* random.randint(1,32) cycles into a packet

-----------------------------------------------------------------------------
(* Reset and registers. *)

reset_state_test ==
    Test(TRUE, NoMode, NoMac, FALSE,
         <<Alone(IntrStateGet \o IntrMaskGet \o StatusGet \o ModeGet \o MacAddressGet \o
                 RxPacketPending \o IrqPending)>>)

reg_mac_addr_test ==
    Test(TRUE, NoMode, NoMac, FALSE,
         <<Alone(MacAddressGet \o MacAddressSet({"other"}) \o MacAddressGet \o
                 MacAddressSet({"zero"}) \o MacAddressGet \o
                 MacAddressSet({"broadcast"}) \o MacAddressGet \o
                 Rep(Few, MacAddressSet(Macs) \o MacAddressGet))>>)

reg_intr_mask_test ==
    Test(TRUE, NoMode, NoMac, FALSE,
         <<Alone(IntrMaskSet({{}}) \o IntrMaskGet \o IntrMaskSet({0 .. 6}) \o IntrMaskGet \o
                 Rep(Few, IntrMaskSet(Masks) \o IntrMaskGet))>>)

reg_intr_test_test ==
    Test(TRUE, NoMode, NoMac, FALSE,
         <<Alone(IntrMaskSet({0 .. 6}) \o TestIntr \o IrqPending \o
                 IntrMaskSet({{}}) \o IrqPending \o
                 Each(8, LAMBDA i : IntrMaskSet({{i}}) \o Irq(i = 6)))>>)

reg_ctrl_test ==
    Test(TRUE, NoMode, NoMac, FALSE,
         <<Alone(ModeSet(NoMode) \o ModeGet \o ModeSet(Mode(TRUE, FALSE)) \o ModeGet \o
                 ModeSet(Mode(FALSE, TRUE)) \o ModeGet \o
                 ModeSet(Mode(TRUE, TRUE)) \o ModeGet)>>)

-----------------------------------------------------------------------------
(* Loopback. *)

loopback_basic_test ==
    Test(TRUE, LoopbackPromiscuous, NoMac, TRUE,
         <<Alone(Send({64}) \o RxPacketPending \o RxBufferMetadataGet(0) \o ReadPacket(0))>>)

loopback_b2b_transmissions ==
    Test(TRUE, LoopbackPromiscuous, NoMac, TRUE,
         <<Alone(Rep(8, TxPacketSend({60, 1024}) \o WaitForTxDone({0, 8})) \o Cycles({10}) \o
                 StatusGet \o
                 Each(8, LAMBDA i : RxBufferMetadataGet(i) \o ReadPacket(i)))>>)

-----------------------------------------------------------------------------
(* MAC filtering. *)

mac_non_match_test ==
    Test(TRUE, Mode(FALSE, TRUE), {MyMac}, TRUE,
         <<Alone(Send({64}) \o Pending(FALSE))>>)

mac_non_match_then_match ==
    Test(TRUE, Mode(FALSE, TRUE), {MyMac}, TRUE,
         <<Alone(Send({64}) \o Pending(FALSE) \o
                 TxBufferWrite64(0, {MyMac}) \o Send({64}) \o Pending(TRUE))>>)

mac_match_test ==
    Test(TRUE, BOOLEAN \X {TRUE}, {MyMac}, TRUE,
         <<Alone(TxBufferWrite64(0, {MyMac}) \o Send({64}) \o Pending(TRUE) \o
                 RxBufferMetadataGet(0) \o ReadPacket(0))>>)

mac_promiscuous_test ==
    Test(TRUE, LoopbackPromiscuous, {MyMac}, TRUE,
         <<Alone(Send({64}) \o Pending(TRUE) \o RxBufferMetadataGet(0) \o ReadPacket(0))>>)

mac_broadcast_test ==
    Test(TRUE, BOOLEAN \X {TRUE}, {MyMac}, TRUE,
         <<Alone(TxBufferWrite64(0, {"broadcast"}) \o Send({64}) \o Pending(TRUE) \o
                 RxBufferMetadataGet(0) \o ReadPacket(0))>>)

mac_multicast_test ==
    Test(TRUE, BOOLEAN \X {TRUE}, {MyMac}, TRUE,
         <<Alone(TxBufferWrite64(0, {"multicast"}) \o Send({64}) \o Pending(TRUE) \o
                 RxBufferMetadataGet(0) \o ReadPacket(0))>>)

-----------------------------------------------------------------------------
(* Queueing. *)

packet_queue_test ==
    Test(TRUE, LoopbackPromiscuous, {MyMac}, FALSE,
         <<Alone(Rep(5, SendRandom({64})) \o StatusGet \o RxPacketPending \o
                 Each(5, LAMBDA i : RxBufferMetadataGet(i) \o ReadPacket(i)))>>)

packet_pop_test ==
    Test(TRUE, LoopbackPromiscuous, {MyMac}, FALSE,
         <<Alone(Rep(5, SendRandom({64})) \o
                 Rep(5, StatusGet \o RxBufferMetadataGet(0) \o RxPopPacket))>>)

\* The packets are looked at in any order, as often as there are packets.
packet_peek_test ==
    Test(TRUE, LoopbackPromiscuous, NoMac, FALSE,
         <<Alone(Rep(8, SendRandom({64})) \o
                 Pending(TRUE) \o
                 Each(8, LAMBDA k : Pending(TRUE) \o Count(StatusGet, 8 - k) \o
                     Rep(8 - k, Rel(RxBufferMetadataGet(0), "any") \o Rel(ReadPacket(0), "any")) \o
                     RxPopPacket) \o
                 Pending(FALSE))>>)

-----------------------------------------------------------------------------
(* Memory interface stress. *)

back_to_back_tx_buffer_test ==
    Test(TRUE, LoopbackPromiscuous, NoMac, FALSE,
         <<Shuffled(<<TxBufferWrite64(0, {"other"}), RandomRest>>),
           Alone(Send({64}) \o StatusGet \o RxBufferMetadataGet(0) \o ReadPacket(0))>>)

back_to_back_rx_buffer_test ==
    Test(TRUE, LoopbackPromiscuous, NoMac, TRUE,
         <<Alone(Send({64}) \o StatusGet \o RxBufferMetadataGet(0) \o ReadPacket(0))>>)

back_to_back_metadata_test ==
    Test(TRUE, LoopbackPromiscuous, NoMac, FALSE,
         <<Alone(Rep(5, SendRandom({64}))),
           Combine([i \in 1 .. 5 |-> RxBufferMetadataGet(i - 1)])>>)

\* Of the three coroutines per call one is started, of mac_address_set two.
back_to_back_csr_test ==
    LET Round ==
            <<Shuffled(<<IntrMaskSet({{}, 0 .. 6}), IntrMaskGet, IntrStateGet, StatusGet,
                         ModeSet({<<FALSE, FALSE>>, <<TRUE, TRUE>>}), ModeGet,
                         MacAddressSet({"DEADBEEFCAFE"}), MacAddressSet({"other"})>>),
              Alone(StatusGet \o MacAddressGet)>>
    IN  Test(TRUE, NoMode, NoMac, FALSE, Rep(Few, Round))

\* Of the coroutines for the eight packets those of one are started.
back_to_back_mixed_test ==
    Test(TRUE, LoopbackPromiscuous, NoMac, FALSE,
         <<Alone(Rep(8, SendRandom({64}))),
           Shuffled(<<IntrMaskSet({{0, 2, 4, 6}}), IntrMaskGet, IntrStateGet, StatusGet,
                      ModeSet(Modes), ModeGet, MacAddressSet({"other"}),
                      RxBufferMetadataGet(7), ReadPacket(7), RandomRest>>),
           Alone(StatusGet \o MacAddressGet \o
                 Rep(8, StatusGet \o RxBufferMetadataGet(0) \o ReadPacket(0) \o RxPopPacket) \o
                 ModeSet(LoopbackPromiscuous) \o Send({64}) \o StatusGet \o
                 RxBufferMetadataGet(0) \o ReadPacket(0))>>)

-----------------------------------------------------------------------------
(* Fullness flags. *)

table_full_test ==
    Test(TRUE, LoopbackPromiscuous, NoMac, FALSE,
         <<Alone(Rep(8, SendRandom({64}) \o StatusGet) \o
                 Having(Count(StatusGet, 8), {1, 2}) \o
                 Rep(8, RxPopPacket \o StatusGet))>>)

buffer_full_test ==
    Test(TRUE, LoopbackPromiscuous, NoMac, FALSE,
         <<Alone(Rep(5, SendRandom(Long) \o StatusGet) \o
                 Having(Count(StatusGet, 5), {3}) \o
                 Rep(5, RxPopPacket \o StatusGet))>>)

\* The sixth packet takes exactly the bytes that are left.
buffer_full_edge_test ==
    Test(TRUE, LoopbackPromiscuous, NoMac, FALSE,
         <<Alone(Rep(5, RandomPacket \o Rel(TxPacketSend({1335, 1518}), "add") \o
                        WaitForTxDone({10}) \o StatusGet) \o
                 RandomPacket \o Rel(TxPacketSend({0}), "remaining") \o
                 WaitForTxDone({10}) \o StatusGet \o IntrStateGet)>>)

\* Exactly the last length without the flag, then one byte more.
buffer_almost_full_edge_test ==
    Test(TRUE, LoopbackPromiscuous, NoMac, TRUE,
         <<Alone(Rel(TxPacketSend({1330, 1517}), "first") \o WaitForTxDone({10}) \o
                 Rep(3, Rel(TxPacketSend({1330, 1518}), "add") \o WaitForTxDone({10})) \o
                 Rel(TxPacketSend({0}), "to_threshold") \o WaitForTxDone({10}) \o
                 Lacking(StatusGet, {3}) \o
                 RxPopPacket \o StatusGet \o
                 Rel(TxPacketSend({0}), "first_plus_1") \o WaitForTxDone({10}) \o
                 Having(StatusGet, {3}))>>)

\* Checks of both packet lost tests once the packet should be lost.
PacketLostChecks ==
    Having(IntrStateGet, {4}) \o StatusGet \o
    Rep(3, RxPopPacket \o Having(IntrStateGet, {4})) \o StatusGet \o
    ClearPacketLostFlag \o Lacking(IntrStateGet, {4}) \o StatusGet

buffer_full_packet_lost_test ==
    Test(TRUE, LoopbackPromiscuous, NoMac, FALSE,
         <<Alone(Rep(5, SendRandom(Long) \o StatusGet) \o
                 RandomPacket \o Rel(TxPacketSend(Long), "length") \o
                 Rel(Cycles({0}), "length_minus_10") \o StatusGet \o
                 WaitForTxDone({10}) \o PacketLostChecks)>>)

table_full_packet_lost_test ==
    Test(TRUE, LoopbackPromiscuous, NoMac, FALSE,
         <<Alone(Rep(8, SendRandom(Short) \o StatusGet) \o
                 SendRandom({64, 1518}) \o PacketLostChecks)>>)

packet_lost_non_match_test ==
    Test(TRUE, LoopbackPromiscuous, NoMac, FALSE,
         <<Alone(Rep(8, SendRandom(Short) \o StatusGet) \o
                 ModeSet(Mode(FALSE, TRUE)) \o SendRandom({64, 1518}) \o
                 Lacking(IntrStateGet, {4}) \o StatusGet)>>)

packet_lost_recovery_test ==
    Test(TRUE, LoopbackPromiscuous, NoMac, FALSE,
         <<Alone(Rep(9, SendRandom(Short)) \o StatusGet \o RxPopPacket \o
                 TxBufferWrite64(0, {"other"}) \o TxBufferWrite64(1, {"a5a5"}) \o Send(Short) \o
                 StatusGet \o RxBufferMetadataGet(7) \o ReadPacket(7) \o StatusGet)>>)

-----------------------------------------------------------------------------
(* CRC errors and recovery from bad states; most run without the mirror. *)

\* The bit is toggled anywhere in the frame; at the last draw the pin falls with
\* the clock edge after it.
crc_error_test ==
    Test(FALSE, Mode(TRUE, FALSE), NoMac, FALSE,
         <<Alone(BeginRxPacket({"other"}, {1518}) \o Cycles({9, 1530, 1531}) \o Corrupt \o
                 Cycles({1}) \o WaitForRxDone({10}) \o Count(StatusGet, 0))>>)

health_test_test == Test(FALSE, NoMode, NoMac, FALSE, <<Alone(<<>>)>>)

change_mac_during_rx_match_to_non_match ==
    Test(FALSE, Mode(FALSE, TRUE), {MyMac}, TRUE,
         <<Alone(TxBufferWrite64(0, {MyMac}) \o TxPacketSend({1518}) \o Cycles(Scrambled) \o
                 MacAddressSet({"other"}) \o WaitForTxDone({10}))>>)

change_loopback_during_loopback ==
    Test(TRUE, LoopbackPromiscuous, NoMac, TRUE,
         <<Alone(TxPacketSend({1518}) \o Cycles(Scrambled) \o ModeSet(Mode(TRUE, FALSE)) \o
                 WaitForTxDone({10}))>>)

change_promiscuous_during_loopback ==
    Test(FALSE, LoopbackPromiscuous, NoMac, TRUE,
         <<Alone(TxPacketSend({1518}) \o Cycles(Scrambled) \o ModeSet(Mode(FALSE, TRUE)) \o
                 WaitForTxDone({10}))>>)

pop_during_loopback ==
    Test(TRUE, LoopbackPromiscuous, NoMac, TRUE,
         <<Alone(Send({1518}) \o TxPacketSend({1518}) \o Cycles(Scrambled) \o RxPopPacket \o
                 WaitForTxDone({10}))>>)

tx_write_during_tx_recovery ==
    Test(FALSE, LoopbackPromiscuous, NoMac, TRUE,
         <<Alone(TxPacketSend({1518}) \o
                 Branch(TxBusy, 1, 3) \o
                     RandomRest \o Jump({-2}) \o
                 Cycles({10}))>>)

short_packet_padding_test ==
    Test(FALSE, LoopbackPromiscuous, NoMac, TRUE, <<Alone(Send({2, 59}))>>)

-----------------------------------------------------------------------------
(* RGMII. *)

rgmii_rx_test ==
    Test(TRUE, Mode(TRUE, FALSE), NoMac, FALSE,
         <<Alone(SimulateRxPacket({"other"}, {61, 1517}) \o Count(StatusGet, 1))>>)

rgmii_min_rx_test ==
    Test(TRUE, Mode(TRUE, FALSE), NoMac, FALSE,
         <<Alone(SimulateRxPacket({"other"}, {60}) \o Count(StatusGet, 1) \o
                 RxBufferMetadataGet(0) \o ReadPacket(0))>>)

rgmii_max_rx_test ==
    Test(TRUE, Mode(TRUE, FALSE), NoMac, FALSE,
         <<Alone(SimulateRxPacket({"other"}, {1518}) \o Count(StatusGet, 1) \o
                 RxBufferMetadataGet(0) \o ReadPacket(0))>>)

rgmii_tx_test ==
    Test(TRUE, Modes, NoMac, TRUE, <<Alone(Send({61, 1517}) \o GetTransmittedPacket)>>)

rgmii_min_tx_test ==
    Test(TRUE, Modes, NoMac, TRUE, <<Alone(Send({60}) \o GetTransmittedPacket)>>)

rgmii_max_tx_test ==
    Test(TRUE, Modes, NoMac, TRUE, <<Alone(Send({1518}) \o GetTransmittedPacket)>>)

rgmii_pop_during_rx ==
    Test(TRUE, Mode(TRUE, FALSE), NoMac, FALSE,
         <<Alone(SimulateRxPacket({"other"}, AnyLen) \o
                 BeginRxPacket({"other"}, AnyLen) \o Cycles(Scrambled) \o
                 Count(StatusGet, 1) \o RxPopPacket \o Count(StatusGet, 0) \o
                 WaitForRxDone({10}) \o Count(StatusGet, 1))>>)

\* The ninth packet is truncated by the pop.  One of 380 bytes brings the eight
\* packets over the almost-full threshold only if it is counted whole.
rgmii_pop_during_rx_table_full ==
    Test(TRUE, Mode(TRUE, FALSE), NoMac, FALSE,
         <<Alone(Rep(8, SimulateRxPacket({"other"}, {60, 900})) \o
                 BeginRxPacket({"other"}, {60, 380, 900}) \o Cycles(Scrambled) \o
                 Count(StatusGet, 8) \o RxPopPacket \o Count(StatusGet, 7) \o
                 WaitForRxDone({10}) \o Count(StatusGet, 8) \o IntrStateGet)>>)

rgmii_b2b_rx ==
    Test(TRUE, Mode(TRUE, FALSE), NoMac, FALSE,
         <<Alone(Rep(5, BeginRxPacket({"other"}, AnyLen) \o WaitForRxDone({0})) \o Cycles({10}) \o
                 StatusGet \o IntrStateGet \o Each(5, LAMBDA i : ReadPacket(i)))>>)

\* Both rgmii_simultaneous tests: one packet out and one in at the same time.
TxAndRx ==
    <<Alone(TxPacketSend(AnyLen) \o BeginRxPacket({"other"}, AnyLen)),
      Combine(<<WaitForRxDone({10}), WaitForTxDone({10})>>),
      Alone(StatusGet \o ReadPacket(0) \o GetTransmittedPacket)>>

rgmii_simultaneous_tx_rx == Test(TRUE, Mode(TRUE, FALSE), NoMac, TRUE, TxAndRx)

rgmii_simultaneous_tx_rx_loopback == Test(TRUE, LoopbackPromiscuous, NoMac, TRUE, TxAndRx)

-----------------------------------------------------------------------------
(* Long tests. *)

\* The 10 x 10 rounds run any number of times, pops and idle cycles come with any
\* probability whatever the flags say, and one packet of any index is read where
\* the test reads all of them shuffled.  Bound: every packet is of the longest
\* length (1518 of 60..1518), so that the buffer fills before the table.
long_random_test ==
    Test(TRUE, LoopbackPromiscuous, NoMac, FALSE,
         <<Alone(StatusGet \o Jump({1, 2}) \o RxPopPacket \o StatusGet \o
                 Jump({1, 5}) \o SendRandom({1518}) \o Cycles({0, 50}) \o Jump({-10, 1}) \o
                 IntrStateGet \o Rel(StatusGet, "save") \o
                 Rel(Jump({2}), "if_none") \o Rel(ReadPacket(0), "any") \o
                 Jump({-15, 1}))>>)

\* A round has ten packets each way; those received fill the table (60 bytes), the
\* buffer (1518) or both at once (1024), each being wanted or not.  Bounds: two
\* rounds instead of ten, the first with the longest packets transmitted, the second
\* with the shortest; the packets received in a round have the same data, and none
\* is longer than the one before; of the received packets any one is read, of the ten
\* transmitted ones those that the logs keep.
long_random_simultaneous_rx_tx_test ==
    LET rx_thread ==
            Rep(10, BeginRxShorter({"other", MyMac}, {60, 1024, 1518}) \o WaitForRxDone({0}))
        tx_thread(len) == Rep(10, RandomPacket \o TxPacketSend({len}) \o WaitForTxDone({0}))
        Checks == Rel(StatusGet, "save") \o IntrStateGet \o IrqPending \o
                  Rel(Jump({3}), "if_none") \o Rel(RxBufferMetadataGet(0), "any") \o Rel(ReadPacket(0), "any") \o
                  Rep(MaxLog, GetTransmittedPacket) \o
                  Branch(IrqPending, 1, 3) \o RxPopPacket \o Jump({-2})
        Round(len) == <<Combine(<<rx_thread, tx_thread(len)>>), Alone(Checks)>>
    IN  Test(TRUE, NoMode, {MyMac}, FALSE,
             <<Alone(IntrMaskSet({{0}}))>> \o Round(1518) \o Round(60))

-----------------------------------------------------------------------------
(* Bus errors. *)

err_write_rx_buffer ==
    Test(FALSE, NoMode, NoMac, FALSE,
         <<Alone(RawRead("rx_buffer") \o Count(RawWrite("rx_buffer"), 2) \o RawRead("rx_buffer"))>>)

err_write_rx_metadata ==
    Test(FALSE, NoMode, NoMac, FALSE, <<Alone(Count(RawWrite("rx_table"), 2))>>)

err_read_tx_buffer ==
    Test(FALSE, NoMode, NoMac, FALSE, <<Alone(Count(RawRead("tx_buffer"), 2))>>)

err_read_invalid_rx_metadata ==
    Test(FALSE, NoMode, NoMac, FALSE, <<Alone(Count(RawRead("rx_table"), 2))>>)

err_read_invalid_address ==
    Test(FALSE, NoMode, NoMac, FALSE, <<Alone(Count(RawRead("hole"), 2))>>)

err_write_invalid_address ==
    Test(FALSE, NoMode, NoMac, FALSE, <<Alone(Count(RawWrite("hole"), 2))>>)

err_write_status_reg ==
    Test(FALSE, NoMode, NoMac, FALSE, <<Alone(Count(RawWrite("status"), 2))>>)

-----------------------------------------------------------------------------
(* Interrupts and MDIO. *)

intr_packet_pending_test ==
    Test(TRUE, LoopbackPromiscuous, NoMac, TRUE,
         <<Alone(IntrMaskSet({{0}}) \o Send({64}) \o
                 Having(IntrStateGet, {0}) \o Irq(TRUE) \o RxPopPacket \o
                 Lacking(IntrStateGet, {0}) \o Irq(FALSE))>>)

intr_table_almost_full_test ==
    Test(TRUE, LoopbackPromiscuous, NoMac, TRUE,
         <<Alone(IntrMaskSet({{1}}) \o
                 Each(8, LAMBDA i : Send({64}) \o
                     IF i >= 6 THEN Having(IntrStateGet, {1}) \o Irq(TRUE) ELSE IntrStateGet) \o
                 Each(8, LAMBDA i : RxPopPacket \o
                     IF i >= 2 THEN Lacking(IntrStateGet, {1}) \o Irq(FALSE) ELSE IntrStateGet))>>)

intr_table_full_test ==
    Test(TRUE, LoopbackPromiscuous, NoMac, TRUE,
         <<Alone(IntrMaskSet({{2}}) \o
                 Rep(8, Send({64}) \o IntrStateGet \o IrqPending) \o Irq(TRUE) \o
                 Rep(8, RxPopPacket \o IntrStateGet \o IrqPending) \o Irq(FALSE))>>)

intr_buffer_almost_full_test ==
    Test(TRUE, LoopbackPromiscuous, NoMac, TRUE,
         <<Alone(IntrMaskSet({{3}}) \o
                 Rep(4, Send(Long) \o IntrStateGet \o IrqPending) \o
                 Send(Long) \o Having(IntrStateGet, {3}) \o IrqPending \o Irq(TRUE) \o
                 Rep(4, RxPopPacket \o IntrStateGet \o IrqPending) \o
                 RxPopPacket \o Lacking(IntrStateGet, {3}) \o IrqPending \o Irq(FALSE))>>)

intr_packet_lost_test ==
    Test(TRUE, LoopbackPromiscuous, NoMac, TRUE,
         <<Alone(IntrMaskSet({{4}}) \o
                 Rep(8, Send({64}) \o Lacking(IntrStateGet, {4})) \o
                 Send({64}) \o Having(IntrStateGet, {4}) \o Irq(TRUE) \o
                 ClearPacketLostFlag \o Lacking(IntrStateGet, {4}) \o Irq(FALSE))>>)

intr_tx_done ==
    Test(TRUE, LoopbackPromiscuous, NoMac, TRUE,
         <<Alone(IntrMaskSet({{5}}) \o Send({64}) \o
                 Having(IntrStateGet, {5}) \o Irq(TRUE) \o
                 ClearTxDoneFlag \o Lacking(IntrStateGet, {5}) \o Irq(FALSE))>>)

\* The eight values in any order.
mdio_write_test ==
    Test(FALSE, NoMode, NoMac, FALSE,
         <<Alone(Rep(8, WriteMdioCtrlReg(SUBSET (0 .. 2)) \o Cycles({1})))>>)

-----------------------------------------------------------------------------
Tests ==
    [reset_state_test |-> reset_state_test,
     reg_mac_addr_test |-> reg_mac_addr_test,
     reg_intr_mask_test |-> reg_intr_mask_test,
     reg_intr_test_test |-> reg_intr_test_test,
     reg_ctrl_test |-> reg_ctrl_test,
     loopback_basic_test |-> loopback_basic_test,
     loopback_b2b_transmissions |-> loopback_b2b_transmissions,
     mac_non_match_test |-> mac_non_match_test,
     mac_non_match_then_match |-> mac_non_match_then_match,
     mac_match_test |-> mac_match_test,
     mac_promiscuous_test |-> mac_promiscuous_test,
     mac_broadcast_test |-> mac_broadcast_test,
     mac_multicast_test |-> mac_multicast_test,
     packet_queue_test |-> packet_queue_test,
     packet_pop_test |-> packet_pop_test,
     packet_peek_test |-> packet_peek_test,
     back_to_back_tx_buffer_test |-> back_to_back_tx_buffer_test,
     back_to_back_rx_buffer_test |-> back_to_back_rx_buffer_test,
     back_to_back_metadata_test |-> back_to_back_metadata_test,
     back_to_back_csr_test |-> back_to_back_csr_test,
     back_to_back_mixed_test |-> back_to_back_mixed_test,
     table_full_test |-> table_full_test,
     buffer_full_test |-> buffer_full_test,
     buffer_full_edge_test |-> buffer_full_edge_test,
     buffer_almost_full_edge_test |-> buffer_almost_full_edge_test,
     buffer_full_packet_lost_test |-> buffer_full_packet_lost_test,
     table_full_packet_lost_test |-> table_full_packet_lost_test,
     packet_lost_non_match_test |-> packet_lost_non_match_test,
     packet_lost_recovery_test |-> packet_lost_recovery_test,
     crc_error_test |-> crc_error_test,
     health_test_test |-> health_test_test,
     change_mac_during_rx_match_to_non_match |-> change_mac_during_rx_match_to_non_match,
     change_loopback_during_loopback |-> change_loopback_during_loopback,
     change_promiscuous_during_loopback |-> change_promiscuous_during_loopback,
     pop_during_loopback |-> pop_during_loopback,
     tx_write_during_tx_recovery |-> tx_write_during_tx_recovery,
     short_packet_padding_test |-> short_packet_padding_test,
     rgmii_rx_test |-> rgmii_rx_test,
     rgmii_min_rx_test |-> rgmii_min_rx_test,
     rgmii_max_rx_test |-> rgmii_max_rx_test,
     rgmii_tx_test |-> rgmii_tx_test,
     rgmii_min_tx_test |-> rgmii_min_tx_test,
     rgmii_max_tx_test |-> rgmii_max_tx_test,
     rgmii_pop_during_rx |-> rgmii_pop_during_rx,
     rgmii_pop_during_rx_table_full |-> rgmii_pop_during_rx_table_full,
     rgmii_b2b_rx |-> rgmii_b2b_rx,
     rgmii_simultaneous_tx_rx |-> rgmii_simultaneous_tx_rx,
     rgmii_simultaneous_tx_rx_loopback |-> rgmii_simultaneous_tx_rx_loopback,
     long_random_test |-> long_random_test,
     long_random_simultaneous_rx_tx_test |-> long_random_simultaneous_rx_tx_test,
     err_write_rx_buffer |-> err_write_rx_buffer,
     err_write_rx_metadata |-> err_write_rx_metadata,
     err_read_tx_buffer |-> err_read_tx_buffer,
     err_read_invalid_rx_metadata |-> err_read_invalid_rx_metadata,
     err_read_invalid_address |-> err_read_invalid_address,
     err_write_invalid_address |-> err_write_invalid_address,
     err_write_status_reg |-> err_write_status_reg,
     intr_packet_pending_test |-> intr_packet_pending_test,
     intr_table_almost_full_test |-> intr_table_almost_full_test,
     intr_table_full_test |-> intr_table_full_test,
     intr_buffer_almost_full_test |-> intr_buffer_almost_full_test,
     intr_packet_lost_test |-> intr_packet_lost_test,
     intr_tx_done |-> intr_tx_done,
     mdio_write_test |-> mdio_write_test]
=============================================================================
