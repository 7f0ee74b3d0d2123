--------------------------- MODULE EthernetModel ----------------------------
(***************************************************************************)
(* AxiEthernetModel of models.py: the packet-level reference model that    *)
(* the cocotb test bench runs beside the design and compares it with.      *)
(* The object's attributes are the fields of a record m; a method that     *)
(* changes them is an operator that returns the new record, a method that  *)
(* returns a value an operator that returns it.                            *)
(*                                                                         *)
(* Data.  A packet is [dst, data, len]: the address it is sent to, what    *)
(* stands for its other bytes, and its length.  The TX buffer is two       *)
(* words: word 0 holds the destination, word 1 stands for all the others.  *)
(* A register value is the set of the bits that are set.                   *)
(***************************************************************************)
EXTENDS Naturals, Sequences

None == [dst |-> "none", data |-> "none", len |-> 0]

\* Packets, and what the list of received packets holds; N is a set of names.
Packet(N) == [dst : N, data : N, len : Nat]
Reason == {"MAC_MATCHES", "MAC_BROADCAST", "MAC_MULTICAST", "NON_MAC_MATCH"}
Entry(N) == [reason : Reason, pkt : Packet(N)]

\* Bytes that the packets of a list of (reason, packet) occupy.
BytesOf(packets) ==
    LET sum[n \in 0 .. Len(packets)] == IF n = 0 THEN 0 ELSE sum[n - 1] + packets[n].pkt.len
    IN  sum[Len(packets)]

\* Word w of the TX buffer: word 0 is the destination, word 1 the rest.
SetWord(buf, w, v) == IF w = 0 THEN [buf EXCEPT !.dst = v] ELSE [buf EXCEPT !.data = v]

\* What the MAC addresses of the tests say about a destination.
ReasonFor(dst, matches) ==
    IF matches THEN "MAC_MATCHES"
    ELSE IF dst = "broadcast" THEN "MAC_BROADCAST"
    ELSE IF dst = "multicast" THEN "MAC_MULTICAST"
    ELSE "NON_MAC_MATCH"

\* Bound: both logs of transmitted packets keep the newest MaxLog packets.
MaxLog == 2
Logged(log, p) ==
    LET all == Append(log, p)
    IN  SubSeq(all, IF Len(all) > MaxLog THEN Len(all) - MaxLog + 1 ELSE 1, Len(all))

-----------------------------------------------------------------------------
InitModel ==
    [rx_packets |-> <<>>,
     tx_buffer  |-> [dst |-> "zero", data |-> "zero"],
     intr_mask  |-> {},
     manual_irq |-> FALSE, tx_done_irq |-> FALSE, packet_lost |-> FALSE,
     promiscuous |-> FALSE, loopback |-> FALSE,
     mac_address |-> "zero",
     tx_packet_in_progress |-> None, rx_packet_in_progress |-> None,
     tx_log |-> <<>>]

intr_state_get(m) ==
    LET n == Len(m.rx_packets)
    IN  (IF m.manual_irq THEN {6} ELSE {}) \cup
        (IF m.tx_done_irq THEN {5} ELSE {}) \cup
        (IF m.packet_lost THEN {4} ELSE {}) \cup
        (IF n > 0 /\ BytesOf(m.rx_packets) > 8191 - 1524 THEN {3} ELSE {}) \cup
        (IF n = 8 THEN {2} ELSE {}) \cup
        (IF n >= 6 THEN {1} ELSE {}) \cup
        (IF n > 0 THEN {0} ELSE {})

intr_mask_set(m, mask) == [m EXCEPT !.intr_mask = mask \cap 0 .. 6]

test_intr(m) == [m EXCEPT !.manual_irq = TRUE]
clear_test_intr(m) == [m EXCEPT !.manual_irq = FALSE]
clear_tx_done_flag(m) == [m EXCEPT !.tx_done_irq = FALSE]
clear_packet_lost_flag(m) == [m EXCEPT !.packet_lost = FALSE]

tx_busy(m) == m.tx_packet_in_progress # None

\* STATUS: four flags, tx_busy, and the number of packets in its upper bits.
status_get(m) ==
    [bits |-> (intr_state_get(m) \cap 0 .. 3) \cup (IF tx_busy(m) THEN {7} ELSE {}),
     n    |-> Len(m.rx_packets)]

mode_set(m, mode) == [m EXCEPT !.promiscuous = mode[1], !.loopback = mode[2]]
mode_get(m) == <<m.promiscuous, m.loopback>>

mac_address_set(m, mac) == [m EXCEPT !.mac_address = mac]

rx_pop_packet(m) ==
    IF m.rx_packets = <<>> THEN m ELSE [m EXCEPT !.rx_packets = Tail(@)]

tx_buffer_write64(m, w, v) == [m EXCEPT !.tx_buffer = SetWord(@, w, v)]

rx_packet_pending(m) == m.rx_packets # <<>>

irq_pending(m) == m.intr_mask \cap intr_state_get(m) # {}

\* In loopback mode the packet is on its way in as well.
tx_packet_send(m, len) ==
    LET p == [dst |-> m.tx_buffer.dst, data |-> m.tx_buffer.data, len |-> len]
    IN  [m EXCEPT !.tx_packet_in_progress = p,
                  !.rx_packet_in_progress = IF m.loopback THEN p ELSE @]

\* A TestbenchError: a second packet while one is being received.
begin_rx_raises(m) == ~m.loopback /\ m.rx_packet_in_progress # None

\* In loopback mode nothing is received from outside.
begin_rx_packet(m, p) == IF m.loopback THEN m ELSE [m EXCEPT !.rx_packet_in_progress = p]

fits(m, p) == Len(m.rx_packets) < 8 /\ BytesOf(m.rx_packets) + p.len <= 8192

wait_for_rx_done(m) ==
    LET p      == m.rx_packet_in_progress
        reason == ReasonFor(p.dst, p.dst = m.mac_address)
        idle   == [m EXCEPT !.rx_packet_in_progress = None]
    IN  IF p = None \/ ~(m.promiscuous \/ reason # "NON_MAC_MATCH") THEN idle
        ELSE IF fits(m, p)
        THEN [idle EXCEPT !.rx_packets = Append(@, [reason |-> reason, pkt |-> p])]
        ELSE [idle EXCEPT !.packet_lost = TRUE]

wait_for_tx_done(m) ==
    LET idle == [m EXCEPT !.tx_packet_in_progress = None]
        done == IF m.loopback THEN wait_for_rx_done(idle) ELSE idle
    IN  [done EXCEPT !.tx_log = Logged(@, m.tx_packet_in_progress), !.tx_done_irq = TRUE]

get_transmitted_packet(m) == [m EXCEPT !.tx_log = Tail(@)]

ModelOK(m) ==
    /\ Len(m.rx_packets) <= 8
    /\ BytesOf(m.rx_packets) <= 8192
    /\ m.intr_mask \subseteq 0 .. 6
    /\ Len(m.tx_log) <= MaxLog

ModelType(N) ==
    [rx_packets : Seq(Entry(N)), tx_buffer : [dst : N, data : N],
     intr_mask : SUBSET (0 .. 6), manual_irq : BOOLEAN, tx_done_irq : BOOLEAN,
     packet_lost : BOOLEAN, promiscuous : BOOLEAN, loopback : BOOLEAN,
     mac_address : N, tx_packet_in_progress : Packet(N),
     rx_packet_in_progress : Packet(N), tx_log : Seq(Packet(N))]
=============================================================================
