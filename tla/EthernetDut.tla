---------------------------- MODULE EthernetDut -----------------------------
(***************************************************************************)
(* The design under test as the cocotb bench meets it: registers and       *)
(* memories behind one AXI port, the RGMII pins, the interrupt line.  The  *)
(* cycle-by-cycle models of its parts are the other modules of the         *)
(* project; this one keeps what takes cycles and what the bench can tell   *)
(* apart, packet by packet.                                                *)
(*                                                                         *)
(* The design is a record d.  A packet on its way is a stream record whose *)
(* field got counts cycles: it is negative before the first byte reaches   *)
(* the ring buffer, then the number of bytes that have, and the packet     *)
(* ends when got = len.  Advance(d, n) is the design n cycles later,       *)
(* n at most Horizon(d), the cycles to the next change of control.         *)
(***************************************************************************)
EXTENDS EthernetModel, Integers, FiniteSetsExt

CONSTANTS
    TxHead,     \* cycles from TX_CTRL to the first byte of the packet
    LoopLag,    \* from the last byte leaving the TX FSM to its commit (1)
    RxStart,    \* external PHY model: from send() to rx_ctl
    RxLag       \* from the fall of rx_ctl to the commit (4)

ASSUME TimingAssumption ==
    /\ TxHead \in Nat \ {0} /\ RxStart \in Nat \ {0}
    /\ LoopLag \in Nat \ {0} /\ RxLag \in Nat \ {0}

Preamble == 8
Fcs == 4
RxBytes == 8192
Depth == 8

Off == [on |-> FALSE, got |-> 0, len |-> 0, dst |-> "none", data |-> "none",
        pass |-> FALSE, hi |-> TRUE, lo |-> TRUE, ext |-> FALSE, lost |-> FALSE,
        bad |-> FALSE, stored |-> 0]

Stream(dst, data, len, wait) ==
    [Off EXCEPT !.on = TRUE, !.got = 0 - wait, !.len = len, !.dst = dst, !.data = data]

InitDut ==
    [table |-> <<>>, sticky |-> {}, mask |-> {}, prom |-> FALSE, loop |-> FALSE,
     mac |-> [lo |-> "zero", hi |-> "zero"],
     buf |-> [dst |-> "unknown", data |-> "unknown"],
     mdio |-> {}, tx |-> Off, wire |-> Off, sent |-> <<>>]

-----------------------------------------------------------------------------
(* Outputs. *)

\* The busy flag of the TX FSM.
tx_status(d) == d.tx.on /\ d.tx.got < d.tx.len - LoopLag

\* The pin the bench watches to see a received packet begin and end.
WireLead == Preamble + Fcs + RxLag
rx_ctl(d) == d.wire.on /\ d.wire.got >= 0 - WireLead /\ d.wire.got < d.wire.len - RxLag

Used(d) == BytesOf(d.table)

Levels(d) ==
    LET n == Len(d.table)
    IN  (IF n > 0 THEN {0} ELSE {}) \cup (IF n >= 6 THEN {1} ELSE {}) \cup
        (IF n = Depth THEN {2} ELSE {}) \cup
        (IF n > 0 /\ RxBytes - Used(d) <= 1524 THEN {3} ELSE {})

INTR_STATE(d) == d.sticky \cup Levels(d)

STATUS(d) == [bits |-> Levels(d) \cup (IF tx_status(d) THEN {7} ELSE {}), n |-> Len(d.table)]

ethernet_irq_o(d) == d.mask \cap INTR_STATE(d) # {}

-----------------------------------------------------------------------------
(* Bus accesses. *)

WriteIntrState(d, bits) == [d EXCEPT !.sticky = @ \ bits]       \* write one to clear
WriteIntrTest(d) == [d EXCEPT !.sticky = @ \cup {6}]
WriteIntrMask(d, bits) == [d EXCEPT !.mask = bits \cap 0 .. 6]
WriteCtrl(d, mode) == [d EXCEPT !.prom = mode[1], !.loop = mode[2]]
WriteMacLo(d, mac) == [d EXCEPT !.mac.lo = mac]
WriteMacHi(d, mac) == [d EXCEPT !.mac.hi = mac]
WriteMdio(d, bits) == [d EXCEPT !.mdio = bits \cap 0 .. 2]

WriteRxPop(d) == IF d.table = <<>> THEN d ELSE [d EXCEPT !.table = Tail(@)]

\* A word written while it is being sent leaves a packet of old and new words.
WriteTxWord(d, w, v) ==
    [d EXCEPT !.buf = SetWord(@, w, v),
              !.tx.data = IF tx_status(d) /\ w # 0 THEN "mixed" ELSE @]

\* A kick starts the FSM unless it is running.
WriteTxCtrl(d, len) ==
    IF len = 0 \/ d.tx.on THEN d
    ELSE [d EXCEPT !.tx = Stream(d.buf.dst, d.buf.data, len, TxHead + LoopLag)]

\* Which accesses the memory map and its access filters answer without error.
Response(d, dir, region) ==
    IF \/ region = "csr"
       \/ region = "status" /\ dir = "read"
       \/ region = "tx_buffer" /\ dir = "write"
       \/ region = "rx_buffer" /\ dir = "read"
    THEN 0 ELSE 2

\* Slot i of the description table; beyond the packets it answers an error.
ReadTable(d, i) == IF i < Len(d.table) THEN d.table[i + 1] ELSE [reason |-> "error", pkt |-> None]

-----------------------------------------------------------------------------
(* Packets on their way. *)

\* A frame is handed to the PHY model, which puts it on the pins.
SendToWire(d, p) == [d EXCEPT !.wire = Stream(p.dst, p.data, p.len, RxStart + WireLead)]

\* Cycles until a stream reaches the mux, changes its pin or flag, or ends.
Points(s, lead, lag) == {x \in {0 - lead, 0, s.len - lag, s.len} : x > s.got}
Horizon(d) ==
    (IF d.tx.on THEN {x - d.tx.got : x \in Points(d.tx, 0, LoopLag)} ELSE {}) \cup
    (IF d.wire.on THEN {x - d.wire.got : x \in Points(d.wire, WireLead, RxLag)} ELSE {})

\* n bytes of stream s reach the ring buffer: the filter compares the address
\* with the register halves of the moment, the verdict counts from the second
\* byte on; bytes go to the buffer while there is room and a free descriptor.  The
\* byte that brings the verdict is not written, but finds the buffer full like
\* the bytes before it: abandon_sticky is set one cycle later.
Captured(d, s, n) ==
    LET hi    == s.hi /\ (s.got < 2 => s.dst = d.mac.hi)
        lo    == s.lo /\ (s.got < 6 /\ s.got + n > 2 => s.dst = d.mac.lo)
        ext   == s.ext \/ /\ ~d.prom /\ s.got + n > 1
                          /\ ReasonFor(s.dst, hi /\ lo) = "NON_MAC_MATCH"
        live  == IF s.ext \/ s.lost THEN 0
                 ELSE IF ~ext THEN n ELSE IF s.got = 0 THEN 1 ELSE 0
        tried == IF ~s.ext /\ ~s.lost /\ ext THEN live + 1 ELSE live
        room  == RxBytes - Used(d) - s.stored
        write == IF Len(d.table) = Depth THEN 0 ELSE Min({live, room})
    IN  [s EXCEPT !.got = @ + n, !.hi = hi, !.lo = lo, !.ext = ext,
                  !.lost = @ \/ (tried > write /\ write = room),
                  !.stored = @ + write]

\* n cycles of a stream; when it reaches the multiplexer it is let through if
\* its path is selected and the other path is not in the middle of a packet.
Moved(d, s, selected, other, n) ==
    IF ~s.on THEN s
    ELSE IF s.got >= 0 /\ s.pass THEN Captured(d, s, n)
    ELSE [s EXCEPT !.got = @ + n,
                   !.pass = IF s.got + n = 0 THEN selected /\ ~(other.on /\ other.pass) ELSE @]

\* Fault: a full table takes a ninth packet.
Commit_nofull(d, s) ==
    IF ~s.pass \/ s.ext \/ s.lost \/ s.bad THEN d
    ELSE [d EXCEPT !.table = Append(@, [reason |-> ReasonFor(s.dst, s.hi /\ s.lo),
                       pkt |-> [dst |-> s.dst, data |-> s.data, len |-> s.stored]])]

\* The last byte of a stream: the packet is committed, dropped, or lost.
Commit(d, s) ==
    IF ~s.pass \/ s.ext \/ s.lost THEN d
    ELSE IF Len(d.table) = Depth THEN [d EXCEPT !.sticky = @ \cup {4}]
    ELSE IF s.bad THEN d
    ELSE [d EXCEPT !.table = Append(@, [reason |-> ReasonFor(s.dst, s.hi /\ s.lo),
                       pkt |-> [dst |-> s.dst, data |-> s.data, len |-> s.stored]])]

\* packet_lost is raised in the cycle in which the buffer is found full.
Lost(s, t) == IF t.lost /\ ~s.lost THEN {4} ELSE {}

AdvanceWire(d, n) ==
    LET w    == Moved(d, d.wire, ~d.loop, d.tx, n)
        next == [d EXCEPT !.sticky = @ \cup Lost(d.wire, w), !.wire = w]
    IN  IF w.on /\ w.got = w.len THEN [Commit(next, w) EXCEPT !.wire = Off] ELSE next

\* tx_done is set when the FSM stops; the PHY model has the frame soon after.
AdvanceTx(d, n) ==
    LET t    == Moved(d, d.tx, d.loop, d.wire, n)
        done == IF t.on /\ t.got = t.len - LoopLag THEN {5} ELSE {}
        next == [d EXCEPT !.sticky = @ \cup done \cup Lost(d.tx, t), !.tx = t]
    IN  IF t.on /\ t.got = t.len
        THEN [Commit(next, t) EXCEPT
                 !.tx = Off, !.sent = Logged(@, [dst |-> t.dst, data |-> t.data, len |-> t.len])]
        ELSE next

Advance(d, n) == AdvanceWire(AdvanceTx(d, n), n)

\* Nothing is on its way in or out.
Idle(d) == ~d.tx.on /\ ~d.wire.on

DutOK(d) ==
    /\ Len(d.table) <= Depth /\ Used(d) <= RxBytes
    /\ d.sticky \subseteq 4 .. 6 /\ d.mask \subseteq 0 .. 6 /\ d.mdio \subseteq 0 .. 2
    /\ \A s \in {d.tx, d.wire} : s.got <= s.len /\ s.stored <= s.len

\* The model m is a copy of the design d, nothing being on its way.
InSync(m, d) ==
    /\ m.rx_packets = d.table
    /\ intr_state_get(m) = INTR_STATE(d) /\ m.intr_mask = d.mask
    /\ mode_get(m) = <<d.prom, d.loop>>
    /\ d.mac = [lo |-> m.mac_address, hi |-> m.mac_address]
    /\ m.tx_packet_in_progress = None /\ m.rx_packet_in_progress = None
    /\ m.tx_log = d.sent

-----------------------------------------------------------------------------
(* The inductive invariant of the design, whatever the bench does with it. *)

StreamType(N) ==
    [on : BOOLEAN, got : Int, len : Nat, dst : N, data : N,
     pass : BOOLEAN, hi : BOOLEAN, lo : BOOLEAN, ext : BOOLEAN, lost : BOOLEAN,
     bad : BOOLEAN, stored : Nat]

DutType(N) ==
    [table : Seq(Entry(N)), sticky : SUBSET (4 .. 6), mask : SUBSET (0 .. 6),
     prom : BOOLEAN, loop : BOOLEAN, mac : [lo : N, hi : N],
     buf : [dst : N, data : N], mdio : SUBSET (0 .. 2),
     tx : StreamType(N), wire : StreamType(N), sent : Seq(Packet(N))]

\* What is stored of a stream came through the multiplexer, and is no more than
\* what has arrived.
StreamInv(s) ==
    /\ s.got <= s.len /\ (s.on => s.got < s.len)
    /\ s.stored > 0 => s.on /\ s.pass /\ s.stored <= s.got

\* One stream at most is let through, and what it has stored has room beside the
\* packets in the table.
DutInv(N, d) ==
    /\ d \in DutType(N)
    /\ Len(d.table) <= Depth
    /\ StreamInv(d.tx) /\ StreamInv(d.wire)
    /\ ~(d.tx.on /\ d.tx.pass /\ d.wire.on /\ d.wire.pass)
    /\ Used(d) + d.tx.stored + d.wire.stored <= RxBytes
=============================================================================
