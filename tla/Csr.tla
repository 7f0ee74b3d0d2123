-------------------------------- MODULE Csr ---------------------------------
(***************************************************************************)
(* The control and status registers, ethernet_csr.sv.  The bus is 64 bits  *)
(* wide and a register 32, so a row of the address space holds two of them *)
(* and the byte enables say which one a write is for.                      *)
(*                                                                         *)
(* A register value is the set of its bits that are 1.  One step is one    *)
(* clock cycle with a request r (if r.req), the pulses ev of the hardware  *)
(* events, and the levels st the hardware shows in the STATUS register.    *)
(***************************************************************************)
EXTENDS Naturals, FiniteSets

CONSTANTS
    Row,                            \* rows of the address space that requests use
    Data,                           \* values of the 32-bit half a write is for
    Levels,                         \* values of the levels
    VendorId, DeviceId, MagicNum

Event     == {4, 5, 6}      \* packet_lost, tx_done, manual_irq
Level     == {0, 1, 2, 3}   \* RX not empty, table almost full, table full, buffer almost full
IntrBit   == Level \cup Event
StatusBit == Level \cup {7} \cup 8 .. 11    \* with tx_busy and n_packets_in_rx_buf

ASSUME CsrAssumption ==
    /\ Row \subseteq 1 .. 9
    /\ Data \subseteq SUBSET Nat /\ {} \notin Data
    /\ Levels \subseteq SUBSET StatusBit
    /\ VendorId \subseteq Nat /\ DeviceId \subseteq Nat /\ MagicNum \subseteq Nat

VARIABLES
    intr_mask,
    sticky,         \* packet_lost_sticky, tx_done_sticky, manual_irq_sticky
    ctrl,           \* bit 0 promiscuous_mode, bit 1 loopback_mode
    mac_addr,       \* [lo, hi]
    tx_packet_len,
    mdio,           \* mdio_clk, mdio_o, mdio_oen
    rsp,            \* mem_rsp_o.err and mem_rsp_o.data
    pulses,         \* history: which of tx_kick_o and rx_pop_o were high
    owed,           \* history: events not acknowledged since they happened
    collided        \* history: of these, those that came during a write to INTR_STATE

config == <<intr_mask, ctrl, mac_addr, tx_packet_len, mdio>>
vars == <<config, sticky, rsp, pulses, owed, collided>>

-----------------------------------------------------------------------------
(* Requests.  Byte enables matter only in whether byte 0 is enabled and in *)
(* whether exactly one half is; row 9 stands for all reserved rows.        *)

Request == [req : BOOLEAN, we : BOOLEAN, row : Row, be0 : BOOLEAN, half : BOOLEAN,
            aligned : BOOLEAN, data : Data \cup {{}}]

\* Write enable is low without a request, and only writes carry data.
Driven == {r \in Request : (r.we => r.req) /\ (r.data = {} <=> ~r.we)}

LowReg  == <<"INTR_STATE", "INTR_TEST", "CTRL", "MACLO", "TX_CTRL", "RX_POP",
             "VENDOR_ID", "MAGIC_NUM", "reserved">>
HighReg == <<"INTR_MASK", "reserved", "STATUS", "MACHI", "reserved", "MDIO_CTRL",
             "DEVICE_ID", "reserved", "reserved">>

reg_addr(r) == IF r.be0 THEN LowReg[r.row] ELSE HighReg[r.row]

bad_addr(r) == reg_addr(r) = "reserved"

ReadOnly == {"STATUS", "VENDOR_ID", "DEVICE_ID", "MAGIC_NUM"}

bad_request(r) ==
    \/ bad_addr(r)
    \/ ~r.aligned
    \/ r.we /\ ~r.half
    \/ r.we /\ reg_addr(r) \in ReadOnly

\* Fault: a refused write is carried out.
write_unchecked(r, reg) == r.req /\ r.we /\ reg_addr(r) = reg
write(r, reg) == r.req /\ r.we /\ ~bad_request(r) /\ reg_addr(r) = reg

-----------------------------------------------------------------------------
(* Pulses. *)

manual_irq_pulse(r) == write(r, "INTR_TEST") /\ 0 \in r.data

tx_kick_o(r) == write(r, "TX_CTRL") /\ r.data \cap 0 .. 10 # {}
rx_pop_o(r)  == write(r, "RX_POP") /\ 0 \in r.data

Pulse(r, ev) == ev \cup (IF manual_irq_pulse(r) THEN {6} ELSE {})

interrupts(r, ev, st) == (st \cap Level) \cup Pulse(r, ev) \cup sticky

irq_o(r, ev, st) == intr_mask \cap interrupts(r, ev, st) # {}

-----------------------------------------------------------------------------
(* Registers. *)

Init ==
    /\ intr_mask = {} /\ sticky = {} /\ ctrl = {}
    /\ mac_addr = [lo |-> {}, hi |-> {}]
    /\ tx_packet_len = {} /\ mdio = {}
    /\ rsp = [err |-> FALSE, lo |-> {}, hi |-> {}]
    /\ pulses = {} /\ owed = {} /\ collided = {}

\* Fault: an acknowledgement clears all events.
StickyClearsAll(r, ev, st) ==
    sticky' = IF write(r, "INTR_STATE") THEN {} ELSE sticky \cup (interrupts(r, ev, st) \cap Event)
\* The bits are set only in the cycles without a write to INTR_STATE.
Sticky(r, ev, st) ==
    sticky' = IF write(r, "INTR_STATE") THEN sticky \ r.data
              ELSE sticky \cup (interrupts(r, ev, st) \cap Event)

TxPacketLen(r) ==
    tx_packet_len' = IF write(r, "TX_CTRL") THEN r.data \cap 0 .. 10 ELSE tx_packet_len

Config(r) ==
    /\ intr_mask' = IF write(r, "INTR_MASK") THEN r.data \cap 0 .. 6 ELSE intr_mask
    /\ ctrl' = IF write(r, "CTRL") THEN r.data \cap {0, 1} ELSE ctrl
    /\ mac_addr' = [lo |-> IF write(r, "MACLO") THEN r.data \cap 0 .. 31 ELSE mac_addr.lo,
                    hi |-> IF write(r, "MACHI") THEN r.data \cap 0 .. 15 ELSE mac_addr.hi]
    /\ TxPacketLen(r)
    /\ mdio' = IF write(r, "MDIO_CTRL") THEN r.data \cap {0, 1, 2} ELSE mdio

\* What the two registers of a row read as; bit 3 of MDIO_CTRL is the MDIO input.
read_data(r, ev, st, mdio_i) ==
    [lo |-> <<interrupts(r, ev, st), {}, ctrl, mac_addr.lo, tx_packet_len, {},
              VendorId, MagicNum, {}>>[r.row],
     hi |-> <<intr_mask, {}, st, mac_addr.hi, {}, mdio \cup (IF mdio_i THEN {3} ELSE {}),
              DeviceId, {}, {}>>[r.row]]

Response(r, ev, st, mdio_i) ==
    LET d == read_data(r, ev, st, mdio_i)
    IN  rsp' = [err |-> bad_request(r), lo |-> d.lo, hi |-> d.hi]

\* Acknowledged events are no longer owed; an event whose own bit is being
\* written counts as acknowledged.
Observe(r, ev) ==
    LET acked == IF write(r, "INTR_STATE") THEN r.data ELSE {}
    IN  /\ pulses' = (IF tx_kick_o(r) THEN {"kick"} ELSE {})
                     \cup (IF rx_pop_o(r) THEN {"pop"} ELSE {})
        /\ owed' = (owed \cup Pulse(r, ev)) \ acked
        /\ collided' = IF write(r, "INTR_STATE") THEN (collided \cup Pulse(r, ev)) \ acked
                       ELSE collided

Cycle(r, ev, st, mdio_i) ==
    /\ Sticky(r, ev, st)
    /\ Config(r)
    /\ Response(r, ev, st, mdio_i)
    /\ Observe(r, ev)

Next ==
    \E r \in Driven, ev \in SUBSET {4, 5}, st \in Levels, mdio_i \in BOOLEAN :
        Cycle(r, ev, st, mdio_i)

Spec == Init /\ [][Next]_vars

-----------------------------------------------------------------------------
(* Properties. *)

\* Registers have their widths.
TypeOK ==
    /\ intr_mask \subseteq IntrBit
    /\ sticky \subseteq Event
    /\ ctrl \subseteq {0, 1}
    /\ mac_addr \in [lo : SUBSET (0 .. 31), hi : SUBSET (0 .. 15)]
    /\ tx_packet_len \subseteq 0 .. 10
    /\ mdio \subseteq {0, 1, 2}
    /\ rsp \in [err : BOOLEAN, lo : SUBSET Nat, hi : SUBSET Nat]
    /\ pulses \subseteq {"kick", "pop"}
    /\ owed \subseteq Event
    /\ collided \subseteq Event

\* An event that comes in a cycle without a write to INTR_STATE is reported until
\* software writes a 1 to its bit, whatever else is written or happens meanwhile;
\* and no event is reported that did not happen since its last acknowledgement.
EventsStick == sticky \subseteq owed /\ owed \ collided \subseteq sticky

\* An event is reported until software acknowledges that event, whenever it comes.
EventsNeverLost == owed \subseteq sticky

\* A request that is answered with an error had no effect: it changed no register,
\* acknowledged no event, started no transmission and popped no packet.
ErrorMeansNoEffect ==
    [][rsp.err' => /\ UNCHANGED config
                   /\ sticky \subseteq sticky'
                   /\ pulses' = {}]_vars
=============================================================================
