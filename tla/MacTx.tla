------------------------------- MODULE MacTx --------------------------------
(***************************************************************************)
(* axis_gmii_tx.sv: a packet from the AXI stream of the TX framing becomes *)
(* a frame with preamble, padding and check sequence, followed by a gap.   *)
(*                                                                         *)
(* One step is one clock cycle.  At 1000 Mbit/s the FSM works in every     *)
(* cycle; at 10 and 100 Mbit/s clk_enable is a pulse (rgmii_phy_if.sv) and *)
(* every second pulse only sends the other nibble, so that two working     *)
(* cycles never follow each other.  tready, however, is high for a single  *)
(* clock cycle, whatever the speed.                                        *)
(***************************************************************************)
EXTENDS Integers, Gmii

CONSTANTS
    PreambleLen,    \* 7
    MinPayload,     \* MIN_FRAME_LENGTH - 4 (60)
    IfgDelay,       \* 12
    PtrRange,       \* values of frame_ptr (2^16)
    Zero,           \* the padding byte
    MinLen, MaxLen  \* lengths of the packets offered

ASSUME MacTxAssumption ==
    /\ PreambleLen \in Nat /\ PreambleLen >= 2
    /\ MinPayload \in Nat \ {0} /\ IfgDelay \in Nat \ {0} /\ FcsLen \in Nat \ {0}
    /\ Zero \in Byte
    /\ PtrRange \in Nat
    /\ PtrRange > PreambleLen /\ PtrRange > MinPayload /\ PtrRange > FcsLen /\ PtrRange > MaxLen
    /\ MinLen \in Nat /\ MaxLen \in Nat /\ 1 <= MinLen /\ MinLen <= MaxLen

VARIABLES
    full_rate,      \* the link runs at 1000 Mbit/s
    pkt, pos,       \* the stream: its packet and the byte on offer (0: tvalid is low)
    state, frame_ptr, ifg, s_tdata, s_axis_tready, crc,
    gmii,           \* gmii_tx_en, gmii_tx_er and gmii_txd
    worked,         \* the FSM worked in the cycle before
    current,        \* history: the packet being sent
    frame,          \* history: the symbols of the latest frame
    proper,         \* history: there was no one-byte packet yet
    gap             \* history: silent byte times before it, up to IfgDelay

fsm == <<state, frame_ptr, ifg, s_tdata, crc>>
vars == <<full_rate, pkt, pos, fsm, s_axis_tready, gmii, worked, current, frame, proper, gap>>

s_axis_tvalid == pos > 0
s_axis_tlast  == pos = Len(pkt)
s_axis_tdata  == IF s_axis_tvalid THEN Payload(pkt[pos]) ELSE Payload(Zero)

Silence == [en |-> FALSE, er |-> FALSE, txd |-> Payload(Zero)]
frame_ptr_inc == (frame_ptr + 1) % PtrRange

Symbol(s) == [en |-> TRUE, er |-> FALSE, txd |-> s]

-----------------------------------------------------------------------------
(* States of the FSM, each with all its assignments. *)

STATE_IDLE ==
    /\ crc' = <<>>
    /\ s_axis_tready' = FALSE
    /\ UNCHANGED <<ifg, s_tdata>>
    /\ IF s_axis_tvalid
       THEN state' = "PREAMBLE" /\ frame_ptr' = 1 /\ gmii' = Symbol(Pre)
       ELSE state' = "IDLE" /\ gmii' = Silence /\ UNCHANGED frame_ptr

\* The first byte is taken one byte time before the end of the preamble; at full
\* rate it is on offer for another one.
STATE_PREAMBLE ==
    /\ crc' = <<>>
    /\ UNCHANGED ifg
    /\ IF frame_ptr = PreambleLen
       THEN /\ state' = "PAYLOAD" /\ frame_ptr' = 0 /\ gmii' = Symbol(Sfd)
            /\ s_axis_tready' = s_axis_tready
            /\ s_tdata' = IF s_axis_tready THEN s_axis_tdata ELSE s_tdata
       ELSE /\ state' = "PREAMBLE" /\ frame_ptr' = frame_ptr_inc /\ gmii' = Symbol(Pre)
            /\ s_axis_tready' = (frame_ptr = PreambleLen - 1)
            /\ s_tdata' = IF frame_ptr = PreambleLen - 1 THEN s_axis_tdata ELSE s_tdata

\* Fault: ready is not raised for the last byte, which is then never taken.
tready_after_last_never == FALSE
\* When the last byte is on offer, it is taken in this cycle or in the next one.
tready_after_last == ~s_axis_tready

STATE_PAYLOAD ==
    /\ crc' = Append(crc, s_tdata)
    /\ s_tdata' = s_axis_tdata
    /\ UNCHANGED ifg
    /\ IF ~s_axis_tvalid
       THEN /\ state' = "WAIT_END" /\ frame_ptr' = 0 /\ s_axis_tready' = TRUE
            /\ gmii' = [Symbol(s_tdata) EXCEPT !.er = TRUE]
       ELSE /\ frame_ptr' = frame_ptr_inc
            /\ gmii' = Symbol(s_tdata)
            /\ state' = IF s_axis_tlast THEN "LAST" ELSE "PAYLOAD"
            /\ s_axis_tready' = IF s_axis_tlast THEN tready_after_last ELSE TRUE

\* Fault: padding stops one byte early.
needs_padding_short == frame_ptr < MinPayload - 2
needs_padding == frame_ptr < MinPayload - 1

STATE_LAST ==
    /\ crc' = Append(crc, s_tdata)
    /\ gmii' = Symbol(s_tdata)
    /\ s_axis_tready' = FALSE
    /\ UNCHANGED ifg
    /\ IF needs_padding
       THEN state' = "PAD" /\ frame_ptr' = frame_ptr_inc /\ s_tdata' = Payload(Zero)
       ELSE state' = "FCS" /\ frame_ptr' = 0 /\ UNCHANGED s_tdata

STATE_PAD ==
    /\ crc' = Append(crc, s_tdata)
    /\ gmii' = Symbol(Payload(Zero))
    /\ s_tdata' = Payload(Zero)
    /\ s_axis_tready' = FALSE
    /\ UNCHANGED ifg
    /\ IF needs_padding
       THEN state' = "PAD" /\ frame_ptr' = frame_ptr_inc
       ELSE state' = "FCS" /\ frame_ptr' = 0

STATE_FCS ==
    /\ gmii' = Symbol(Fcs(crc, frame_ptr))
    /\ s_axis_tready' = FALSE
    /\ UNCHANGED <<s_tdata, crc>>
    /\ IF frame_ptr < FcsLen - 1
       THEN state' = "FCS" /\ frame_ptr' = frame_ptr_inc /\ UNCHANGED ifg
       ELSE state' = "IFG" /\ frame_ptr' = 0 /\ ifg' = 0

\* The frame failed because the stream ran dry, as it does when a packet has one byte:
\* the end of the next packet is awaited.
STATE_WAIT_END ==
    /\ crc' = <<>>
    /\ frame_ptr' = frame_ptr_inc
    /\ gmii' = Silence
    /\ UNCHANGED s_tdata
    /\ IF s_axis_tvalid /\ s_axis_tlast
       THEN state' = "IFG" /\ ifg' = 0 /\ s_axis_tready' = FALSE
       ELSE state' = "WAIT_END" /\ s_axis_tready' = TRUE /\ UNCHANGED ifg

\* Fault: the gap is one byte time short.
ifg_goes_on_short == ifg < IfgDelay - 2
ifg_goes_on == ifg < IfgDelay - 1

\* Fault: the byte times of the gap are not counted.
ifg_next_stuck == ifg
ifg_next == ifg + 1

STATE_IFG ==
    /\ crc' = <<>>
    /\ gmii' = Silence
    /\ s_axis_tready' = FALSE
    /\ frame_ptr' = frame_ptr_inc
    /\ UNCHANGED s_tdata
    /\ IF ifg_goes_on THEN state' = "IFG" /\ ifg' = ifg_next
       ELSE state' = "IDLE" /\ UNCHANGED ifg

Work ==
    \/ state = "IDLE" /\ STATE_IDLE
    \/ state = "PREAMBLE" /\ STATE_PREAMBLE
    \/ state = "PAYLOAD" /\ STATE_PAYLOAD
    \/ state = "LAST" /\ STATE_LAST
    \/ state = "PAD" /\ STATE_PAD
    \/ state = "FCS" /\ STATE_FCS
    \/ state = "WAIT_END" /\ STATE_WAIT_END
    \/ state = "IFG" /\ STATE_IFG

\* A cycle without clk_enable, or the second nibble of a byte.
Hold == s_axis_tready' = FALSE /\ UNCHANGED <<fsm, gmii>>

-----------------------------------------------------------------------------
Packet == UNION {[1 .. n -> Byte] : n \in MinLen .. MaxLen}

Init ==
    /\ full_rate \in BOOLEAN
    /\ pkt = <<>> /\ pos = 0
    /\ state = "IDLE" /\ frame_ptr = 0 /\ ifg = 0 /\ s_tdata = Payload(Zero) /\ crc = <<>>
    /\ s_axis_tready = FALSE
    /\ gmii = Silence
    /\ worked = FALSE
    /\ current = <<>> /\ frame = <<>> /\ proper = TRUE /\ gap = IfgDelay

\* The TX framing keeps a byte on offer until it is taken; when it has none, it
\* may start a packet in any cycle.
Stream ==
    IF s_axis_tvalid /\ s_axis_tready
    THEN IF s_axis_tlast THEN pkt' = <<>> /\ pos' = 0
         ELSE pos' = pos + 1 /\ UNCHANGED pkt
    ELSE \/ UNCHANGED <<pkt, pos>>
         \/ ~s_axis_tvalid /\ pkt' \in Packet /\ pos' = 1

Offered == proper' = (proper /\ Len(pkt') # 1)

Observe ==
    /\ current' = IF state = "IDLE" /\ s_axis_tvalid THEN pkt ELSE current
    /\ frame' = IF ~gmii'.en THEN frame
                ELSE IF gmii.en THEN Append(frame, gmii'.txd) ELSE <<gmii'.txd>>
    /\ gap' = IF gmii'.en THEN gap ELSE IF gmii.en THEN 1
              ELSE IF gap < IfgDelay THEN gap + 1 ELSE gap

Working ==
    /\ full_rate \/ ~worked
    /\ worked' = TRUE
    /\ Work
    /\ Stream /\ Offered
    /\ Observe
    /\ UNCHANGED full_rate

Holding ==
    /\ ~full_rate
    /\ worked' = FALSE
    /\ Hold
    /\ Stream /\ Offered
    /\ UNCHANGED <<full_rate, current, frame, gap>>

Next == Working \/ Holding

Spec == Init /\ [][Next]_vars

-----------------------------------------------------------------------------
(* Properties. *)

Padded(p) ==
    Bytes(p) \o [k \in 1 .. (IF Len(p) < MinPayload THEN MinPayload - Len(p) ELSE 0)
                    |-> Payload(Zero)]

Encode(p) ==
    [k \in 1 .. PreambleLen |-> Pre] \o <<Sfd>> \o Padded(p) \o FcsOf(Padded(p))

\* At every speed, what is on the wire is the frame of the packet, as long as
\* every packet had two bytes or more, as ethernet.rdl demands: every byte of the stream once, padding up to the minimum, a check over
\* exactly these bytes, no error signalled; and when the wire falls silent the frame is
\* complete.
FrameCorrect ==
    proper =>
        /\ ~gmii.er
        /\ gmii.en => frame = SubSeq(Encode(current), 1, Len(frame))
        /\ ~gmii.en /\ frame # <<>> => frame = Encode(current)

\* Between two frames, whole or failed, there are at least IfgDelay byte times of
\* silence, as ethernet_rgmii_tx_assertions.sv asserts.
GapKept == gmii.en => gap = IfgDelay

\* The bytes the MAC has taken from the stream belong to the frame it is sending:
\* none is taken from the next packet, again without one-byte packets.
TakesOnlyCurrent ==
    proper /\ pos > 1 => pkt = current /\ state \in {"PREAMBLE", "PAYLOAD", "LAST"}

\* Every packet offered is taken to its last byte, even behind a one-byte packet, which
\* makes the MAC fail its frame and wait for the end of the next packet.
PacketTaken == s_axis_tvalid ~> ~s_axis_tvalid

-----------------------------------------------------------------------------
(* The inductive invariant. *)

\* The stream: no packet, or a packet and the byte of it on offer; ready is only high
\* in the cycle after the FSM worked, which is why at the lower speeds it takes one byte.
StreamInv ==
    /\ full_rate \in BOOLEAN /\ worked \in BOOLEAN /\ proper \in BOOLEAN
    /\ s_axis_tready \in BOOLEAN
    /\ IF pos = 0 THEN pkt = <<>> ELSE pkt \in Packet /\ pos \in 1 .. Len(pkt)
    /\ s_axis_tready => worked
    /\ proper => Len(pkt) # 1

Silent == {"IDLE", "WAIT_END", "IFG"}
Sending == {"PREAMBLE", "PAYLOAD", "LAST", "PAD", "FCS"}

\* How far the gap has come.
GapInv ==
    /\ state \in Silent \cup Sending
    /\ gap \in 0 .. IfgDelay /\ ifg \in 0 .. IfgDelay - 1
    /\ gmii.en \in BOOLEAN
    /\ gmii.en => gap = IfgDelay
    /\ state \in Sending => gmii.en
    /\ state = "IDLE" => ~gmii.en /\ gap = IfgDelay
    /\ state = "IFG" => IF gmii.en THEN ifg = 0 ELSE gap >= ifg

\* The first k symbols of the frame have been sent.
Sent(k) == k <= Len(Encode(current)) /\ frame = SubSeq(Encode(current), 1, k)

\* Nothing is taken of the packet that comes next.
NoneTaken == pos <= 1 /\ ~s_axis_tready

\* A byte of the padded packet goes out, and what went out before is what is checked.
InData ==
    /\ frame_ptr \in 0 .. Len(Padded(current)) - 1
    /\ Sent(PreambleLen + 1 + frame_ptr)
    /\ crc = SubSeq(Padded(current), 1, frame_ptr)
    /\ s_tdata = Padded(current)[frame_ptr + 1]

InPreamble ==
    /\ pkt = current
    /\ frame_ptr \in 1 .. PreambleLen
    /\ Sent(frame_ptr)
    /\ crc = <<>>
    /\ IF frame_ptr < PreambleLen THEN pos = 1 /\ ~s_axis_tready
       ELSE /\ pos = IF s_axis_tready THEN 1 ELSE 2
            /\ full_rate => s_axis_tready
            /\ s_tdata = Padded(current)[1]

\* At full rate a byte is taken in every cycle; otherwise in the one after the FSM worked.
InPayload ==
    /\ pkt = current
    /\ pos = frame_ptr + IF s_axis_tready /\ ~full_rate THEN 1 ELSE 2
    /\ full_rate => s_axis_tready
    /\ frame_ptr + 2 <= Len(current)
    /\ InData

InLast ==
    /\ frame_ptr + 1 = Len(current)
    /\ IF s_axis_tready THEN ~full_rate /\ pkt = current /\ pos = Len(pkt) ELSE pos <= 1
    /\ InData

InPad ==
    /\ NoneTaken
    /\ Len(current) <= frame_ptr
    /\ InData

InFcs ==
    /\ NoneTaken
    /\ frame_ptr \in 0 .. FcsLen - 1
    /\ crc = Padded(current)
    /\ Sent(PreambleLen + 1 + Len(Padded(current)) + frame_ptr)

\* As long as every packet had two bytes or more: where the FSM is in the frame.
SendInv ==
    /\ gmii.er = FALSE
    /\ state # "WAIT_END"
    /\ state # "IDLE" => current \in Packet /\ Len(current) >= 2
    /\ state = "IDLE" => NoneTaken /\ frame \in {<<>>, Encode(current)}
    /\ state = "PREAMBLE" => InPreamble
    /\ state = "PAYLOAD" => InPayload
    /\ state = "LAST" => InLast
    /\ state = "PAD" => InPad
    /\ state = "FCS" => InFcs
    /\ state = "IFG" => NoneTaken /\ frame = Encode(current)

MacTxInv == StreamInv /\ GapInv /\ (proper => SendInv)
=============================================================================
