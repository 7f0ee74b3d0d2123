----------------------------- MODULE RxFraming ------------------------------
(***************************************************************************)
(* ethernet_rx_framing.sv: the MAC address filter in front of the packet   *)
(* ring buffer.  Both see every beat of the stream in the same cycle; the  *)
(* filter's verdict on the bytes before the beat goes into the ring buffer *)
(* with it, as pkt_abandon_i and as the metadata sampled at tlast.         *)
(***************************************************************************)
EXTENDS MacFilter, Integers, QueueOps

CONSTANTS BufBytes, Depth, MaxPktLen, LenRange, BufAlmostFullThreshold

ASSUME RingAssumption ==
    /\ BufBytes \in Nat /\ MaxPktLen \in Nat \ {0} /\ MaxPktLen < BufBytes
    /\ Depth \in Nat \ {0}
    /\ LenRange \in Nat /\ MaxPktLen < LenRange
    /\ BufAlmostFullThreshold \in Nat /\ MaxPktLen <= BufAlmostFullThreshold

VARIABLES
    buf_write_ptr, current_packet_head_ptr, abandon_sticky, table, mem, cur, hist,
    crc,        \* history: a beat of this packet carried tuser (bad CRC)
    log         \* history: filter's circumstances of each packet in the table

ringVars == <<buf_write_ptr, current_packet_head_ptr, abandon_sticky, table, mem, cur, hist>>
framingVars == <<vars, ringVars, crc, log>>

Ring == INSTANCE RingBuffer WITH Metadata <- Reason

-----------------------------------------------------------------------------
\* Fault: a bad CRC is not a reason to abandon.
RingBeatIgnoresCrc(b) ==
    [valid |-> b.valid, last |-> b.last, data |-> b.data,
     abandon |-> abandon_packet([b EXCEPT !.user = FALSE]),
     metadata |-> capture_reason]
\* What the ring buffer is given together with beat b.
RingBeat(b) ==
    [valid |-> b.valid, last |-> b.last, data |-> b.data,
     abandon |-> abandon_packet(b), metadata |-> capture_reason]

Entry(b) == [steady |-> steady, config |-> rx_config, crc |-> crc \/ b.user]

Record(b, pop) ==
    /\ crc' = IF ~b.valid THEN crc ELSE ~b.last /\ (crc \/ b.user)
    /\ log' = PushPop(log, Ring!commit_pkt(RingBeat(b)), Entry(b), pop)

FramingInit == Init /\ Ring!Init /\ crc = FALSE /\ log = <<>>

FramingCycle(b, cfg, pop) ==
    /\ Ring!StreamMayDeliver(b)
    /\ Cycle(b, cfg)
    /\ Ring!Cycle(RingBeat(b), pop)
    /\ Record(b, pop)

\* Without tvalid nothing else of a beat is looked at: one such beat is enough.
FramingBeat == {b \in Beat : ~b.valid => ~b.last /\ ~b.user /\ b.data = FF}

FramingNext ==
    \E b \in FramingBeat, cfg \in Config, pop \in BOOLEAN : FramingCycle(b, cfg, pop)

FramingSpec == FramingInit /\ [][FramingNext]_framingVars

-----------------------------------------------------------------------------
(* Properties. *)

Accepted(bytes, cfg) ==
    cfg.promiscuous \/ ReasonOf(bytes, cfg.mac_addr) # "NON_MAC_MATCH"

\* A packet in the table had no bad CRC; if it is longer than an address and the
\* configuration did not change under it, the descriptor gives the capture reason
\* of its address, and it is one for which packets are kept.
OnlyWantedPackets ==
    \A k \in 1 .. Len(table) :
        LET bytes == hist[k].bytes
        IN  /\ ~log[k].crc
            /\ log[k].steady /\ Len(bytes) > AddrLen =>
                  /\ table[k].metadata = ReasonOf(bytes, log[k].config.mac_addr)
                  /\ Accepted(bytes, log[k].config)

\* Whatever last beat arrives now: a packet with a good CRC and an address for
\* which packets are kept is put into the table or reported as lost.
NothingWantedDisappears ==
    \A b \in Beat :
        LET p == Ring!CurAfter(RingBeat(b))
        IN  /\ b.valid /\ b.last /\ ~b.user /\ ~crc /\ steady
            /\ Len(p.bytes) >= AddrLen /\ Accepted(p.bytes, rx_config)
            => Ring!commit_pkt(RingBeat(b)) \/ p.pulses = 1

\* A packet whose first bytes are an address is kept only if the address is one
\* for which packets are kept.
KeptPacketsAreAddressed ==
    \A k \in 1 .. Len(table) :
        log[k].steady /\ Len(hist[k].bytes) >= AddrLen
            => Accepted(hist[k].bytes, log[k].config)

-----------------------------------------------------------------------------
(* The inductive invariant, besides those of the two parts. *)

Entries == [steady : BOOLEAN, config : Config, crc : BOOLEAN]

\* The filter and the ring buffer are in the same packet, at the same byte.
InStep ==
    /\ Len(seen) = (IF Len(cur.bytes) < AddrLen THEN Len(cur.bytes) ELSE AddrLen)
    /\ \A k \in 1 .. Len(seen) : seen[k] = cur.bytes[k]

Rejected == capture_reason = "NON_MAC_MATCH" /\ ~rx_config.promiscuous

\* Why the packet in progress was abandoned: because of its CRC, or by a verdict
\* of the filter that, under one configuration, is never taken back.
AbandonReason ==
    /\ crc => cur.ext
    /\ cur.ext => seen # <<>>
    /\ steady /\ cur.ext => crc \/ Rejected

FramingInv ==
    /\ crc \in BOOLEAN
    /\ log \in Seq(Entries) /\ Len(log) = Len(table)
    /\ InStep
    /\ AbandonReason
    /\ OnlyWantedPackets
=============================================================================
