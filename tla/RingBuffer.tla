----------------------------- MODULE RingBuffer -----------------------------
(***************************************************************************)
(* The RX packet ring buffer (axis_pkt_ring_buffer.sv with its write       *)
(* pointer logic): bytes of an AXI stream are written into a circular      *)
(* buffer; at tlast the packet is either committed to a descriptor table   *)
(* or abandoned, in which case the write pointer falls back to the head of *)
(* the packet.  Software reads the table and the buffer and pops the       *)
(* oldest packet at any time.                                              *)
(*                                                                         *)
(* One step is one clock cycle: the inputs are one beat of the stream and  *)
(* the pop pulse; the combinational signals are operators of the registers *)
(* and of the beat, named as in the source.  The initial state is the one  *)
(* after the first cycle out of reset (in that cycle the stream is idle,   *)
(* because its driver, the loopback multiplexer, resets its output flop).  *)
(***************************************************************************)
EXTENDS Integers, QueueOps

CONSTANTS
    BufBytes,       \* 2^BUF_ADDR_W bytes in the buffer (8192)
    Depth,          \* 2^PACKET_INDEX_W descriptors in the table (8)
    MaxPktLen,      \* longest packet on the wire (1522)
    LenRange,       \* 2^PACKET_LEN_W, the range of pkt_len (2048)
    BufAlmostFullThreshold,     \* 1524
    Byte,           \* values of tdata
    Metadata        \* values of pkt_metadata_i

ASSUME BufferAssumption ==
    /\ BufBytes \in Nat /\ MaxPktLen \in Nat \ {0} /\ MaxPktLen < BufBytes
    /\ Depth \in Nat \ {0}
    /\ LenRange \in Nat /\ MaxPktLen < LenRange
    /\ BufAlmostFullThreshold \in Nat /\ MaxPktLen <= BufAlmostFullThreshold

VARIABLES
    buf_write_ptr,  \* next location to write
    current_packet_head_ptr,
    abandon_sticky, \* this packet is already abandoned
    table,          \* descriptors of the committed packets, oldest first
    mem,            \* the data RAM, byte by byte
    cur,            \* history: what the stream delivered of this packet
    hist            \* history: what it delivered of each packet in table

vars == <<buf_write_ptr, current_packet_head_ptr, abandon_sticky, table, mem,
          cur, hist>>

Ptr == 0 .. BufBytes - 1

Descriptor == [metadata : Metadata, head_ptr : Ptr, pkt_len : 0 .. LenRange - 1]

\* pkt_tvalid_i, pkt_tlast_i, pkt_tdata_i, pkt_abandon_i and pkt_metadata_i.
Beat == [valid : BOOLEAN, last : BOOLEAN, data : Byte, abandon : BOOLEAN,
         metadata : Metadata]

\* Pointer arithmetic on BUF_ADDR_W bits.
PtrAdd(p, n) == (p + n) % BufBytes
PtrSub(p, q) == (p - q) % BufBytes

-----------------------------------------------------------------------------
(* Combinational signals.  b is the beat on the input. *)

empty == table = <<>>

table_full == Len(table) = Depth

buf_full == ~empty /\ table[1].head_ptr = buf_write_ptr

\* Space left for the next packet, not counting the one being captured.
buffer_ptrs_margin ==
    PtrSub(IF empty THEN current_packet_head_ptr ELSE table[1].head_ptr,
           current_packet_head_ptr)

\* Fault: the warning threshold is below the margin of a full buffer.
buf_almost_full_strict == ~empty /\ buffer_ptrs_margin < BufAlmostFullThreshold - 1
buf_almost_full == ~empty /\ buffer_ptrs_margin <= BufAlmostFullThreshold

\* Fault: the full table is not a reason to abandon.
abandon_this_packet_no_table_full(b) == abandon_sticky \/ b.abandon \/ buf_full

abandon_this_packet(b) == abandon_sticky \/ b.abandon \/ buf_full \/ table_full

\* Fault: a lost packet is reported for every byte.
packet_lost_repeated(b) == (buf_full /\ b.valid) \/ (table_full /\ b.last /\ b.valid)
packet_lost(b) ==
    /\ \/ buf_full /\ b.valid
       \/ table_full /\ b.last /\ b.valid
    /\ ~abandon_sticky

buf_write(b) == b.valid /\ ~buf_full /\ ~abandon_this_packet(b)

commit_pkt(b)  == b.valid /\ b.last /\ ~abandon_this_packet(b)
abandon_pkt(b) == b.valid /\ b.last /\ abandon_this_packet(b)

current_pkt_desc(b) ==
    [metadata |-> b.metadata,
     head_ptr |-> current_packet_head_ptr,
     pkt_len  |-> PtrSub(buf_write_ptr + 1, current_packet_head_ptr) % LenRange]

-----------------------------------------------------------------------------
(* Registers. *)

AbandonSticky(b) ==
    abandon_sticky' = IF b.valid /\ b.last THEN FALSE
                      ELSE (b.abandon /\ b.valid) \/ packet_lost(b) \/ abandon_sticky

\* Fault: an abandoned packet leaves the write pointer where its last byte went.
WrPtrLogicKeepsBytes(valid, commit, abandon) ==
    /\ buf_write_ptr' = IF valid /\ ~abandon THEN PtrAdd(buf_write_ptr, 1)
                        ELSE buf_write_ptr
    /\ current_packet_head_ptr' = IF valid /\ commit THEN PtrAdd(buf_write_ptr, 1)
                                  ELSE current_packet_head_ptr

\* axis_pkt_ring_buffer_wr_ptr_logic.
WrPtrLogic(valid, commit, abandon) ==
    /\ buf_write_ptr' = IF ~valid THEN buf_write_ptr
                        ELSE IF abandon THEN current_packet_head_ptr
                        ELSE PtrAdd(buf_write_ptr, 1)
    /\ current_packet_head_ptr' = IF valid /\ commit THEN PtrAdd(buf_write_ptr, 1)
                                  ELSE current_packet_head_ptr

\* The table is a random_access_fifo: push if not full, pop if not empty.
DescriptionTable(b, pop) ==
    table' = PushPop(table, commit_pkt(b) /\ ~table_full, current_pkt_desc(b), pop)

DataRam(b) ==
    mem' = IF buf_write(b) THEN [mem EXCEPT ![buf_write_ptr] = b.data] ELSE mem

-----------------------------------------------------------------------------
(* History of the stream: the bytes of the packet in progress, whether one *)
(* of them arrived while the table was full, whether an external abandon   *)
(* was seen, and how many packet_lost pulses the packet has caused.        *)

NoPacket == [bytes |-> <<>>, stalled |-> FALSE, ext |-> FALSE, pulses |-> 0]

CurAfter(b) ==
    [bytes   |-> Append(cur.bytes, b.data),
     stalled |-> cur.stalled \/ table_full,
     ext     |-> cur.ext \/ b.abandon,
     pulses  |-> cur.pulses + (IF packet_lost(b) THEN 1 ELSE 0)]

Observe(b, pop) ==
    /\ cur' = IF ~b.valid THEN cur ELSE IF b.last THEN NoPacket ELSE CurAfter(b)
    /\ hist' = PushPop(hist, commit_pkt(b), CurAfter(b), pop)

\* A packet on the wire has at most MaxPktLen bytes.
StreamMayDeliver(b) == b.valid /\ ~b.last => Len(cur.bytes) + 1 < MaxPktLen

-----------------------------------------------------------------------------
Init ==
    /\ buf_write_ptr = 0
    /\ current_packet_head_ptr = 0
    /\ abandon_sticky = FALSE
    /\ table = <<>>
    /\ mem \in [Ptr -> Byte]     \* the RAM is not reset
    /\ cur = NoPacket
    /\ hist = <<>>

Cycle(b, pop) ==
    /\ AbandonSticky(b)
    /\ WrPtrLogic(buf_write(b) \/ abandon_pkt(b), commit_pkt(b), abandon_pkt(b))
    /\ DescriptionTable(b, pop)
    /\ DataRam(b)
    /\ Observe(b, pop)

Next == \E b \in Beat, pop \in BOOLEAN : StreamMayDeliver(b) /\ Cycle(b, pop)

Spec == Init /\ [][Next]_vars

-----------------------------------------------------------------------------
(* Properties. *)

Packet == [bytes : Seq(Byte), stalled : BOOLEAN, ext : BOOLEAN, pulses : 0 .. 1]

\* The registers stay in their ranges: pointers in the buffer, at most Depth
\* descriptors, one history record per descriptor.
TypeOK ==
    /\ buf_write_ptr \in Ptr
    /\ current_packet_head_ptr \in Ptr
    /\ abandon_sticky \in BOOLEAN
    /\ table \in Seq(Descriptor)
    /\ Len(table) <= Depth
    /\ mem \in [Ptr -> Byte]
    /\ cur \in Packet
    /\ hist \in Seq(Packet)
    /\ Len(hist) = Len(table)

\* The bytes a descriptor points at, compared with what the stream delivered:
\* pkt_len bytes from head_ptr on are the last pkt_len bytes of the packet.
HoldsTail(d, p, m) ==
    /\ d.pkt_len \in 1 .. Len(p.bytes)
    /\ \A i \in 1 .. d.pkt_len :
          m[PtrAdd(d.head_ptr, i - 1)] = p.bytes[Len(p.bytes) - d.pkt_len + i]

Intact(t, g, m) ==
    \A k \in 1 .. Len(t) :
        /\ HoldsTail(t[k], g[k], m)
        /\ ~g[k].stalled => t[k].pkt_len = Len(g[k].bytes)

\* Every committed packet that is still in the table can be read back: its
\* extent in the RAM holds the bytes the stream delivered, uninterrupted up to
\* the last one, whatever was written, abandoned, wrapped or popped since, and
\* it is complete unless a byte of it arrived while the table was full.
CommittedIntact == Intact(table, hist, mem)

\* A packet in the RX buffer is complete, whatever the table did while the
\* packet arrived.
NoIncompletePacket ==
    \A k \in 1 .. Len(table) : table[k].pkt_len = Len(hist[k].bytes)

\* Whatever last beat arrives now: the packet is committed exactly when nobody
\* abandoned it and no packet_lost pulse was given for it, and a packet dropped
\* for lack of space gives exactly one pulse, not one per byte.
LostExactlyOnce ==
    \A b \in Beat : b.valid /\ b.last =>
        LET p == CurAfter(b)
        IN  /\ p.pulses <= 1
            /\ commit_pkt(b) <=> (p.pulses = 0 /\ ~p.ext)

\* BufAlmostFullWhenFull_A: a buffer that is full warns that it is almost full,
\* although the warning does not count the packet being captured.
BufAlmostFullWhenFull == buf_full => buf_almost_full

-----------------------------------------------------------------------------
(* Refinement: what is read back through the descriptors is a queue of     *)
(* byte strings.                                                           *)

\* The n bytes found in the RAM m from p on.
ReadBack(m, p, n) == [i \in 1 .. n |-> m[PtrAdd(p, i - 1)]]

PacketsOf(t, m) ==
    [k \in 1 .. Len(t) |-> [metadata |-> t[k].metadata,
                            bytes |-> ReadBack(m, t[k].head_ptr, t[k].pkt_len)]]

\* Bytes from the oldest packet of t to the head h of the next one.
UsedBytes(t, h) ==
    IF t = <<>> THEN 0
    ELSE IF h = t[1].head_ptr THEN BufBytes ELSE PtrSub(h, t[1].head_ptr)

Store == INSTANCE PacketStore WITH
    Capacity <- BufBytes,
    kept     <- ReadBack(mem, current_packet_head_ptr,
                         PtrSub(buf_write_ptr, current_packet_head_ptr)),
    refused  <- abandon_sticky,
    q        <- PacketsOf(table, mem),
    used     <- UsedBytes(table, current_packet_head_ptr)

\* Pointers, wrapping, falling back and the shared RAM are invisible: what can be
\* read back through the table is at every cycle the queue of byte strings that
\* PacketStore describes, in which a packet is refused for lack of space exactly
\* when the packets held fill the buffer.
ImplementsStore == Store!Spec

-----------------------------------------------------------------------------
(* The inductive invariant. *)

\* Distance from the oldest descriptor of t, 1..BufBytes for the end of data.
Offset(t, p)    == PtrSub(p, t[1].head_ptr)
EndOffset(t, p) == IF p = t[1].head_ptr THEN BufBytes ELSE Offset(t, p)

\* Bytes of the packet in progress that are in the buffer.
Written(h, w) == PtrSub(w, h)

\* Going round from the oldest packet, the packets of t do not overlap, the
\* packet in progress (from h up to w) comes after all of them and does not
\* reach the oldest.
Layout(t, h, w) ==
    /\ \A k \in 1 .. Len(t) : t[k].pkt_len >= 1
    /\ \A j, k \in 1 .. Len(t) : j < k =>
          Offset(t, t[j].head_ptr) + t[j].pkt_len <= Offset(t, t[k].head_ptr)
    /\ \A k \in 1 .. Len(t) :
          Offset(t, t[k].head_ptr) + t[k].pkt_len <= EndOffset(t, h)
    /\ t # <<>> => EndOffset(t, w) = EndOffset(t, h) + Written(h, w)

\* The packet in progress: as long as it is not abandoned, the buffer holds
\* the bytes that arrived since the first one that was stored.
InProgress(h, w, m, p) ==
    /\ Written(h, w) <= Len(p.bytes)
    /\ ~p.stalled => Written(h, w) = Len(p.bytes)
    /\ \A i \in 1 .. Written(h, w) :
          m[PtrAdd(h, i - 1)] = p.bytes[Len(p.bytes) - Written(h, w) + i]

\* Once a byte of a packet is stored, the table cannot be full before its end:
\* this is why the stored bytes are contiguous.
StoredMeansRoom == Written(current_packet_head_ptr, buf_write_ptr) > 0 => Len(table) < Depth

StickyMeaning == abandon_sticky <=> (cur.pulses = 1 \/ cur.ext)

\* Packets lie one directly after the other: abandoned ones leave no gap.
Contiguous(t, h) ==
    \A k \in 1 .. Len(t) :
        PtrAdd(t[k].head_ptr, t[k].pkt_len) = IF k = Len(t) THEN h ELSE t[k + 1].head_ptr

NoGaps == Contiguous(table, current_packet_head_ptr)

IInv ==
    /\ TypeOK
    /\ Len(cur.bytes) < MaxPktLen
    /\ Written(current_packet_head_ptr, buf_write_ptr) <= Len(cur.bytes)
    /\ Layout(table, current_packet_head_ptr, buf_write_ptr)
    /\ ~abandon_sticky => InProgress(current_packet_head_ptr, buf_write_ptr, mem, cur)
    /\ StoredMeansRoom
    /\ StickyMeaning
    /\ CommittedIntact
=============================================================================
