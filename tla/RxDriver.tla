------------------------------ MODULE RxDriver ------------------------------
(***************************************************************************)
(* The receiving half of the driver (ethernet.c) on top of the packet ring *)
(* buffer: ethernet_read_and_pop_oldest_packet, and the low-level calls    *)
(* that look at a packet without popping it (metadata_get followed by      *)
(* read_packet_data_raw) or pop one unread.  The RX buffer is read a word  *)
(* at a time; read_byte keeps the latest word in a static variable.        *)
(*                                                                         *)
(* Packets keep arriving: every step of the driver takes one clock cycle   *)
(* of the hardware, with any beat b on the stream, and any number of       *)
(* cycles passes between two of them (Wait).  A pop may come in any cycle  *)
(* in which no call is under way, so that the ring buffer is as free as in *)
(* its own specification.                                                  *)
(***************************************************************************)
EXTENDS RingBuffer

CONSTANTS
    WordBytes,      \* bytes in a word of the bus (8)
    Foreign,        \* what a byte beyond the RX buffer reads as
    Garbage         \* what tdata shows without tvalid

ASSUME DriverAssumption ==
    /\ WordBytes \in Nat \ {0} /\ BufBytes % WordBytes = 0
    /\ Foreign \notin Byte /\ Garbage \in Byte

VARIABLES
    pc,                     \* "idle", "metadata", "copy" or, without a pop to follow, "peek"
    packet_pointer, packet_end,
    data,                   \* the bytes copied so far
    last_word_offset_read,  \* -1 if the word is not valid
    word,
    wanted                  \* history: the bytes the packet was received with

loopVars == <<packet_pointer, packet_end, data, wanted>>
cacheVars == <<last_word_offset_read, word>>
driverVars == <<vars, pc, loopVars, cacheVars>>

-----------------------------------------------------------------------------
\* The value of word when it is not valid.
NoWord == [k \in 0 .. WordBytes - 1 |-> Foreign]

\* ethernet_rx_buffer_read64.  After the RX buffer come the descriptor table and
\* then addresses that no device answers.
ReadWord(w) ==
    [k \in 0 .. WordBytes - 1 |->
        LET a == w * WordBytes + k IN IF a < BufBytes THEN mem[a] ELSE Foreign]

WordFor(offset) ==
    IF last_word_offset_read # offset \div WordBytes THEN ReadWord(offset \div WordBytes)
    ELSE word

\* ethernet_rx_buffer_read_byte
ReadByte(offset) ==
    /\ word' = WordFor(offset)
    /\ last_word_offset_read' = offset \div WordBytes
    /\ data' = Append(data, WordFor(offset)[offset % WordBytes])

Stored(d, p) == SubSeq(p.bytes, Len(p.bytes) - d.pkt_len + 1, Len(p.bytes))

\* ethernet_rx_buffer_metadata_get and the set-up of the copy loop.
GetMetadata(k) ==
    /\ packet_pointer' = table[k].head_ptr
    /\ packet_end' = table[k].head_ptr + table[k].pkt_len
    /\ data' = <<>>
    /\ wanted' = Stored(table[k], hist[k])
    /\ UNCHANGED cacheVars

\* The variables of the loop are gone when the call returns.
Return ==
    /\ pc' = "idle"
    /\ packet_pointer' = 0 /\ packet_end' = 0 /\ data' = <<>> /\ wanted' = <<>>

-----------------------------------------------------------------------------
DriverInit ==
    /\ Init
    /\ pc = "idle"
    /\ packet_pointer = 0 /\ packet_end = 0 /\ data = <<>> /\ wanted = <<>>
    /\ last_word_offset_read = -1
    /\ word = NoWord

Hardware(b, pop) == StreamMayDeliver(b) /\ Cycle(b, pop)

Wait(b) ==
    /\ Hardware(b, FALSE)
    /\ UNCHANGED <<pc, loopVars, cacheVars>>

\* ethernet_rx_packet_pending; without a packet the call returns at once.
Pending(b) ==
    /\ pc = "idle" /\ ~empty
    /\ pc' = "metadata"
    /\ Hardware(b, FALSE)
    /\ UNCHANGED <<loopVars, cacheVars>>

\* Fault: the packet is popped before it is copied.
ReadMetadataPopsFirst(b) ==
    /\ pc = "metadata"
    /\ pc' = "copy"
    /\ GetMetadata(1)
    /\ Hardware(b, TRUE)
ReadMetadata(b) ==
    /\ pc = "metadata"
    /\ pc' = "copy"
    /\ GetMetadata(1)
    /\ Hardware(b, FALSE)

\* An application looks at the k-th packet and leaves it in the buffer.
Peek(b, k) ==
    /\ pc = "idle"
    /\ pc' = "peek"
    /\ GetMetadata(k)
    /\ Hardware(b, FALSE)

CopyByte(b) ==
    /\ pc \in {"copy", "peek"} /\ packet_pointer < packet_end
    /\ ReadByte(packet_pointer)
    /\ packet_pointer' = packet_pointer + 1
    /\ Hardware(b, FALSE)
    /\ UNCHANGED <<pc, packet_end, wanted>>

EndPeek(b) ==
    /\ pc = "peek" /\ packet_pointer >= packet_end
    /\ Return
    /\ Hardware(b, FALSE)
    /\ UNCHANGED cacheVars

\* Fault: the word read last stays valid.
InvalidateNothing == UNCHANGED cacheVars
\* The word is dead from here on; the code leaves it, the model clears it.
Invalidate ==
    /\ last_word_offset_read' = -1
    /\ word' = NoWord

\* ethernet_rx_pop_packet, at the end of read_and_pop or called on its own, as
\* ethernet_init does for every packet it finds.
PopPacket(b) ==
    /\ \/ pc = "idle"
       \/ pc = "copy" /\ packet_pointer >= packet_end
    /\ Return
    /\ Invalidate
    /\ Hardware(b, TRUE)

\* Without tvalid the ring buffer looks at nothing else: one such beat is enough.
DriverBeat == {b \in Beat : ~b.valid => ~b.last /\ ~b.abandon /\ b.data = Garbage}

DriverNext ==
    \E b \in DriverBeat :
        \/ Wait(b)
        \/ Pending(b)
        \/ ReadMetadata(b)
        \/ \E k \in 1 .. Len(table) : Peek(b, k)
        \/ CopyByte(b)
        \/ EndPeek(b)
        \/ PopPacket(b)

DriverSpec == DriverInit /\ [][DriverNext]_driverVars

-----------------------------------------------------------------------------
(* Properties. *)

Copied == \A k \in 1 .. Len(data) : data[k] = wanted[k]

\* Reading and popping the oldest packet returns the bytes it was received with,
\* whatever arrives meanwhile, and whatever packets were looked at before so that
\* a word of theirs is still kept, if it does not run over the end of the buffer.
ReadsPacket == pc = "copy" /\ packet_end <= BufBytes => Copied

\* The packet popped at the end is the packet that was copied.
PopsPacketRead ==
    pc = "copy" =>
        /\ table # <<>>
        /\ table[1].head_ptr + table[1].pkt_len = packet_end
        /\ Stored(table[1], hist[1]) = wanted

\* The oldest packet is copied, also when it runs over the end of the ring buffer.
ReadsWrappedPacket == pc = "copy" => Copied

\* A packet that is looked at without popping it reads as it was received.
PeeksPacket == pc = "peek" /\ packet_end <= BufBytes => Copied

-----------------------------------------------------------------------------
(* The inductive invariant, besides the ring buffer's. *)

DriverTypeOK ==
    /\ pc \in {"idle", "metadata", "copy", "peek"}
    /\ packet_pointer \in Nat /\ packet_end \in Nat
    /\ data \in Seq(Byte \cup {Foreign}) /\ wanted \in Seq(Byte)
    /\ last_word_offset_read \in Nat \cup {-1}
    /\ word \in [0 .. WordBytes - 1 -> Byte \cup {Foreign}]

\* Where the oldest packet is, as far as it does not run over the end.
OldestExtent ==
    {a \in Ptr : table[1].head_ptr <= a /\ a < table[1].head_ptr + table[1].pkt_len}

\* The word that is kept was read since the last pop.  Whatever became of the rest
\* of it, it agrees with the RAM on the bytes of the oldest packet.
CacheFresh ==
    last_word_offset_read # -1 =>
        /\ table # <<>>
        /\ \A a \in OldestExtent :
              a \div WordBytes = last_word_offset_read => word[a % WordBytes] = mem[a]

\* The loop of read_and_pop is at the oldest packet.
CopiesOldest ==
    pc = "copy" =>
        /\ packet_pointer = table[1].head_ptr + Len(data)
        /\ packet_pointer <= packet_end

DriverInv ==
    /\ DriverTypeOK
    /\ pc # "idle" => table # <<>>
    /\ CacheFresh
    /\ CopiesOldest
    /\ PopsPacketRead
    /\ ReadsPacket
=============================================================================
