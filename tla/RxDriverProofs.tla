--------------------------- MODULE RxDriverProofs ---------------------------
(***************************************************************************)
(* Proofs about the receiving half of the driver (module RxDriver) on top  *)
(* of the ring buffer's invariant (RingBufferProofs): for every word width *)
(* and buffer size, read_and_pop pops the packet that it copied, and it    *)
(* copies the bytes that were received although packets keep arriving and  *)
(* read_byte may serve bytes from a word that it read long before.         *)
(***************************************************************************)
EXTENDS RxDriver, RingBufferProofs, SequenceTheorems

-----------------------------------------------------------------------------
(* The driver leaves the ring buffer as it is. *)

\* Every step of the driver is a cycle of the ring buffer.
LEMMA DriverNextIsNext == DriverNext => Next
  BY DEF DriverNext, DriverBeat, Wait, Pending, ReadMetadata, Peek, CopyByte, EndPeek, PopPacket,
         Hardware, Next

\* The driver on the ring buffer implements the ring buffer, so that what is
\* proved of every use of it holds for the use the driver makes of it.
THEOREM DriverImplementsRing == DriverSpec => Spec
<1>1. DriverInit => Init
  BY DEF DriverInit
<1>2. [DriverNext]_driverVars => [Next]_vars
  BY DriverNextIsNext DEF driverVars
<1> QED
  BY <1>1, <1>2, PTL DEF DriverSpec, Spec

\* With the driver popping, the buffer is still the queue of byte strings of
\* PacketStore.
THEOREM DriverImplementsStore == DriverSpec => ImplementsStore
  BY DriverImplementsRing, RingBufferImplementsStore

-----------------------------------------------------------------------------
(* The oldest packet while nobody pops. *)

\* The descriptor of a packet, its place and what was received.
LEMMA PacketFields ==
    ASSUME IInv, NEW k \in 1 .. Len(table)
    PROVE  /\ table[k].head_ptr \in Ptr /\ table[k].head_ptr \in Nat
           /\ table[k].pkt_len \in Nat /\ table[k].pkt_len >= 1
           /\ hist[k].bytes \in Seq(Byte) /\ Len(hist[k].bytes) \in Nat
           /\ table[k].pkt_len <= Len(hist[k].bytes)
           /\ HoldsTail(table[k], hist[k], mem)
<1>1. /\ table \in Seq(Descriptor) /\ hist \in Seq(Packet) /\ Len(hist) = Len(table)
      /\ Intact(table, hist, mem)
  BY DEF IInv, TypeOK, CommittedIntact
<1>2. table[k] \in Descriptor /\ hist[k] \in Packet
  BY <1>1
<1>3. HoldsTail(table[k], hist[k], mem)
  BY <1>1 DEF Intact
<1>4. hist[k].bytes \in Seq(Byte) /\ Len(hist[k].bytes) \in Nat
  BY <1>2 DEF Packet
<1>5. table[k].head_ptr \in Ptr /\ table[k].head_ptr \in Nat /\ table[k].pkt_len \in Nat
  BY <1>2, BufferAssumption DEF Descriptor, Ptr
<1>6. table[k].pkt_len \in 1 .. Len(hist[k].bytes)
  BY <1>3 DEF HoldsTail
<1> QED
  BY <1>3, <1>4, <1>5, <1>6

\* The same of the oldest packet.
LEMMA OldestFields ==
    ASSUME IInv, table # <<>>
    PROVE  /\ 1 \in 1 .. Len(table)
           /\ table[1].head_ptr \in Ptr /\ table[1].head_ptr \in Nat
           /\ table[1].pkt_len \in Nat /\ table[1].pkt_len >= 1
           /\ hist[1].bytes \in Seq(Byte) /\ Len(hist[1].bytes) \in Nat
           /\ table[1].pkt_len <= Len(hist[1].bytes)
           /\ HoldsTail(table[1], hist[1], mem)
<1>1. 1 \in 1 .. Len(table)
  BY DEF IInv, TypeOK
<1> QED
  BY <1>1, PacketFields

\* The stored part of a packet is as long as its descriptor says.
LEMMA StoredBytes ==
    ASSUME IInv, NEW k \in 1 .. Len(table)
    PROVE  /\ Stored(table[k], hist[k]) \in Seq(Byte)
           /\ Len(Stored(table[k], hist[k])) = table[k].pkt_len
           /\ \A i \in 1 .. table[k].pkt_len :
                 Stored(table[k], hist[k])[i] = hist[k].bytes[Len(hist[k].bytes) - table[k].pkt_len + i]
<1> DEFINE s == hist[k].bytes
           n == Len(s)
           l == table[k].pkt_len
           m == n - l + 1
<1>1. s \in Seq(Byte) /\ n \in Nat /\ l \in Nat /\ l >= 1 /\ l <= n
  BY PacketFields
<1>2. Stored(table[k], hist[k]) = SubSeq(s, m, n)
  BY DEF Stored
<1> HIDE DEF l
<1>3. m \in Int /\ n \in Int /\ m <= n /\ n - m + 1 = l /\ \A i \in m .. n : i \in 1 .. n
  BY <1>1
<1>4. \A i \in m .. n : s[i] \in Byte
  BY <1>1, <1>3
<1> HIDE DEF s, n, m
<1>5. /\ SubSeq(s, m, n) \in Seq(Byte)
      /\ Len(SubSeq(s, m, n)) = l
      /\ \A i \in 1 .. l : SubSeq(s, m, n)[i] = s[m + i - 1]
  BY <1>3, <1>4, SubSeqProperties
<1>6. \A i \in 1 .. l : m + i - 1 = n - l + i
  BY <1>1 DEF m
<1> QED
  BY <1>2, <1>5, <1>6 DEF s, n, l

\* A cycle without a pop leaves the oldest packet the oldest, and its bytes in place.
LEMMA OldestStays ==
    ASSUME IInv, NEW b \in Beat, Hardware(b, FALSE), table # <<>>
    PROVE  /\ table' # <<>> /\ table'[1] = table[1] /\ hist'[1] = hist[1]
           /\ \A a \in OldestExtent : mem'[a] = mem[a]
           /\ OldestExtent' = OldestExtent
<1>1. /\ table \in Seq(Descriptor) /\ hist \in Seq(Packet) /\ Len(hist) = Len(table)
      /\ Layout(table, current_packet_head_ptr, buf_write_ptr)
      /\ current_packet_head_ptr \in Ptr /\ buf_write_ptr \in Ptr /\ mem \in [Ptr -> Byte]
  BY DEF IInv, TypeOK
<1>2. 1 \in 1 .. Len(table) /\ hist # <<>>
  BY <1>1
<1>3. /\ table' = IF commit_pkt(b) /\ ~table_full THEN Append(table, current_pkt_desc(b)) ELSE table
      /\ hist' = IF commit_pkt(b) THEN Append(hist, CurAfter(b)) ELSE hist
  BY DEF Hardware, Cycle, DescriptionTable, Observe, PushPop
<1>4. table' # <<>> /\ table'[1] = table[1]
  <2>1. ASSUME NEW d
        PROVE  Append(table, d) # <<>> /\ Append(table, d)[1] = table[1]
    <3>1. table \in Seq(Descriptor \cup {d})
      BY <1>1
    <3> QED
      BY <1>2, <3>1
  <2> QED
    BY <1>3, <2>1
<1>5. hist'[1] = hist[1]
  <2>1. ASSUME NEW d
        PROVE  Append(hist, d)[1] = hist[1]
    <3>1. hist \in Seq(Packet \cup {d})
      BY <1>1
    <3> QED
      BY <1>1, <1>2, <3>1
  <2> QED
    BY <1>3, <2>1
<1>6. ASSUME NEW a \in OldestExtent
      PROVE  mem'[a] = mem[a]
  <2>1. CASE buf_write(b)
    <3>1. mem' = [mem EXCEPT ![buf_write_ptr] = b.data]
      BY <2>1 DEF Hardware, Cycle, DataRam
    <3>2. /\ buf_write_ptr # table[1].head_ptr
          /\ Written(current_packet_head_ptr, buf_write_ptr) + 1 < BufBytes
      BY <2>1, StoredBeat
    <3> DEFINE i == a - table[1].head_ptr + 1
    <3>3. /\ a \in Nat /\ a < BufBytes /\ i \in 1 .. table[1].pkt_len /\ i - 1 \in Ptr
          /\ table[1].head_ptr \in Ptr /\ table[1].head_ptr + (i - 1) = a
      <4> DEFINE h == table[1].head_ptr
                 n == table[1].pkt_len
      <4>1. h \in Ptr /\ h \in Nat /\ n \in Nat
        BY OldestFields
      <4>2. a \in Ptr /\ h <= a /\ a < h + n
        BY DEF OldestExtent
      <4> HIDE DEF h, n
      <4>3. /\ a \in Nat /\ a < BufBytes /\ (a - h + 1) \in 1 .. n
            /\ (a - h + 1) - 1 \in Ptr /\ h + ((a - h + 1) - 1) = a
        BY <4>1, <4>2, BufferAssumption DEF Ptr
      <4> QED
        BY <4>1, <4>3 DEF h, n
    <3>4. PtrAdd(table[1].head_ptr, i - 1) = a
      <4> DEFINE h == table[1].head_ptr
      <4>1. h \in Ptr /\ i - 1 \in Ptr /\ h + (i - 1) = a /\ a < BufBytes /\ a \in Nat
        BY <3>3
      <4> HIDE DEF i, h
      <4>2. PtrAdd(h, i - 1) = a
        BY <4>1, PtrAddWraps, BufferAssumption
      <4> QED
        BY <4>2 DEF h
    <3>5. PtrAdd(table[1].head_ptr, i - 1) # buf_write_ptr
      <4> HIDE DEF i
      <4> QED
        BY <1>1, <1>2, <3>2, <3>3, StoreMissesCommitted
    <3> QED
      BY <1>1, <3>1, <3>4, <3>5 DEF OldestExtent
  <2>2. CASE ~buf_write(b)
    BY <2>2 DEF Hardware, Cycle, DataRam
  <2> QED
    BY <2>1, <2>2
<1>7. OldestExtent' = OldestExtent
  BY <1>4 DEF OldestExtent
<1> QED
  BY <1>4, <1>5, <1>6, <1>7

-----------------------------------------------------------------------------
(* The word that read_byte keeps. *)

\* An offset is its word's first offset plus its place in the word.
LEMMA OffsetInWord ==
    ASSUME NEW a \in Nat, NEW q, q = a \div WordBytes, NEW r, r = a % WordBytes
    PROVE  q \in Nat /\ r \in 0 .. WordBytes - 1 /\ q * WordBytes + r = a
<1>1. WordBytes \in Nat /\ WordBytes > 0
  BY DriverAssumption
<1>2. q \in Int /\ r \in Int
  BY <1>1
<1>3. 0 <= r /\ r < WordBytes /\ q >= 0
  BY <1>1, <1>2
<1>4. a = WordBytes * q + r
  BY <1>1, <1>2
<1> QED
  BY <1>1, <1>2, <1>3, <1>4

\* A word that is read agrees with the RAM.
LEMMA ReadWordAt ==
    ASSUME NEW a \in Ptr
    PROVE  ReadWord(a \div WordBytes)[a % WordBytes] = mem[a]
<1>1. a \in Nat /\ a < BufBytes
  BY BufferAssumption DEF Ptr
<1>2. PICK w, k : w = a \div WordBytes /\ k = a % WordBytes
  OBVIOUS
<1>3. k \in 0 .. WordBytes - 1 /\ w * WordBytes + k = a
  BY <1>1, <1>2, OffsetInWord
<1>4. ReadWord(w)[k] = mem[a]
  BY <1>1, <1>3 DEF ReadWord
<1> QED
  BY <1>2, <1>4

\* What a word of the bus holds.
LEMMA ReadWordType ==
    ASSUME TypeOK, NEW w \in Nat
    PROVE  ReadWord(w) \in [0 .. WordBytes - 1 -> Byte \cup {Foreign}]
<1>1. ASSUME NEW k \in 0 .. WordBytes - 1, w * WordBytes + k < BufBytes
      PROVE  mem[w * WordBytes + k] \in Byte
  <2>1. w * WordBytes \in Nat /\ k \in Nat
    BY DriverAssumption
  <2>2. w * WordBytes + k \in Ptr
    BY <1>1, <2>1, BufferAssumption DEF Ptr
  <2> QED
    BY <2>2 DEF TypeOK
<1> QED
  BY <1>1 DEF ReadWord

\* Whether the word is read or was kept, read_byte serves a byte of the oldest
\* packet as it is in the RAM.
LEMMA WordForAt ==
    ASSUME IInv, DriverInv, NEW offset \in Nat, NEW a \in OldestExtent,
           a \div WordBytes = offset \div WordBytes
    PROVE  WordFor(offset)[a % WordBytes] = mem[a]
<1>1. a \in Ptr /\ a \div WordBytes \in Nat
  <2>1. a \in Ptr /\ a \in Nat
    BY BufferAssumption DEF OldestExtent, Ptr
  <2> QED
    BY <2>1, OffsetInWord
<1>2. CASE last_word_offset_read # offset \div WordBytes
  BY <1>1, <1>2, ReadWordAt DEF WordFor
<1>3. CASE last_word_offset_read = offset \div WordBytes
  BY <1>1, <1>3 DEF WordFor, DriverInv, CacheFresh
<1> QED
  BY <1>2, <1>3

-----------------------------------------------------------------------------
(* The driver's invariant. *)

\* It holds when the driver starts.
LEMMA DriverInitInv == DriverInit => DriverInv
<1> SUFFICES ASSUME DriverInit PROVE DriverInv
  OBVIOUS
<1>1. DriverTypeOK
  BY DEF DriverInit, DriverTypeOK, NoWord
<1> QED
  BY <1>1 DEF DriverInit, DriverInv, CacheFresh, CopiesOldest, PopsPacketRead, ReadsPacket

\* A cycle without a pop keeps what is known of a word that is kept.
LEMMA CacheKept ==
    ASSUME IInv, DriverInv, NEW b \in Beat, Hardware(b, FALSE), UNCHANGED cacheVars
    PROVE  CacheFresh'
<1> SUFFICES ASSUME last_word_offset_read' # -1
             PROVE  /\ table' # <<>>
                    /\ \A a \in OldestExtent' :
                          a \div WordBytes = last_word_offset_read'
                              => word'[a % WordBytes] = mem'[a]
  BY DEF CacheFresh
<1>1. UNCHANGED <<last_word_offset_read, word>>
  BY DEF cacheVars
<1>2. /\ table # <<>>
      /\ \A a \in OldestExtent :
            a \div WordBytes = last_word_offset_read => word[a % WordBytes] = mem[a]
  BY <1>1 DEF DriverInv, CacheFresh
<1> QED
  BY <1>1, <1>2, OldestStays

\* The hardware alone does not disturb the loop.
LEMMA LoopKept ==
    ASSUME IInv, DriverInv, NEW b \in Beat, Hardware(b, FALSE), UNCHANGED <<pc, loopVars>>
    PROVE  /\ pc' # "idle" => table' # <<>>
           /\ CopiesOldest' /\ PopsPacketRead' /\ ReadsPacket'
<1>1. UNCHANGED <<pc, packet_pointer, packet_end, data, wanted>>
  BY DEF loopVars
<1>2. CASE pc = "idle"
  BY <1>1, <1>2 DEF CopiesOldest, PopsPacketRead, ReadsPacket
<1>3. CASE pc # "idle"
  <2>1. table # <<>>
    BY <1>3 DEF DriverInv
  <2>2. table' # <<>> /\ table'[1] = table[1] /\ hist'[1] = hist[1]
    BY <2>1, OldestStays
  <2>3. CopiesOldest'
    BY <1>1, <2>2 DEF DriverInv, CopiesOldest
  <2>4. PopsPacketRead'
    BY <1>1, <2>2 DEF DriverInv, PopsPacketRead, Stored
  <2>5. ReadsPacket'
    BY <1>1 DEF DriverInv, ReadsPacket, Copied
  <2> QED
    BY <2>2, <2>3, <2>4, <2>5
<1> QED
  BY <1>2, <1>3

\* Looking up a descriptor sets the loop up in its range.
LEMMA MetadataType ==
    ASSUME IInv, DriverInv, NEW k \in 1 .. Len(table), GetMetadata(k),
           pc' \in {"copy", "peek"}
    PROVE  DriverTypeOK'
<1>1. packet_pointer' \in Nat /\ packet_end' \in Nat /\ wanted' \in Seq(Byte)
  <2>1. table[k].head_ptr \in Nat /\ table[k].pkt_len \in Nat
    BY PacketFields
  <2>2. Stored(table[k], hist[k]) \in Seq(Byte)
    BY StoredBytes
  <2> QED
    BY <2>1, <2>2 DEF GetMetadata
<1>2. data' \in Seq(Byte \cup {Foreign})
  BY DEF GetMetadata
<1>3. UNCHANGED <<last_word_offset_read, word>>
  BY DEF GetMetadata, cacheVars
<1> QED
  BY <1>1, <1>2, <1>3 DEF DriverInv, DriverTypeOK

\* read_and_pop begins to copy the oldest packet.
LEMMA ReadMetadataInv ==
    ASSUME IInv, DriverInv, NEW b \in Beat, ReadMetadata(b)
    PROVE  DriverInv'
<1>1. table # <<>> /\ Hardware(b, FALSE) /\ UNCHANGED cacheVars
  BY DEF ReadMetadata, GetMetadata, DriverInv
<1>2. table' # <<>> /\ table'[1] = table[1] /\ hist'[1] = hist[1]
  BY <1>1, OldestStays
<1>3. DriverTypeOK'
  BY <1>1, OldestFields, MetadataType DEF ReadMetadata
<1>4. CopiesOldest'
  <2>1. table[1].head_ptr \in Nat /\ table[1].pkt_len \in Nat
    BY <1>1, OldestFields
  <2>2. data' = <<>> /\ Len(data') = 0
    BY DEF ReadMetadata, GetMetadata
  <2> QED
    BY <1>2, <2>1, <2>2 DEF ReadMetadata, GetMetadata, CopiesOldest
<1>5. PopsPacketRead'
  BY <1>2 DEF ReadMetadata, GetMetadata, PopsPacketRead, Stored
<1>6. ReadsPacket'
  BY DEF ReadMetadata, GetMetadata, ReadsPacket, Copied
<1> QED
  BY <1>1, <1>2, <1>3, <1>4, <1>5, <1>6, CacheKept DEF DriverInv

\* Looking at a packet needs a packet, and the loop is not that of read_and_pop.
LEMMA PeekInv ==
    ASSUME IInv, DriverInv, NEW b \in Beat, NEW k \in 1 .. Len(table), Peek(b, k)
    PROVE  DriverInv'
<1>1. table # <<>> /\ Hardware(b, FALSE) /\ UNCHANGED cacheVars
  <2>1. table # <<>>
    BY DEF IInv, TypeOK
  <2> QED
    BY <2>1 DEF Peek, GetMetadata
<1>2. table' # <<>>
  BY <1>1, OldestStays
<1>3. DriverTypeOK'
  BY MetadataType DEF Peek
<1> QED
  BY <1>1, <1>2, <1>3, CacheKept DEF Peek, DriverInv, CopiesOldest, PopsPacketRead, ReadsPacket

\* A byte that read_and_pop copies is the next byte of the packet, from the RAM or
\* from the word that was kept.
LEMMA CopyByteRight ==
    ASSUME IInv, DriverInv, NEW b \in Beat, CopyByte(b), pc = "copy", packet_end <= BufBytes
    PROVE  Copied'
<1> DEFINE n == Len(data)
           h == table[1].head_ptr
           l == table[1].pkt_len
           p == packet_pointer
           g == hist[1].bytes
<1>1. table # <<>>
  BY DEF DriverInv
<1>2. /\ h \in Ptr /\ h \in Nat /\ l \in Nat /\ n \in Nat /\ p \in Nat /\ packet_end \in Nat
      /\ data \in Seq(Byte \cup {Foreign}) /\ 1 \in 1 .. Len(table)
  BY <1>1, OldestFields DEF DriverInv, DriverTypeOK
<1>3. p = h + n /\ packet_end = h + l /\ wanted = Stored(table[1], hist[1]) /\ p < packet_end
  BY DEF DriverInv, CopiesOldest, PopsPacketRead, CopyByte
<1>4. p \in OldestExtent /\ n + 1 \in 1 .. l /\ n \in Ptr /\ p < BufBytes
  <2> HIDE DEF n, h, l, p
  <2>1. n + 1 \in 1 .. l /\ p < BufBytes /\ p \in Ptr /\ n \in Ptr /\ h <= p /\ p < h + l
    BY <1>2, <1>3, BufferAssumption DEF Ptr
  <2> QED
    BY <2>1 DEF OldestExtent, h, l
<1>5. WordFor(p)[p % WordBytes] = mem[p]
  BY <1>2, <1>4, WordForAt
<1>6. mem[p] = g[Len(g) - l + (n + 1)]
  <2>1. mem[PtrAdd(h, (n + 1) - 1)] = g[Len(g) - l + (n + 1)]
    BY <1>1, <1>4, OldestFields DEF HoldsTail
  <2>2. PtrAdd(h, (n + 1) - 1) = p
    <3> HIDE DEF n, h, l, p
    <3>1. (n + 1) - 1 = n
      BY <1>2
    <3>2. PtrAdd(h, n) = p
      BY <1>2, <1>3, <1>4, PtrAddWraps, BufferAssumption
    <3> QED
      BY <3>1, <3>2
  <2> QED
    BY <2>1, <2>2
<1>7. wanted[n + 1] = g[Len(g) - l + (n + 1)]
  BY <1>2, <1>3, <1>4, StoredBytes
<1>8. data' = Append(data, WordFor(p)[p % WordBytes]) /\ wanted' = wanted
  BY DEF CopyByte, ReadByte
<1>9. \A k \in 1 .. n : data[k] = wanted[k]
  BY DEF DriverInv, ReadsPacket, Copied
<1> DEFINE v == WordFor(p)[p % WordBytes]
<1>10. v = wanted[n + 1]
  BY <1>5, <1>6, <1>7
<1> HIDE DEF v
<1>11. \A k \in 1 .. Len(Append(data, v)) : Append(data, v)[k] = wanted[k]
  <2>1. data \in Seq(Byte \cup {Foreign, v})
    BY <1>2
  <2>2. /\ Len(Append(data, v)) = n + 1
        /\ \A k \in 1 .. n : Append(data, v)[k] = data[k]
        /\ Append(data, v)[n + 1] = v
    BY <2>1
  <2> QED
    BY <1>2, <1>9, <1>10, <2>2
<1> QED
  BY <1>8, <1>11 DEF Copied, v

\* Copying a byte keeps the driver's invariant.
LEMMA CopyByteInv ==
    ASSUME IInv, DriverInv, NEW b \in Beat, CopyByte(b)
    PROVE  DriverInv'
<1> DEFINE p == packet_pointer
           q == p \div WordBytes
<1>1. /\ table # <<>> /\ Hardware(b, FALSE) /\ p \in Nat /\ pc # "idle"
      /\ UNCHANGED <<pc, packet_end, wanted>> /\ packet_pointer' = p + 1
      /\ p < packet_end /\ packet_end \in Nat
  BY DEF CopyByte, DriverInv, DriverTypeOK
<1>2. /\ table' # <<>> /\ table'[1] = table[1] /\ hist'[1] = hist[1]
      /\ \A a \in OldestExtent : mem'[a] = mem[a]
      /\ OldestExtent' = OldestExtent
  BY <1>1, OldestStays
<1>3. /\ word' = WordFor(p) /\ last_word_offset_read' = q
      /\ data' = Append(data, WordFor(p)[p % WordBytes])
  BY DEF CopyByte, ReadByte
<1>4. q \in Nat /\ p % WordBytes \in 0 .. WordBytes - 1
  BY <1>1, OffsetInWord
<1>5. WordFor(p) \in [0 .. WordBytes - 1 -> Byte \cup {Foreign}]
  BY <1>4, ReadWordType DEF WordFor, DriverInv, DriverTypeOK, IInv
<1>6. WordFor(p)[p % WordBytes] \in Byte \cup {Foreign}
  BY <1>4, <1>5
<1> DEFINE v == WordFor(p)[p % WordBytes]
<1> HIDE DEF v
<1>7. /\ data' \in Seq(Byte \cup {Foreign}) /\ Len(data') = Len(data) + 1 /\ Len(data) \in Nat
  <2>1. data \in Seq(Byte \cup {Foreign}) /\ v \in Byte \cup {Foreign}
    BY <1>6 DEF v, DriverInv, DriverTypeOK
  <2>2. data' = Append(data, v)
    BY <1>3 DEF v
  <2> QED
    BY <2>1, <2>2
<1>8. DriverTypeOK'
  BY <1>1, <1>3, <1>4, <1>5, <1>7 DEF DriverInv, DriverTypeOK
<1>9. CacheFresh'
  <2> SUFFICES ASSUME NEW a \in OldestExtent', a \div WordBytes = last_word_offset_read'
               PROVE  word'[a % WordBytes] = mem'[a]
    BY <1>2 DEF CacheFresh
  <2> QED
    BY <1>1, <1>2, <1>3, WordForAt
<1>10. ASSUME pc = "copy"
       PROVE  CopiesOldest'
  <2>1. table[1].head_ptr \in Nat /\ p = table[1].head_ptr + Len(data)
    BY <1>1, <1>10, OldestFields DEF DriverInv, CopiesOldest
  <2> QED
    BY <1>1, <1>2, <1>7, <2>1 DEF CopiesOldest
<1>11. PopsPacketRead'
  BY <1>1, <1>2 DEF DriverInv, PopsPacketRead, Stored
<1>12. ReadsPacket'
  BY <1>1, CopyByteRight DEF ReadsPacket
<1> QED
  BY <1>1, <1>2, <1>8, <1>9, <1>10, <1>11, <1>12 DEF DriverInv, CopiesOldest

\* A call that returns, popping the packet or not, leaves no loop behind.
LEMMA ReturnType ==
    ASSUME DriverInv, Return, UNCHANGED cacheVars \/ Invalidate
    PROVE  DriverTypeOK' /\ pc' = "idle"
<1>1. UNCHANGED <<last_word_offset_read, word>> \/ (last_word_offset_read' = -1 /\ word' = NoWord)
  BY DEF cacheVars, Invalidate
<1>2. NoWord \in [0 .. WordBytes - 1 -> Byte \cup {Foreign}]
  BY DEF NoWord
<1>3. <<>> \in Seq(Byte \cup {Foreign}) /\ <<>> \in Seq(Byte)
  OBVIOUS
<1> QED
  BY <1>1, <1>2, <1>3 DEF Return, DriverInv, DriverTypeOK

\* Every step keeps the driver's invariant, the ring buffer's given.
LEMMA DriverNextInv == IInv /\ DriverInv /\ [DriverNext]_driverVars => DriverInv'
<1> SUFFICES ASSUME IInv, DriverInv, [DriverNext]_driverVars PROVE DriverInv'
  OBVIOUS
<1>1. ASSUME NEW b \in DriverBeat, Wait(b) PROVE DriverInv'
  <2>1. b \in Beat /\ Hardware(b, FALSE) /\ UNCHANGED <<pc, loopVars>> /\ UNCHANGED cacheVars
    BY <1>1 DEF DriverBeat, Wait
  <2>2. DriverTypeOK'
    BY <2>1 DEF loopVars, cacheVars, DriverInv, DriverTypeOK
  <2> QED
    BY <2>1, <2>2, LoopKept, CacheKept DEF DriverInv
<1>2. ASSUME NEW b \in DriverBeat, Pending(b) PROVE DriverInv'
  <2>1. /\ b \in Beat /\ Hardware(b, FALSE) /\ UNCHANGED cacheVars /\ table # <<>>
        /\ pc' = "metadata" /\ UNCHANGED loopVars
    BY <1>2 DEF DriverBeat, Pending, empty
  <2>2. DriverTypeOK'
    BY <2>1 DEF loopVars, cacheVars, DriverInv, DriverTypeOK
  <2> QED
    BY <2>1, <2>2, OldestStays, CacheKept
       DEF DriverInv, CopiesOldest, PopsPacketRead, ReadsPacket
<1>3. ASSUME NEW b \in DriverBeat, ReadMetadata(b) PROVE DriverInv'
  BY <1>3, ReadMetadataInv DEF DriverBeat
<1>4. ASSUME NEW b \in DriverBeat, NEW k \in 1 .. Len(table), Peek(b, k) PROVE DriverInv'
  BY <1>4, PeekInv DEF DriverBeat
<1>5. ASSUME NEW b \in DriverBeat, CopyByte(b) PROVE DriverInv'
  BY <1>5, CopyByteInv DEF DriverBeat
<1>6. ASSUME NEW b \in DriverBeat, EndPeek(b) PROVE DriverInv'
  <2>1. b \in Beat /\ Hardware(b, FALSE) /\ UNCHANGED cacheVars /\ Return
    BY <1>6 DEF DriverBeat, EndPeek
  <2> QED
    BY <2>1, ReturnType, CacheKept DEF DriverInv, CopiesOldest, PopsPacketRead, ReadsPacket
<1>7. ASSUME NEW b \in DriverBeat, PopPacket(b) PROVE DriverInv'
  <2>1. Return /\ Invalidate
    BY <1>7 DEF PopPacket
  <2>2. CacheFresh'
    BY <2>1 DEF Invalidate, CacheFresh
  <2> QED
    BY <2>1, <2>2, ReturnType DEF DriverInv, CopiesOldest, PopsPacketRead, ReadsPacket
<1>8. ASSUME UNCHANGED driverVars PROVE DriverInv'
  <2>1. UNCHANGED <<pc, packet_pointer, packet_end, data, wanted, last_word_offset_read, word,
                    table, hist, mem>>
    BY <1>8 DEF driverVars, vars, loopVars, cacheVars
  <2> QED
    BY <2>1 DEF DriverInv, DriverTypeOK, CacheFresh, OldestExtent, CopiesOldest, PopsPacketRead,
                Stored, ReadsPacket, Copied
<1> QED
  BY <1>1, <1>2, <1>3, <1>4, <1>5, <1>6, <1>7, <1>8 DEF DriverNext

-----------------------------------------------------------------------------
(* The theorems. *)

\* The invariants of the ring buffer and of the driver hold throughout.
THEOREM DriverInvariant == DriverSpec => [](IInv /\ DriverInv)
<1>1. DriverSpec => []IInv
  BY DriverImplementsRing, RingBufferInvariant, PTL
<1> QED
  BY <1>1, DriverInitInv, DriverNextInv, PTL DEF DriverSpec

\* read_and_pop returns the bytes the oldest packet was received with, if the packet
\* does not run over the end of the buffer: no packet that arrives meanwhile and no
\* word that is still kept from an earlier call can spoil them.
THEOREM DriverReadsPacket == DriverSpec => []ReadsPacket
<1>1. DriverInv => ReadsPacket
  BY DEF DriverInv
<1> QED
  BY <1>1, DriverInvariant, PTL

\* The packet that read_and_pop pops is the one that it copied.
THEOREM DriverPopsPacketRead == DriverSpec => []PopsPacketRead
<1>1. DriverInv => PopsPacketRead
  BY DEF DriverInv
<1> QED
  BY <1>1, DriverInvariant, PTL
=============================================================================
