-------------------------- MODULE RxFramingProofs ---------------------------
(***************************************************************************)
(* Proofs about the MAC address filter (module MacFilter) and about RX     *)
(* framing (module RxFraming), which puts it in front of the ring buffer.  *)
(* RX framing is shown to implement both of its parts, so what is proved   *)
(* of the filter here and of the ring buffer in RingBufferProofs holds for *)
(* RX framing; what relates the two is proved on top of that.              *)
(***************************************************************************)
EXTENDS RxFraming, TLAPS

RingProofs == INSTANCE RingBufferProofs WITH Metadata <- Reason

-----------------------------------------------------------------------------
(* The filter. *)

\* The verdict is one of the four capture reasons, and it says of each of the
\* three registers that decide it what they hold.
LEMMA VerdictType == capture_reason \in Reason
  BY DEF capture_reason, Reason

\* The packet is rejected exactly when no register still allows a match.
LEMMA RejectMeans ==
    capture_reason = "NON_MAC_MATCH" <=>
        ~could_be.mac_match /\ ~could_be.multicast /\ ~could_be.broadcast
  BY DEF capture_reason

\* After reset nothing was compared.
LEMMA FilterInit == Init => IInv
<1> SUFFICES ASSUME Init PROVE IInv
  OBVIOUS
<1>1. TypeOK
  BY FilterAssumption DEF Init, TypeOK, Undecided
<1>2. Compared
  BY DEF Init, Compared, Undecided
<1> QED
  BY <1>1, <1>2 DEF Init, IInv

\* A cycle keeps the registers and the history in their ranges and together.
LEMMA FilterCycleType ==
    ASSUME IInv, NEW b \in Beat, NEW cfg \in Config, Cycle(b, cfg)
    PROVE  /\ TypeOK'
           /\ n_mac_bytes_checked' = Len(seen')
           /\ seen' = <<>> => steady'
<1> USE FilterAssumption DEF Cycle
<1>1. rx_config' \in Config /\ steady' \in BOOLEAN
  BY DEF Observe
<1>2. b.data \in Byte /\ seen \in Seq(Byte) /\ Len(seen) <= AddrLen
      /\ b.valid \in BOOLEAN /\ b.last \in BOOLEAN
  BY DEF Beat, IInv, TypeOK
<1>3. could_be_next(b.data) \in [broadcast : BOOLEAN, mac_match : BOOLEAN, multicast : BOOLEAN]
  BY DEF could_be_next, could_be_multicast_next, IInv, TypeOK
<1>4. could_be' \in [broadcast : BOOLEAN, mac_match : BOOLEAN, multicast : BOOLEAN]
  <2>1. could_be' \in {Undecided, could_be_next(b.data), could_be}
    BY DEF Filter, filterRegs
  <2>2. Undecided \in [broadcast : BOOLEAN, mac_match : BOOLEAN, multicast : BOOLEAN]
    BY DEF Undecided
  <2> QED
    BY <1>3, <2>1, <2>2 DEF IInv, TypeOK
<1>5. /\ n_mac_bytes_checked' \in 0 .. AddrLen
      /\ n_mac_bytes_checked' = Len(seen')
      /\ seen' \in Seq(Byte) /\ Len(seen') <= AddrLen
  <2>1. CASE b.valid /\ b.last
    BY <2>1 DEF Filter, Observe
  <2>2. CASE b.valid /\ ~b.last
    BY <2>2, <1>2 DEF Filter, Observe, SeenAfter, filterRegs, IInv, TypeOK
  <2>3. CASE ~b.valid
    BY <2>3, <1>2 DEF Filter, Observe, filterRegs, IInv, TypeOK
  <2> QED
    BY <2>1, <2>2, <2>3
<1>6. seen' = <<>> => steady'
  <2>1. CASE b.valid /\ ~b.last
    BY <2>1, <1>2 DEF Observe, SeenAfter
  <2>2. CASE ~(b.valid /\ ~b.last)
    BY <2>2 DEF Observe
  <2> QED
    BY <2>1, <2>2
<1> QED
  BY <1>1, <1>4, <1>5, <1>6 DEF TypeOK

\* While the configuration is steady, a cycle keeps each register equal to the
\* comparison of the bytes seen so far with its pattern.
LEMMA FilterCycleCompares ==
    ASSUME IInv, NEW b \in Beat, NEW cfg \in Config, Cycle(b, cfg), steady'
    PROVE  Compared'
<1> USE FilterAssumption
<1>1. b.data \in Byte /\ seen \in Seq(Byte) /\ Len(seen) <= AddrLen
      /\ b.valid \in BOOLEAN /\ b.last \in BOOLEAN
  BY DEF Beat, IInv, TypeOK
<1>2. CASE b.valid /\ b.last
  BY <1>2 DEF Cycle, Filter, Observe, Undecided, Compared
<1>3. CASE b.valid /\ ~b.last
  <2>1. rx_config' = rx_config /\ steady /\ Compared
    BY <1>3 DEF Cycle, Observe, IInv
  <2>2. CASE Len(seen) < AddrLen
    <3>1. /\ seen' = Append(seen, b.data)
          /\ could_be' = could_be_next(b.data)
          /\ n_mac_bytes_checked = Len(seen)
      BY <1>1, <1>3, <2>2 DEF Cycle, Filter, Observe, SeenAfter, IInv
    <3>2. /\ Len(seen') = Len(seen) + 1
          /\ \A k \in 1 .. Len(seen) : seen'[k] = seen[k]
          /\ seen'[Len(seen) + 1] = b.data
      BY <1>1, <3>1
    <3>3. \A k \in 1 .. Len(seen') : k \in 1 .. Len(seen) \/ k = Len(seen) + 1
      BY <1>1, <3>2
    <3>4. could_be'.mac_match <=> \A k \in 1 .. Len(seen') : seen'[k] = rx_config'.mac_addr[k]
      <4>1. could_be'.mac_match <=> could_be.mac_match
                                      /\ b.data = rx_config.mac_addr[Len(seen) + 1]
        BY <3>1, Zenon DEF could_be_next
      <4>2. could_be.mac_match <=> \A k \in 1 .. Len(seen) : seen[k] = rx_config.mac_addr[k]
        BY <2>1 DEF Compared
      <4> QED
        BY <1>1, <2>1, <3>2, <3>3, <4>1, <4>2
    <3>5. could_be'.broadcast <=> \A k \in 1 .. Len(seen') : seen'[k] = FF
      <4>1. could_be'.broadcast <=> could_be.broadcast /\ b.data = FF
        BY <3>1, Zenon DEF could_be_next
      <4>2. could_be.broadcast <=> \A k \in 1 .. Len(seen) : seen[k] = FF
        BY <2>1 DEF Compared
      <4> QED
        BY <1>1, <3>2, <3>3, <4>1, <4>2
    <3>6. could_be'.multicast <=> \A k \in 1 .. Len(seen') :
                                     k <= PrefixLen => seen'[k] = multicast_address[k]
      <4>1. could_be'.multicast <=>
              could_be.multicast /\ (Len(seen) < PrefixLen => b.data = multicast_address[Len(seen) + 1])
        BY <3>1, Zenon DEF could_be_next, could_be_multicast_next
      <4>2. could_be.multicast <=> \A k \in 1 .. Len(seen) :
                                      k <= PrefixLen => seen[k] = multicast_address[k]
        BY <2>1 DEF Compared
      <4> QED
        BY <1>1, <3>2, <3>3, <4>1, <4>2
    <3> QED
      BY <3>4, <3>5, <3>6 DEF Compared
  <2>3. CASE Len(seen) = AddrLen
    <3>1. UNCHANGED <<seen, could_be>>
      BY <1>3, <2>3 DEF Cycle, Filter, Observe, SeenAfter, filterRegs, IInv
    <3> QED
      BY <2>1, <3>1 DEF Compared
  <2> QED
    BY <1>1, <2>2, <2>3
<1>4. CASE ~b.valid
  <2>1. UNCHANGED <<seen, could_be>> /\ rx_config' = cfg
    BY <1>4 DEF Cycle, Filter, Observe, filterRegs
  <2>2. CASE seen = <<>>
    BY <2>1, <2>2 DEF IInv, Compared
  <2>3. CASE seen # <<>>
    BY <1>4, <2>1, <2>3 DEF Cycle, Observe, IInv, Compared
  <2> QED
    BY <2>2, <2>3
<1> QED
  BY <1>1, <1>2, <1>3, <1>4

\* Every step keeps the filter's invariant.
LEMMA FilterNext == IInv /\ [Next]_vars => IInv'
<1> SUFFICES ASSUME IInv, [Next]_vars PROVE IInv'
  OBVIOUS
<1>1. CASE Next
  BY <1>1, FilterCycleType, FilterCycleCompares DEF Next, IInv
<1>2. CASE UNCHANGED vars
  BY <1>2 DEF vars, filterRegs, IInv, TypeOK, Compared
<1> QED
  BY <1>1, <1>2

\* The invariant of the filter holds throughout.
THEOREM FilterInvariant == Spec => []IInv
  BY FilterInit, FilterNext, PTL DEF Spec

\* The comparison with the whole address decides the capture reason.
LEMMA IInvDecides == IInv => ReasonDecided
<1> SUFFICES ASSUME IInv, steady, Len(seen) = AddrLen
             PROVE  capture_reason = ReasonOf(seen, rx_config.mac_addr)
  BY DEF ReasonDecided
<1>1. Compared
  BY DEF IInv
<1>2. could_be.multicast <=> Multicast(seen)
  BY <1>1, FilterAssumption DEF Compared, Multicast
<1>3. could_be.broadcast <=> Broadcast(seen)
  BY <1>1 DEF Compared, Broadcast
<1>4. could_be.mac_match <=> \A k \in 1 .. AddrLen : seen[k] = rx_config.mac_addr[k]
  BY <1>1 DEF Compared
<1> QED
  BY <1>2, <1>3, <1>4 DEF capture_reason, ReasonOf

\* An address that begins with bytes the filter rejected matches no pattern.
LEMMA RejectsForGood ==
    ASSUME IInv, steady, capture_reason = "NON_MAC_MATCH",
           NEW a, \A k \in 1 .. Len(seen) : a[k] = seen[k]
    PROVE  ReasonOf(a, rx_config.mac_addr) = "NON_MAC_MATCH"
<1>1. Compared /\ Len(seen) \in 0 .. AddrLen
  BY DEF IInv, TypeOK
<1>2. ~could_be.mac_match /\ ~could_be.multicast /\ ~could_be.broadcast
  BY RejectMeans
<1>3. ~Multicast(a)
  BY <1>1, <1>2, FilterAssumption DEF Compared, Multicast
<1>4. ~Broadcast(a)
  BY <1>1, <1>2, FilterAssumption DEF Compared, Broadcast
<1>5. ~\A k \in 1 .. AddrLen : a[k] = rx_config.mac_addr[k]
  BY <1>1, <1>2, FilterAssumption DEF Compared
<1> QED
  BY <1>3, <1>4, <1>5 DEF ReasonOf

\* The filter decides correctly, for addresses and patterns of any length.
THEOREM FilterReasonDecided == Spec => []ReasonDecided
  BY FilterInvariant, IInvDecides, PTL

\* The filter rejects no packet that it may have to keep.
THEOREM FilterNoEarlyReject == Spec => []NoEarlyReject
<1>1. IInv => NoEarlyReject
  BY RejectsForGood DEF NoEarlyReject
<1> QED
  BY <1>1, FilterInvariant, PTL

-----------------------------------------------------------------------------
(* RX framing implements its two parts. *)

\* The beats of RX framing are beats of the filter, and what it hands on with them
\* are beats of the ring buffer.
LEMMA BeatTypes ==
    ASSUME NEW b \in FramingBeat
    PROVE  b \in Beat /\ RingBeat(b) \in Ring!Beat
  BY VerdictType DEF FramingBeat, Beat, RingBeat, Ring!Beat, abandon_packet

\* RX framing implements the filter.
THEOREM FramingImplementsFilter == FramingSpec => Spec
<1>1. FramingInit => Init
  BY DEF FramingInit
<1>2. [FramingNext]_framingVars => [Next]_vars
  BY BeatTypes DEF FramingNext, FramingCycle, framingVars, Next
<1> QED
  BY <1>1, <1>2, PTL DEF FramingSpec, Spec

\* RX framing implements the ring buffer, whose metadata are the capture reasons.
THEOREM FramingImplementsRing == FramingSpec => Ring!Spec
<1>1. FramingInit => Ring!Init
  BY DEF FramingInit
<1>2. [FramingNext]_framingVars => [Ring!Next]_(Ring!vars)
  <2>1. ASSUME NEW b \in FramingBeat, NEW cfg \in Config, NEW pop \in BOOLEAN,
               FramingCycle(b, cfg, pop)
        PROVE  Ring!Next
    <3>1. Ring!StreamMayDeliver(RingBeat(b))
      BY <2>1 DEF FramingCycle, Ring!StreamMayDeliver, RingBeat
    <3> QED
      BY <2>1, <3>1, BeatTypes DEF FramingCycle, Ring!Next
  <2> QED
    BY <2>1 DEF FramingNext, framingVars, ringVars, Ring!vars
<1> QED
  BY <1>1, <1>2, PTL DEF FramingSpec, Ring!Spec

-----------------------------------------------------------------------------
(* The ring buffer within RX framing.  Ring is the instance in RxFraming   *)
(* and RingProofs the one whose theorems are cited; their definitions are  *)
(* the same.                                                               *)

\* The signals of the two instances agree.
LEMMA SameSignals ==
    ASSUME NEW x
    PROVE  /\ Ring!commit_pkt(x) = RingProofs!commit_pkt(x)
           /\ Ring!CurAfter(x) = RingProofs!CurAfter(x)
  BY DEF Ring!commit_pkt, RingProofs!commit_pkt, Ring!abandon_this_packet,
           RingProofs!abandon_this_packet, Ring!buf_full, RingProofs!buf_full,
           Ring!table_full, RingProofs!table_full, Ring!empty, RingProofs!empty,
           Ring!packet_lost, RingProofs!packet_lost, Ring!CurAfter,
           RingProofs!CurAfter

\* The steps of the two instances agree.
LEMMA SameCycle ==
    ASSUME NEW x, NEW pop
    PROVE  Ring!Cycle(x, pop) = RingProofs!Cycle(x, pop)
<1>1. Ring!AbandonSticky(x) = RingProofs!AbandonSticky(x)
  BY DEF Ring!AbandonSticky, RingProofs!AbandonSticky, Ring!packet_lost,
           RingProofs!packet_lost, Ring!buf_full, RingProofs!buf_full,
           Ring!table_full, RingProofs!table_full, Ring!empty, RingProofs!empty
<1>2. /\ Ring!buf_write(x) = RingProofs!buf_write(x)
      /\ Ring!abandon_pkt(x) = RingProofs!abandon_pkt(x)
      /\ Ring!commit_pkt(x) = RingProofs!commit_pkt(x)
  BY DEF Ring!buf_write, RingProofs!buf_write, Ring!abandon_pkt,
           RingProofs!abandon_pkt, Ring!commit_pkt, RingProofs!commit_pkt,
           Ring!abandon_this_packet, RingProofs!abandon_this_packet, Ring!buf_full,
           RingProofs!buf_full, Ring!table_full, RingProofs!table_full, Ring!empty,
           RingProofs!empty
<1>3. Ring!WrPtrLogic(Ring!buf_write(x) \/ Ring!abandon_pkt(x), Ring!commit_pkt(x), Ring!abandon_pkt(x))
      = RingProofs!WrPtrLogic(RingProofs!buf_write(x) \/ RingProofs!abandon_pkt(x),
                              RingProofs!commit_pkt(x), RingProofs!abandon_pkt(x))
  BY <1>2 DEF Ring!WrPtrLogic, RingProofs!WrPtrLogic, Ring!PtrAdd, RingProofs!PtrAdd
<1>4. Ring!DescriptionTable(x, pop) = RingProofs!DescriptionTable(x, pop)
  <2>1. Ring!current_pkt_desc(x) = RingProofs!current_pkt_desc(x)
    BY DEF Ring!current_pkt_desc, RingProofs!current_pkt_desc, Ring!PtrSub, RingProofs!PtrSub
  <2>2. Ring!table_full = RingProofs!table_full
    BY DEF Ring!table_full, RingProofs!table_full
  <2> QED
    BY <1>2, <2>1, <2>2 DEF Ring!DescriptionTable, RingProofs!DescriptionTable,
                            Ring!PushPop, RingProofs!PushPop
<1>5. Ring!DataRam(x) = RingProofs!DataRam(x)
  BY <1>2 DEF Ring!DataRam, RingProofs!DataRam
<1>6. Ring!Observe(x, pop) = RingProofs!Observe(x, pop)
  BY <1>2, SameSignals DEF Ring!Observe, RingProofs!Observe, Ring!NoPacket, RingProofs!NoPacket,
                           Ring!PushPop, RingProofs!PushPop
<1> QED
  BY <1>1, <1>3, <1>4, <1>5, <1>6 DEF Ring!Cycle, RingProofs!Cycle

\* The two instances are the same specification, and the assumptions of the ring
\* buffer hold within RX framing.
LEMMA SameRing == RingProofs!BufferAssumption /\ (Ring!Spec => RingProofs!Spec)
<1>1. RingProofs!BufferAssumption
  BY RingAssumption DEF RingProofs!BufferAssumption
<1>2. Ring!Init => RingProofs!Init
  BY DEF Ring!Init, RingProofs!Init, Ring!Ptr, RingProofs!Ptr, Ring!NoPacket, RingProofs!NoPacket
<1>3. [Ring!Next]_(Ring!vars) => [RingProofs!Next]_(RingProofs!vars)
  <2>1. Ring!Beat = RingProofs!Beat
    BY DEF Ring!Beat, RingProofs!Beat
  <2>2. \A x : Ring!StreamMayDeliver(x) = RingProofs!StreamMayDeliver(x)
    BY DEF Ring!StreamMayDeliver, RingProofs!StreamMayDeliver
  <2> QED
    BY <2>1, <2>2, SameCycle DEF Ring!Next, RingProofs!Next, Ring!vars, RingProofs!vars
<1>4. Ring!Spec => RingProofs!Spec
  BY <1>2, <1>3, PTL DEF Ring!Spec, RingProofs!Spec
<1> QED
  BY <1>1, <1>4

\* The invariant of the ring buffer holds throughout RX framing, and with it every
\* packet that fits is committed or reported as lost exactly once.
LEMMA FramingRingInvariant == FramingSpec => [](RingProofs!IInv /\ RingProofs!LostExactlyOnce)
<1>1. RingProofs!Spec => []RingProofs!IInv
  BY SameRing, RingProofs!RingBufferInvariant
<1>2. RingProofs!Spec => []RingProofs!LostExactlyOnce
  BY SameRing, RingProofs!PacketLostOnce
<1> QED
  BY <1>1, <1>2, SameRing, FramingImplementsRing, PTL

\* Behind the address filter and the CRC check the buffer is still the queue of byte
\* strings of PacketStore: rejecting a packet in its middle, or at its last byte for
\* a bad checksum, leaves neither a byte nor a gap behind.
THEOREM FramingImplementsStore == FramingSpec => RingProofs!ImplementsStore
<1>1. RingProofs!Spec => RingProofs!ImplementsStore
  BY SameRing, RingProofs!RingBufferImplementsStore
<1> QED
  BY <1>1, SameRing, FramingImplementsRing

-----------------------------------------------------------------------------
(* What relates the filter and the ring buffer. *)

\* How far the entries of queue q move up in a cycle.
Shift(q, pop) == IF pop /\ q # <<>> THEN 1 ELSE 0

\* r is queue q after a cycle: the entries of q moved up by one if the oldest was
\* popped, and the entry pushed comes after them.
Moved(r, q, push, d, pop) ==
    /\ Len(r) = Len(q) + (IF push THEN 1 ELSE 0) - Shift(q, pop)
    /\ \A k \in 1 .. Len(r) :
          r[k] = IF k + Shift(q, pop) <= Len(q) THEN q[k + Shift(q, pop)] ELSE d

\* This is what a cycle does to a queue.
LEMMA PushPopAt ==
    ASSUME NEW S, NEW q \in Seq(S), NEW push \in BOOLEAN, NEW d \in S, NEW pop \in BOOLEAN
    PROVE  PushPop(q, push, d, pop) \in Seq(S) /\ Moved(PushPop(q, push, d, pop), q, push, d, pop)
<1> DEFINE s == Shift(q, pop)
           r == IF push THEN Append(q, d) ELSE q
<1>1. /\ r \in Seq(S)
      /\ Len(r) = Len(q) + (IF push THEN 1 ELSE 0)
      /\ \A k \in 1 .. Len(r) : r[k] = IF k <= Len(q) THEN q[k] ELSE d
  OBVIOUS
<1>2. CASE pop /\ q # <<>>
  <2>1. PushPop(q, push, d, pop) = Tail(r) /\ s = 1 /\ Len(q) >= 1
    BY <1>2 DEF PushPop, Shift
  <2> HIDE DEF r, s
  <2>2. /\ Tail(r) \in Seq(S) /\ Len(Tail(r)) = Len(r) - 1
        /\ \A k \in 1 .. Len(Tail(r)) : Tail(r)[k] = r[k + 1]
    <3>1. r \in Seq(S) /\ Len(r) >= 1 /\ r # <<>>
      BY <1>1, <2>1
    <3> QED
      BY <3>1
  <2>3. Len(Tail(r)) = Len(q) + (IF push THEN 1 ELSE 0) - s
    BY <1>1, <2>1, <2>2
  <2>4. ASSUME NEW k \in 1 .. Len(Tail(r))
        PROVE  Tail(r)[k] = IF k + s <= Len(q) THEN q[k + s] ELSE d
    <3>1. k + 1 \in 1 .. Len(r)
      BY <1>1, <2>2
    <3> QED
      BY <1>1, <2>1, <2>2, <3>1
  <2> QED
    BY <2>1, <2>2, <2>3, <2>4 DEF s, Moved
<1>3. CASE ~(pop /\ q # <<>>)
  BY <1>1, <1>3 DEF PushPop, Shift, Moved
<1> QED
  BY <1>2, <1>3

\* The capture reason of an address depends on its bytes only.
LEMMA ReasonOfPrefix ==
    ASSUME NEW a, NEW c, \A k \in 1 .. AddrLen : a[k] = c[k], NEW mac
    PROVE  ReasonOf(a, mac) = ReasonOf(c, mac)
  BY FilterAssumption DEF ReasonOf, Multicast, Broadcast

\* What the ring buffer's invariant says of its registers and histories.
LEMMA RingTypes ==
    ASSUME RingProofs!IInv
    PROVE  /\ cur.bytes \in Seq(Byte) /\ cur.ext \in BOOLEAN /\ cur.pulses \in 0 .. 1
           /\ table \in Seq(RingProofs!Descriptor) /\ hist \in Seq(RingProofs!Packet)
           /\ Len(hist) = Len(table)
           /\ cur.ext => abandon_sticky
  BY DEF RingProofs!IInv, RingProofs!TypeOK, RingProofs!Packet, RingProofs!StickyMeaning

\* A packet that is committed had no bad CRC; if it is longer than an address and
\* the configuration was steady, its capture reason is the right one and is a
\* reason to keep it.
LEMMA CommittedIsWanted ==
    ASSUME IInv, RingProofs!IInv, FramingInv, NEW b \in Beat, Ring!commit_pkt(RingBeat(b))
    PROVE  /\ ~Entry(b).crc
           /\ steady /\ Len(Append(cur.bytes, b.data)) > AddrLen =>
                 /\ capture_reason = ReasonOf(Append(cur.bytes, b.data), rx_config.mac_addr)
                 /\ Accepted(Append(cur.bytes, b.data), rx_config)
<1>1. b.valid /\ ~abandon_sticky /\ ~abandon_packet(b)
  BY DEF Ring!commit_pkt, Ring!abandon_this_packet, RingBeat
<1>2. ~Entry(b).crc
  BY <1>1, RingTypes DEF Entry, FramingInv, AbandonReason, abandon_packet
<1>3. ASSUME steady, Len(Append(cur.bytes, b.data)) > AddrLen
      PROVE  /\ capture_reason = ReasonOf(Append(cur.bytes, b.data), rx_config.mac_addr)
             /\ Accepted(Append(cur.bytes, b.data), rx_config)
  <2>1. b.data \in Byte /\ cur.bytes \in Seq(Byte)
    BY RingTypes DEF Beat
  <2>2. Len(seen) = AddrLen /\ Len(cur.bytes) >= AddrLen
    BY <1>3, <2>1, FilterAssumption DEF FramingInv, InStep
  <2>3. capture_reason = ReasonOf(seen, rx_config.mac_addr)
    BY <1>3, <2>2, IInvDecides DEF ReasonDecided
  <2>4. \A k \in 1 .. AddrLen : seen[k] = Append(cur.bytes, b.data)[k]
    BY <2>1, <2>2, FilterAssumption DEF FramingInv, InStep
  <2>5. capture_reason = ReasonOf(Append(cur.bytes, b.data), rx_config.mac_addr)
    BY <2>3, <2>4, ReasonOfPrefix
  <2> QED
    BY <1>1, <2>5 DEF abandon_packet, Accepted
<1> QED
  BY <1>2, <1>3

\* Within a packet and under one configuration, a rejection is not taken back.
LEMMA RejectedStays ==
    ASSUME IInv, NEW b \in Beat, NEW cfg \in Config, Cycle(b, cfg), ~(b.valid /\ b.last),
           rx_config' = rx_config, Rejected
    PROVE  Rejected'
<1>1. ~could_be.mac_match /\ ~could_be.multicast /\ ~could_be.broadcast
  BY RejectMeans DEF Rejected
<1>2. could_be' \in {could_be_next(b.data), could_be}
  BY DEF Cycle, Filter, filterRegs
<1>3. CASE could_be' = could_be
  BY <1>1, <1>3 DEF Rejected, capture_reason
<1>4. CASE could_be' = could_be_next(b.data)
  <2>1. ~could_be_next(b.data).mac_match
    BY <1>1 DEF could_be_next
  <2>2. ~could_be_next(b.data).broadcast
    BY <1>1 DEF could_be_next
  <2>3. ~could_be_next(b.data).multicast
    BY <1>1 DEF could_be_next, could_be_multicast_next
  <2> QED
    BY <1>4, <2>1, <2>2, <2>3 DEF Rejected, capture_reason
<1> QED
  BY <1>2, <1>3, <1>4

\* After reset both are before the first byte of a packet.
LEMMA FramingInitInv == FramingInit => FramingInv
<1> SUFFICES ASSUME FramingInit PROVE FramingInv
  OBVIOUS
<1>1. cur.bytes = <<>> /\ ~cur.ext /\ table = <<>> /\ seen = <<>> /\ crc = FALSE /\ log = <<>>
  BY DEF FramingInit, Ring!Init, Ring!NoPacket, Init
<1>2. InStep
  BY <1>1, FilterAssumption DEF InStep
<1>3. AbandonReason
  BY <1>1 DEF AbandonReason
<1>4. OnlyWantedPackets
  BY <1>1 DEF OnlyWantedPackets
<1>5. log \in Seq(Entries) /\ Len(log) = Len(table)
  BY <1>1
<1> QED
  BY <1>1, <1>2, <1>3, <1>4, <1>5 DEF FramingInv

\* A cycle keeps the filter and the ring buffer at the same byte of the same packet.
LEMMA CycleInStep ==
    ASSUME IInv, RingProofs!IInv, FramingInv, NEW b \in FramingBeat, NEW cfg \in Config,
           NEW pop \in BOOLEAN, FramingCycle(b, cfg, pop)
    PROVE  InStep'
<1> USE FilterAssumption
<1>1. b \in Beat /\ b.data \in Byte /\ b.valid \in BOOLEAN /\ b.last \in BOOLEAN
  BY BeatTypes DEF Beat
<1>2. cur.bytes \in Seq(Byte) /\ seen \in Seq(Byte) /\ InStep
  BY RingTypes DEF IInv, TypeOK, FramingInv
<1>3. CASE ~b.valid
  <2>1. UNCHANGED <<cur, seen>>
    BY <1>3 DEF FramingCycle, Cycle, Observe, Ring!Cycle, Ring!Observe, RingBeat
  <2> QED
    BY <1>2, <2>1 DEF InStep
<1>4. CASE b.valid /\ b.last
  <2>1. cur'.bytes = <<>> /\ seen' = <<>>
    BY <1>4 DEF FramingCycle, Cycle, Observe, Ring!Cycle, Ring!Observe, Ring!NoPacket, RingBeat
  <2> QED
    BY <2>1 DEF InStep
<1>5. CASE b.valid /\ ~b.last
  <2>1. cur'.bytes = Append(cur.bytes, b.data)
    BY <1>5 DEF FramingCycle, Ring!Cycle, Ring!Observe, Ring!CurAfter, RingBeat
  <2>2. seen' = IF Len(seen) < AddrLen THEN Append(seen, b.data) ELSE seen
    BY <1>5 DEF FramingCycle, Cycle, Observe, SeenAfter
  <2>3. CASE Len(cur.bytes) < AddrLen
    BY <1>1, <1>2, <2>1, <2>2, <2>3 DEF InStep
  <2>4. CASE Len(cur.bytes) >= AddrLen
    BY <1>1, <1>2, <2>1, <2>2, <2>4 DEF InStep
  <2> QED
    BY <1>2, <2>3, <2>4
<1> QED
  BY <1>1, <1>3, <1>4, <1>5

\* A cycle keeps the reasons why the packet in progress was abandoned.
LEMMA CycleAbandonReason ==
    ASSUME IInv, RingProofs!IInv, FramingInv, NEW b \in FramingBeat, NEW cfg \in Config,
           NEW pop \in BOOLEAN, FramingCycle(b, cfg, pop)
    PROVE  AbandonReason' /\ crc' \in BOOLEAN
<1>1. b \in Beat /\ b.valid \in BOOLEAN /\ b.last \in BOOLEAN /\ b.user \in BOOLEAN /\ b.data \in Byte
  BY BeatTypes DEF Beat
<1>2. AbandonReason /\ crc \in BOOLEAN /\ cur.ext \in BOOLEAN /\ seen \in Seq(Byte)
  BY RingTypes DEF FramingInv, IInv, TypeOK
<1>3. CASE ~b.valid
  <2>1. UNCHANGED <<crc, cur, seen>>
    BY <1>3 DEF FramingCycle, Record, Cycle, Observe, Ring!Cycle, Ring!Observe, RingBeat
  <2>2. ASSUME steady', cur'.ext PROVE crc' \/ Rejected'
    <3>1. steady /\ rx_config' = rx_config
      BY <1>2, <1>3, <2>1, <2>2 DEF FramingCycle, Cycle, Observe, AbandonReason
    <3> QED
      BY <1>1, <1>2, <1>3, <2>1, <2>2, <3>1, RejectedStays DEF AbandonReason, FramingCycle
  <2> QED
    BY <1>2, <2>1, <2>2 DEF AbandonReason
<1>4. CASE b.valid /\ b.last
  <2>1. ~cur'.ext /\ crc' = FALSE
    BY <1>4 DEF FramingCycle, Record, Ring!Cycle, Ring!Observe, Ring!NoPacket, RingBeat
  <2> QED
    BY <2>1 DEF AbandonReason
<1>5. CASE b.valid /\ ~b.last
  <2>1. /\ crc' = (crc \/ b.user)
        /\ cur'.ext = (cur.ext \/ abandon_packet(b))
    BY <1>5 DEF FramingCycle, Record, Ring!Cycle, Ring!Observe, Ring!CurAfter, RingBeat
  <2>2. seen' # <<>>
    BY <1>1, <1>2, <1>5, FilterAssumption DEF FramingCycle, Cycle, Observe, SeenAfter
  <2>3. crc' => cur'.ext
    BY <1>2, <1>5, <2>1 DEF AbandonReason, abandon_packet
  <2>4. ASSUME steady', cur'.ext PROVE crc' \/ Rejected'
    <3>1. steady /\ rx_config' = rx_config
      BY <1>5, <2>4 DEF FramingCycle, Cycle, Observe
    <3>2. crc' \/ Rejected
      BY <1>2, <2>1, <2>4, <3>1 DEF AbandonReason, abandon_packet, Rejected
    <3> QED
      BY <1>1, <1>5, <3>1, <3>2, RejectedStays DEF FramingCycle
  <2> QED
    BY <1>1, <1>2, <2>1, <2>2, <2>3, <2>4 DEF AbandonReason
<1> QED
  BY <1>1, <1>3, <1>4, <1>5

\* A cycle puts only wanted packets into the table and keeps the three queues,
\* descriptors, deliveries and circumstances, together.
LEMMA CycleOnlyWanted ==
    ASSUME IInv, RingProofs!IInv, FramingInv, NEW b \in FramingBeat, NEW cfg \in Config,
           NEW pop \in BOOLEAN, FramingCycle(b, cfg, pop)
    PROVE  OnlyWantedPackets' /\ log' \in Seq(Entries) /\ Len(log') = Len(table')
<1> DEFINE x == RingBeat(b)
           push == Ring!commit_pkt(x)
           s == Shift(table, pop)
           T == PushPop(table, push, Ring!current_pkt_desc(x), pop)
           G == PushPop(hist, push, Ring!CurAfter(x), pop)
           E == Entry(b)
           L == PushPop(log, push, E, pop)
<1>1. b \in Beat /\ b.user \in BOOLEAN
  BY BeatTypes DEF Beat
<1>2. /\ table \in Seq(RingProofs!Descriptor) /\ hist \in Seq(RingProofs!Packet)
      /\ log \in Seq(Entries)
      /\ Len(hist) = Len(table) /\ Len(log) = Len(table)
  BY RingTypes DEF FramingInv
<1>3. push \in BOOLEAN /\ (push => ~Ring!table_full)
  BY DEF Ring!commit_pkt, Ring!abandon_this_packet
<1>4. /\ table' = T
      /\ hist' = G
      /\ log' = L
  BY <1>3 DEF FramingCycle, Record, Ring!Cycle, Ring!DescriptionTable, Ring!Observe,
              PushPop, Ring!PushPop
<1>5. E \in Entries
  BY <1>1 DEF Entry, Entries, IInv, TypeOK, FramingInv
<1> DEFINE S == RingProofs!Descriptor \cup {Ring!current_pkt_desc(x)}
           H == RingProofs!Packet \cup {Ring!CurAfter(x)}
<1>6. table \in Seq(S) /\ hist \in Seq(H)
  BY <1>2
<1>7. s = Shift(hist, pop) /\ s = Shift(log, pop) /\ s \in {0, 1}
  BY <1>2 DEF Shift
<1> HIDE DEF x, push, s, S, H, T, G, E, L
<1>8. /\ Len(table') = Len(table) + (IF push THEN 1 ELSE 0) - s
      /\ \A k \in 1 .. Len(table') :
            table'[k] = IF k + s <= Len(table) THEN table[k + s] ELSE Ring!current_pkt_desc(x)
  <2>1. Ring!current_pkt_desc(x) \in S
    BY DEF S
  <2>2. s = Shift(table, pop)
    BY DEF s
  <2>3. Moved(T, table, push, Ring!current_pkt_desc(x), pop)
    BY <1>3, <1>6, <2>1, PushPopAt, Zenon DEF T
  <2> QED
    BY <1>4, <2>2, <2>3 DEF Moved
<1>9. /\ Len(hist') = Len(table')
      /\ \A k \in 1 .. Len(table') :
            hist'[k] = IF k + s <= Len(table) THEN hist[k + s] ELSE Ring!CurAfter(x)
  <2>1. Ring!CurAfter(x) \in H
    BY DEF H
  <2>2. Moved(G, hist, push, Ring!CurAfter(x), pop)
    BY <1>3, <1>6, <2>1, PushPopAt, Zenon DEF G
  <2> QED
    BY <1>2, <1>4, <1>7, <1>8, <2>2 DEF Moved
<1>10. /\ log' \in Seq(Entries) /\ Len(log') = Len(table')
       /\ \A k \in 1 .. Len(table') :
            log'[k] = IF k + s <= Len(table) THEN log[k + s] ELSE E
  <2>1. L \in Seq(Entries) /\ Moved(L, log, push, E, pop)
    BY <1>2, <1>3, <1>5, PushPopAt, Zenon DEF L
  <2> QED
    BY <1>2, <1>4, <1>7, <1>8, <2>1 DEF Moved
<1>11. ASSUME NEW k \in 1 .. Len(table')
       PROVE  /\ ~log'[k].crc
              /\ log'[k].steady /\ Len(hist'[k].bytes) > AddrLen =>
                    /\ table'[k].metadata = ReasonOf(hist'[k].bytes, log'[k].config.mac_addr)
                    /\ Accepted(hist'[k].bytes, log'[k].config)
  <2>1. s \in {0, 1} /\ Len(table) \in Nat
    BY <1>2, <1>7
  <2>2. CASE k + s <= Len(table)
    <3>1. k + s \in 1 .. Len(table)
      BY <2>1, <2>2
    <3>2. table'[k] = table[k + s] /\ hist'[k] = hist[k + s] /\ log'[k] = log[k + s]
      BY <1>8, <1>9, <1>10, <2>2
    <3> QED
      BY <3>1, <3>2, Zenon DEF FramingInv, OnlyWantedPackets
  <2>3. CASE ~(k + s <= Len(table))
    <3>1. push
      BY <1>8, <2>1, <2>3
    <3>2. /\ table'[k] = Ring!current_pkt_desc(x)
          /\ hist'[k] = Ring!CurAfter(x)
          /\ log'[k] = E
      BY <1>8, <1>9, <1>10, <2>3
    <3>3. /\ table'[k].metadata = capture_reason
          /\ hist'[k].bytes = Append(cur.bytes, b.data)
          /\ log'[k].config = rx_config /\ log'[k].steady = steady
      BY <3>2 DEF x, RingBeat, Ring!current_pkt_desc, Ring!CurAfter, E, Entry
    <3>4. Ring!commit_pkt(RingBeat(b))
      BY <3>1 DEF push, x
    <3> QED
      BY <1>1, <3>2, <3>3, <3>4, CommittedIsWanted DEF E
  <2> QED
    BY <2>2, <2>3
<1> QED
  BY <1>10, <1>11 DEF OnlyWantedPackets

\* Every step of RX framing keeps what relates its parts, their own invariants given.
LEMMA FramingNextInv ==
    IInv /\ RingProofs!IInv /\ FramingInv /\ [FramingNext]_framingVars => FramingInv'
<1> SUFFICES ASSUME IInv, RingProofs!IInv, FramingInv, [FramingNext]_framingVars
             PROVE  FramingInv'
  OBVIOUS
<1>1. CASE FramingNext
  BY <1>1, CycleInStep, CycleAbandonReason, CycleOnlyWanted DEF FramingNext, FramingInv
<1>2. CASE UNCHANGED framingVars
  <2>1. /\ UNCHANGED <<rx_config, could_be, seen, steady, cur, table, hist, crc, log>>
        /\ capture_reason' = capture_reason
    BY <1>2 DEF framingVars, vars, ringVars, filterRegs, capture_reason
  <2>2. InStep' /\ AbandonReason'
    BY <2>1 DEF FramingInv, InStep, AbandonReason, Rejected
  <2>3. OnlyWantedPackets'
    BY <2>1 DEF FramingInv, OnlyWantedPackets
  <2> QED
    BY <2>1, <2>2, <2>3 DEF FramingInv
<1> QED
  BY <1>1, <1>2

\* The invariants of the filter, of the ring buffer and of what relates them hold
\* throughout.
THEOREM FramingInvariant == FramingSpec => [](IInv /\ RingProofs!IInv /\ FramingInv)
<1>1. FramingSpec => []IInv
  BY FramingImplementsFilter, FilterInvariant, PTL
<1>2. FramingSpec => []RingProofs!IInv
  BY FramingRingInvariant, PTL
<1> QED
  BY <1>1, <1>2, FramingInitInv, FramingNextInv, PTL DEF FramingSpec

\* In RX framing, too, the capture reason is decided correctly and nothing is
\* rejected too early.
THEOREM FramingReasons == FramingSpec => [](ReasonDecided /\ NoEarlyReject)
  BY FramingImplementsFilter, FilterReasonDecided, FilterNoEarlyReject, PTL

\* No packet with a bad CRC is put into the table, and none for somebody else;
\* the capture reason in the descriptor is right.
THEOREM FramingOnlyWanted == FramingSpec => []OnlyWantedPackets
<1>1. FramingInv => OnlyWantedPackets
  BY DEF FramingInv
<1> QED
  BY <1>1, FramingInvariant, PTL

\* A wanted packet is put into the table or reported as lost.
THEOREM FramingNothingDisappears == FramingSpec => []NothingWantedDisappears
<1>1. ASSUME IInv, RingProofs!IInv, FramingInv, RingProofs!LostExactlyOnce
      PROVE  NothingWantedDisappears
  <2> SUFFICES
        ASSUME NEW b \in Beat,
               b.valid, b.last, ~b.user, ~crc, steady,
               Len(Ring!CurAfter(RingBeat(b)).bytes) >= AddrLen,
               Accepted(Ring!CurAfter(RingBeat(b)).bytes, rx_config),
               ~Ring!commit_pkt(RingBeat(b)), Ring!CurAfter(RingBeat(b)).pulses # 1
        PROVE  FALSE
    BY DEF NothingWantedDisappears
  <2> DEFINE x == RingBeat(b)
             p == Ring!CurAfter(x)
  <2>1. x \in RingProofs!Beat /\ x.valid /\ x.last
    BY VerdictType DEF Beat, RingBeat, RingProofs!Beat, abandon_packet
  <2>2. /\ RingProofs!CurAfter(x) = p
        /\ RingProofs!commit_pkt(x) = Ring!commit_pkt(x)
    BY SameSignals
  <2>3. p.pulses <= 1 /\ (Ring!commit_pkt(x) <=> (p.pulses = 0 /\ ~p.ext))
    BY <1>1, <2>1, <2>2 DEF RingProofs!LostExactlyOnce
  <2>4. p.pulses \in Nat
    BY <1>1, RingTypes DEF Ring!CurAfter
  <2>5. p.ext
    BY <2>3, <2>4
  <2>6. Rejected
    BY <1>1, <2>5 DEF Ring!CurAfter, RingBeat, abandon_packet, Rejected, FramingInv, AbandonReason
  <2>7. p.bytes = Append(cur.bytes, b.data) /\ cur.bytes \in Seq(Byte) /\ b.data \in Byte
    BY <1>1, RingTypes DEF Ring!CurAfter, RingBeat, Beat
  <2>8. \A k \in 1 .. Len(seen) : p.bytes[k] = seen[k]
    <3>1. Len(seen) \in Nat /\ Len(seen) <= Len(cur.bytes) /\ InStep
      BY <1>1, <2>7, FilterAssumption DEF FramingInv, InStep
    <3>2. \A k \in 1 .. Len(cur.bytes) : Append(cur.bytes, b.data)[k] = cur.bytes[k]
      BY <2>7
    <3> QED
      BY <2>7, <3>1, <3>2 DEF InStep
  <2>9. ReasonOf(p.bytes, rx_config.mac_addr) = "NON_MAC_MATCH"
    BY <1>1, <2>6, <2>8, RejectsForGood DEF Rejected
  <2> QED
    BY <2>6, <2>9 DEF Accepted, Rejected
<1> QED
  BY <1>1, FramingInvariant, FramingRingInvariant, PTL
=============================================================================
