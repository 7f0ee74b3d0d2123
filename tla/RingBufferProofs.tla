-------------------------- MODULE RingBufferProofs --------------------------
(***************************************************************************)
(* The ring buffer's inductive invariant, for every buffer size, table     *)
(* depth and packet length that satisfies BufferAssumption.                *)
(***************************************************************************)
EXTENDS RingBuffer, TLAPS

-----------------------------------------------------------------------------
(* Pointer arithmetic. *)

\* An addition of pointers wraps at most once.
LEMMA PtrAddWraps ==
    ASSUME NEW p \in Ptr, NEW n \in Ptr
    PROVE  /\ PtrAdd(p, n) = IF p + n >= BufBytes THEN p + n - BufBytes ELSE p + n
           /\ PtrAdd(p, n) \in Ptr
  BY BufferAssumption DEF Ptr, PtrAdd

\* A difference of pointers is the distance going round the buffer.
LEMMA PtrSubWraps ==
    ASSUME NEW p \in Ptr, NEW q \in Ptr
    PROVE  /\ PtrSub(p, q) = IF p >= q THEN p - q ELSE p - q + BufBytes
           /\ PtrSub(p, q) \in Ptr
  BY BufferAssumption DEF Ptr, PtrSub

\* Storing one more byte moves the end of the packet one further from its head.
LEMMA WrittenStep ==
    ASSUME NEW h \in Ptr, NEW w \in Ptr, Written(h, w) + 1 < BufBytes
    PROVE  /\ Written(h, PtrAdd(w, 1)) = Written(h, w) + 1
           /\ PtrSub(w + 1, h) = Written(h, w) + 1
           /\ PtrAdd(h, Written(h, w)) = w
           /\ PtrAdd(w, 1) \in Ptr
           /\ PtrAdd(w, 1) = IF w + 1 = BufBytes THEN 0 ELSE w + 1
  <1> DEFINE n == Written(h, w)
             v == PtrAdd(w, 1)
  <1>1. n = (IF w >= h THEN w - h ELSE w - h + BufBytes) /\ n \in Ptr
    BY PtrSubWraps DEF Written
  <1>2. 1 \in Ptr
    BY BufferAssumption DEF Ptr
  <1>3. v = (IF w + 1 >= BufBytes THEN w + 1 - BufBytes ELSE w + 1) /\ v \in Ptr
    BY <1>2, PtrAddWraps
  <1>4. Written(h, v) = (IF v >= h THEN v - h ELSE v - h + BufBytes)
    BY <1>3, PtrSubWraps DEF Written
  <1>5. PtrAdd(h, n) = (IF h + n >= BufBytes THEN h + n - BufBytes ELSE h + n)
    BY <1>1, PtrAddWraps
  <1>6. PtrSub(w + 1, h) = n + 1
    BY <1>1, BufferAssumption DEF PtrSub, Ptr
  <1> HIDE DEF n, v
  <1>7. Written(h, v) = n + 1 /\ PtrAdd(h, n) = w /\ v = IF w + 1 = BufBytes THEN 0 ELSE w + 1
    <2>1. n + 1 < BufBytes
      BY DEF n
    <2> QED
      BY <2>1, <1>1, <1>3, <1>4, <1>5, BufferAssumption DEF Ptr
  <1> QED
    BY <1>3, <1>6, <1>7 DEF n, v

\* Different distances from a pointer are different places.
LEMMA PtrAddInjective ==
    ASSUME NEW p \in Ptr, NEW i \in Ptr, NEW j \in Ptr, PtrAdd(p, i) = PtrAdd(p, j)
    PROVE  i = j
  <1>1. PtrAdd(p, i) = IF p + i >= BufBytes THEN p + i - BufBytes ELSE p + i
    BY PtrAddWraps
  <1>2. PtrAdd(p, j) = IF p + j >= BufBytes THEN p + j - BufBytes ELSE p + j
    BY PtrAddWraps
  <1>3. (IF p + i >= BufBytes THEN p + i - BufBytes ELSE p + i)
            = (IF p + j >= BufBytes THEN p + j - BufBytes ELSE p + j)
    BY <1>1, <1>2
  <1> QED
    BY <1>3, BufferAssumption DEF Ptr

\* Distances from the oldest packet, without the modulus.
LEMMA OffsetWraps ==
    ASSUME NEW t \in Seq(Descriptor), t # <<>>, NEW p \in Ptr
    PROVE  /\ t[1].head_ptr \in Ptr
           /\ Offset(t, p) = IF p >= t[1].head_ptr THEN p - t[1].head_ptr
                             ELSE p - t[1].head_ptr + BufBytes
           /\ Offset(t, p) \in Ptr
           /\ EndOffset(t, p) \in 1 .. BufBytes
  <1>1. t[1] \in Descriptor
    OBVIOUS
  <1>2. t[1].head_ptr \in Ptr
    BY <1>1 DEF Descriptor
  <1>3. /\ Offset(t, p) = IF p >= t[1].head_ptr THEN p - t[1].head_ptr
                          ELSE p - t[1].head_ptr + BufBytes
        /\ Offset(t, p) \in Ptr
    BY <1>2, PtrSubWraps DEF Offset
  <1>4. EndOffset(t, p) \in 1 .. BufBytes
    BY <1>2, <1>3, BufferAssumption DEF EndOffset, Ptr
  <1> QED
    BY <1>2, <1>3, <1>4

\* What a descriptor of a table contains.
LEMMA DescriptorFields ==
    ASSUME NEW t \in Seq(Descriptor), NEW k \in 1 .. Len(t)
    PROVE  /\ t # <<>>
           /\ t[k] \in Descriptor /\ t[k].head_ptr \in Ptr /\ t[k].pkt_len \in Nat
           /\ Offset(t, t[k].head_ptr) \in Ptr
  <1>1. t # <<>> /\ t[k] \in Descriptor
    OBVIOUS
  <1>2. t[k].head_ptr \in Ptr /\ t[k].pkt_len \in Nat
    BY <1>1, BufferAssumption DEF Descriptor
  <1> QED
    BY <1>1, <1>2, OffsetWraps

-----------------------------------------------------------------------------
(* The layout of the buffer. *)

\* Popping the oldest packet keeps the layout: distances are now measured from
\* the second one.
LEMMA PopLayout ==
    ASSUME NEW t \in Seq(Descriptor), t # <<>>, NEW h \in Ptr, NEW w \in Ptr,
           Layout(t, h, w)
    PROVE  Layout(Tail(t), h, w)
  <1> DEFINE u == Tail(t)
  <1>1. CASE u = <<>>
    <2>1. Layout(<<>>, h, w)
      <3>1. Len(<<>>) = 0
        OBVIOUS
      <3> QED
        BY <3>1 DEF Layout
    <2> QED
      BY <1>1, <2>1
  <1>2. CASE u # <<>>
    <2>1. /\ u \in Seq(Descriptor) /\ Len(u) = Len(t) - 1 /\ Len(t) >= 2
          /\ \A k \in 1 .. Len(u) : u[k] = t[k + 1] /\ k + 1 \in 1 .. Len(t)
      BY <1>2
    <2>2. u[1] = t[2] /\ 2 \in 1 .. Len(t) /\ 1 \in 1 .. Len(t)
      BY <2>1
    <2> HIDE DEF u
    <2> DEFINE o == t[1].head_ptr
               s == t[2].head_ptr
               d == Offset(t, s)
    <2>3. /\ o \in Ptr /\ s \in Ptr /\ d \in Ptr /\ t[1].pkt_len \in Nat
          /\ t[2].pkt_len \in Nat
      BY <2>2, DescriptorFields
    <2>4. d = IF s >= o THEN s - o ELSE s - o + BufBytes
      BY <2>3, OffsetWraps
    <2>5. d >= 1
      <3>1. t[1].pkt_len >= 1 /\ Offset(t, o) + t[1].pkt_len <= d
        BY <2>2 DEF Layout
      <3>2. Offset(t, o) \in Ptr
        BY <2>3, OffsetWraps
      <3> QED
        BY <3>1, <3>2, <2>3, BufferAssumption DEF Ptr
    <2>6. ASSUME NEW p \in Ptr
          PROVE  /\ Offset(t, p) = IF p >= o THEN p - o ELSE p - o + BufBytes
                 /\ Offset(u, p) = IF p >= s THEN p - s ELSE p - s + BufBytes
                 /\ EndOffset(t, p) = IF p = o THEN BufBytes ELSE Offset(t, p)
                 /\ EndOffset(u, p) = IF p = s THEN BufBytes ELSE Offset(u, p)
      <3>1. Offset(t, p) = IF p >= o THEN p - o ELSE p - o + BufBytes
        BY OffsetWraps
      <3>2. Offset(u, p) = IF p >= u[1].head_ptr THEN p - u[1].head_ptr
                           ELSE p - u[1].head_ptr + BufBytes
        BY <1>2, <2>1, OffsetWraps
      <3> QED
        BY <3>1, <3>2, <2>2 DEF EndOffset
    <2>7. ASSUME NEW p \in Ptr, d <= Offset(t, p)
          PROVE  Offset(u, p) = Offset(t, p) - d
      <3>1. /\ Offset(t, p) = IF p >= o THEN p - o ELSE p - o + BufBytes
            /\ Offset(u, p) = IF p >= s THEN p - s ELSE p - s + BufBytes
        BY <2>6
      <3> HIDE DEF o, s, d
      <3> QED
        BY <2>3, <2>4, <2>5, <2>7, <3>1, BufferAssumption DEF Ptr
    <2>8. ASSUME NEW p \in Ptr, d < EndOffset(t, p)
          PROVE  EndOffset(u, p) = EndOffset(t, p) - d
      <3>1. /\ Offset(t, p) = IF p >= o THEN p - o ELSE p - o + BufBytes
            /\ Offset(u, p) = IF p >= s THEN p - s ELSE p - s + BufBytes
            /\ EndOffset(t, p) = IF p = o THEN BufBytes ELSE Offset(t, p)
            /\ EndOffset(u, p) = IF p = s THEN BufBytes ELSE Offset(u, p)
        BY <2>6
      <3> HIDE DEF o, s, d
      <3> QED
        BY <2>3, <2>4, <2>5, <2>8, <3>1, BufferAssumption DEF Ptr
    <2>9. ASSUME NEW k \in 1 .. Len(u)
          PROVE  /\ u[k].head_ptr \in Ptr /\ u[k].pkt_len \in Nat
                 /\ Offset(t, u[k].head_ptr) \in Ptr
                 /\ u[k].pkt_len >= 1
                 /\ Offset(u, u[k].head_ptr) = Offset(t, u[k].head_ptr) - d
      <3>1. u[k] = t[k + 1] /\ k + 1 \in 1 .. Len(t)
        BY <2>1
      <3>2. /\ u[k].head_ptr \in Ptr /\ u[k].pkt_len \in Nat
            /\ Offset(t, u[k].head_ptr) \in Ptr
        BY <3>1, DescriptorFields
      <3>3. u[k].pkt_len >= 1
        BY <3>1 DEF Layout
      <3>4. d <= Offset(t, u[k].head_ptr)
        <4>1. CASE k = 1
          BY <4>1, <2>2, <2>3, BufferAssumption DEF Ptr
        <4>2. CASE k # 1
          <5>1. 2 < k + 1 /\ t[2].pkt_len >= 1
            BY <4>2, <2>2 DEF Layout
          <5>2. d + t[2].pkt_len <= Offset(t, u[k].head_ptr)
            BY <5>1, <3>1, <2>2 DEF Layout
          <5> HIDE DEF d
          <5> QED
            BY <5>1, <5>2, <2>3, <3>2, BufferAssumption DEF Ptr
        <4> QED BY <4>1, <4>2
      <3> QED
        BY <3>2, <3>3, <3>4, <2>7
    <2>10. /\ EndOffset(t, h) \in Nat /\ EndOffset(t, w) \in Nat /\ Written(h, w) \in Nat
           /\ EndOffset(t, w) = EndOffset(t, h) + Written(h, w)
      <3>1. EndOffset(t, h) \in 1 .. BufBytes /\ EndOffset(t, w) \in 1 .. BufBytes
        BY OffsetWraps
      <3>2. Written(h, w) \in Ptr
        BY PtrSubWraps DEF Written
      <3>3. EndOffset(t, w) = EndOffset(t, h) + Written(h, w)
        BY DEF Layout
      <3> QED
        BY <3>1, <3>2, <3>3, BufferAssumption DEF Ptr
    <2>11. d < EndOffset(t, h)
      <3>1. d + t[2].pkt_len <= EndOffset(t, h) /\ t[2].pkt_len >= 1
        BY <2>2 DEF Layout
      <3> HIDE DEF d
      <3> QED
        BY <3>1, <2>3, <2>10, BufferAssumption DEF Ptr
    <2>12. d < EndOffset(t, w)
      <3> HIDE DEF d
      <3> QED
        BY <2>3, <2>10, <2>11, BufferAssumption DEF Ptr
    <2> HIDE DEF d
    <2>13. /\ EndOffset(u, h) = EndOffset(t, h) - d /\ EndOffset(u, w) = EndOffset(t, w) - d
           /\ d \in Int /\ \A p \in Ptr : p \in Int
      BY <2>3, <2>8, <2>11, <2>12, BufferAssumption DEF Ptr
    <2>14. \A j, k \in 1 .. Len(u) : j < k =>
              Offset(u, u[j].head_ptr) + u[j].pkt_len <= Offset(u, u[k].head_ptr)
      <3> TAKE j, k \in 1 .. Len(u)
      <3> HAVE j < k
      <3>1. Offset(t, u[j].head_ptr) + u[j].pkt_len <= Offset(t, u[k].head_ptr)
        BY <2>1 DEF Layout
      <3>2. /\ u[j].pkt_len \in Nat
            /\ Offset(t, u[j].head_ptr) \in Int /\ Offset(t, u[k].head_ptr) \in Int
            /\ Offset(u, u[j].head_ptr) = Offset(t, u[j].head_ptr) - d
            /\ Offset(u, u[k].head_ptr) = Offset(t, u[k].head_ptr) - d
        BY <2>9, <2>13
      <3> QED
        BY <3>1, <3>2, <2>13
    <2>15. \A k \in 1 .. Len(u) :
              Offset(u, u[k].head_ptr) + u[k].pkt_len <= EndOffset(u, h)
      <3> TAKE k \in 1 .. Len(u)
      <3>1. Offset(t, u[k].head_ptr) + u[k].pkt_len <= EndOffset(t, h)
        BY <2>1 DEF Layout
      <3>2. /\ u[k].pkt_len \in Nat
            /\ Offset(t, u[k].head_ptr) \in Int
            /\ Offset(u, u[k].head_ptr) = Offset(t, u[k].head_ptr) - d
        BY <2>9, <2>13
      <3>3. EndOffset(t, h) \in Int /\ d \in Int /\ EndOffset(u, h) = EndOffset(t, h) - d
        BY <2>10, <2>13
      <3> HIDE DEF u
      <3> QED
        BY <3>1, <3>2, <3>3
    <2>16. EndOffset(u, w) = EndOffset(u, h) + Written(h, w)
      BY <2>10, <2>13
    <2> QED
      BY <2>9, <2>14, <2>15, <2>16 DEF Layout, u
  <1> QED BY <1>1, <1>2

\* The end of the data moves on by one byte when the buffer is not full.
LEMMA EndOffsetStep ==
    ASSUME NEW t \in Seq(Descriptor), t # <<>>, NEW h \in Ptr, NEW w \in Ptr,
           Layout(t, h, w), w # t[1].head_ptr, Written(h, w) + 1 < BufBytes
    PROVE  /\ EndOffset(t, w) = Offset(t, w)
           /\ EndOffset(t, h) = Offset(t, h)
           /\ EndOffset(t, PtrAdd(w, 1)) = EndOffset(t, h) + Written(h, w) + 1
           /\ Written(h, w) \in Int /\ EndOffset(t, h) \in Int
  <1> DEFINE o == t[1].head_ptr
             v == PtrAdd(w, 1)
             n == Written(h, w)
  <1>1. n \in Ptr
    BY PtrSubWraps DEF Written
  <1>2. v \in Ptr /\ v = IF w + 1 = BufBytes THEN 0 ELSE w + 1
    BY WrittenStep
  <1>3. /\ o \in Ptr
        /\ Offset(t, h) = IF h >= o THEN h - o ELSE h - o + BufBytes
        /\ Offset(t, w) = IF w >= o THEN w - o ELSE w - o + BufBytes
    BY OffsetWraps
  <1>4. Offset(t, v) = IF v >= o THEN v - o ELSE v - o + BufBytes
    BY <1>2, OffsetWraps
  <1>5. /\ EndOffset(t, h) = IF h = o THEN BufBytes ELSE Offset(t, h)
        /\ EndOffset(t, w) = Offset(t, w)
        /\ EndOffset(t, v) = IF v = o THEN BufBytes ELSE Offset(t, v)
    BY DEF EndOffset
  <1>6. EndOffset(t, w) = EndOffset(t, h) + n
    BY DEF Layout
  <1>7. w # o
    OBVIOUS
  <1> HIDE DEF o, v, n
  <1>8. /\ EndOffset(t, w) = Offset(t, w)
        /\ EndOffset(t, h) = Offset(t, h)
        /\ EndOffset(t, v) = EndOffset(t, h) + n + 1
        /\ n \in Int /\ EndOffset(t, h) \in Int
    BY <1>1, <1>2, <1>3, <1>4, <1>5, <1>6, <1>7, BufferAssumption DEF Ptr
  <1> QED
    BY <1>8 DEF n, v

\* Storing a byte keeps the layout.
LEMMA StoreLayout ==
    ASSUME NEW t \in Seq(Descriptor), NEW h \in Ptr, NEW w \in Ptr,
           Layout(t, h, w), t # <<>> => w # t[1].head_ptr, Written(h, w) + 1 < BufBytes
    PROVE  Layout(t, h, PtrAdd(w, 1))
  <1>1. Written(h, PtrAdd(w, 1)) = Written(h, w) + 1
    BY WrittenStep
  <1>2. t # <<>> => EndOffset(t, PtrAdd(w, 1)) = EndOffset(t, h) + Written(h, PtrAdd(w, 1))
    <2> HAVE t # <<>>
    <2>1. /\ EndOffset(t, PtrAdd(w, 1)) = EndOffset(t, h) + Written(h, w) + 1
          /\ Written(h, w) \in Int /\ EndOffset(t, h) \in Int
      BY EndOffsetStep
    <2> QED
      BY <1>1, <2>1
  <1> QED
    BY <1>2 DEF Layout

\* Falling back to the head of the packet keeps the layout.
LEMMA AbandonLayout ==
    ASSUME NEW t \in Seq(Descriptor), NEW h \in Ptr, NEW w \in Ptr, Layout(t, h, w)
    PROVE  Layout(t, h, h) /\ Written(h, h) = 0
  <1>1. Written(h, h) = 0
    BY PtrSubWraps, BufferAssumption DEF Written, Ptr
  <1>2. t # <<>> => EndOffset(t, h) = EndOffset(t, h) + Written(h, h)
    <2> HAVE t # <<>>
    <2>1. EndOffset(t, h) \in 1 .. BufBytes
      BY OffsetWraps
    <2> QED
      BY <1>1, <2>1, BufferAssumption
  <1> QED
    BY <1>1, <1>2 DEF Layout

\* Committing the packet, its last byte included, keeps the layout.
LEMMA CommitLayout ==
    ASSUME NEW t \in Seq(Descriptor), NEW h \in Ptr, NEW w \in Ptr,
           Layout(t, h, w), t # <<>> => w # t[1].head_ptr, Written(h, w) + 1 < BufBytes,
           NEW d \in Descriptor, d.head_ptr = h, d.pkt_len = Written(h, w) + 1
    PROVE  Layout(Append(t, d), PtrAdd(w, 1), PtrAdd(w, 1))
  <1> DEFINE u == Append(t, d)
             v == PtrAdd(w, 1)
             n == Written(h, w)
  <1>1. /\ u \in Seq(Descriptor) /\ u # <<>> /\ Len(u) = Len(t) + 1 /\ u[Len(u)] = d
        /\ \A k \in 1 .. Len(t) : u[k] = t[k] /\ k \in 1 .. Len(u)
        /\ \A k \in 1 .. Len(u) : k \in 1 .. Len(t) \/ k = Len(u)
        /\ Len(t) \in Nat
    <2>1. /\ u \in Seq(Descriptor) /\ Len(u) = Len(t) + 1 /\ Len(t) \in Nat
          /\ u[Len(t) + 1] = d
      OBVIOUS
    <2>2. \A k \in 1 .. Len(t) : u[k] = t[k]
      OBVIOUS
    <2>3. u # <<>>
      BY <2>1
    <2> HIDE DEF u
    <2> QED
      BY <2>1, <2>2, <2>3
  <1>2. v \in Ptr /\ n \in Ptr /\ Written(h, v) = n + 1 /\ v = IF w + 1 = BufBytes THEN 0 ELSE w + 1
    BY WrittenStep, PtrSubWraps DEF Written
  <1>3. Written(v, v) = 0 /\ EndOffset(u, v) \in Int
    <2>1. EndOffset(u, v) \in 1 .. BufBytes
      BY <1>1, <1>2, OffsetWraps
    <2>2. Written(v, v) = IF v >= v THEN v - v ELSE v - v + BufBytes
      BY <1>2, PtrSubWraps DEF Written
    <2> HIDE DEF u, v
    <2> QED
      BY <2>1, <2>2, <1>2, BufferAssumption DEF Ptr
  <1>4. n + 1 < BufBytes /\ n \in Int /\ n >= 0
    BY <1>2, BufferAssumption DEF Ptr
  <1> HIDE DEF u, v, n
  <1>5. CASE t = <<>>
    <2>1. Len(u) = 1 /\ u[1] = d
      <3>1. Len(t) = 0
        BY <1>5
      <3> QED
        BY <1>1, <3>1
    <2>2. /\ Offset(u, h) = IF h >= h THEN h - h ELSE h - h + BufBytes
          /\ Offset(u, v) = IF v >= h THEN v - h ELSE v - h + BufBytes
      <3>1. /\ Offset(u, h) = IF h >= u[1].head_ptr THEN h - u[1].head_ptr
                              ELSE h - u[1].head_ptr + BufBytes
            /\ Offset(u, v) = IF v >= u[1].head_ptr THEN v - u[1].head_ptr
                              ELSE v - u[1].head_ptr + BufBytes
        BY <1>1, <1>2, OffsetWraps
      <3> QED
        BY <2>1, <3>1
    <2>3. Written(h, v) = IF v >= h THEN v - h ELSE v - h + BufBytes
      BY <1>2, PtrSubWraps DEF Written
    <2>4. EndOffset(u, v) = IF v = h THEN BufBytes ELSE Offset(u, v)
      BY <2>1 DEF EndOffset
    <2>5. Offset(u, h) = 0 /\ EndOffset(u, v) = n + 1
      BY <2>2, <2>3, <2>4, <1>2, <1>4, BufferAssumption DEF Ptr
    <2>6. \A k \in 1 .. Len(u) : k = 1 /\ u[k].head_ptr = h /\ u[k].pkt_len = n + 1
      BY <2>1, <1>1 DEF n
    <2>7. \A j, k \in 1 .. Len(u) : ~(j < k)
      BY <2>1
    <2> QED
      BY <2>5, <2>6, <2>7, <1>3, <1>4, <1>1 DEF Layout, u, v
  <1>6. CASE t # <<>>
    <2>1. u[1] = t[1] /\ 1 \in 1 .. Len(t)
      BY <1>1, <1>6
    <2>2. \A p : Offset(u, p) = Offset(t, p) /\ EndOffset(u, p) = EndOffset(t, p)
      BY <2>1 DEF Offset, EndOffset
    <2>3. /\ EndOffset(t, h) = Offset(t, h)
          /\ EndOffset(t, v) = EndOffset(t, h) + n + 1
          /\ EndOffset(t, h) \in Int
      BY <1>6, EndOffsetStep DEF v, n
    <2>4. ASSUME NEW k \in 1 .. Len(t)
          PROVE  /\ u[k] = t[k] /\ Offset(t, u[k].head_ptr) \in Int
                 /\ u[k].pkt_len >= 1 /\ u[k].pkt_len \in Int
                 /\ Offset(u, u[k].head_ptr) + u[k].pkt_len <= Offset(u, h)
                 /\ Offset(u, u[k].head_ptr) + u[k].pkt_len <= EndOffset(u, v)
      <3>1. u[k] = t[k]
        BY <1>1
      <3>2. Offset(t, t[k].head_ptr) \in Ptr /\ t[k].pkt_len \in Nat
        BY DescriptorFields
      <3>3. Offset(t, t[k].head_ptr) \in Int /\ t[k].pkt_len \in Int
        BY <3>2, BufferAssumption DEF Ptr
      <3>4. Offset(t, t[k].head_ptr) + t[k].pkt_len <= EndOffset(t, h) /\ t[k].pkt_len >= 1
        BY DEF Layout
      <3> QED
        BY <3>1, <3>3, <3>4, <2>2, <2>3, <1>4
    <2>5. u[Len(u)].head_ptr = h /\ u[Len(u)].pkt_len = n + 1
      BY <1>1 DEF n
    <2>6. \A k \in 1 .. Len(u) : u[k].pkt_len >= 1
      BY <1>1, <1>4, <2>4, <2>5
    <2>7. \A j, k \in 1 .. Len(u) : j < k =>
              Offset(u, u[j].head_ptr) + u[j].pkt_len <= Offset(u, u[k].head_ptr)
      <3> TAKE j, k \in 1 .. Len(u)
      <3> HAVE j < k
      <3>1. j \in 1 .. Len(t) /\ u[j] = t[j]
        BY <1>1
      <3>2. CASE k = Len(u)
        BY <3>1, <3>2, <2>4, <2>5
      <3>3. CASE k # Len(u)
        <4>1. k \in 1 .. Len(t) /\ u[k] = t[k]
          BY <3>3, <1>1
        <4> QED
          BY <3>1, <4>1, <2>2 DEF Layout
      <3> QED BY <3>2, <3>3
    <2>8. \A k \in 1 .. Len(u) :
              Offset(u, u[k].head_ptr) + u[k].pkt_len <= EndOffset(u, v)
      <3> TAKE k \in 1 .. Len(u)
      <3>1. CASE k = Len(u)
        BY <3>1, <2>2, <2>3, <2>5, <1>4
      <3>2. CASE k # Len(u)
        BY <3>2, <1>1, <2>4
      <3> QED BY <3>1, <3>2
    <2>9. EndOffset(u, v) = EndOffset(u, v) + Written(v, v)
      BY <1>3
    <2> QED
      BY <2>6, <2>7, <2>8, <2>9 DEF Layout, u, v
  <1> QED BY <1>5, <1>6

\* A byte stored for the packet in progress misses every committed packet.
LEMMA StoreMissesCommitted ==
    ASSUME NEW t \in Seq(Descriptor), NEW h \in Ptr, NEW w \in Ptr,
           Layout(t, h, w), w # t[1].head_ptr, Written(h, w) + 1 < BufBytes,
           NEW k \in 1 .. Len(t), NEW i \in 1 .. t[k].pkt_len
    PROVE  PtrAdd(t[k].head_ptr, i - 1) # w
  <1> DEFINE p == t[k].head_ptr
             q == PtrAdd(p, i - 1)
             o == t[1].head_ptr
             len == t[k].pkt_len
             e == EndOffset(t, h)
  <1>1. p \in Ptr /\ Offset(t, p) \in Ptr /\ t # <<>> /\ len \in Nat
    BY DescriptorFields
  <1>2. /\ o \in Ptr /\ e \in 1 .. BufBytes
        /\ Offset(t, w) = IF w >= o THEN w - o ELSE w - o + BufBytes
    BY <1>1, OffsetWraps
  <1>3. Offset(t, p) = IF p >= o THEN p - o ELSE p - o + BufBytes
    BY <1>1, OffsetWraps
  <1>4. Offset(t, p) + len <= e
    BY DEF Layout
  <1>5. Offset(t, w) >= e
    <2>1. Offset(t, w) = e + Written(h, w)
      BY <1>1, EndOffsetStep DEF Layout
    <2>2. Written(h, w) \in Ptr
      BY PtrSubWraps DEF Written
    <2> HIDE DEF e
    <2> QED
      BY <2>1, <2>2, <1>2, BufferAssumption DEF Ptr
  <1>6. i \in Int /\ 1 <= i /\ i <= len
    BY <1>1
  <1> HIDE DEF len, e
  <1>7. i - 1 \in Ptr
    <2> HIDE DEF p
    <2> QED BY <1>1, <1>2, <1>4, <1>6, BufferAssumption DEF Ptr
  <1>8. q = IF p + (i - 1) >= BufBytes THEN p + (i - 1) - BufBytes ELSE p + (i - 1)
    BY <1>1, <1>7, PtrAddWraps
  <1> HIDE DEF p, q, o
  <1>9. q # w
    BY <1>1, <1>2, <1>3, <1>4, <1>5, <1>6, <1>8, BufferAssumption DEF Ptr
  <1> QED
    BY <1>9 DEF q, p

-----------------------------------------------------------------------------
(* The contents of the buffer. *)

\* Storing a byte for the packet in progress leaves the committed ones intact.
LEMMA StoreIntact ==
    ASSUME NEW t \in Seq(Descriptor), NEW g \in Seq(Packet), Len(g) = Len(t),
           NEW h \in Ptr, NEW w \in Ptr, NEW m \in [Ptr -> Byte], NEW x \in Byte,
           Layout(t, h, w), t # <<>> => w # t[1].head_ptr, Written(h, w) + 1 < BufBytes,
           Intact(t, g, m)
    PROVE  Intact(t, g, [m EXCEPT ![w] = x])
  <1> DEFINE m2 == [m EXCEPT ![w] = x]
  <1>1. ASSUME NEW k \in 1 .. Len(t), NEW i \in 1 .. t[k].pkt_len
        PROVE  m2[PtrAdd(t[k].head_ptr, i - 1)] = m[PtrAdd(t[k].head_ptr, i - 1)]
    <2>1. t # <<>>
      OBVIOUS
    <2>2. PtrAdd(t[k].head_ptr, i - 1) # w
      BY <2>1, StoreMissesCommitted
    <2>3. PtrAdd(t[k].head_ptr, i - 1) \in Ptr
      <3>1. t[k].head_ptr \in Ptr /\ t[k].pkt_len \in Nat
        BY DescriptorFields
      <3> QED
        BY <3>1, BufferAssumption DEF PtrAdd, Ptr
    <2> QED
      BY <2>2, <2>3
  <1> HIDE DEF m2
  <1>2. ASSUME NEW k \in 1 .. Len(t) PROVE HoldsTail(t[k], g[k], m2)
    <2>1. HoldsTail(t[k], g[k], m)
      BY DEF Intact
    <2> QED
      BY <1>1, <2>1 DEF HoldsTail
  <1>3. Intact(t, g, m2)
    BY <1>2 DEF Intact
  <1> QED
    BY <1>3 DEF m2

\* Storing a byte extends what the buffer holds of the packet in progress.
LEMMA StoreInProgress ==
    ASSUME NEW h \in Ptr, NEW w \in Ptr, NEW m \in [Ptr -> Byte], NEW x \in Byte,
           NEW p \in Packet, NEW q \in Packet, Written(h, w) + 1 < BufBytes,
           InProgress(h, w, m, p), q.bytes = Append(p.bytes, x), q.stalled = p.stalled
    PROVE  InProgress(h, PtrAdd(w, 1), [m EXCEPT ![w] = x], q)
  <1> DEFINE m2 == [m EXCEPT ![w] = x]
             n == Written(h, w)
             v == PtrAdd(w, 1)
             s == p.bytes
  <1>1. /\ Written(h, v) = n + 1 /\ PtrAdd(h, n) = w
        /\ n \in Ptr
    BY WrittenStep, PtrSubWraps DEF Written
  <1>2. n \in Nat /\ n + 1 < BufBytes
    BY <1>1, BufferAssumption DEF Ptr
  <1>3. /\ s \in Seq(Byte) /\ Len(s) \in Nat
        /\ Len(q.bytes) = Len(s) + 1 /\ q.bytes[Len(s) + 1] = x
    BY DEF Packet
  <1>4. \A i \in 1 .. Len(s) : q.bytes[i] = s[i]
    BY DEF Packet
  <1>5. n <= Len(s) /\ (~p.stalled => n = Len(s))
    BY DEF InProgress
  <1>6. \A i \in 1 .. n : m[PtrAdd(h, i - 1)] = s[Len(s) - n + i]
    BY DEF InProgress
  <1> HIDE DEF n, v, s
  <1>7. ASSUME NEW i \in 1 .. (n + 1)
        PROVE  m2[PtrAdd(h, i - 1)] = q.bytes[Len(q.bytes) - (n + 1) + i]
    <2>1. CASE i = n + 1
      <3>1. m2[w] = x
        OBVIOUS
      <3>2. i - 1 = n /\ Len(q.bytes) - (n + 1) + i = Len(s) + 1
        BY <2>1, <1>2, <1>3
      <3> QED
        BY <3>1, <3>2, <1>1, <1>3
    <2>2. CASE i # n + 1
      <3>1. i \in 1 .. n /\ i - 1 \in Ptr /\ i - 1 # n
        BY <2>2, <1>2, BufferAssumption DEF Ptr
      <3>2. PtrAdd(h, i - 1) # w
        BY <3>1, <1>1, PtrAddInjective
      <3>3. PtrAdd(h, i - 1) \in Ptr
        BY <3>1, PtrAddWraps
      <3>4. m2[PtrAdd(h, i - 1)] = m[PtrAdd(h, i - 1)]
        BY <3>2, <3>3
      <3>5. /\ Len(s) - n + i \in 1 .. Len(s)
            /\ Len(q.bytes) - (n + 1) + i = Len(s) - n + i
        BY <3>1, <1>2, <1>3, <1>5
      <3> QED
        BY <3>1, <3>4, <3>5, <1>4, <1>6
    <2> QED BY <2>1, <2>2
  <1>8. n + 1 <= Len(q.bytes) /\ (~q.stalled => n + 1 = Len(q.bytes))
    BY <1>2, <1>3, <1>5
  <1>9. InProgress(h, v, m2, q)
    BY <1>1, <1>7, <1>8 DEF InProgress
  <1> QED
    BY <1>9 DEF m2, v

\* The packet that is committed is what the buffer holds of it.
LEMMA CommitIntact ==
    ASSUME NEW t \in Seq(Descriptor), NEW g \in Seq(Packet), Len(g) = Len(t),
           NEW h \in Ptr, NEW w \in Ptr, NEW m, Written(h, w) \in Nat \ {0},
           NEW d \in Descriptor, d.head_ptr = h, d.pkt_len = Written(h, w),
           NEW p \in Packet, InProgress(h, w, m, p), Intact(t, g, m)
    PROVE  Intact(Append(t, d), Append(g, p), m)
  <1>1. HoldsTail(d, p, m) /\ (~p.stalled => d.pkt_len = Len(p.bytes))
    <2>1. p.bytes \in Seq(Byte)
      BY DEF Packet
    <2>2. Len(p.bytes) \in Nat
      BY <2>1
    <2>3. Written(h, w) \in 1 .. Len(p.bytes)
      BY <2>2 DEF InProgress
    <2> QED
      BY <2>3 DEF HoldsTail, InProgress
  <1>2. ASSUME NEW k \in 1 .. Len(Append(t, d))
        PROVE  /\ HoldsTail(Append(t, d)[k], Append(g, p)[k], m)
               /\ ~Append(g, p)[k].stalled =>
                     Append(t, d)[k].pkt_len = Len(Append(g, p)[k].bytes)
    <2>1. CASE k = Len(t) + 1
      <3>1. Append(t, d)[k] = d /\ Append(g, p)[k] = p
        BY <2>1
      <3> QED
        BY <1>1, <3>1
    <2>2. CASE k # Len(t) + 1
      <3>1. /\ k \in 1 .. Len(t) /\ Append(t, d)[k] = t[k] /\ Append(g, p)[k] = g[k]
        BY <2>2
      <3> QED
        BY <3>1 DEF Intact
    <2> QED BY <2>1, <2>2
  <1> QED
    BY <1>2 DEF Intact

\* Popping leaves the other packets intact.
LEMMA PopIntact ==
    ASSUME NEW t \in Seq(Descriptor), NEW g \in Seq(Packet), Len(g) = Len(t), t # <<>>,
           NEW m, Intact(t, g, m)
    PROVE  Intact(Tail(t), Tail(g), m)
  <1>1. g # <<>> /\ Len(Tail(t)) = Len(t) - 1
    OBVIOUS
  <1>2. ASSUME NEW k \in 1 .. Len(Tail(t))
        PROVE  Tail(t)[k] = t[k + 1] /\ Tail(g)[k] = g[k + 1] /\ k + 1 \in 1 .. Len(t)
    BY <1>1
  <1> QED
    BY <1>2 DEF Intact

-----------------------------------------------------------------------------
(* One clock cycle. *)

\* The table after the beat, before the pop.
Pushed(b)     == IF commit_pkt(b) THEN Append(table, current_pkt_desc(b)) ELSE table
HistPushed(b) == IF commit_pkt(b) THEN Append(hist, CurAfter(b)) ELSE hist

\* What the invariant says of a table t with history g.
TableInv(t, g, h, w, m) ==
    /\ t \in Seq(Descriptor) /\ Len(t) <= Depth
    /\ g \in Seq(Packet) /\ Len(g) = Len(t)
    /\ Layout(t, h, w)
    /\ Written(h, w) > 0 => Len(t) < Depth
    /\ Intact(t, g, m)

\* What it says of the registers and of the packet in progress.
StreamInv(h, w, m, st, p) ==
    /\ h \in Ptr /\ w \in Ptr /\ m \in [Ptr -> Byte] /\ st \in BOOLEAN /\ p \in Packet
    /\ Len(p.bytes) < MaxPktLen
    /\ Written(h, w) <= Len(p.bytes)
    /\ ~st => InProgress(h, w, m, p)
    /\ st <=> (p.pulses = 1 \/ p.ext)

\* The invariant is these two parts.
LEMMA IInvParts ==
    IInv <=> /\ TableInv(table, hist, current_packet_head_ptr, buf_write_ptr, mem)
             /\ StreamInv(current_packet_head_ptr, buf_write_ptr, mem, abandon_sticky, cur)
  BY DEF IInv, TypeOK, TableInv, StreamInv, StoredMeansRoom, StickyMeaning, CommittedIntact

\* Popping the oldest packet preserves the table's part.
LEMMA PopTableInv ==
    ASSUME NEW t, NEW g, NEW h \in Ptr, NEW w \in Ptr, NEW m,
           TableInv(t, g, h, w, m), t # <<>>
    PROVE  TableInv(Tail(t), Tail(g), h, w, m)
  <1>1. /\ t \in Seq(Descriptor) /\ Len(t) <= Depth /\ g \in Seq(Packet) /\ Len(g) = Len(t)
        /\ Layout(t, h, w) /\ (Written(h, w) > 0 => Len(t) < Depth) /\ Intact(t, g, m)
    BY DEF TableInv
  <1>2. g # <<>> /\ Len(t) \in Nat
    BY <1>1
  <1>3. /\ Tail(t) \in Seq(Descriptor) /\ Len(Tail(t)) = Len(t) - 1
        /\ Tail(g) \in Seq(Packet) /\ Len(Tail(g)) = Len(g) - 1
    BY <1>1, <1>2
  <1>4. Layout(Tail(t), h, w) /\ Intact(Tail(t), Tail(g), m)
    BY <1>1, PopLayout, PopIntact
  <1>5. Len(Tail(t)) <= Depth /\ (Written(h, w) > 0 => Len(Tail(t)) < Depth)
    BY <1>1, <1>2, <1>3, BufferAssumption
  <1> QED
    BY <1>1, <1>3, <1>4, <1>5 DEF TableInv

\* The history of the packet in progress stays well-typed.
LEMMA CurAfterType ==
    ASSUME IInv, NEW b \in Beat
    PROVE  /\ CurAfter(b) \in Packet
           /\ CurAfter(b).bytes = Append(cur.bytes, b.data)
           /\ Len(CurAfter(b).bytes) = Len(cur.bytes) + 1
           /\ Len(cur.bytes) \in Nat
           /\ CurAfter(b).ext = (cur.ext \/ b.abandon)
           /\ CurAfter(b).stalled = (cur.stalled \/ table_full)
           /\ CurAfter(b).pulses = cur.pulses + (IF packet_lost(b) THEN 1 ELSE 0)
           /\ cur.pulses \in {0, 1}
  <1>1. cur \in Packet /\ b.data \in Byte /\ b.abandon \in BOOLEAN
    BY DEF IInv, TypeOK, Beat
  <1>2. /\ cur.bytes \in Seq(Byte) /\ cur.pulses \in {0, 1}
        /\ cur.ext \in BOOLEAN /\ cur.stalled \in BOOLEAN
    BY <1>1 DEF Packet
  <1>3. Append(cur.bytes, b.data) \in Seq(Byte) /\ Len(Append(cur.bytes, b.data)) = Len(cur.bytes) + 1
    BY <1>1, <1>2
  <1>4. packet_lost(b) => cur.pulses = 0
    BY <1>2 DEF packet_lost, IInv, StickyMeaning
  <1>5. cur.pulses + (IF packet_lost(b) THEN 1 ELSE 0) \in 0 .. 1
    BY <1>2, <1>4
  <1>6. (cur.ext \/ b.abandon) \in BOOLEAN /\ (cur.stalled \/ table_full) \in BOOLEAN
    BY <1>1, <1>2
  <1>7. CurAfter(b) \in Packet
    BY <1>3, <1>5, <1>6 DEF CurAfter, Packet
  <1> QED
    BY <1>2, <1>3, <1>7 DEF CurAfter

\* A beat that is stored: the facts both of its cases need.
LEMMA StoredBeat ==
    ASSUME IInv, NEW b \in Beat, buf_write(b)
    PROVE  LET h == current_packet_head_ptr
               w == buf_write_ptr
               m == [mem EXCEPT ![w] = b.data]
           IN  /\ h \in Ptr /\ w \in Ptr /\ PtrAdd(w, 1) \in Ptr
               /\ m \in [Ptr -> Byte]
               /\ Written(h, w) \in Nat
               /\ Written(h, w) + 1 <= MaxPktLen
               /\ Written(h, PtrAdd(w, 1)) = Written(h, w) + 1
               /\ PtrSub(w + 1, h) = Written(h, w) + 1
               /\ table # <<>> => w # table[1].head_ptr
               /\ Len(table) < Depth
               /\ InProgress(h, PtrAdd(w, 1), m, CurAfter(b))
               /\ Intact(table, hist, m)
               /\ Written(h, w) + 1 < BufBytes
  <1> DEFINE h == current_packet_head_ptr
             w == buf_write_ptr
             m == [mem EXCEPT ![w] = b.data]
  <1>1. /\ h \in Ptr /\ w \in Ptr /\ mem \in [Ptr -> Byte] /\ b.data \in Byte
        /\ table \in Seq(Descriptor) /\ hist \in Seq(Packet) /\ Len(hist) = Len(table)
        /\ cur \in Packet /\ Layout(table, h, w) /\ Intact(table, hist, mem)
        /\ Len(table) <= Depth
    BY DEF IInv, TypeOK, Beat, CommittedIntact
  <1>2. ~abandon_sticky /\ ~buf_full /\ ~table_full
    BY DEF buf_write, abandon_this_packet
  <1>3. Written(h, w) \in Ptr
    BY <1>1, PtrSubWraps DEF Written
  <1>4. Written(h, w) \in Nat /\ Written(h, w) + 1 <= MaxPktLen /\ Written(h, w) + 1 < BufBytes
    <2>1. Written(h, w) <= Len(cur.bytes) /\ Len(cur.bytes) < MaxPktLen
      BY DEF IInv
    <2>2. Len(cur.bytes) \in Nat
      BY CurAfterType
    <2> HIDE DEF h, w
    <2> QED
      BY <1>3, <2>1, <2>2, BufferAssumption DEF Ptr
  <1>5. table # <<>> => w # table[1].head_ptr
    BY <1>2 DEF buf_full, empty
  <1>6. Len(table) < Depth
    BY <1>1, <1>2, BufferAssumption DEF table_full
  <1>7. InProgress(h, w, mem, cur)
    BY <1>2 DEF IInv
  <1>8. CurAfter(b).stalled = cur.stalled
    BY <1>2, CurAfterType, <1>1 DEF Packet
  <1>9. InProgress(h, PtrAdd(w, 1), m, CurAfter(b))
    BY <1>1, <1>4, <1>7, <1>8, CurAfterType, StoreInProgress
  <1>10. Intact(table, hist, m)
    BY <1>1, <1>4, <1>5, StoreIntact
  <1>11. /\ Written(h, PtrAdd(w, 1)) = Written(h, w) + 1
         /\ PtrSub(w + 1, h) = Written(h, w) + 1 /\ PtrAdd(w, 1) \in Ptr
    BY <1>1, <1>4, WrittenStep
  <1>12. m \in [Ptr -> Byte]
    BY <1>1
  <1> QED
    BY <1>1, <1>4, <1>5, <1>6, <1>9, <1>10, <1>11, <1>12

\* A cycle preserves both parts of the invariant, before the pop.
LEMMA BeatPreserves ==
    ASSUME IInv, NEW b \in Beat, NEW pop \in BOOLEAN, StreamMayDeliver(b), Cycle(b, pop)
    PROVE  /\ TableInv(Pushed(b), HistPushed(b), current_packet_head_ptr', buf_write_ptr', mem')
           /\ StreamInv(current_packet_head_ptr', buf_write_ptr', mem', abandon_sticky', cur')
  <1> DEFINE h == current_packet_head_ptr
             w == buf_write_ptr
  <1>1. /\ TableInv(table, hist, h, w, mem) /\ StreamInv(h, w, mem, abandon_sticky, cur)
    BY IInvParts
  <1>2. h \in Ptr /\ w \in Ptr /\ abandon_sticky \in BOOLEAN /\ table \in Seq(Descriptor)
    BY <1>1 DEF StreamInv, TableInv
  <1>3. /\ b.valid \in BOOLEAN /\ b.last \in BOOLEAN /\ b.abandon \in BOOLEAN
    BY DEF Beat
  <1>4. CASE ~b.valid
    <2>1. /\ ~buf_write(b) /\ ~commit_pkt(b) /\ ~abandon_pkt(b) /\ ~packet_lost(b)
      BY <1>4 DEF buf_write, commit_pkt, abandon_pkt, packet_lost
    <2>2. /\ h' = h /\ w' = w /\ mem' = mem /\ cur' = cur
      BY <1>4, <2>1 DEF Cycle, WrPtrLogic, DataRam, Observe
    <2>3. abandon_sticky' = abandon_sticky
      BY <1>2, <1>3, <1>4, <2>1 DEF Cycle, AbandonSticky
    <2> QED
      BY <1>1, <2>1, <2>2, <2>3 DEF Pushed, HistPushed
  <1>5. CASE b.valid /\ ~b.last
    <2>1. /\ ~commit_pkt(b) /\ ~abandon_pkt(b)
      BY <1>5 DEF commit_pkt, abandon_pkt
    <2>2. /\ h' = h /\ cur' = CurAfter(b)
          /\ abandon_sticky' = (b.abandon \/ packet_lost(b) \/ abandon_sticky)
      BY <1>5, <2>1 DEF Cycle, WrPtrLogic, Observe, AbandonSticky
    <2>3. Len(CurAfter(b).bytes) < MaxPktLen
      BY <1>5, CurAfterType DEF StreamMayDeliver
    <2>4. /\ abandon_sticky' \in BOOLEAN
          /\ abandon_sticky' <=> (CurAfter(b).pulses = 1 \/ CurAfter(b).ext)
      <3>1. abandon_sticky <=> (cur.pulses = 1 \/ cur.ext)
        BY DEF IInv, StickyMeaning
      <3>2. packet_lost(b) => cur.pulses = 0
        BY <3>1, CurAfterType DEF packet_lost
      <3>3. CurAfter(b).pulses = 1 <=> (packet_lost(b) \/ cur.pulses = 1)
        BY <3>2, CurAfterType
      <3> QED
        BY <2>2, <3>1, <3>3, CurAfterType, <1>2, <1>3
    <2>5. CASE buf_write(b)
      <3>1. w' = PtrAdd(w, 1) /\ mem' = [mem EXCEPT ![w] = b.data]
        BY <2>1, <2>5 DEF Cycle, WrPtrLogic, DataRam
      <3>2. Layout(table, h, PtrAdd(w, 1))
        BY <1>1, <1>2, <2>5, StoredBeat, StoreLayout DEF TableInv
      <3>3. TableInv(table, hist, h, PtrAdd(w, 1), [mem EXCEPT ![w] = b.data])
        BY <1>1, <2>5, <3>2, StoredBeat DEF TableInv
      <3>4. StreamInv(h, PtrAdd(w, 1), [mem EXCEPT ![w] = b.data], abandon_sticky', CurAfter(b))
        <4>1. Written(h, PtrAdd(w, 1)) <= Len(CurAfter(b).bytes)
          BY <2>5, StoredBeat DEF InProgress
        <4> QED
          BY <2>3, <2>4, <2>5, <4>1, StoredBeat, CurAfterType DEF StreamInv
      <3> QED
        BY <2>1, <2>2, <3>1, <3>3, <3>4 DEF Pushed, HistPushed
    <2>6. CASE ~buf_write(b)
      <3>1. w' = w /\ mem' = mem
        BY <2>1, <2>6 DEF Cycle, WrPtrLogic, DataRam
      <3>2. Written(h, w) <= Len(CurAfter(b).bytes)
        <4>1. Written(h, w) <= Len(cur.bytes) /\ Written(h, w) \in Ptr
          BY <1>1, <1>2, PtrSubWraps DEF StreamInv, Written
        <4> HIDE DEF h, w
        <4> QED
          BY <4>1, CurAfterType, BufferAssumption DEF Ptr
      <3>3. ASSUME ~abandon_sticky'
            PROVE  InProgress(h, w, mem, CurAfter(b))
        <4>1. ~abandon_sticky /\ ~b.abandon /\ ~packet_lost(b)
          BY <2>2, <3>3
        <4>2. ~buf_full
          BY <4>1, <1>5 DEF packet_lost
        <4>3. table_full
          BY <4>1, <4>2, <2>6, <1>5 DEF buf_write, abandon_this_packet
        <4>4. Written(h, w) = 0
          <5>1. ~(Written(h, w) > 0)
            BY <4>3, <1>1, BufferAssumption DEF table_full, TableInv
          <5>2. Written(h, w) \in Ptr
            BY <1>2, PtrSubWraps DEF Written
          <5> HIDE DEF h, w
          <5> QED
            BY <5>1, <5>2, BufferAssumption DEF Ptr
        <4>5. CurAfter(b).stalled
          BY <4>3, CurAfterType
        <4> QED
          BY <3>2, <4>4, <4>5 DEF InProgress
      <3>4. StreamInv(h, w, mem, abandon_sticky', CurAfter(b))
        BY <1>1, <2>3, <2>4, <3>2, <3>3, CurAfterType DEF StreamInv
      <3> QED
        BY <1>1, <2>1, <2>2, <3>1, <3>4 DEF Pushed, HistPushed
    <2> QED BY <2>5, <2>6
  <1>6. CASE b.valid /\ b.last
    <2>1. cur' = NoPacket /\ abandon_sticky' = FALSE
      BY <1>6 DEF Cycle, Observe, AbandonSticky
    <2>2. /\ NoPacket \in Packet /\ NoPacket.bytes = <<>> /\ Len(NoPacket.bytes) = 0
          /\ NoPacket.pulses = 0 /\ NoPacket.ext = FALSE /\ 0 < MaxPktLen
      BY BufferAssumption DEF NoPacket, Packet
    <2>3. ASSUME NEW p \in Ptr, NEW m \in [Ptr -> Byte], Written(p, p) = 0
          PROVE  StreamInv(p, p, m, FALSE, NoPacket)
      BY <2>2, <2>3 DEF StreamInv, InProgress
    <2>4. CASE commit_pkt(b)
      <3>1. buf_write(b) /\ ~abandon_pkt(b)
        BY <2>4 DEF commit_pkt, buf_write, abandon_pkt, abandon_this_packet
      <3> DEFINE v == PtrAdd(w, 1)
                 m == [mem EXCEPT ![w] = b.data]
                 d == current_pkt_desc(b)
      <3>2. h' = v /\ w' = v /\ mem' = m
        BY <2>4, <3>1 DEF Cycle, WrPtrLogic, DataRam
      <3>3. /\ d \in Descriptor /\ d.head_ptr = h /\ d.pkt_len = Written(h, w) + 1
        <4>1. /\ PtrSub(w + 1, h) = Written(h, w) + 1
              /\ Written(h, w) \in Nat /\ Written(h, w) + 1 <= MaxPktLen
          BY <3>1, StoredBeat
        <4>2. PtrSub(w + 1, h) % LenRange = Written(h, w) + 1
          <5> DEFINE n == Written(h, w)
          <5> HIDE DEF n
          <5>1. (n + 1) % LenRange = n + 1
            BY <4>1, BufferAssumption DEF n
          <5> QED
            BY <4>1, <5>1 DEF n
        <4>3. Written(h, w) + 1 \in 0 .. LenRange - 1
          BY <4>1, BufferAssumption
        <4>4. b.metadata \in Metadata
          BY DEF Beat
        <4> QED
          BY <1>2, <4>2, <4>3, <4>4 DEF current_pkt_desc, Descriptor
      <3>4. Layout(Append(table, d), v, v)
        BY <1>1, <1>2, <3>1, <3>3, StoredBeat, CommitLayout DEF TableInv
      <3>5. Intact(Append(table, d), Append(hist, CurAfter(b)), m)
        <4>1. /\ Written(h, v) \in Nat \ {0} /\ d.pkt_len = Written(h, v)
              /\ v \in Ptr /\ InProgress(h, v, m, CurAfter(b)) /\ Intact(table, hist, m)
          BY <3>1, <3>3, StoredBeat
        <4>2. hist \in Seq(Packet) /\ Len(hist) = Len(table)
          BY <1>1 DEF TableInv
        <4> HIDE DEF v, m, d
        <4> QED
          BY <1>2, <3>3, <4>1, <4>2, CurAfterType, CommitIntact
      <3>6. Written(v, v) = 0 /\ v \in Ptr /\ m \in [Ptr -> Byte]
        <4>1. v \in Ptr /\ m \in [Ptr -> Byte]
          BY <3>1, StoredBeat
        <4>2. Append(table, d) \in Seq(Descriptor)
          BY <1>2, <3>3
        <4> HIDE DEF v, m, d
        <4> QED
          BY <3>4, <4>1, <4>2, AbandonLayout
      <3>7. /\ Append(table, d) \in Seq(Descriptor) /\ Len(Append(table, d)) = Len(table) + 1
            /\ Append(hist, CurAfter(b)) \in Seq(Packet)
            /\ Len(Append(hist, CurAfter(b))) = Len(hist) + 1
            /\ Len(hist) = Len(table) /\ Len(table) \in Nat
        <4>1. /\ hist \in Seq(Packet) /\ Len(hist) = Len(table) /\ CurAfter(b) \in Packet
              /\ d \in Descriptor
          BY <1>1, <3>3, CurAfterType DEF TableInv
        <4> HIDE DEF d
        <4> QED
          BY <1>2, <4>1
      <3>8. Len(Append(table, d)) <= Depth
        <4>1. Len(table) < Depth
          BY <3>1, StoredBeat
        <4> HIDE DEF d
        <4> QED
          BY <3>7, <4>1, BufferAssumption
      <3> HIDE DEF v, m, d
      <3>9. TableInv(Append(table, d), Append(hist, CurAfter(b)), v, v, m)
        BY <3>4, <3>5, <3>6, <3>7, <3>8 DEF TableInv
      <3>10. StreamInv(v, v, m, FALSE, NoPacket)
        BY <2>3, <3>6
      <3> QED
        BY <2>1, <2>4, <3>2, <3>9, <3>10 DEF Pushed, HistPushed, d
    <2>5. CASE ~commit_pkt(b)
      <3>1. abandon_pkt(b) /\ ~buf_write(b)
        BY <2>5, <1>6 DEF commit_pkt, abandon_pkt, buf_write
      <3>2. h' = h /\ w' = h /\ mem' = mem
        BY <2>5, <3>1 DEF Cycle, WrPtrLogic, DataRam
      <3>3. Layout(table, h, h) /\ Written(h, h) = 0
        BY <1>1, <1>2, AbandonLayout DEF TableInv
      <3>4. TableInv(table, hist, h, h, mem)
        BY <1>1, <3>3 DEF TableInv
      <3>5. StreamInv(h, h, mem, FALSE, NoPacket)
        BY <1>1, <2>3, <3>3 DEF StreamInv
      <3> QED
        BY <2>1, <2>5, <3>2, <3>4, <3>5 DEF Pushed, HistPushed
    <2> QED BY <2>4, <2>5
  <1> QED
    BY <1>3, <1>4, <1>5, <1>6

-----------------------------------------------------------------------------
(* The theorems. *)

\* The invariant holds after reset.
LEMMA InitIInv == Init => IInv
  <1> SUFFICES ASSUME Init PROVE IInv
    OBVIOUS
  <1>1. /\ NoPacket \in Packet /\ NoPacket.bytes = <<>> /\ Len(NoPacket.bytes) = 0
        /\ NoPacket.pulses = 0 /\ NoPacket.ext = FALSE /\ 0 < MaxPktLen
    BY BufferAssumption DEF NoPacket, Packet
  <1>2. 0 \in Ptr /\ Written(0, 0) = 0
    BY BufferAssumption DEF Ptr, Written, PtrSub
  <1>3. /\ <<>> \in Seq(Descriptor) /\ <<>> \in Seq(Packet) /\ Len(<<>>) = 0 /\ 0 <= Depth
    BY BufferAssumption
  <1>4. TableInv(<<>>, <<>>, 0, 0, mem)
    BY <1>2, <1>3 DEF TableInv, Layout, Intact
  <1>5. StreamInv(0, 0, mem, FALSE, NoPacket)
    BY <1>1, <1>2 DEF StreamInv, InProgress, Init
  <1> QED
    BY <1>4, <1>5, IInvParts DEF Init

\* Every cycle preserves it.
LEMMA NextIInv == IInv /\ [Next]_vars => IInv'
  <1> SUFFICES ASSUME IInv, [Next]_vars PROVE IInv'
    OBVIOUS
  <1>1. CASE UNCHANGED vars
    BY <1>1 DEF vars, IInv, TypeOK, StoredMeansRoom, StickyMeaning, CommittedIntact
  <1>2. CASE Next
    <2>1. PICK b \in Beat, pop \in BOOLEAN : StreamMayDeliver(b) /\ Cycle(b, pop)
      BY <1>2 DEF Next
    <2>2. /\ TableInv(Pushed(b), HistPushed(b), current_packet_head_ptr', buf_write_ptr', mem')
          /\ StreamInv(current_packet_head_ptr', buf_write_ptr', mem', abandon_sticky', cur')
      BY <2>1, BeatPreserves
    <2>3. table = <<>> <=> hist = <<>>
      BY DEF IInv, TypeOK
    <2>4. /\ table' = IF pop /\ table # <<>> THEN Tail(Pushed(b)) ELSE Pushed(b)
          /\ hist' = IF pop /\ table # <<>> THEN Tail(HistPushed(b)) ELSE HistPushed(b)
      <3>1. commit_pkt(b) => ~table_full
        BY DEF commit_pkt, abandon_this_packet
      <3> QED
        BY <2>1, <2>3, <3>1
           DEF Cycle, DescriptionTable, Observe, PushPop, Pushed, HistPushed
    <2>5. TableInv(table', hist', current_packet_head_ptr', buf_write_ptr', mem')
      <3>1. CASE pop /\ table # <<>>
        <4>1. Pushed(b) # <<>>
          <5>1. table \in Seq(Descriptor) /\ table # <<>>
            BY <3>1 DEF IInv, TypeOK
          <5>2. Pushed(b) \in Seq(Descriptor)
            BY <2>2 DEF TableInv
          <5>3. Append(table, current_pkt_desc(b)) # <<>>
            BY <5>1
          <5> QED
            BY <5>1, <5>3 DEF Pushed
        <4>2. current_packet_head_ptr' \in Ptr /\ buf_write_ptr' \in Ptr
          BY <2>2 DEF StreamInv
        <4> QED
          BY <2>2, <2>4, <3>1, <4>1, <4>2, PopTableInv
      <3>2. CASE ~(pop /\ table # <<>>)
        BY <2>2, <2>4, <3>2
      <3> QED BY <3>1, <3>2
    <2>6. IInv' <=> /\ TableInv(table', hist', current_packet_head_ptr', buf_write_ptr', mem')
                    /\ StreamInv(current_packet_head_ptr', buf_write_ptr', mem',
                                 abandon_sticky', cur')
      BY DEF IInv, TypeOK, TableInv, StreamInv, StoredMeansRoom, StickyMeaning,
             CommittedIntact
    <2> QED
      BY <2>2, <2>5, <2>6
  <1> QED BY <1>1, <1>2

\* The inductive invariant holds in every state: packets in the table lie one
\* after the other in the buffer, the packet in progress follows them.
THEOREM RingBufferInvariant == Spec => []IInv
  BY InitIInv, NextIInv, PTL DEF Spec

\* The registers of the ring buffer stay in their ranges.
THEOREM RingBufferType == Spec => []TypeOK
  <1>1. IInv => TypeOK
    BY DEF IInv
  <1> QED
    BY <1>1, RingBufferInvariant, PTL

\* No step of the writer or of the reader damages a committed packet.
THEOREM CommittedPacketsIntact == Spec => []CommittedIntact
  <1>1. IInv => CommittedIntact
    BY DEF IInv
  <1> QED
    BY <1>1, RingBufferInvariant, PTL

\* packet_lost_o is pulsed exactly once for each packet dropped for lack of
\* space, and never for a packet that is committed.
THEOREM PacketLostOnce == Spec => []LostExactlyOnce
  <1>1. IInv => LostExactlyOnce
    <2> SUFFICES ASSUME IInv, NEW b \in Beat, b.valid, b.last
                 PROVE  /\ CurAfter(b).pulses <= 1
                        /\ commit_pkt(b) <=> (CurAfter(b).pulses = 0 /\ ~CurAfter(b).ext)
      BY DEF LostExactlyOnce
    <2>1. abandon_sticky <=> (cur.pulses = 1 \/ cur.ext)
      BY DEF IInv, StickyMeaning
    <2>2. /\ cur.ext \in BOOLEAN /\ b.abandon \in BOOLEAN /\ CurAfter(b).pulses \in 0 .. 1
      BY CurAfterType DEF IInv, TypeOK, Packet, Beat
    <2>3. CurAfter(b).pulses = 0 <=> (cur.pulses = 0 /\ ~packet_lost(b))
      BY CurAfterType
    <2>4. packet_lost(b) <=> ((buf_full \/ table_full) /\ ~abandon_sticky)
      BY DEF packet_lost
    <2>5. commit_pkt(b) <=> ~(abandon_sticky \/ b.abandon \/ buf_full \/ table_full)
      BY DEF commit_pkt, abandon_this_packet
    <2>6. CurAfter(b).ext <=> (cur.ext \/ b.abandon)
      BY <2>2, CurAfterType
    <2>7. cur.pulses = 0 <=> cur.pulses # 1
      BY CurAfterType
    <2> QED
      BY <2>1, <2>2, <2>3, <2>4, <2>5, <2>6, <2>7
  <1> QED
    BY <1>1, RingBufferInvariant, PTL

\* BufAlmostFullWhenFull_A, because the packet in progress is the only data
\* the almost-full flag does not count and it is shorter than the threshold.
THEOREM AlmostFullWhenFull == Spec => []BufAlmostFullWhenFull
  <1>1. IInv => BufAlmostFullWhenFull
    <2> SUFFICES ASSUME IInv, buf_full PROVE buf_almost_full
      BY DEF BufAlmostFullWhenFull
    <2> DEFINE n == Written(current_packet_head_ptr, buf_write_ptr)
    <2>1. ~empty /\ buffer_ptrs_margin = n
      BY DEF buf_full, buffer_ptrs_margin, Written
    <2>2. n <= Len(cur.bytes) /\ Len(cur.bytes) < MaxPktLen
      BY DEF IInv
    <2>3. n \in Ptr
      BY PtrSubWraps DEF IInv, TypeOK, Written
    <2>4. Len(cur.bytes) \in Nat
      BY DEF IInv, TypeOK, Packet
    <2> HIDE DEF n
    <2>5. n <= BufAlmostFullThreshold
      BY <2>2, <2>3, <2>4, BufferAssumption DEF Ptr
    <2> QED
      BY <2>1, <2>5 DEF buf_almost_full
  <1> QED
    BY <1>1, RingBufferInvariant, PTL

-----------------------------------------------------------------------------
(* Refinement: the ring buffer implements the store of byte strings. *)

StoredPacket == [metadata : Metadata, bytes : Seq(Byte)]

\* An addition that goes round at most once, the whole buffer included.
LEMMA PtrAddAround ==
    ASSUME NEW p \in Ptr, NEW n \in 1 .. BufBytes
    PROVE  /\ PtrAdd(p, n) = IF p + n >= BufBytes THEN p + n - BufBytes ELSE p + n
           /\ PtrAdd(p, n) \in Ptr
  BY BufferAssumption DEF Ptr, PtrAdd

\* A packet in the table takes between one byte and the whole buffer.
LEMMA LengthInBuffer ==
    ASSUME NEW t \in Seq(Descriptor), NEW h \in Ptr, NEW w \in Ptr, Layout(t, h, w),
           NEW k \in 1 .. Len(t)
    PROVE  t[k].pkt_len \in 1 .. BufBytes
  <1> DEFINE n == t[k].pkt_len
             o == Offset(t, t[k].head_ptr)
             e == EndOffset(t, h)
  <1>1. n \in Nat /\ o \in Ptr /\ t # <<>>
    BY DescriptorFields
  <1>2. n >= 1 /\ o + n <= e
    BY DEF Layout
  <1>3. e \in 1 .. BufBytes
    BY <1>1, OffsetWraps
  <1> HIDE DEF n, o, e
  <1>4. n \in 1 .. BufBytes
    BY <1>1, <1>2, <1>3, BufferAssumption DEF Ptr
  <1> QED
    BY <1>4 DEF n

\* What is read back is a string of as many bytes as the descriptor says.
LEMMA ReadBackType ==
    ASSUME NEW m \in [Ptr -> Byte], NEW p \in Ptr, NEW n \in Nat
    PROVE  /\ ReadBack(m, p, n) \in Seq(Byte)
           /\ Len(ReadBack(m, p, n)) = n
           /\ \A i \in 1 .. n : ReadBack(m, p, n)[i] = m[PtrAdd(p, i - 1)]
  <1>1. ASSUME NEW i \in 1 .. n PROVE m[PtrAdd(p, i - 1)] \in Byte
    <2>1. PtrAdd(p, i - 1) \in Ptr
      BY BufferAssumption DEF PtrAdd, Ptr
    <2> QED
      BY <2>1
  <1>2. ReadBack(m, p, n) \in [1 .. n -> Byte]
    BY <1>1 DEF ReadBack
  <1>3. ReadBack(m, p, n) \in Seq(Byte)
    BY <1>2
  <1>4. DOMAIN ReadBack(m, p, n) = 1 .. n
    BY DEF ReadBack
  <1> QED
    BY <1>3, <1>4 DEF ReadBack

\* The packets of a table are a sequence, one for each descriptor.
LEMMA PacketsOfType ==
    ASSUME NEW t \in Seq(Descriptor), NEW m \in [Ptr -> Byte]
    PROVE  /\ PacketsOf(t, m) \in Seq(StoredPacket)
           /\ Len(PacketsOf(t, m)) = Len(t)
           /\ \A k \in 1 .. Len(t) :
                 /\ PacketsOf(t, m)[k] =
                      [metadata |-> t[k].metadata,
                       bytes |-> ReadBack(m, t[k].head_ptr, t[k].pkt_len)]
                 /\ PacketsOf(t, m)[k] \in StoredPacket
                 /\ Len(PacketsOf(t, m)[k].bytes) = t[k].pkt_len
  <1> DEFINE P == PacketsOf(t, m)
  <1>1. ASSUME NEW k \in 1 .. Len(t)
        PROVE  /\ P[k] = [metadata |-> t[k].metadata,
                          bytes |-> ReadBack(m, t[k].head_ptr, t[k].pkt_len)]
               /\ P[k] \in StoredPacket
               /\ Len(P[k].bytes) = t[k].pkt_len
    <2>1. P[k] = [metadata |-> t[k].metadata,
                  bytes |-> ReadBack(m, t[k].head_ptr, t[k].pkt_len)]
      BY DEF PacketsOf
    <2>2. t[k] \in Descriptor /\ t[k].head_ptr \in Ptr /\ t[k].pkt_len \in Nat
      BY DescriptorFields
    <2>3. t[k].metadata \in Metadata
      BY <2>2 DEF Descriptor
    <2>4. /\ ReadBack(m, t[k].head_ptr, t[k].pkt_len) \in Seq(Byte)
          /\ Len(ReadBack(m, t[k].head_ptr, t[k].pkt_len)) = t[k].pkt_len
      BY <2>2, ReadBackType
    <2> QED
      BY <2>1, <2>3, <2>4 DEF StoredPacket
  <1>2. P \in [1 .. Len(t) -> StoredPacket]
    <2>1. DOMAIN P = 1 .. Len(t)
      BY DEF PacketsOf
    <2>2. P = [k \in 1 .. Len(t) |-> P[k]]
      BY DEF PacketsOf
    <2> HIDE DEF P
    <2> QED
      BY <1>1, <2>2
  <1>3. P \in Seq(StoredPacket) /\ Len(P) = Len(t)
    <2>1. Len(t) \in Nat
      OBVIOUS
    <2> HIDE DEF P
    <2> QED
      BY <1>2, <2>1
  <1> QED
    BY <1>1, <1>3

\* The packets after a commit: the committed one is last.
LEMMA PacketsOfAppend ==
    ASSUME NEW t \in Seq(Descriptor), NEW m \in [Ptr -> Byte], NEW d \in Descriptor
    PROVE  PacketsOf(Append(t, d), m) =
             Append(PacketsOf(t, m), [metadata |-> d.metadata,
                                      bytes |-> ReadBack(m, d.head_ptr, d.pkt_len)])
  <1> DEFINE u == Append(t, d)
             x == [metadata |-> d.metadata, bytes |-> ReadBack(m, d.head_ptr, d.pkt_len)]
             P == PacketsOf(t, m)
             Q == PacketsOf(u, m)
  <1>1. u \in Seq(Descriptor) /\ Len(u) = Len(t) + 1 /\ Len(t) \in Nat
    OBVIOUS
  <1>2. P \in Seq(StoredPacket) /\ Len(P) = Len(t)
    BY PacketsOfType
  <1>3. Q \in Seq(StoredPacket) /\ Len(Q) = Len(u)
    BY <1>1, PacketsOfType
  <1>4. ASSUME NEW k \in 1 .. Len(u)
        PROVE  Q[k] = IF k = Len(t) + 1 THEN x ELSE P[k]
    <2>1. CASE k = Len(t) + 1
      <3>1. u[k] = d
        BY <2>1
      <3>2. Q[k] = [metadata |-> u[k].metadata,
                    bytes |-> ReadBack(m, u[k].head_ptr, u[k].pkt_len)]
        BY DEF PacketsOf
      <3> QED
        BY <2>1, <3>1, <3>2
    <2>2. CASE k # Len(t) + 1
      <3>1. u[k] = t[k] /\ k \in 1 .. Len(t)
        BY <2>2, <1>1
      <3>2. Q[k] = [metadata |-> u[k].metadata,
                    bytes |-> ReadBack(m, u[k].head_ptr, u[k].pkt_len)]
        BY DEF PacketsOf
      <3>3. P[k] = [metadata |-> t[k].metadata,
                    bytes |-> ReadBack(m, t[k].head_ptr, t[k].pkt_len)]
        BY <3>1 DEF PacketsOf
      <3> QED
        BY <2>2, <3>1, <3>2, <3>3
    <2> QED BY <2>1, <2>2
  <1>5. x \in StoredPacket
    <2>1. Len(u) \in 1 .. Len(u) /\ Len(u) = Len(t) + 1
      BY <1>1
    <2>2. Q[Len(u)] = x
      BY <2>1, <1>4
    <2>3. Q[Len(u)] \in StoredPacket
      BY <1>1, <2>1, PacketsOfType
    <2> QED
      BY <2>2, <2>3
  <1> HIDE DEF P, Q, x
  <1>6. /\ Append(P, x) \in Seq(StoredPacket) /\ Len(Append(P, x)) = Len(P) + 1
        /\ \A k \in 1 .. Len(P) + 1 : Append(P, x)[k] = IF k = Len(P) + 1 THEN x ELSE P[k]
    BY <1>2, <1>5
  <1> HIDE DEF u
  <1>7. Q = Append(P, x)
    BY <1>1, <1>2, <1>3, <1>4, <1>6
  <1> QED
    BY <1>7 DEF P, Q, x, u

\* The packets after a pop: the oldest is gone.
LEMMA PacketsOfTail ==
    ASSUME NEW t \in Seq(Descriptor), t # <<>>, NEW m \in [Ptr -> Byte]
    PROVE  PacketsOf(Tail(t), m) = Tail(PacketsOf(t, m))
  <1> DEFINE u == Tail(t)
             P == PacketsOf(t, m)
             Q == PacketsOf(u, m)
  <1>1. /\ u \in Seq(Descriptor) /\ Len(u) = Len(t) - 1 /\ Len(t) \in Nat
        /\ \A k \in 1 .. Len(u) : u[k] = t[k + 1] /\ k + 1 \in 1 .. Len(t)
    OBVIOUS
  <1>2. P \in Seq(StoredPacket) /\ Len(P) = Len(t) /\ P # <<>>
    BY PacketsOfType
  <1>3. Q \in Seq(StoredPacket) /\ Len(Q) = Len(u)
    BY <1>1, PacketsOfType
  <1>4. ASSUME NEW k \in 1 .. Len(u) PROVE Q[k] = P[k + 1]
    <2>1. Q[k] = [metadata |-> u[k].metadata,
                  bytes |-> ReadBack(m, u[k].head_ptr, u[k].pkt_len)]
      BY DEF PacketsOf
    <2>2. u[k] = t[k + 1] /\ k + 1 \in 1 .. Len(t)
      BY <1>1
    <2>3. P[k + 1] = [metadata |-> t[k + 1].metadata,
                      bytes |-> ReadBack(m, t[k + 1].head_ptr, t[k + 1].pkt_len)]
      BY <2>2 DEF PacketsOf
    <2> QED
      BY <2>1, <2>2, <2>3
  <1> HIDE DEF P, Q, u
  <1>5. /\ Tail(P) \in Seq(StoredPacket) /\ Len(Tail(P)) = Len(P) - 1
        /\ \A k \in 1 .. Len(P) - 1 : Tail(P)[k] = P[k + 1]
    BY <1>2
  <1>6. Q = Tail(P)
    BY <1>1, <1>2, <1>3, <1>4, <1>5
  <1> QED
    BY <1>6 DEF P, Q, u

\* A byte stored for the packet in progress does not show in the committed ones.
LEMMA StoreKeepsPackets ==
    ASSUME NEW t \in Seq(Descriptor), NEW h \in Ptr, NEW w \in Ptr,
           NEW m \in [Ptr -> Byte], NEW x \in Byte,
           Layout(t, h, w), t # <<>> => w # t[1].head_ptr, Written(h, w) + 1 < BufBytes
    PROVE  PacketsOf(t, [m EXCEPT ![w] = x]) = PacketsOf(t, m)
  <1> DEFINE m2 == [m EXCEPT ![w] = x]
  <1>1. ASSUME NEW k \in 1 .. Len(t)
        PROVE  ReadBack(m2, t[k].head_ptr, t[k].pkt_len) = ReadBack(m, t[k].head_ptr, t[k].pkt_len)
    <2>1. ASSUME NEW i \in 1 .. t[k].pkt_len
          PROVE  m2[PtrAdd(t[k].head_ptr, i - 1)] = m[PtrAdd(t[k].head_ptr, i - 1)]
      <3>1. t # <<>>
        OBVIOUS
      <3>2. PtrAdd(t[k].head_ptr, i - 1) # w
        BY <3>1, StoreMissesCommitted
      <3>3. PtrAdd(t[k].head_ptr, i - 1) \in Ptr
        <4>1. t[k].head_ptr \in Ptr /\ t[k].pkt_len \in Nat
          BY DescriptorFields
        <4> QED
          BY <4>1, BufferAssumption DEF PtrAdd, Ptr
      <3> QED
        BY <3>2, <3>3
    <2> HIDE DEF m2
    <2> QED
      BY <2>1 DEF ReadBack
  <1> HIDE DEF m2
  <1>2. PacketsOf(t, m2) = PacketsOf(t, m)
    BY <1>1 DEF PacketsOf
  <1> QED
    BY <1>2 DEF m2

\* It is the next byte of the packet in progress.
LEMMA StoreExtendsKept ==
    ASSUME NEW h \in Ptr, NEW w \in Ptr, NEW m \in [Ptr -> Byte], NEW x \in Byte,
           Written(h, w) + 1 < BufBytes
    PROVE  ReadBack([m EXCEPT ![w] = x], h, Written(h, w) + 1) =
             Append(ReadBack(m, h, Written(h, w)), x)
  <1> DEFINE n == Written(h, w)
             m2 == [m EXCEPT ![w] = x]
             R == ReadBack(m, h, n)
             S == ReadBack(m2, h, n + 1)
  <1>1. n \in Ptr /\ PtrAdd(h, n) = w /\ m2 \in [Ptr -> Byte] /\ m2[w] = x
    BY PtrSubWraps, WrittenStep DEF Written
  <1>2. n \in Nat /\ n < BufBytes /\ n + 1 < BufBytes /\ n + 1 \in Nat
    <2>1. n + 1 < BufBytes
      OBVIOUS
    <2> HIDE DEF n
    <2> QED BY <1>1, <2>1, BufferAssumption DEF Ptr
  <1> HIDE DEF n
  <1>3. /\ R \in Seq(Byte) /\ Len(R) = n
        /\ \A i \in 1 .. n : R[i] = m[PtrAdd(h, i - 1)]
    BY <1>2, ReadBackType
  <1>4. /\ S \in Seq(Byte) /\ Len(S) = n + 1
        /\ \A i \in 1 .. n + 1 : S[i] = m2[PtrAdd(h, i - 1)]
    BY <1>1, <1>2, ReadBackType
  <1>5. ASSUME NEW i \in 1 .. n + 1 PROVE S[i] = IF i = n + 1 THEN x ELSE R[i]
    <2>1. CASE i = n + 1
      <3>1. i - 1 = n
        BY <2>1, <1>2
      <3>2. S[i] = m2[PtrAdd(h, i - 1)]
        BY <1>4
      <3> QED
        BY <2>1, <3>1, <3>2, <1>1
    <2>2. CASE i # n + 1
      <3>1. i \in 1 .. n /\ i - 1 \in Ptr /\ i - 1 # n
        BY <2>2, <1>2, BufferAssumption DEF Ptr
      <3>2. PtrAdd(h, i - 1) # w
        BY <3>1, <1>1, PtrAddInjective
      <3>3. PtrAdd(h, i - 1) \in Ptr
        BY <3>1, PtrAddWraps
      <3>4. m2[PtrAdd(h, i - 1)] = m[PtrAdd(h, i - 1)]
        BY <3>2, <3>3
      <3> QED
        BY <2>2, <3>1, <3>4, <1>3, <1>4
    <2> QED BY <2>1, <2>2
  <1> HIDE DEF R, S
  <1>6. S = Append(R, x)
    BY <1>2, <1>3, <1>4, <1>5
  <1> QED
    BY <1>6 DEF R, S, m2, n

\* The store has no space exactly when the write pointer has come round to the
\* oldest packet.
LEMMA NoSpaceIsFull ==
    ASSUME NEW t \in Seq(Descriptor), NEW h \in Ptr, NEW w \in Ptr, Layout(t, h, w)
    PROVE  /\ UsedBytes(t, h) \in Nat
           /\ UsedBytes(t, h) + Written(h, w) = BufBytes <=> (t # <<>> /\ t[1].head_ptr = w)
  <1> DEFINE n == Written(h, w)
  <1>1. n \in Ptr
    BY PtrSubWraps DEF Written
  <1>2. CASE t = <<>>
    <2>1. UsedBytes(t, h) = 0
      BY <1>2 DEF UsedBytes
    <2> HIDE DEF n
    <2>2. 0 + n # BufBytes
      BY <1>1, BufferAssumption DEF Ptr
    <2> QED
      BY <1>2, <2>1, <2>2 DEF n
  <1>3. CASE t # <<>>
    <2>1. /\ t[1].head_ptr \in Ptr /\ Offset(t, w) \in Ptr
          /\ EndOffset(t, h) \in 1 .. BufBytes
      BY <1>3, OffsetWraps
    <2>2. UsedBytes(t, h) = EndOffset(t, h)
      BY <1>3 DEF UsedBytes, EndOffset, Offset
    <2>3. EndOffset(t, w) = EndOffset(t, h) + n
      BY <1>3 DEF Layout
    <2>4. EndOffset(t, w) = BufBytes <=> w = t[1].head_ptr
      <3> DEFINE o == Offset(t, w)
      <3> HIDE DEF o
      <3>1. o # BufBytes
        BY <2>1, BufferAssumption DEF Ptr, o
      <3> QED
        BY <3>1 DEF EndOffset, o
    <2> QED
      BY <1>3, <2>1, <2>2, <2>3, <2>4, BufferAssumption
  <1> QED BY <1>2, <1>3

\* A pop frees the bytes of the oldest packet, no more and no less.
LEMMA PopUsed ==
    ASSUME NEW t \in Seq(Descriptor), t # <<>>, NEW h \in Ptr, NEW w \in Ptr,
           Layout(t, h, w), Contiguous(t, h)
    PROVE  /\ UsedBytes(Tail(t), h) = UsedBytes(t, h) - t[1].pkt_len
           /\ Contiguous(Tail(t), h)
  <1> DEFINE u == Tail(t)
             o == t[1].head_ptr
             n == t[1].pkt_len
  <1>1. /\ u \in Seq(Descriptor) /\ Len(u) = Len(t) - 1 /\ Len(t) \in Nat \ {0}
        /\ \A k \in 1 .. Len(u) : u[k] = t[k + 1] /\ k + 1 \in 1 .. Len(t)
    OBVIOUS
  <1>2. 1 \in 1 .. Len(t)
    BY <1>1
  <1>3. o \in Ptr /\ n \in 1 .. BufBytes
    BY <1>2, DescriptorFields, LengthInBuffer
  <1>4. PtrAdd(o, n) = IF o + n >= BufBytes THEN o + n - BufBytes ELSE o + n
    BY <1>3, PtrAddAround
  <1>5. PtrAdd(o, n) = IF 1 = Len(t) THEN h ELSE t[2].head_ptr
    <2>1. PtrAdd(o, n) = IF 1 = Len(t) THEN h ELSE t[1 + 1].head_ptr
      BY <1>2 DEF Contiguous
    <2>2. 1 + 1 = 2
      OBVIOUS
    <2> QED
      BY <2>1, <2>2
  <1>6. /\ Offset(t, h) = (IF h >= o THEN h - o ELSE h - o + BufBytes)
        /\ EndOffset(t, h) = (IF h = o THEN BufBytes ELSE Offset(t, h))
        /\ UsedBytes(t, h) = EndOffset(t, h)
    BY OffsetWraps DEF EndOffset, UsedBytes, Offset
  <1>7. UsedBytes(u, h) = UsedBytes(t, h) - n
    <2>1. CASE Len(t) = 1
      <3>1. u = <<>>
        BY <2>1, <1>1
      <3>2. UsedBytes(u, h) = 0
        BY <3>1 DEF UsedBytes
      <3>3. PtrAdd(o, n) = h
        BY <2>1, <1>5
      <3>4. BufBytes \in Nat /\ h \in Ptr
        BY BufferAssumption
      <3> HIDE DEF o, n, u
      <3>5. UsedBytes(t, h) = n
        BY <3>3, <3>4, <1>3, <1>4, <1>6 DEF Ptr
      <3> QED
        BY <3>2, <3>5, <1>3, <3>4
    <2>2. CASE Len(t) # 1
      <3> DEFINE s == t[2].head_ptr
                 e == EndOffset(t, h)
                 l == t[2].pkt_len
      <3>1. 2 \in 1 .. Len(t) /\ u # <<>> /\ u[1] = t[2]
        <4>1. 1 \in 1 .. Len(u)
          BY <2>2, <1>1
        <4> QED
          BY <4>1, <1>1
      <3>2. s \in Ptr /\ l \in 1 .. BufBytes
        BY <3>1, DescriptorFields, LengthInBuffer
      <3>3. PtrAdd(o, n) = s
        BY <2>2, <1>5
      <3>4. Offset(t, s) + l <= e
        BY <3>1 DEF Layout
      <3>5. Offset(t, s) = IF s >= o THEN s - o ELSE s - o + BufBytes
        BY <3>2, OffsetWraps
      <3>6. UsedBytes(u, h) = IF h = s THEN BufBytes ELSE PtrSub(h, s)
        BY <3>1 DEF UsedBytes
      <3>7. PtrSub(h, s) = IF h >= s THEN h - s ELSE h - s + BufBytes
        BY <3>2, PtrSubWraps
      <3>8. h \in Ptr /\ Offset(t, o) + n <= Offset(t, s)
        BY <1>2, <3>1 DEF Layout
      <3>9. Offset(t, o) = 0
        <4>1. Offset(t, o) = IF o >= o THEN o - o ELSE o - o + BufBytes
          BY <1>3, OffsetWraps
        <4> HIDE DEF o
        <4> QED BY <4>1, <1>3, BufferAssumption DEF Ptr
      <3> HIDE DEF o, n, u, s, e, l
      <3>10. e = IF h = o THEN BufBytes ELSE Offset(t, h)
        BY <1>6 DEF e
      <3>11. UsedBytes(u, h) = e - n
        BY <1>3, <1>4, <1>6, <3>2, <3>3, <3>4, <3>5, <3>6, <3>7, <3>8, <3>9, <3>10,
           BufferAssumption DEF Ptr
      <3> QED
        BY <3>11, <1>6 DEF e
    <2> QED BY <2>1, <2>2
  <1>8. Contiguous(u, h)
    <2> HIDE DEF u
    <2>1. ASSUME NEW k \in 1 .. Len(u)
          PROVE  PtrAdd(u[k].head_ptr, u[k].pkt_len) = IF k = Len(u) THEN h ELSE u[k + 1].head_ptr
      <3>1. u[k] = t[k + 1] /\ k + 1 \in 1 .. Len(t)
        BY <1>1
      <3>2. PtrAdd(t[k + 1].head_ptr, t[k + 1].pkt_len) =
              IF k + 1 = Len(t) THEN h ELSE t[k + 1 + 1].head_ptr
        BY <3>1 DEF Contiguous
      <3>3. k + 1 = Len(t) <=> k = Len(u)
        BY <1>1
      <3>4. k # Len(u) => k + 1 \in 1 .. Len(u)
        BY <1>1
      <3>5. k # Len(u) => u[k + 1] = t[k + 1 + 1]
        BY <1>1, <3>4
      <3> QED
        BY <3>1, <3>2, <3>3, <3>5
    <2> QED
      BY <2>1 DEF Contiguous
  <1> QED
    BY <1>7, <1>8

\* A commit takes the bytes of the packet, its last one included.
LEMMA CommitUsed ==
    ASSUME NEW t \in Seq(Descriptor), NEW h \in Ptr, NEW w \in Ptr,
           Layout(t, h, w), Contiguous(t, h),
           t # <<>> => w # t[1].head_ptr, Written(h, w) + 1 < BufBytes,
           NEW d \in Descriptor, d.head_ptr = h, d.pkt_len = Written(h, w) + 1
    PROVE  /\ UsedBytes(Append(t, d), PtrAdd(w, 1)) = UsedBytes(t, h) + Written(h, w) + 1
           /\ Contiguous(Append(t, d), PtrAdd(w, 1))
  <1> DEFINE u == Append(t, d)
             v == PtrAdd(w, 1)
             n == Written(h, w)
  <1>1. /\ v \in Ptr /\ Written(h, v) = n + 1 /\ PtrAdd(h, n) = w
        /\ v = IF w + 1 = BufBytes THEN 0 ELSE w + 1
    BY WrittenStep
  <1>2. n \in Ptr /\ n = IF w >= h THEN w - h ELSE w - h + BufBytes
    BY PtrSubWraps DEF Written
  <1>3. /\ u \in Seq(Descriptor) /\ Len(u) = Len(t) + 1 /\ Len(t) \in Nat /\ u # <<>>
        /\ u[Len(t) + 1] = d /\ \A k \in 1 .. Len(t) : u[k] = t[k]
    <2>1. u \in Seq(Descriptor) /\ Len(u) = Len(t) + 1 /\ Len(t) \in Nat
      OBVIOUS
    <2>2. u[Len(t) + 1] = d
      OBVIOUS
    <2>3. \A k \in 1 .. Len(t) : u[k] = t[k]
      OBVIOUS
    <2> HIDE DEF u
    <2>4. u # <<>>
      BY <2>1
    <2> QED
      BY <2>1, <2>2, <2>3, <2>4
  <1>4. UsedBytes(u, v) = UsedBytes(t, h) + n + 1
    <2>1. CASE t = <<>>
      <3>1. u[1] = d /\ UsedBytes(t, h) = 0
        BY <2>1, <1>3 DEF UsedBytes
      <3>2. UsedBytes(u, v) = IF v = h THEN BufBytes ELSE Written(h, v)
        BY <1>3, <3>1 DEF UsedBytes, Written
      <3>3. v # h
        <4>1. Written(h, v) = IF v >= h THEN v - h ELSE v - h + BufBytes
          BY <1>1, PtrSubWraps DEF Written
        <4> HIDE DEF v, n
        <4> QED
          BY <4>1, <1>1, <1>2, BufferAssumption DEF Ptr
      <3> HIDE DEF n, v, u
      <3>4. n \in Int
        BY <1>2, BufferAssumption DEF Ptr
      <3> QED
        BY <3>1, <3>2, <3>3, <3>4, <1>1
    <2>2. CASE t # <<>>
      <3>1. u[1] = t[1]
        BY <2>2, <1>3
      <3>2. UsedBytes(u, v) = EndOffset(t, v) /\ UsedBytes(t, h) = EndOffset(t, h)
        BY <2>2, <1>3, <3>1 DEF UsedBytes, EndOffset, Offset
      <3>3. EndOffset(t, v) = EndOffset(t, h) + n + 1
        BY <2>2, EndOffsetStep
      <3> QED
        BY <3>2, <3>3
    <2> QED BY <2>1, <2>2
  <1>5. PtrAdd(h, n + 1) = v
    <2>1. n + 1 \in Ptr
      <3>1. n + 1 < BufBytes
        OBVIOUS
      <3> HIDE DEF n
      <3> QED BY <3>1, <1>2, BufferAssumption DEF Ptr
    <2>2. PtrAdd(h, n + 1) = IF h + (n + 1) >= BufBytes THEN h + (n + 1) - BufBytes ELSE h + (n + 1)
      BY <2>1, PtrAddWraps
    <2>3. h \in Ptr /\ w \in Ptr
      OBVIOUS
    <2> HIDE DEF n, v
    <2> QED
      BY <1>1, <1>2, <2>1, <2>2, <2>3, BufferAssumption DEF Ptr
  <1>6. Contiguous(u, v)
    <2>0. d.head_ptr = h /\ d.pkt_len = n + 1
      OBVIOUS
    <2> HIDE DEF u, v, n
    <2>1. ASSUME NEW k \in 1 .. Len(u)
          PROVE  PtrAdd(u[k].head_ptr, u[k].pkt_len) = IF k = Len(u) THEN v ELSE u[k + 1].head_ptr
      <3>1. CASE k = Len(u)
        <4>1. u[k] = d
          BY <3>1, <1>3
        <4> QED
          BY <3>1, <4>1, <2>0, <1>5
      <3>2. CASE k # Len(u)
        <4>1. k \in 1 .. Len(t) /\ u[k] = t[k]
          BY <3>2, <1>3
        <4>2. PtrAdd(t[k].head_ptr, t[k].pkt_len) = IF k = Len(t) THEN h ELSE t[k + 1].head_ptr
          BY <4>1 DEF Contiguous
        <4>3. u[k + 1] = IF k = Len(t) THEN d ELSE t[k + 1]
          <5>1. k # Len(t) => k + 1 \in 1 .. Len(t)
            BY <4>1, <1>3
          <5> QED
            BY <5>1, <1>3
        <4> QED
          BY <3>2, <4>1, <4>2, <4>3, <2>0
      <3> QED BY <3>1, <3>2
    <2> QED
      BY <2>1 DEF Contiguous
  <1> QED
    BY <1>4, <1>6

\* One cycle of the ring buffer is one cycle of the store with the same inputs,
\* and leaves no gap between the packets.
LEMMA CycleImplementsStore ==
    ASSUME IInv, NoGaps, NEW b \in Beat, NEW pop \in BOOLEAN,
           StreamMayDeliver(b), Cycle(b, pop)
    PROVE  Store!Cycle(b, pop) /\ NoGaps'
  <1> DEFINE h == current_packet_head_ptr
             w == buf_write_ptr
             n == Written(h, w)
             kept == ReadBack(mem, h, n)
             q == PacketsOf(table, mem)
             used == UsedBytes(table, h)
             x == [metadata |-> b.metadata, bytes |-> Append(kept, b.data)]
             m == mem'
             T == Pushed(b)
  <1>1. /\ h \in Ptr /\ w \in Ptr /\ mem \in [Ptr -> Byte] /\ table \in Seq(Descriptor)
        /\ Layout(table, h, w) /\ abandon_sticky \in BOOLEAN /\ Contiguous(table, h)
    BY DEF IInv, TypeOK, NoGaps
  <1>2. b.valid \in BOOLEAN /\ b.last \in BOOLEAN /\ b.abandon \in BOOLEAN /\ b.data \in Byte
    BY DEF Beat
  <1>3. n \in Nat /\ n \in Ptr
    BY <1>1, PtrSubWraps, BufferAssumption DEF Written, Ptr
  <1>4. kept \in Seq(Byte) /\ Len(kept) = n
    BY <1>1, <1>3, ReadBackType
  <1>5. q \in Seq(StoredPacket) /\ Len(q) = Len(table) /\ (q = <<>> <=> table = <<>>)
    BY <1>1, PacketsOfType
  <1>6. used \in Nat /\ (used + n = BufBytes <=> buf_full)
    BY <1>1, NoSpaceIsFull DEF buf_full, empty
  <1>7. Store!NoSpace <=> buf_full
    BY <1>4, <1>6 DEF Store!NoSpace, Written
  <1>8. Store!NoEntry <=> table_full
    BY <1>5 DEF Store!NoEntry, table_full
  <1>9. Store!GiveUp(b) <=> abandon_this_packet(b)
    BY <1>7, <1>8 DEF Store!GiveUp, abandon_this_packet
  <1>10. Store!Stored(b) = x
    BY DEF Store!Stored, Written
  <1>11. /\ TableInv(T, HistPushed(b), h', w', m)
         /\ StreamInv(h', w', m, abandon_sticky', cur')
    BY BeatPreserves
  <1>12. /\ T \in Seq(Descriptor) /\ Layout(T, h', w') /\ h' \in Ptr /\ w' \in Ptr
         /\ m \in [Ptr -> Byte]
    BY <1>11 DEF TableInv, StreamInv
  <1> DEFINE Commits == b.valid /\ b.last /\ ~Store!GiveUp(b)
  <1>13. Commits <=> commit_pkt(b)
    BY <1>9 DEF commit_pkt
  \* What the beat does, before the pop.
  <1>14. /\ ReadBack(m, h', Written(h', w')) =
              IF ~b.valid THEN kept ELSE IF b.last THEN <<>>
              ELSE IF Store!GiveUp(b) THEN kept ELSE Append(kept, b.data)
         /\ PacketsOf(T, m) = IF Commits THEN Append(q, x) ELSE q
         /\ UsedBytes(T, h') = used + (IF Commits THEN n + 1 ELSE 0)
         /\ Contiguous(T, h')
    <2>1. CASE buf_write(b)
      <3>1. /\ b.valid /\ ~Store!GiveUp(b) /\ ~abandon_pkt(b)
            /\ m = [mem EXCEPT ![w] = b.data] /\ w' = PtrAdd(w, 1)
            /\ h' = IF b.last THEN PtrAdd(w, 1) ELSE h
        BY <2>1, <1>2, <1>9
           DEF buf_write, abandon_pkt, commit_pkt, Cycle, DataRam, WrPtrLogic
      <3>2. /\ Written(h, w) + 1 < BufBytes /\ Written(h, PtrAdd(w, 1)) = n + 1
            /\ table # <<>> => w # table[1].head_ptr
            /\ PtrSub(w + 1, h) = n + 1 /\ n + 1 <= MaxPktLen
        BY <2>1, StoredBeat
      <3>3. PacketsOf(table, m) = q
        BY <1>1, <1>2, <3>1, <3>2, StoreKeepsPackets
      <3>4. ReadBack(m, h, n + 1) = Append(kept, b.data)
        BY <1>1, <1>2, <3>1, <3>2, StoreExtendsKept
      <3>5. CASE ~b.last
        <4>1. ~Commits /\ T = table /\ h' = h
          BY <3>5, <3>1, <1>13 DEF Pushed
        <4>2. UsedBytes(T, h') = used + 0
          BY <4>1, <1>6
        <4> QED
          BY <3>1, <3>2, <3>3, <3>4, <3>5, <4>1, <4>2, <1>1
      <3>6. CASE b.last
        <4> DEFINE d == current_pkt_desc(b)
        <4>1. Commits /\ T = Append(table, d) /\ h' = PtrAdd(w, 1) /\ w' = h'
          BY <3>6, <3>1, <1>13 DEF Pushed
        <4>2. d.head_ptr = h /\ d.metadata = b.metadata /\ d.pkt_len = n + 1
          <5>1. (n + 1) % LenRange = n + 1
            <6> HIDE DEF n
            <6> QED BY <1>3, <3>2, BufferAssumption
          <5> QED
            BY <3>2, <5>1 DEF current_pkt_desc
        <4>3. d \in Descriptor
          <5>1. T[Len(table) + 1] = d /\ Len(table) + 1 \in 1 .. Len(T)
            BY <4>1, <1>1
          <5> HIDE DEF T, d
          <5> QED
            BY <5>1, <1>12, DescriptorFields
        <4>4. PacketsOf(T, m) = Append(q, x)
          <5>1. PacketsOf(Append(table, d), m) =
                  Append(PacketsOf(table, m), [metadata |-> d.metadata,
                                               bytes |-> ReadBack(m, d.head_ptr, d.pkt_len)])
            BY <1>1, <1>12, <4>3, PacketsOfAppend
          <5> QED
            BY <4>1, <4>2, <5>1, <3>3, <3>4
        <4>5. UsedBytes(T, h') = used + n + 1 /\ Contiguous(T, h')
          <5> HIDE DEF d, T
          <5> QED
            BY <4>1, <4>2, <4>3, <1>1, <3>2, CommitUsed
        <4>6. ReadBack(m, h', Written(h', w')) = <<>>
          <5>1. Written(h', w') = 0
            BY <4>1, <1>12, AbandonLayout
          <5>2. Len(ReadBack(m, h', 0)) = 0 /\ ReadBack(m, h', 0) \in Seq(Byte)
            BY <1>12, ReadBackType
          <5> QED
            BY <5>1, <5>2
        <4>7. used + n + 1 = used + (n + 1)
          BY <1>3, <1>6
        <4> QED
          BY <3>1, <3>6, <4>1, <4>4, <4>5, <4>6, <4>7
      <3> QED BY <1>2, <3>5, <3>6
    <2>2. CASE ~buf_write(b)
      <3>1. ~commit_pkt(b) /\ m = mem /\ T = table /\ h' = h
        BY <2>2 DEF Cycle, DataRam, WrPtrLogic, Pushed, commit_pkt, buf_write, abandon_this_packet
      <3>2. /\ PacketsOf(T, m) = q /\ Contiguous(T, h') /\ ~Commits
            /\ UsedBytes(T, h') = used + 0
        BY <3>1, <1>1, <1>6, <1>13
      <3>3. CASE b.valid /\ b.last
        <4>1. w' = h /\ h' = h
          BY <2>2, <3>1, <3>3 DEF Cycle, WrPtrLogic, abandon_pkt, commit_pkt
        <4>2. Written(h, h) = 0
          BY <1>1, AbandonLayout
        <4>3. Len(ReadBack(m, h, 0)) = 0 /\ ReadBack(m, h, 0) \in Seq(Byte)
          BY <1>1, <1>12, ReadBackType
        <4>4. ReadBack(m, h', Written(h', w')) = <<>>
          BY <4>1, <4>2, <4>3
        <4> QED
          BY <3>2, <3>3, <4>4
      <3>4. CASE ~(b.valid /\ b.last)
        <4>1. w' = w
          BY <2>2, <3>4 DEF Cycle, WrPtrLogic, abandon_pkt
        <4>2. b.valid => Store!GiveUp(b)
          BY <2>2, <1>9, <1>2 DEF buf_write, abandon_this_packet
        <4>3. ReadBack(m, h', Written(h', w')) = kept
          BY <3>1, <4>1
        <4> QED
          BY <3>2, <3>4, <4>2, <4>3
      <3> QED BY <3>3, <3>4
    <2> QED BY <2>1, <2>2
  <1>15. abandon_sticky' = IF ~b.valid THEN abandon_sticky
                           ELSE ~b.last /\ (abandon_sticky \/ b.abandon \/ Store!NoSpace)
    <2>1. CASE ~b.valid
      BY <2>1, <1>1, <1>2 DEF Cycle, AbandonSticky, packet_lost
    <2>2. CASE b.valid /\ b.last
      BY <2>2, <1>1, <1>2 DEF Cycle, AbandonSticky
    <2>3. CASE b.valid /\ ~b.last
      <3>1. packet_lost(b) <=> (buf_full /\ ~abandon_sticky)
        BY <2>3 DEF packet_lost
      <3>2. abandon_sticky' = ((b.abandon /\ b.valid) \/ packet_lost(b) \/ abandon_sticky)
        BY <2>3 DEF Cycle, AbandonSticky
      <3> QED
        BY <2>3, <3>1, <3>2, <1>1, <1>2, <1>7
    <2> QED BY <1>2, <2>1, <2>2, <2>3
  <1>16. table' = IF pop /\ table # <<>> THEN Tail(T) ELSE T
    <2>1. commit_pkt(b) => ~table_full
      BY DEF commit_pkt, abandon_this_packet
    <2> QED
      BY <2>1 DEF Cycle, DescriptionTable, PushPop, Pushed
  <1>17. table # <<>> => (T # <<>> /\ T[1] = table[1])
    <2> SUFFICES ASSUME table # <<>> PROVE T # <<>> /\ T[1] = table[1]
      OBVIOUS
    <2>1. T = table \/ T = Append(table, current_pkt_desc(b))
      BY DEF Pushed
    <2>2. /\ Append(table, current_pkt_desc(b)) # <<>>
          /\ Append(table, current_pkt_desc(b))[1] = table[1]
      BY <1>1
    <2> QED
      BY <2>1, <2>2
  <1>18. Store!Freed(pop) = IF pop /\ table # <<>> THEN table[1].pkt_len ELSE 0
    <2>1. Store!Freed(pop) = IF pop /\ q # <<>> THEN Len(q[1].bytes) ELSE 0
      BY DEF Store!Freed
    <2>2. table # <<>> => 1 \in 1 .. Len(table)
      BY <1>1
    <2>3. table # <<>> => Len(q[1].bytes) = table[1].pkt_len
      BY <1>1, <2>2, PacketsOfType
    <2> HIDE DEF q
    <2> QED
      BY <2>1, <2>3, <1>5
  <1> HIDE DEF T, m
  <1>19. /\ PacketsOf(table', m) = IF pop /\ q # <<>> THEN Tail(PacketsOf(T, m)) ELSE PacketsOf(T, m)
         /\ UsedBytes(table', h') = UsedBytes(T, h') - Store!Freed(pop)
         /\ Contiguous(table', h')
    <2>1. CASE pop /\ table # <<>>
      <3>1. table' = Tail(T) /\ T # <<>> /\ T[1] = table[1]
        BY <2>1, <1>16, <1>17
      <3>2. PacketsOf(Tail(T), m) = Tail(PacketsOf(T, m))
        BY <3>1, <1>12, PacketsOfTail
      <3>3. UsedBytes(Tail(T), h') = UsedBytes(T, h') - T[1].pkt_len /\ Contiguous(Tail(T), h')
        BY <3>1, <1>12, <1>14, PopUsed
      <3> QED
        BY <2>1, <3>1, <3>2, <3>3, <1>5, <1>18
    <2>2. CASE ~(pop /\ table # <<>>)
      <3>1. UsedBytes(T, h') \in Nat
        BY <1>12, NoSpaceIsFull
      <3>2. Store!Freed(pop) = 0 /\ table' = T /\ ~(pop /\ q # <<>>)
        BY <2>2, <1>5, <1>16, <1>18
      <3>3. UsedBytes(T, h') = UsedBytes(T, h') - 0
        BY <3>1
      <3> QED
        BY <3>2, <3>3, <1>14
    <2> QED BY <2>1, <2>2
  <1>20. Store!Gain(b) = IF Commits THEN n + 1 ELSE 0
    BY <1>4 DEF Store!Gain, Written
  <1>21. PacketsOf(table', m) = PushPop(q, Commits, x, pop)
    <2> HIDE DEF q, x, Commits
    <2> QED
      BY <1>14, <1>19 DEF PushPop
  <1>22. UsedBytes(table', h') = used + Store!Gain(b) - Store!Freed(pop)
    <2>1. UsedBytes(T, h') = used + Store!Gain(b)
      BY <1>14, <1>20
    <2>2. UsedBytes(table', h') = UsedBytes(T, h') - Store!Freed(pop)
      BY <1>19
    <2>3. used \in Int /\ Store!Gain(b) \in Int
      BY <1>3, <1>6, <1>20
    <2>4. Store!Freed(pop) \in Int
      <3>1. table # <<>> => (1 \in 1 .. Len(table) /\ table[1].pkt_len \in Nat)
        BY <1>1, DescriptorFields
      <3> QED
        BY <3>1, <1>18
    <2> HIDE DEF used
    <2> QED
      BY <2>1, <2>2, <2>3, <2>4
  <1>23. NoGaps'
    BY <1>19 DEF NoGaps
  <1>24. /\ PacketsOf(table, mem)' = Store!PushPop(q, Commits, Store!Stored(b), pop)
         /\ ReadBack(mem, h, PtrSub(w, h))' =
              IF ~b.valid THEN ReadBack(mem, h, PtrSub(w, h)) ELSE IF b.last THEN <<>>
              ELSE IF Store!GiveUp(b) THEN ReadBack(mem, h, PtrSub(w, h))
              ELSE Append(ReadBack(mem, h, PtrSub(w, h)), b.data)
         /\ UsedBytes(table, h)' = UsedBytes(table, h) + Store!Gain(b) - Store!Freed(pop)
    <2>1. PacketsOf(table, mem)' = Store!PushPop(q, Commits, Store!Stored(b), pop)
      <3>1. PushPop(q, Commits, x, pop) = Store!PushPop(q, Commits, x, pop)
        BY DEF PushPop, Store!PushPop
      <3> QED
        BY <3>1, <1>10, <1>21 DEF m
    <2>2. ReadBack(mem, h, PtrSub(w, h))' =
              IF ~b.valid THEN ReadBack(mem, h, PtrSub(w, h)) ELSE IF b.last THEN <<>>
              ELSE IF Store!GiveUp(b) THEN ReadBack(mem, h, PtrSub(w, h))
              ELSE Append(ReadBack(mem, h, PtrSub(w, h)), b.data)
      BY <1>14 DEF m, Written
    <2> QED
      BY <2>1, <2>2, <1>22
  <1>25. Store!Cycle(b, pop)
    BY <1>15, <1>24 DEF Store!Cycle
  <1> QED
    BY <1>23, <1>25

\* After reset the store is empty.
LEMMA InitImplementsStore == Init => Store!Init /\ NoGaps
  <1> SUFFICES ASSUME Init PROVE Store!Init /\ NoGaps
    OBVIOUS
  <1>1. /\ table = <<>> /\ buf_write_ptr = 0 /\ current_packet_head_ptr = 0
        /\ abandon_sticky = FALSE /\ mem \in [Ptr -> Byte] /\ Len(table) = 0
    BY DEF Init
  <1>2. 0 \in Ptr /\ PtrSub(0, 0) = 0
    BY BufferAssumption DEF Ptr, PtrSub
  <1>3. ReadBack(mem, 0, 0) \in Seq(Byte) /\ Len(ReadBack(mem, 0, 0)) = 0
    BY <1>1, <1>2, ReadBackType
  <1>4. PacketsOf(table, mem) = <<>>
    <2>1. <<>> \in Seq(Descriptor)
      OBVIOUS
    <2>2. PacketsOf(table, mem) \in Seq(StoredPacket) /\ Len(PacketsOf(table, mem)) = 0
      BY <1>1, <2>1, PacketsOfType
    <2> QED
      BY <2>2
  <1>5. UsedBytes(table, 0) = 0 /\ ReadBack(mem, 0, 0) = <<>>
    BY <1>1, <1>3 DEF UsedBytes
  <1>6. NoGaps
    BY <1>1 DEF NoGaps, Contiguous
  <1> QED
    BY <1>1, <1>2, <1>4, <1>5, <1>6 DEF Store!Init

\* The ring buffer implements the store: whatever arrives, is abandoned, wraps or is
\* popped, the bytes read back through the table are those of a queue of byte
\* strings, and a packet is refused for lack of space exactly when the bytes held
\* fill the buffer.  NoGaps, that packets follow each other directly, is the
\* invariant this needs beyond IInv: without it a pop could free less than a packet.
THEOREM RingBufferImplementsStore == Spec => ImplementsStore
  <1>1. ASSUME IInv, NoGaps, [Next]_vars PROVE [Store!Next]_(Store!vars) /\ NoGaps'
    <2>1. CASE UNCHANGED vars
      <3>1. UNCHANGED Store!vars
        BY <2>1 DEF vars, Store!vars
      <3>2. NoGaps'
        BY <2>1, <1>1 DEF vars, NoGaps
      <3> QED BY <3>1, <3>2
    <2>2. CASE Next
      <3>1. PICK b \in Beat, pop \in BOOLEAN : StreamMayDeliver(b) /\ Cycle(b, pop)
        BY <2>2 DEF Next
      <3>2. Store!Cycle(b, pop) /\ NoGaps'
        BY <1>1, <3>1, CycleImplementsStore
      <3>3. b \in Store!Beat
        BY DEF Beat, Store!Beat
      <3> QED
        BY <3>2, <3>3 DEF Store!Next
    <2> QED BY <1>1, <2>1, <2>2
  <1>2. Spec => []NoGaps
    BY <1>1, InitImplementsStore, RingBufferInvariant, PTL DEF Spec
  <1> QED
    BY <1>1, <1>2, InitImplementsStore, RingBufferInvariant, PTL
       DEF Spec, ImplementsStore, Store!Spec
=============================================================================
