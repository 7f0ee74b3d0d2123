---------------------------- MODULE BenchProofs -----------------------------
(***************************************************************************)
(* Proofs about the packet-level design, its reference model and the       *)
(* mirror that compares the two.  The design stays in its bounds; a packet *)
(* ends as the model says it does, however its cycles are divided; hence   *)
(* model and design agree between any two calls of any test of one thread. *)
(***************************************************************************)
EXTENDS AnyTest, SequenceTheorems, WellFoundedInduction, TLAPS

-----------------------------------------------------------------------------
(* BytesOf adds up the lengths of the packets of a list. *)

\* The recursion of BytesOf.
IsSum(f, t) == f = [n \in 0 .. Len(t) |-> IF n = 0 THEN 0 ELSE f[n - 1] + t[n].pkt.len]

\* A function that obeys the recursion is typed, and there is only one.
LEMMA SumUnique ==
    ASSUME NEW N, NEW t \in Seq(Entry(N)), NEW f, NEW g, IsSum(f, t), IsSum(g, t)
    PROVE  \A n \in 0 .. Len(t) : f[n] \in Nat /\ g[n] = f[n]
  <1> DEFINE k == Len(t)
             Bad == {n \in Nat : n <= k /\ ~(f[n] \in Nat /\ g[n] = f[n])}
  <1>1. k \in Nat
    OBVIOUS
  <1>2. \A n \in 1 .. k : t[n].pkt.len \in Nat
    <2>1. \A n \in 1 .. k : t[n] \in Entry(N)
      BY ElementOfSeq
    <2>2. \A e \in Entry(N) : e.pkt.len \in Nat
      BY DEF Entry, Packet
    <2> QED BY <2>1, <2>2
  <1>3. f[0] = 0 /\ g[0] = 0
    BY <1>1 DEF IsSum
  <1>4. \A n \in 1 .. k : f[n] = f[n - 1] + t[n].pkt.len /\ g[n] = g[n - 1] + t[n].pkt.len
    <2> HIDE DEF k
    <2>1. \A n \in 1 .. k : n \in 0 .. k /\ n # 0
      BY <1>1
    <2> QED BY <2>1 DEF IsSum, k
  <1> HIDE DEF k
  <1>5. Bad = {}
    <2> SUFFICES ASSUME Bad # {} PROVE FALSE
      OBVIOUS
    <2>1. PICK n \in Bad : \A m \in Bad : ~(m < n)
      <3>1. Bad \subseteq Nat
        OBVIOUS
      <3>2. PICK n \in Bad : \A m \in Bad : <<m, n>> \notin OpToRel(<, Nat)
        BY <3>1, NatLessThanWellFounded, WFMin
      <3> QED BY <3>1, <3>2 DEF OpToRel
    <2>2. n # 0
      BY <2>1, <1>3
    <2>3. n - 1 \in 0 .. k /\ n - 1 \notin Bad /\ n \in 1 .. k
      BY <2>1, <2>2, <1>1
    <2>4. f[n - 1] \in Nat /\ g[n - 1] = f[n - 1]
      BY <2>3
    <2>5. t[n].pkt.len \in Nat
      BY <1>2, <2>3
    <2> QED
      BY <1>4, <2>1, <2>3, <2>4, <2>5
  <1> QED BY <1>1, <1>5 DEF k

\* The recursion has a solution, built up packet by packet.
LEMMA SumExists ==
    ASSUME NEW N, NEW t \in Seq(Entry(N))
    PROVE  \E f : IsSum(f, t)
  <1> DEFINE k == Len(t)
             Upto(f, j) == f = [n \in 0 .. j |-> IF n = 0 THEN 0 ELSE f[n - 1] + t[n].pkt.len]
             Bad == {j \in Nat : j <= k /\ ~\E f : Upto(f, j)}
  <1>1. k \in Nat
    OBVIOUS
  <1> HIDE DEF k
  <1>2. Bad = {}
    <2> SUFFICES ASSUME Bad # {} PROVE FALSE
      OBVIOUS
    <2>1. PICK j \in Bad : \A m \in Bad : ~(m < j)
      <3>1. Bad \subseteq Nat
        OBVIOUS
      <3>2. PICK j \in Bad : \A m \in Bad : <<m, j>> \notin OpToRel(<, Nat)
        BY <3>1, NatLessThanWellFounded, WFMin
      <3> QED BY <3>1, <3>2 DEF OpToRel
    <2>2. j \in Nat /\ j <= k /\ ~\E f : Upto(f, j)
      OBVIOUS
    <2>3. j # 0
      <3> SUFFICES ASSUME j = 0 PROVE FALSE
        OBVIOUS
      <3> DEFINE z == [n \in 0 .. 0 |-> 0]
      <3>1. Upto(z, 0)
        <4>1. \A n \in 0 .. 0 : n = 0
          OBVIOUS
        <4>2. z = [n \in 0 .. 0 |-> IF n = 0 THEN 0 ELSE z[n - 1] + t[n].pkt.len]
          BY <4>1
        <4> QED BY <4>2
      <3> QED BY <2>2, <3>1
    <2>4. j - 1 \in Nat /\ j - 1 <= k /\ j - 1 \notin Bad
      <3>1. j - 1 \in Nat /\ j - 1 <= k /\ j - 1 < j
        BY <1>1, <2>2, <2>3
      <3> QED BY <2>1, <3>1
    <2>5. PICK f : Upto(f, j - 1)
      BY <2>4
    <2> DEFINE g == [n \in 0 .. j |-> IF n = j THEN f[j - 1] + t[j].pkt.len ELSE f[n]]
    <2>6. ASSUME NEW n \in 0 .. j
          PROVE  g[n] = IF n = 0 THEN 0 ELSE g[n - 1] + t[n].pkt.len
      <3>1. CASE n = 0
        <4>1. 0 \in 0 .. j - 1 /\ n # j
          BY <2>2, <2>3, <3>1
        <4>2. f[0] = 0
          BY <2>5, <4>1
        <4> QED BY <3>1, <4>1, <4>2
      <3>2. CASE n # 0
        <4>1. n - 1 \in 0 .. j - 1 /\ n - 1 \in 0 .. j /\ n - 1 # j
          BY <2>2, <3>2
        <4>2. g[n - 1] = f[n - 1]
          BY <4>1
        <4>3. CASE n = j
          BY <4>2, <4>3, <3>2
        <4>4. CASE n # j
          <5>1. n \in 0 .. j - 1
            BY <2>2, <4>4
          <5>2. f[n] = f[n - 1] + t[n].pkt.len
            <6> HIDE DEF Upto
            <6>1. f = [i \in 0 .. j - 1 |-> IF i = 0 THEN 0 ELSE f[i - 1] + t[i].pkt.len]
              BY <2>5 DEF Upto
            <6> QED BY <5>1, <3>2, <6>1
          <5>3. g[n] = f[n]
            BY <4>4
          <5> QED BY <5>2, <5>3, <4>2, <3>2
        <4> QED BY <4>3, <4>4
      <3> QED BY <3>1, <3>2
    <2>7. Upto(g, j)
      <3> HIDE DEF g
      <3>1. g = [n \in 0 .. j |-> g[n]]
        BY DEF g
      <3> QED BY <3>1, <2>6
    <2> QED BY <2>2, <2>7
  <1>3. \E f : Upto(f, k)
    BY <1>1, <1>2
  <1> QED BY <1>3 DEF IsSum, k

\* BytesOf is the last value of any function that obeys the recursion.
LEMMA BytesOfSum ==
    ASSUME NEW N, NEW t \in Seq(Entry(N)), NEW f, IsSum(f, t)
    PROVE  BytesOf(t) = f[Len(t)] /\ BytesOf(t) \in Nat
  <1> DEFINE h == CHOOSE g : g = [n \in 0 .. Len(t) |-> IF n = 0 THEN 0 ELSE g[n - 1] + t[n].pkt.len]
  <1>1. IsSum(h, t)
    BY DEF IsSum
  <1>2. BytesOf(t) = h[Len(t)]
    BY DEF BytesOf
  <1> HIDE DEF h
  <1>3. Len(t) \in 0 .. Len(t)
    <2>1. Len(t) \in Nat
      OBVIOUS
    <2> QED BY <2>1
  <1> QED BY <1>1, <1>2, <1>3, SumUnique

\* The bytes held are a number.
LEMMA BytesNat ==
    ASSUME NEW N, NEW t \in Seq(Entry(N))
    PROVE  BytesOf(t) \in Nat
  BY SumExists, BytesOfSum

\* An empty list takes no bytes.
LEMMA BytesEmpty == BytesOf(<<>>) = 0
  <1> DEFINE z == [n \in 0 .. 0 |-> 0]
  <1>1. Len(<<>>) = 0 /\ <<>> \in Seq(Entry({}))
    OBVIOUS
  <1>2. IsSum(z, <<>>)
    <2>1. \A n \in 0 .. 0 : n = 0
      OBVIOUS
    <2> QED BY <1>1, <2>1 DEF IsSum
  <1>3. z[0] = 0
    OBVIOUS
  <1> QED BY <1>1, <1>2, <1>3, BytesOfSum

\* A packet more: its bytes more.
LEMMA BytesAppend ==
    ASSUME NEW N, NEW t \in Seq(Entry(N)), NEW e \in Entry(N)
    PROVE  BytesOf(Append(t, e)) = BytesOf(t) + e.pkt.len
  <1> DEFINE k == Len(t)
             u == Append(t, e)
  <1>1. PICK f : IsSum(f, t)
    BY SumExists
  <1> DEFINE g == [n \in 0 .. k + 1 |-> IF n = k + 1 THEN f[k] + e.pkt.len ELSE f[n]]
  <1>2. /\ k \in Nat /\ u \in Seq(Entry(N)) /\ Len(u) = k + 1
        /\ \A n \in 1 .. k : u[n] = t[n]
        /\ u[k + 1] = e
    BY AppendProperties
  <1>3. f = [n \in 0 .. k |-> IF n = 0 THEN 0 ELSE f[n - 1] + t[n].pkt.len]
    BY <1>1 DEF IsSum
  <1>4. BytesOf(t) = f[k]
    BY <1>1, BytesOfSum
  <1> HIDE DEF k, u
  <1>5. ASSUME NEW n \in 0 .. k + 1
        PROVE  g[n] = IF n = 0 THEN 0 ELSE g[n - 1] + u[n].pkt.len
    <2>1. CASE n = 0
      <3>1. 0 \in 0 .. k /\ n # k + 1
        BY <1>2, <2>1
      <3>2. f[0] = 0
        BY <1>3, <3>1
      <3> QED BY <2>1, <3>1, <3>2
    <2>2. CASE n # 0
      <3>1. n - 1 \in 0 .. k /\ n - 1 \in 0 .. k + 1 /\ n - 1 # k + 1
        BY <1>2, <2>2
      <3>2. g[n - 1] = f[n - 1]
        BY <3>1
      <3>3. CASE n = k + 1
        <4>1. n - 1 = k /\ u[n] = e
          BY <1>2, <3>3
        <4> QED BY <3>2, <3>3, <4>1, <2>2
      <3>4. CASE n # k + 1
        <4>1. n \in 0 .. k /\ n \in 1 .. k
          BY <1>2, <2>2, <3>4
        <4>2. f[n] = f[n - 1] + t[n].pkt.len
          BY <1>3, <2>2, <4>1
        <4>3. u[n] = t[n]
          BY <1>2, <4>1
        <4> QED BY <3>2, <3>4, <4>2, <4>3, <2>2
      <3> QED BY <3>3, <3>4
    <2> QED BY <2>1, <2>2
  <1>6. g[k + 1] = f[k] + e.pkt.len
    BY <1>2
  <1>7. g = [n \in 0 .. k + 1 |-> g[n]]
    OBVIOUS
  <1> HIDE DEF g
  <1>8. g = [n \in 0 .. k + 1 |-> IF n = 0 THEN 0 ELSE g[n - 1] + u[n].pkt.len]
    BY <1>5, <1>7
  <1>9. IsSum(g, u)
    BY <1>2, <1>8 DEF IsSum
  <1>10. BytesOf(u) = g[k + 1]
    BY <1>2, <1>9, BytesOfSum
  <1> QED BY <1>4, <1>6, <1>10 DEF u

\* The oldest packet less: its bytes less.
LEMMA BytesTail ==
    ASSUME NEW N, NEW t \in Seq(Entry(N)), t # <<>>
    PROVE  /\ Tail(t) \in Seq(Entry(N)) /\ Len(Tail(t)) = Len(t) - 1
           /\ BytesOf(Tail(t)) <= BytesOf(t)
  <1> DEFINE k == Len(t)
             u == Tail(t)
  <1>1. PICK f : IsSum(f, t)
    BY SumExists
  <1> DEFINE g == [n \in 0 .. k - 1 |-> f[n + 1] - t[1].pkt.len]
  <1>2. /\ k \in Nat \ {0} /\ u \in Seq(Entry(N)) /\ Len(u) = k - 1
        /\ \A n \in 1 .. k - 1 : u[n] = t[n + 1]
    BY EmptySeq, HeadTailProperties
  <1>3. f = [n \in 0 .. k |-> IF n = 0 THEN 0 ELSE f[n - 1] + t[n].pkt.len]
    BY <1>1 DEF IsSum
  <1>4. BytesOf(t) = f[k]
    BY <1>1, BytesOfSum
  <1>5. \A n \in 0 .. k : f[n] \in Nat
    BY <1>1, SumUnique
  <1>6. \A n \in 1 .. k : t[n].pkt.len \in Nat
    <2>1. \A n \in 1 .. k : t[n] \in Entry(N)
      BY ElementOfSeq
    <2>2. \A e \in Entry(N) : e.pkt.len \in Nat
      BY DEF Entry, Packet
    <2> QED BY <2>1, <2>2
  <1> HIDE DEF k, u
  <1>7. ASSUME NEW n \in 0 .. k - 1
        PROVE  g[n] = IF n = 0 THEN 0 ELSE g[n - 1] + u[n].pkt.len
    <2>0. n + 1 \in 0 .. k /\ n + 1 # 0 /\ n + 1 \in 1 .. k /\ (n + 1) - 1 = n /\ n \in 0 .. k
      BY <1>2
    <2>1. f[n + 1] = f[n] + t[n + 1].pkt.len
      BY <1>3, <2>0
    <2>2. CASE n = 0
      <3>1. f[0] = 0 /\ t[n + 1] = t[1] /\ t[1].pkt.len \in Nat
        BY <1>2, <1>3, <1>6, <2>2, <2>0
      <3> QED BY <2>1, <2>2, <3>1
    <2>3. CASE n # 0
      <3>1. n - 1 \in 0 .. k - 1 /\ (n - 1) + 1 = n /\ n \in 1 .. k - 1 /\ 1 \in 1 .. k
        BY <1>2, <2>3
      <3>2. g[n - 1] = f[n] - t[1].pkt.len
        BY <3>1
      <3>3. u[n] = t[n + 1]
        BY <1>2, <3>1
      <3>4. f[n] \in Nat /\ t[1].pkt.len \in Nat /\ t[n + 1].pkt.len \in Nat
        BY <1>5, <1>6, <2>0, <3>1
      <3>5. g[n] = f[n + 1] - t[1].pkt.len
        OBVIOUS
      <3> HIDE DEF g
      <3> QED BY <2>1, <2>3, <3>2, <3>3, <3>4, <3>5
    <2> QED BY <2>2, <2>3
  <1>8. k - 1 \in 0 .. k - 1 /\ (k - 1) + 1 = k /\ 1 \in 1 .. k /\ k \in 0 .. k
    BY <1>2
  <1>9. g[k - 1] = f[k] - t[1].pkt.len
    BY <1>8
  <1>10. g = [n \in 0 .. k - 1 |-> g[n]]
    OBVIOUS
  <1> HIDE DEF g
  <1>11. g = [n \in 0 .. k - 1 |-> IF n = 0 THEN 0 ELSE g[n - 1] + u[n].pkt.len]
    BY <1>7, <1>10
  <1>12. IsSum(g, u)
    BY <1>2, <1>11 DEF IsSum
  <1>13. BytesOf(u) = g[k - 1]
    BY <1>2, <1>12, BytesOfSum
  <1>14. f[k] \in Nat /\ t[1].pkt.len \in Nat
    BY <1>5, <1>6, <1>8
  <1>15. BytesOf(u) <= BytesOf(t)
    BY <1>4, <1>9, <1>13, <1>14
  <1> QED BY <1>2, <1>15 DEF u, k

-----------------------------------------------------------------------------
(* Streams. *)

\* The smaller of two numbers.
LEMMA MinOfTwo ==
    ASSUME NEW a \in Int, NEW b \in Int
    PROVE  Min({a, b}) = IF a <= b THEN a ELSE b
  <1> DEFINE x == IF a <= b THEN a ELSE b
  <1>1. x \in {a, b} /\ \A y \in {a, b} : x <= y
    OBVIOUS
  <1>2. \A z \in {a, b} : (\A y \in {a, b} : z <= y) => z = x
    OBVIOUS
  <1> HIDE DEF x
  <1>3. Min({a, b}) = x
    BY <1>1, <1>2 DEF Min
  <1> QED BY <1>3 DEF x

\* No packet on its way.
LEMMA OffStream ==
    ASSUME NEW N, "none" \in N
    PROVE  Off \in StreamType(N) /\ StreamInv(Off) /\ ~Off.on /\ Off.stored = 0
  <1>1. 0 \in Nat /\ 0 \in Int
    OBVIOUS
  <1>2. Off \in StreamType(N)
    BY <1>1 DEF Off, StreamType
  <1>3. StreamInv(Off)
    BY DEF Off, StreamInv
  <1>4. ~Off.on /\ Off.stored = 0
    BY DEF Off
  <1> QED BY <1>2, <1>3, <1>4

\* A stream that has just been started.
LEMMA NewStream ==
    ASSUME NEW N, "none" \in N, NEW dst \in N, NEW data \in N, NEW len \in Nat,
           NEW wait \in Nat \ {0}
    PROVE  LET s == Stream(dst, data, len, wait)
           IN  /\ s \in StreamType(N) /\ StreamInv(s)
               /\ s.on /\ s.got = 0 - wait /\ s.len = len /\ s.dst = dst /\ s.data = data
               /\ ~s.pass /\ s.hi /\ s.lo /\ ~s.ext /\ ~s.lost /\ ~s.bad /\ s.stored = 0
  <1> DEFINE s == Stream(dst, data, len, wait)
  <1>1. s \in StreamType(N)
    <2>1. Off \in StreamType(N)
      BY OffStream
    <2>2. PICK g \in Int : g = 0 - wait
      OBVIOUS
    <2>3. [Off EXCEPT !.on = TRUE, !.got = g, !.len = len, !.dst = dst, !.data = data] \in StreamType(N)
      BY <2>1 DEF StreamType
    <2> QED BY <2>2, <2>3 DEF Stream
  <1>2. /\ s.on /\ s.got = 0 - wait /\ s.len = len /\ s.dst = dst /\ s.data = data
        /\ ~s.pass /\ s.hi /\ s.lo /\ ~s.ext /\ ~s.lost /\ ~s.bad /\ s.stored = 0
    BY DEF Stream, Off
  <1>3. StreamInv(s)
    <2> HIDE DEF s
    <2> QED BY <1>2 DEF StreamInv
  <1> QED BY <1>1, <1>2, <1>3

-----------------------------------------------------------------------------
(* The parts of Captured. *)

CapHi(d, s) == s.hi /\ (s.got < 2 => s.dst = d.mac.hi)
CapLo(d, s, n) == s.lo /\ (s.got < 6 /\ s.got + n > 2 => s.dst = d.mac.lo)
CapExt(d, s, n) ==
    s.ext \/ /\ ~d.prom /\ s.got + n > 1
             /\ ReasonFor(s.dst, CapHi(d, s) /\ CapLo(d, s, n)) = "NON_MAC_MATCH"
CapLive(d, s, n) ==
    IF s.ext \/ s.lost THEN 0
    ELSE IF ~CapExt(d, s, n) THEN n ELSE IF s.got = 0 THEN 1 ELSE 0
CapTried(d, s, n) ==
    IF ~s.ext /\ ~s.lost /\ CapExt(d, s, n) THEN CapLive(d, s, n) + 1 ELSE CapLive(d, s, n)
CapRoom(d, s) == RxBytes - Used(d) - s.stored
CapWrite(d, s, n) ==
    IF Len(d.table) = Depth THEN 0 ELSE Min({CapLive(d, s, n), CapRoom(d, s)})

\* Captured, in its parts.
LEMMA CapturedParts ==
    ASSUME NEW d, NEW s, NEW n
    PROVE  Captured(d, s, n) =
               [s EXCEPT !.got = @ + n, !.hi = CapHi(d, s), !.lo = CapLo(d, s, n),
                         !.ext = CapExt(d, s, n),
                         !.lost = @ \/ (/\ CapTried(d, s, n) > CapWrite(d, s, n)
                                        /\ CapWrite(d, s, n) = CapRoom(d, s)),
                         !.stored = @ + CapWrite(d, s, n)]
  BY DEF Captured, CapHi, CapLo, CapExt, CapLive, CapTried, CapRoom, CapWrite

\* As much is written as there is room for.
LEMMA CapNumbers ==
    ASSUME NEW N, NEW d \in DutType(N), NEW s \in StreamType(N), NEW n \in Nat,
           s.got >= 0, Used(d) + s.stored <= RxBytes
    PROVE  /\ Used(d) \in Nat /\ CapRoom(d, s) \in Nat
           /\ CapRoom(d, s) = RxBytes - Used(d) - s.stored
           /\ CapLive(d, s, n) \in 0 .. n
           /\ CapWrite(d, s, n) = IF Len(d.table) = Depth THEN 0
                                  ELSE IF CapLive(d, s, n) <= CapRoom(d, s) THEN CapLive(d, s, n)
                                  ELSE CapRoom(d, s)
           /\ CapWrite(d, s, n) \in 0 .. n /\ CapWrite(d, s, n) <= CapRoom(d, s)
  <1>1. Used(d) \in Nat
    <2>1. d.table \in Seq(Entry(N))
      BY DEF DutType
    <2> QED BY <2>1, BytesNat DEF Used
  <1>2. s.stored \in Nat /\ s.got \in Int
    BY DEF StreamType
  <1>3. CapRoom(d, s) \in Nat /\ CapRoom(d, s) = RxBytes - Used(d) - s.stored
    BY <1>1, <1>2 DEF CapRoom, RxBytes
  <1>4. CapLive(d, s, n) \in 0 .. n
    <2>1. CapExt(d, s, n) /\ ~s.ext => s.got + n > 1
      BY DEF CapExt
    <2>2. CASE s.ext \/ s.lost
      BY <2>2 DEF CapLive
    <2>3. CASE ~(s.ext \/ s.lost) /\ ~CapExt(d, s, n)
      BY <2>3 DEF CapLive
    <2>4. CASE ~(s.ext \/ s.lost) /\ CapExt(d, s, n)
      <3>1. CapLive(d, s, n) = IF s.got = 0 THEN 1 ELSE 0
        BY <2>4 DEF CapLive
      <3>2. s.got + n > 1
        BY <2>1, <2>4
      <3> QED BY <1>2, <3>1, <3>2
    <2> QED BY <2>2, <2>3, <2>4
  <1>5. CapWrite(d, s, n) = IF Len(d.table) = Depth THEN 0
                            ELSE IF CapLive(d, s, n) <= CapRoom(d, s) THEN CapLive(d, s, n)
                            ELSE CapRoom(d, s)
    BY <1>3, <1>4, MinOfTwo DEF CapWrite
  <1>6. CapWrite(d, s, n) \in 0 .. n /\ CapWrite(d, s, n) <= CapRoom(d, s)
    BY <1>3, <1>4, <1>5
  <1> QED BY <1>1, <1>3, <1>4, <1>5, <1>6

\* The fields of a stream after n bytes of it have reached the buffer.
LEMMA CapturedStream ==
    ASSUME NEW N, NEW d \in DutType(N), NEW s \in StreamType(N), NEW n \in Nat,
           s.got >= 0, Used(d) + s.stored <= RxBytes
    PROVE  LET r == Captured(d, s, n)
           IN  /\ r \in StreamType(N)
               /\ r.on = s.on /\ r.got = s.got + n /\ r.len = s.len
               /\ r.dst = s.dst /\ r.data = s.data /\ r.pass = s.pass /\ r.bad = s.bad
               /\ r.hi = CapHi(d, s) /\ r.lo = CapLo(d, s, n) /\ r.ext = CapExt(d, s, n)
               /\ r.lost = (s.lost \/ (/\ CapTried(d, s, n) > CapWrite(d, s, n)
                                       /\ CapWrite(d, s, n) = CapRoom(d, s)))
               /\ r.stored = s.stored + CapWrite(d, s, n)
  <1> DEFINE r == Captured(d, s, n)
  <1>1. PICK hi, lo, ext, lost, w :
           /\ hi = CapHi(d, s) /\ lo = CapLo(d, s, n) /\ ext = CapExt(d, s, n)
           /\ lost = (s.lost \/ (/\ CapTried(d, s, n) > CapWrite(d, s, n)
                                 /\ CapWrite(d, s, n) = CapRoom(d, s)))
           /\ w = CapWrite(d, s, n)
    OBVIOUS
  <1>2. hi \in BOOLEAN /\ lo \in BOOLEAN /\ ext \in BOOLEAN /\ lost \in BOOLEAN
    <2>1. s.hi \in BOOLEAN /\ s.lo \in BOOLEAN /\ s.ext \in BOOLEAN /\ s.lost \in BOOLEAN
      BY DEF StreamType
    <2> QED BY <1>1, <2>1, Zenon DEF CapHi, CapLo, CapExt
  <1>3. w \in Nat
    BY <1>1, CapNumbers
  <1>4. PICK got \in Int, stored \in Nat : got = s.got + n /\ stored = s.stored + w
    BY <1>3 DEF StreamType
  <1>5. r = [s EXCEPT !.got = got, !.hi = hi, !.lo = lo, !.ext = ext, !.lost = lost, !.stored = stored]
    BY <1>1, <1>4, CapturedParts
  <1>6. r \in StreamType(N)
    BY <1>2, <1>4, <1>5 DEF StreamType
  <1>7. /\ r.on = s.on /\ r.got = got /\ r.len = s.len
        /\ r.dst = s.dst /\ r.data = s.data /\ r.pass = s.pass /\ r.bad = s.bad
        /\ r.hi = hi /\ r.lo = lo /\ r.ext = ext /\ r.lost = lost /\ r.stored = stored
    BY <1>5 DEF StreamType
  <1> QED BY <1>1, <1>4, <1>6, <1>7

-----------------------------------------------------------------------------
(* The design stays in its bounds, whatever the bench does with it. *)

\* A stream n cycles later: at most one is let through, and its bytes have room.
LEMMA MovedStream ==
    ASSUME NEW N, NEW d \in DutType(N), NEW s \in StreamType(N), NEW other \in StreamType(N),
           NEW selected \in BOOLEAN, NEW n \in Nat,
           StreamInv(s), StreamInv(other), ~(s.on /\ s.pass /\ other.on /\ other.pass),
           Used(d) + s.stored + other.stored <= RxBytes, s.on => s.got + n <= s.len
    PROVE  LET r == Moved(d, s, selected, other, n)
           IN  /\ r \in StreamType(N)
               /\ r.on = s.on /\ r.len = s.len /\ r.dst = s.dst /\ r.data = s.data
               /\ r.got = IF s.on THEN s.got + n ELSE s.got
               /\ r.stored > 0 => r.on /\ r.pass /\ r.stored <= r.got
               /\ ~(r.on /\ r.pass /\ other.on /\ other.pass)
               /\ Used(d) + r.stored + other.stored <= RxBytes
  <1> DEFINE r == Moved(d, s, selected, other, n)
  <1>1. /\ s.on \in BOOLEAN /\ s.pass \in BOOLEAN /\ other.on \in BOOLEAN /\ other.pass \in BOOLEAN
    BY DEF StreamType
  <1>2. /\ s.stored \in Nat /\ other.stored \in Nat /\ s.got \in Int /\ s.len \in Nat
        /\ Used(d) \in Nat
    <2>1. d.table \in Seq(Entry(N))
      BY DEF DutType
    <2> QED BY <2>1, BytesNat DEF StreamType, Used
  <1>3. CASE ~s.on
    <2>1. r = s
      BY <1>3 DEF Moved
    <2> QED BY <1>3, <2>1 DEF StreamInv
  <1>4. CASE s.on /\ s.got >= 0 /\ s.pass
    <2>1. r = Captured(d, s, n)
      BY <1>4 DEF Moved
    <2>2. ~(other.on /\ other.pass)
      BY <1>4
    <2>3. other.stored = 0
      BY <1>2, <2>2 DEF StreamInv
    <2>4. Used(d) + s.stored <= RxBytes
      BY <1>2, <2>3 DEF RxBytes
    <2> DEFINE w == CapWrite(d, s, n)
               u == Used(d)
    <2>5. /\ r \in StreamType(N) /\ r.on = s.on /\ r.len = s.len /\ r.dst = s.dst /\ r.data = s.data
          /\ r.pass = s.pass /\ r.got = s.got + n /\ r.stored = s.stored + w
      <3> HIDE DEF r, w
      <3>1. s.got >= 0
        BY <1>4
      <3>2. LET c == Captured(d, s, n)
            IN  /\ c \in StreamType(N) /\ c.on = s.on /\ c.len = s.len /\ c.dst = s.dst /\ c.data = s.data
                /\ c.pass = s.pass /\ c.got = s.got + n /\ c.stored = s.stored + CapWrite(d, s, n)
        BY <2>4, <3>1, CapturedStream
      <3> QED BY <2>1, <3>2 DEF w
    <2>6. w \in Nat /\ w <= n /\ w <= RxBytes - u - s.stored
      BY <1>4, <2>4, CapNumbers
    <2>7. s.stored <= s.got
      BY <1>2, <1>4 DEF StreamInv
    <2>8. u \in Nat
      BY <1>2
    <2> HIDE DEF w, r, u
    <2>9. r.stored <= r.got /\ u + r.stored + other.stored <= RxBytes
      BY <1>2, <2>3, <2>5, <2>6, <2>7, <2>8 DEF RxBytes
    <2> QED BY <1>4, <2>2, <2>5, <2>9 DEF r, u
  <1>5. CASE s.on /\ ~(s.got >= 0 /\ s.pass)
    <2>1. PICK got \in Int, pass \in BOOLEAN :
             /\ got = s.got + n
             /\ pass = IF s.got + n = 0 THEN selected /\ ~(other.on /\ other.pass) ELSE s.pass
      BY <1>1, <1>2
    <2>2. r = [s EXCEPT !.got = got, !.pass = pass]
      BY <1>5, <2>1 DEF Moved
    <2>3. r \in StreamType(N)
      BY <2>2 DEF StreamType
    <2>4. /\ r.on = s.on /\ r.len = s.len /\ r.dst = s.dst /\ r.data = s.data
          /\ r.got = got /\ r.pass = pass /\ r.stored = s.stored
      BY <2>2 DEF StreamType
    <2>5. s.stored = 0
      BY <1>2, <1>5 DEF StreamInv
    <2>6. ~(r.on /\ r.pass /\ other.on /\ other.pass)
      BY <1>5, <2>1, <2>4
    <2>7. ~(r.stored > 0) /\ Used(d) + r.stored + other.stored <= RxBytes
      BY <2>4, <2>5
    <2> QED BY <1>5, <2>1, <2>3, <2>4, <2>6, <2>7
  <1> QED BY <1>1, <1>3, <1>4, <1>5

\* The end of a stream: the table takes the packet only with a free descriptor.
LEMMA CommitTable ==
    ASSUME NEW N, NEW d \in DutType(N), NEW s \in StreamType(N), Len(d.table) <= Depth
    PROVE  LET e == Commit(d, s)
           IN  /\ e \in DutType(N) /\ Len(e.table) <= Depth
               /\ Used(e) <= Used(d) + s.stored
               /\ ~s.pass => e.table = d.table
               /\ e.mask = d.mask /\ e.prom = d.prom /\ e.loop = d.loop /\ e.mac = d.mac
               /\ e.buf = d.buf /\ e.mdio = d.mdio /\ e.tx = d.tx /\ e.wire = d.wire
               /\ e.sent = d.sent
  <1> DEFINE e == Commit(d, s)
             x == [reason |-> ReasonFor(s.dst, s.hi /\ s.lo),
                   pkt |-> [dst |-> s.dst, data |-> s.data, len |-> s.stored]]
  <1>1. d.table \in Seq(Entry(N)) /\ d.sticky \subseteq 4 .. 6
    BY DEF DutType
  <1>2. x \in Entry(N) /\ x.pkt.len = s.stored /\ s.stored \in Nat
    <2>1. s.dst \in N /\ s.data \in N /\ s.stored \in Nat
      BY DEF StreamType
    <2>2. ReasonFor(s.dst, s.hi /\ s.lo) \in Reason
      BY DEF ReasonFor, Reason
    <2> QED BY <2>1, <2>2 DEF Entry, Packet
  <1>3. Used(d) \in Nat
    BY <1>1, BytesNat DEF Used
  <1>4. CASE e = d
    BY <1>2, <1>3, <1>4
  <1>5. CASE e = [d EXCEPT !.sticky = @ \cup {4}]
    <2>1. d.sticky \cup {4} \in SUBSET (4 .. 6)
      BY <1>1
    <2>2. PICK y \in SUBSET (4 .. 6) : y = d.sticky \cup {4}
      BY <2>1
    <2>3. e = [d EXCEPT !.sticky = y]
      BY <1>5, <2>2
    <2>4. /\ e \in DutType(N) /\ e.table = d.table
          /\ e.mask = d.mask /\ e.prom = d.prom /\ e.loop = d.loop /\ e.mac = d.mac
          /\ e.buf = d.buf /\ e.mdio = d.mdio /\ e.tx = d.tx /\ e.wire = d.wire
          /\ e.sent = d.sent
      <3> HIDE DEF e
      <3> QED BY <2>3 DEF DutType
    <2>5. Used(e) = Used(d)
      BY <2>4 DEF Used
    <2> QED BY <1>2, <1>3, <2>4, <2>5
  <1>6. CASE e = [d EXCEPT !.table = Append(@, x)] /\ Len(d.table) # Depth /\ s.pass
    <2>1. PICK t : t = Append(d.table, x)
      OBVIOUS
    <2>2. t \in Seq(Entry(N)) /\ Len(t) = Len(d.table) + 1 /\ Len(d.table) \in Nat
      BY <1>1, <1>2, <2>1, AppendProperties
    <2>3. e = [d EXCEPT !.table = t]
      BY <1>6, <2>1
    <2>4. /\ e \in DutType(N) /\ e.table = t
          /\ e.mask = d.mask /\ e.prom = d.prom /\ e.loop = d.loop /\ e.mac = d.mac
          /\ e.buf = d.buf /\ e.mdio = d.mdio /\ e.tx = d.tx /\ e.wire = d.wire
          /\ e.sent = d.sent
      <3> HIDE DEF e
      <3> QED BY <2>2, <2>3 DEF DutType
    <2>5. Used(e) = Used(d) + s.stored
      BY <1>1, <1>2, <2>1, <2>4, BytesAppend DEF Used
    <2>6. Len(t) <= Depth
      <3>1. Len(d.table) # Depth
        BY <1>6
      <3>2. PICK k \in Nat, l \in Nat : k = Len(d.table) /\ l = Len(t) /\ l = k + 1
        BY <2>2
      <3>3. k <= 8 /\ k # 8
        BY <3>1, <3>2 DEF Depth
      <3>4. l = k + 1
        BY <3>2
      <3>5. l <= 8
        BY <3>3, <3>4
      <3> QED BY <3>2, <3>5 DEF Depth
    <2> QED BY <1>2, <1>3, <1>6, <2>4, <2>5, <2>6
  <1>7. \/ e = d \/ e = [d EXCEPT !.sticky = @ \cup {4}]
        \/ e = [d EXCEPT !.table = Append(@, x)] /\ Len(d.table) # Depth /\ s.pass
    BY DEF Commit
  <1> QED BY <1>4, <1>5, <1>6, <1>7

\* What n may be: no stream is moved past its next point.
LEMMA HorizonBound ==
    ASSUME NEW N, NEW d, DutInv(N, d), NEW n \in Nat, \A x \in Horizon(d) : n <= x
    PROVE  /\ d.tx.on => d.tx.got + n <= d.tx.len
           /\ d.wire.on => d.wire.got + n <= d.wire.len
  <1>1. d.tx \in StreamType(N) /\ d.wire \in StreamType(N)
    BY DEF DutInv, DutType
  <1>2. /\ d.tx.got \in Int /\ d.tx.len \in Nat /\ d.wire.got \in Int /\ d.wire.len \in Nat
    BY <1>1 DEF StreamType
  <1>3. ASSUME d.tx.on PROVE d.tx.got + n <= d.tx.len
    <2>1. d.tx.len > d.tx.got
      BY <1>2, <1>3 DEF DutInv, StreamInv
    <2>2. d.tx.len \in Points(d.tx, 0, LoopLag)
      BY <2>1 DEF Points
    <2>3. d.tx.len - d.tx.got \in Horizon(d)
      BY <1>3, <2>2 DEF Horizon
    <2> QED BY <1>2, <2>3
  <1>4. ASSUME d.wire.on PROVE d.wire.got + n <= d.wire.len
    <2>1. d.wire.len > d.wire.got
      BY <1>2, <1>4 DEF DutInv, StreamInv
    <2>2. d.wire.len \in Points(d.wire, WireLead, RxLag)
      BY <2>1 DEF Points
    <2>3. d.wire.len - d.wire.got \in Horizon(d)
      BY <1>4, <2>2 DEF Horizon
    <2> QED BY <1>2, <2>3
  <1> QED BY <1>3, <1>4

\* The log of sent packets.
LEMMA LoggedType ==
    ASSUME NEW N, NEW log \in Seq(Packet(N)), NEW p \in Packet(N)
    PROVE  Logged(log, p) \in Seq(Packet(N)) /\ Len(Logged(log, p)) <= MaxLog
  <1> DEFINE all == Append(log, p)
             k == Len(all)
             i == IF k > MaxLog THEN k - MaxLog + 1 ELSE 1
  <1>1. all \in Seq(Packet(N)) /\ k \in Nat
    BY AppendProperties
  <1> HIDE DEF all, k
  <1>2. i \in Nat /\ i >= 1 /\ (i <= k + 1 => (k + 1) - i <= MaxLog)
    BY <1>1 DEF MaxLog
  <1>3. i >= 1 /\ i \in Int
    BY <1>2
  <1> HIDE DEF i
  <1>4. SubSeq(all, i, k) \in Seq(Packet(N))
        /\ Len(SubSeq(all, i, k)) = IF i <= k THEN k - i + 1 ELSE 0
    BY <1>1, <1>2, SubSeqProperties DEF k
  <1>5. Len(SubSeq(all, i, k)) <= MaxLog
    BY <1>1, <1>2, <1>4 DEF MaxLog
  <1> QED BY <1>4, <1>5 DEF Logged, all, k, i

\* The transmit side of a step keeps the bounds and leaves the other stream alone.
LEMMA AdvanceTxInv ==
    ASSUME NEW N, "none" \in N, NEW d, DutInv(N, d), NEW n \in Nat,
           d.tx.on => d.tx.got + n <= d.tx.len
    PROVE  DutInv(N, AdvanceTx(d, n)) /\ AdvanceTx(d, n).wire = d.wire
  <1> DEFINE r == Moved(d, d.tx, d.loop, d.wire, n)
             next == [d EXCEPT !.sticky = @ \cup (IF r.on /\ r.got = r.len - LoopLag THEN {5} ELSE {}) \cup Lost(d.tx, r), !.tx = r]
  <1>1. d \in DutType(N) /\ Len(d.table) <= Depth
    BY DEF DutInv
  <1>2. d.tx \in StreamType(N) /\ d.wire \in StreamType(N) /\ d.loop \in BOOLEAN
        /\ d.sticky \subseteq 4 .. 6 /\ d.table \in Seq(Entry(N))
    BY <1>1 DEF DutType
  <1>3. /\ StreamInv(d.tx) /\ StreamInv(d.wire)
        /\ ~(d.tx.on /\ d.tx.pass /\ d.wire.on /\ d.wire.pass)
        /\ Used(d) + d.tx.stored + d.wire.stored <= RxBytes
    <2>1. Used(d) \in Nat /\ d.tx.stored \in Nat /\ d.wire.stored \in Nat
      BY <1>2, BytesNat DEF Used, StreamType
    <2>2. Used(d) + d.tx.stored + d.wire.stored <= RxBytes
      BY DEF DutInv
    <2>3. Used(d) + d.tx.stored + d.wire.stored <= RxBytes
      <3> DEFINE u == Used(d)
                 a == d.tx.stored
                 b == d.wire.stored
      <3>1. u \in Nat /\ a \in Nat /\ b \in Nat /\ u + a + b <= RxBytes
        BY <2>1, <2>2
      <3> HIDE DEF u, a, b
      <3>2. u + a + b <= RxBytes /\ u + b + a <= RxBytes
        BY <3>1 DEF RxBytes
      <3> QED BY <3>2 DEF u, a, b
    <2> QED BY <2>3 DEF DutInv
  <1>4. /\ r \in StreamType(N)
        /\ r.on = d.tx.on /\ r.len = d.tx.len /\ r.dst = d.tx.dst /\ r.data = d.tx.data
        /\ r.got = IF d.tx.on THEN d.tx.got + n ELSE d.tx.got
        /\ r.stored > 0 => r.on /\ r.pass /\ r.stored <= r.got
        /\ ~(r.on /\ r.pass /\ d.wire.on /\ d.wire.pass)
        /\ Used(d) + r.stored + d.wire.stored <= RxBytes
    <2>1. d.loop \in BOOLEAN
      BY <1>2
    <2>2. ~(d.tx.on /\ d.tx.pass /\ d.wire.on /\ d.wire.pass)
      BY <1>3
    <2> HIDE DEF r
    <2>3. PICK s \in StreamType(N), other \in StreamType(N), selected \in BOOLEAN :
             s = d.tx /\ other = d.wire /\ selected = d.loop
      BY <1>2, <2>1
    <2>4. r = Moved(d, s, selected, other, n)
      BY <2>3 DEF r
    <2>5. /\ StreamInv(s) /\ StreamInv(other) /\ ~(s.on /\ s.pass /\ other.on /\ other.pass)
          /\ Used(d) + s.stored + other.stored <= RxBytes /\ (s.on => s.got + n <= s.len)
      BY <1>3, <2>2, <2>3
    <2>6. LET q == Moved(d, s, selected, other, n)
          IN  /\ q \in StreamType(N)
              /\ q.on = s.on /\ q.len = s.len /\ q.dst = s.dst /\ q.data = s.data
              /\ q.got = IF s.on THEN s.got + n ELSE s.got
              /\ q.stored > 0 => q.on /\ q.pass /\ q.stored <= q.got
              /\ ~(q.on /\ q.pass /\ other.on /\ other.pass)
              /\ Used(d) + q.stored + other.stored <= RxBytes
      BY <1>1, <2>5, MovedStream
    <2> QED BY <2>3, <2>4, <2>6
  <1>5. r.got \in Int /\ r.len \in Nat /\ r.stored \in Nat /\ d.wire.stored \in Nat /\ Used(d) \in Nat
    BY <1>2, <1>4, BytesNat DEF StreamType, Used
  <1>6. r.got <= r.len
    <2>1. d.tx.got \in Int /\ d.tx.len \in Nat /\ d.tx.got <= d.tx.len
      BY <1>2, <1>3 DEF StreamType, StreamInv
    <2> HIDE DEF r
    <2> QED BY <1>4, <2>1
  <1> HIDE DEF r
  <1>7. PICK x \in SUBSET (4 .. 6) : x = d.sticky \cup (IF r.on /\ r.got = r.len - LoopLag THEN {5} ELSE {}) \cup Lost(d.tx, r)
    <2>1. d.sticky \cup (IF r.on /\ r.got = r.len - LoopLag THEN {5} ELSE {}) \cup Lost(d.tx, r) \in SUBSET (4 .. 6)
      BY <1>2 DEF Lost
    <2> QED BY <2>1
  <1>8. next = [d EXCEPT !.sticky = x, !.tx = r]
    BY <1>7
  <1>9. /\ next \in DutType(N) /\ next.tx = r /\ next.table = d.table /\ next.wire = d.wire
    <2>1. r \in StreamType(N)
      BY <1>4
    <2> HIDE DEF next
    <2> QED BY <1>1, <1>8, <2>1 DEF DutType
  <1>10. AdvanceTx(d, n) = IF r.on /\ r.got = r.len
                          THEN [Commit(next, r) EXCEPT !.tx = Off, !.sent = Logged(@, [dst |-> r.dst, data |-> r.data, len |-> r.len])]
                          ELSE next
    BY DEF AdvanceTx, r
  <1> HIDE DEF next
  <1>11. CASE ~(r.on /\ r.got = r.len)
    <2>1. AdvanceTx(d, n) = next
      BY <1>10, <1>11
    <2>2. StreamInv(r)
      BY <1>4, <1>5, <1>6, <1>11 DEF StreamInv
    <2>3. Used(next) = Used(d)
      BY <1>9 DEF Used
    <2>4. Used(next) + next.tx.stored + next.wire.stored <= RxBytes
      <3> DEFINE u == Used(d)
                 a == r.stored
                 b == d.wire.stored
      <3>1. u \in Nat /\ a \in Nat /\ b \in Nat /\ u + a + b <= RxBytes
        BY <1>4, <1>5
      <3> HIDE DEF u, a, b
      <3>2. u + a + b <= RxBytes /\ u + b + a <= RxBytes
        BY <3>1 DEF RxBytes
      <3> QED BY <1>9, <2>3, <3>2 DEF u, a, b
    <2>5. ~(next.tx.on /\ next.tx.pass /\ next.wire.on /\ next.wire.pass)
      BY <1>4, <1>9
    <2> QED BY <1>1, <1>3, <1>9, <2>1, <2>2, <2>4, <2>5 DEF DutInv
  <1>12. CASE r.on /\ r.got = r.len
    <2> DEFINE e == Commit(next, r)
               f == AdvanceTx(d, n)
    <2>1. Used(next) = Used(d) /\ Len(next.table) <= Depth
      BY <1>1, <1>9 DEF Used
    <2>2. /\ e \in DutType(N) /\ Len(e.table) <= Depth /\ Used(e) <= Used(d) + r.stored
          /\ e.wire = d.wire
      BY <1>4, <1>9, <2>1, CommitTable
    <2>3. PICK l \in Seq(Packet(N)) : l = Logged(e.sent, [dst |-> r.dst, data |-> r.data, len |-> r.len])
      <3>1. [dst |-> r.dst, data |-> r.data, len |-> r.len] \in Packet(N)
        BY <1>4 DEF StreamType, Packet
      <3>2. e.sent \in Seq(Packet(N))
        BY <2>2 DEF DutType
      <3> QED BY <3>1, <3>2, LoggedType
    <2> HIDE DEF e
    <2>4. f = [e EXCEPT !.tx = Off, !.sent = l]
      BY <1>10, <1>12, <2>3 DEF e
    <2> HIDE DEF f
    <2>5. Off \in StreamType(N) /\ StreamInv(Off) /\ ~Off.on /\ Off.stored = 0
      BY OffStream
    <2>6. f \in DutType(N) /\ f.tx = Off /\ f.wire = d.wire /\ f.table = e.table
      BY <2>2, <2>3, <2>4, <2>5 DEF DutType
    <2>7. Used(f) = Used(e) /\ Used(e) \in Nat
      <3>1. e.table \in Seq(Entry(N))
        BY <2>2 DEF DutType
      <3> QED BY <2>6, <3>1, BytesNat DEF Used
    <2>8. Used(f) + f.tx.stored + f.wire.stored <= RxBytes
      <3> DEFINE u == Used(d)
                 v == Used(f)
                 a == r.stored
                 b == d.wire.stored
      <3>1. u \in Nat /\ v \in Nat /\ a \in Nat /\ b \in Nat /\ u + a + b <= RxBytes /\ v <= u + a
        BY <1>4, <1>5, <2>2, <2>7
      <3> HIDE DEF u, v, a, b
      <3>2. v + 0 + b <= RxBytes /\ v + b + 0 <= RxBytes
        BY <3>1 DEF RxBytes
      <3> QED BY <2>5, <2>6, <3>2 DEF v, b
    <2>9. ~(f.tx.on /\ f.tx.pass /\ f.wire.on /\ f.wire.pass)
      BY <2>5, <2>6
    <2>10. Len(f.table) <= Depth /\ StreamInv(f.tx) /\ StreamInv(f.wire)
      BY <1>3, <2>2, <2>5, <2>6
    <2>11. DutInv(N, f)
      BY <2>6, <2>8, <2>9, <2>10 DEF DutInv
    <2> QED BY <2>6, <2>11 DEF f
  <1> QED BY <1>11, <1>12

\* So does the receive side.
LEMMA AdvanceWireInv ==
    ASSUME NEW N, "none" \in N, NEW d, DutInv(N, d), NEW n \in Nat,
           d.wire.on => d.wire.got + n <= d.wire.len
    PROVE  DutInv(N, AdvanceWire(d, n)) /\ AdvanceWire(d, n).tx = d.tx
  <1> DEFINE r == Moved(d, d.wire, ~d.loop, d.tx, n)
             next == [d EXCEPT !.sticky = @ \cup Lost(d.wire, r), !.wire = r]
  <1>1. d \in DutType(N) /\ Len(d.table) <= Depth
    BY DEF DutInv
  <1>2. d.tx \in StreamType(N) /\ d.wire \in StreamType(N) /\ d.loop \in BOOLEAN
        /\ d.sticky \subseteq 4 .. 6 /\ d.table \in Seq(Entry(N))
    BY <1>1 DEF DutType
  <1>3. /\ StreamInv(d.tx) /\ StreamInv(d.wire)
        /\ ~(d.tx.on /\ d.tx.pass /\ d.wire.on /\ d.wire.pass)
        /\ Used(d) + d.wire.stored + d.tx.stored <= RxBytes
    <2>1. Used(d) \in Nat /\ d.tx.stored \in Nat /\ d.wire.stored \in Nat
      BY <1>2, BytesNat DEF Used, StreamType
    <2>2. Used(d) + d.tx.stored + d.wire.stored <= RxBytes
      BY DEF DutInv
    <2>3. Used(d) + d.wire.stored + d.tx.stored <= RxBytes
      <3> DEFINE u == Used(d)
                 a == d.tx.stored
                 b == d.wire.stored
      <3>1. u \in Nat /\ a \in Nat /\ b \in Nat /\ u + a + b <= RxBytes
        BY <2>1, <2>2
      <3> HIDE DEF u, a, b
      <3>2. u + a + b <= RxBytes /\ u + b + a <= RxBytes
        BY <3>1 DEF RxBytes
      <3> QED BY <3>2 DEF u, a, b
    <2> QED BY <2>3 DEF DutInv
  <1>4. /\ r \in StreamType(N)
        /\ r.on = d.wire.on /\ r.len = d.wire.len /\ r.dst = d.wire.dst /\ r.data = d.wire.data
        /\ r.got = IF d.wire.on THEN d.wire.got + n ELSE d.wire.got
        /\ r.stored > 0 => r.on /\ r.pass /\ r.stored <= r.got
        /\ ~(r.on /\ r.pass /\ d.tx.on /\ d.tx.pass)
        /\ Used(d) + r.stored + d.tx.stored <= RxBytes
    <2>1. (~d.loop) \in BOOLEAN
      BY <1>2
    <2>2. ~(d.wire.on /\ d.wire.pass /\ d.tx.on /\ d.tx.pass)
      BY <1>3
    <2> HIDE DEF r
    <2>3. PICK s \in StreamType(N), other \in StreamType(N), selected \in BOOLEAN :
             s = d.wire /\ other = d.tx /\ selected = (~d.loop)
      BY <1>2, <2>1
    <2>4. r = Moved(d, s, selected, other, n)
      BY <2>3 DEF r
    <2>5. /\ StreamInv(s) /\ StreamInv(other) /\ ~(s.on /\ s.pass /\ other.on /\ other.pass)
          /\ Used(d) + s.stored + other.stored <= RxBytes /\ (s.on => s.got + n <= s.len)
      BY <1>3, <2>2, <2>3
    <2>6. LET q == Moved(d, s, selected, other, n)
          IN  /\ q \in StreamType(N)
              /\ q.on = s.on /\ q.len = s.len /\ q.dst = s.dst /\ q.data = s.data
              /\ q.got = IF s.on THEN s.got + n ELSE s.got
              /\ q.stored > 0 => q.on /\ q.pass /\ q.stored <= q.got
              /\ ~(q.on /\ q.pass /\ other.on /\ other.pass)
              /\ Used(d) + q.stored + other.stored <= RxBytes
      BY <1>1, <2>5, MovedStream
    <2> QED BY <2>3, <2>4, <2>6
  <1>5. r.got \in Int /\ r.len \in Nat /\ r.stored \in Nat /\ d.tx.stored \in Nat /\ Used(d) \in Nat
    BY <1>2, <1>4, BytesNat DEF StreamType, Used
  <1>6. r.got <= r.len
    <2>1. d.wire.got \in Int /\ d.wire.len \in Nat /\ d.wire.got <= d.wire.len
      BY <1>2, <1>3 DEF StreamType, StreamInv
    <2> HIDE DEF r
    <2> QED BY <1>4, <2>1
  <1> HIDE DEF r
  <1>7. PICK x \in SUBSET (4 .. 6) : x = d.sticky \cup Lost(d.wire, r)
    <2>1. d.sticky \cup Lost(d.wire, r) \in SUBSET (4 .. 6)
      BY <1>2 DEF Lost
    <2> QED BY <2>1
  <1>8. next = [d EXCEPT !.sticky = x, !.wire = r]
    BY <1>7
  <1>9. /\ next \in DutType(N) /\ next.wire = r /\ next.table = d.table /\ next.tx = d.tx
    <2>1. r \in StreamType(N)
      BY <1>4
    <2> HIDE DEF next
    <2> QED BY <1>1, <1>8, <2>1 DEF DutType
  <1>10. AdvanceWire(d, n) = IF r.on /\ r.got = r.len
                          THEN [Commit(next, r) EXCEPT !.wire = Off]
                          ELSE next
    BY DEF AdvanceWire, r
  <1> HIDE DEF next
  <1>11. CASE ~(r.on /\ r.got = r.len)
    <2>1. AdvanceWire(d, n) = next
      BY <1>10, <1>11
    <2>2. StreamInv(r)
      BY <1>4, <1>5, <1>6, <1>11 DEF StreamInv
    <2>3. Used(next) = Used(d)
      BY <1>9 DEF Used
    <2>4. Used(next) + next.tx.stored + next.wire.stored <= RxBytes
      <3> DEFINE u == Used(d)
                 a == r.stored
                 b == d.tx.stored
      <3>1. u \in Nat /\ a \in Nat /\ b \in Nat /\ u + a + b <= RxBytes
        BY <1>4, <1>5
      <3> HIDE DEF u, a, b
      <3>2. u + a + b <= RxBytes /\ u + b + a <= RxBytes
        BY <3>1 DEF RxBytes
      <3> QED BY <1>9, <2>3, <3>2 DEF u, a, b
    <2>5. ~(next.tx.on /\ next.tx.pass /\ next.wire.on /\ next.wire.pass)
      BY <1>4, <1>9
    <2> QED BY <1>1, <1>3, <1>9, <2>1, <2>2, <2>4, <2>5 DEF DutInv
  <1>12. CASE r.on /\ r.got = r.len
    <2> DEFINE e == Commit(next, r)
               f == AdvanceWire(d, n)
    <2>1. Used(next) = Used(d) /\ Len(next.table) <= Depth
      BY <1>1, <1>9 DEF Used
    <2>2. /\ e \in DutType(N) /\ Len(e.table) <= Depth /\ Used(e) <= Used(d) + r.stored
          /\ e.tx = d.tx
      BY <1>4, <1>9, <2>1, CommitTable
    <2>3. e \in DutType(N)
      BY <2>2
    <2> HIDE DEF e
    <2>4. f = [e EXCEPT !.wire = Off]
      BY <1>10, <1>12, <2>3 DEF e
    <2> HIDE DEF f
    <2>5. Off \in StreamType(N) /\ StreamInv(Off) /\ ~Off.on /\ Off.stored = 0
      BY OffStream
    <2>6. f \in DutType(N) /\ f.wire = Off /\ f.tx = d.tx /\ f.table = e.table
      BY <2>2, <2>3, <2>4, <2>5 DEF DutType
    <2>7. Used(f) = Used(e) /\ Used(e) \in Nat
      <3>1. e.table \in Seq(Entry(N))
        BY <2>2 DEF DutType
      <3> QED BY <2>6, <3>1, BytesNat DEF Used
    <2>8. Used(f) + f.tx.stored + f.wire.stored <= RxBytes
      <3> DEFINE u == Used(d)
                 v == Used(f)
                 a == r.stored
                 b == d.tx.stored
      <3>1. u \in Nat /\ v \in Nat /\ a \in Nat /\ b \in Nat /\ u + a + b <= RxBytes /\ v <= u + a
        BY <1>4, <1>5, <2>2, <2>7
      <3> HIDE DEF u, v, a, b
      <3>2. v + 0 + b <= RxBytes /\ v + b + 0 <= RxBytes
        BY <3>1 DEF RxBytes
      <3> QED BY <2>5, <2>6, <3>2 DEF v, b
    <2>9. ~(f.tx.on /\ f.tx.pass /\ f.wire.on /\ f.wire.pass)
      BY <2>5, <2>6
    <2>10. Len(f.table) <= Depth /\ StreamInv(f.tx) /\ StreamInv(f.wire)
      BY <1>3, <2>2, <2>5, <2>6
    <2>11. DutInv(N, f)
      BY <2>6, <2>8, <2>9, <2>10 DEF DutInv
    <2> QED BY <2>6, <2>11 DEF f
  <1> QED BY <1>11, <1>12

\* No schedule of the two streams, and no number of cycles up to the next event,
\* takes the design out of its bounds.
THEOREM AdvanceInBounds ==
    ASSUME NEW N, "none" \in N, NEW d, DutInv(N, d), NEW n \in Nat, \A x \in Horizon(d) : n <= x
    PROVE  DutInv(N, Advance(d, n))
  <1> DEFINE e == AdvanceTx(d, n)
  <1>1. /\ d.tx.on => d.tx.got + n <= d.tx.len
        /\ d.wire.on => d.wire.got + n <= d.wire.len
    BY HorizonBound
  <1>2. DutInv(N, e) /\ e.wire = d.wire
    BY <1>1, AdvanceTxInv
  <1> HIDE DEF e
  <1>3. DutInv(N, AdvanceWire(e, n))
    BY <1>1, <1>2, AdvanceWireInv
  <1> QED BY <1>3 DEF Advance, e

\* A change of registers leaves the bounds alone.
LEMMA RegistersOnly ==
    ASSUME NEW N, NEW d, DutInv(N, d), NEW e \in DutType(N),
           e.table = d.table, e.tx = d.tx, e.wire = d.wire
    PROVE  DutInv(N, e)
  BY DEF DutInv, Used

\* The reset state is within the bounds.
LEMMA ResetInBounds ==
    ASSUME NEW N, {"none", "zero", "unknown"} \subseteq N
    PROVE  DutInv(N, InitDut)
  <1>1. Off \in StreamType(N) /\ StreamInv(Off) /\ ~Off.on /\ Off.stored = 0
    BY OffStream
  <1>2. InitDut \in DutType(N)
    <2>1. <<>> \in Seq(Entry(N)) /\ <<>> \in Seq(Packet(N))
      OBVIOUS
    <2>2. "zero" \in N /\ "unknown" \in N
      OBVIOUS
    <2>3. {} \in SUBSET (4 .. 6) /\ {} \in SUBSET (0 .. 6) /\ {} \in SUBSET (0 .. 2)
      OBVIOUS
    <2> QED BY <1>1, <2>1, <2>2, <2>3 DEF InitDut, DutType
  <1>3. InitDut.table = <<>> /\ InitDut.tx = Off /\ InitDut.wire = Off
    BY DEF InitDut
  <1>4. Used(InitDut) = 0 /\ Len(InitDut.table) = 0
    BY <1>3, BytesEmpty DEF Used
  <1>5. Used(InitDut) + Off.stored + Off.stored <= RxBytes /\ Len(InitDut.table) <= Depth
    BY <1>1, <1>4 DEF RxBytes, Depth
  <1> QED BY <1>1, <1>2, <1>3, <1>5 DEF DutInv

\* A pop gives room back.
LEMMA PopInBounds ==
    ASSUME NEW N, NEW d, DutInv(N, d)
    PROVE  DutInv(N, WriteRxPop(d))
  <1>1. CASE d.table = <<>>
    BY <1>1 DEF WriteRxPop
  <1>2. CASE d.table # <<>>
    <2>1. d \in DutType(N) /\ d.table \in Seq(Entry(N)) /\ d.tx.stored \in Nat /\ d.wire.stored \in Nat
      BY DEF DutInv, DutType, StreamType
    <2>2. PICK t : t = Tail(d.table)
      OBVIOUS
    <2>3. t \in Seq(Entry(N)) /\ Len(t) = Len(d.table) - 1 /\ BytesOf(t) <= BytesOf(d.table)
      BY <1>2, <2>1, <2>2, BytesTail
    <2>4. WriteRxPop(d) = [d EXCEPT !.table = t]
      BY <1>2, <2>2 DEF WriteRxPop
    <2> DEFINE e == WriteRxPop(d)
    <2> HIDE DEF e
    <2>5. e \in DutType(N) /\ e.table = t /\ e.tx = d.tx /\ e.wire = d.wire
      BY <2>1, <2>3, <2>4 DEF DutType, e
    <2>6. Len(t) <= Depth
      <3> DEFINE k == Len(d.table)
                 j == Len(t)
      <3>1. k \in Nat /\ k <= 8 /\ j = k - 1
        BY <2>1, <2>3 DEF DutInv, Depth
      <3> HIDE DEF k, j
      <3>2. j <= 8
        BY <3>1
      <3> QED BY <3>2 DEF j, Depth
    <2>7. Used(e) + e.tx.stored + e.wire.stored <= RxBytes
      <3> DEFINE u == BytesOf(d.table)
                 v == BytesOf(t)
                 a == d.tx.stored
                 b == d.wire.stored
      <3>1. u \in Nat /\ v \in Nat /\ a \in Nat /\ b \in Nat /\ u + a + b <= RxBytes /\ v <= u
        BY <2>1, <2>3, BytesNat DEF DutInv, Used
      <3> HIDE DEF u, v, a, b
      <3>2. v + a + b <= RxBytes
        BY <3>1 DEF RxBytes
      <3> QED BY <2>5, <3>2 DEF v, a, b, Used
    <2>8. DutInv(N, e)
      BY <2>5, <2>6, <2>7 DEF DutInv
    <2> QED BY <2>8 DEF e
  <1> QED BY <1>1, <1>2

\* A kick, whatever length was written.
LEMMA KickInBounds ==
    ASSUME NEW N, "none" \in N, NEW d, DutInv(N, d), NEW len \in Nat
    PROVE  DutInv(N, WriteTxCtrl(d, len))
  <1>1. CASE len = 0 \/ d.tx.on
    BY <1>1 DEF WriteTxCtrl
  <1>2. CASE ~(len = 0 \/ d.tx.on)
    <2>1. PICK t : t = Stream(d.buf.dst, d.buf.data, len, TxHead + LoopLag)
      OBVIOUS
    <2>2. d \in DutType(N) /\ d.buf.dst \in N /\ d.buf.data \in N /\ d.tx.stored \in Nat
      BY DEF DutInv, DutType, StreamType
    <2>3. TxHead + LoopLag \in Nat \ {0}
      BY TimingAssumption
    <2>4. t \in StreamType(N) /\ StreamInv(t) /\ ~t.pass /\ t.stored = 0
      BY <2>1, <2>2, <2>3, NewStream
    <2> DEFINE e == WriteTxCtrl(d, len)
    <2>5. e = [d EXCEPT !.tx = t]
      BY <1>2, <2>1 DEF WriteTxCtrl
    <2> HIDE DEF e
    <2>6. e \in DutType(N) /\ e.table = d.table /\ e.tx = t /\ e.wire = d.wire
      BY <2>2, <2>4, <2>5 DEF DutType
    <2>7. d.tx.stored = 0
      BY <1>2, <2>2 DEF DutInv, StreamInv
    <2>8. Used(e) + e.tx.stored + e.wire.stored <= RxBytes
      BY <2>4, <2>6, <2>7 DEF DutInv, Used
    <2>9. DutInv(N, e)
      BY <2>4, <2>6, <2>8 DEF DutInv
    <2> QED BY <2>9 DEF e
  <1> QED BY <1>1, <1>2

\* A frame on the wire.
LEMMA WireInBounds ==
    ASSUME NEW N, "none" \in N, NEW d, DutInv(N, d), NEW p \in Packet(N), ~d.wire.on
    PROVE  DutInv(N, SendToWire(d, p))
  <1>1. PICK w : w = Stream(p.dst, p.data, p.len, RxStart + WireLead)
    OBVIOUS
  <1>2. d \in DutType(N) /\ d.wire.stored \in Nat /\ p.dst \in N /\ p.data \in N /\ p.len \in Nat
    BY DEF DutInv, DutType, StreamType, Packet
  <1>3. RxStart + WireLead \in Nat \ {0}
    BY TimingAssumption DEF WireLead, Preamble, Fcs
  <1>4. w \in StreamType(N) /\ StreamInv(w) /\ ~w.pass /\ w.stored = 0
    BY <1>1, <1>2, <1>3, NewStream
  <1> DEFINE e == SendToWire(d, p)
  <1>5. e = [d EXCEPT !.wire = w]
    BY <1>1 DEF SendToWire
  <1> HIDE DEF e
  <1>6. e \in DutType(N) /\ e.table = d.table /\ e.wire = w /\ e.tx = d.tx
    BY <1>2, <1>4, <1>5 DEF DutType
  <1>7. d.wire.stored = 0
    BY <1>2 DEF DutInv, StreamInv
  <1>8. Used(e) + e.tx.stored + e.wire.stored <= RxBytes
    BY <1>4, <1>6, <1>7 DEF DutInv, Used
  <1>9. DutInv(N, e)
    BY <1>4, <1>6, <1>8 DEF DutInv
  <1> QED BY <1>9 DEF e

\* A word of the TX buffer, even of a packet being sent.
LEMMA WordInBounds ==
    ASSUME NEW N, "mixed" \in N, NEW d, DutInv(N, d), NEW w, NEW v \in N
    PROVE  DutInv(N, WriteTxWord(d, w, v))
  <1>1. d \in DutType(N) /\ d.buf \in [dst : N, data : N] /\ d.tx \in StreamType(N) /\ d.tx.data \in N
    BY DEF DutInv, DutType, StreamType
  <1>2. PICK b \in [dst : N, data : N] : b = SetWord(d.buf, w, v)
    BY <1>1 DEF SetWord
  <1>3. PICK x \in N : x = IF tx_status(d) /\ w # 0 THEN "mixed" ELSE d.tx.data
    BY <1>1
  <1>4. PICK t : t = [d.tx EXCEPT !.data = x]
    OBVIOUS
  <1>5. /\ t \in StreamType(N) /\ t.on = d.tx.on /\ t.got = d.tx.got /\ t.len = d.tx.len
        /\ t.pass = d.tx.pass /\ t.stored = d.tx.stored
    BY <1>1, <1>4 DEF StreamType
  <1> DEFINE e == WriteTxWord(d, w, v)
  <1>6. e = [d EXCEPT !.buf = b, !.tx = t]
    <2>1. [d EXCEPT !.buf = b, !.tx.data = x] = [d EXCEPT !.buf = b, !.tx = t]
      BY <1>1, <1>4 DEF DutType
    <2> QED BY <1>2, <1>3, <2>1 DEF WriteTxWord
  <1> HIDE DEF e
  <1>7. e \in DutType(N) /\ e.table = d.table /\ e.tx = t /\ e.wire = d.wire
    BY <1>1, <1>5, <1>6 DEF DutType
  <1>8. StreamInv(t)
    BY <1>5 DEF DutInv, StreamInv
  <1>9. DutInv(N, e)
    BY <1>5, <1>7, <1>8 DEF DutInv, Used
  <1> QED BY <1>9 DEF e

\* No access takes the design out of its bounds: the table never holds more than its
\* descriptors, the packets in it and the one being stored never more than the buffer,
\* whatever is on its way.  N is any set of names for addresses and data.
THEOREM AccessInBounds ==
    ASSUME NEW N, {"none", "mixed"} \subseteq N, NEW d, DutInv(N, d)
    PROVE  /\ \A bits : DutInv(N, WriteIntrState(d, bits)) /\ DutInv(N, WriteIntrMask(d, bits))
                       /\ DutInv(N, WriteMdio(d, bits))
           /\ DutInv(N, WriteIntrTest(d)) /\ DutInv(N, WriteRxPop(d))
           /\ \A mode \in BOOLEAN \X BOOLEAN : DutInv(N, WriteCtrl(d, mode))
           /\ \A a \in N : DutInv(N, WriteMacLo(d, a)) /\ DutInv(N, WriteMacHi(d, a))
           /\ \A v \in N : \A w \in {0, 1} : DutInv(N, WriteTxWord(d, w, v))
           /\ \A len \in Nat : DutInv(N, WriteTxCtrl(d, len))
           /\ \A p \in Packet(N) : ~d.wire.on => DutInv(N, SendToWire(d, p))
  <1>1. d \in DutType(N) /\ d.sticky \subseteq 4 .. 6
    BY DEF DutInv, DutType
  <1>2. ASSUME NEW bits PROVE DutInv(N, WriteIntrState(d, bits))
    <2>1. PICK y \in SUBSET (4 .. 6) : y = d.sticky \ bits
      BY <1>1
    <2>2. PICK e : e = [d EXCEPT !.sticky = y]
      OBVIOUS
    <2>3. e \in DutType(N) /\ e.table = d.table /\ e.tx = d.tx /\ e.wire = d.wire
      BY <1>1, <2>2 DEF DutType
    <2> QED BY <2>1, <2>2, <2>3, RegistersOnly DEF WriteIntrState
  <1>3. ASSUME NEW bits PROVE DutInv(N, WriteIntrMask(d, bits))
    <2>1. PICK y \in SUBSET (0 .. 6) : y = bits \cap 0 .. 6
      OBVIOUS
    <2>2. PICK e : e = [d EXCEPT !.mask = y]
      OBVIOUS
    <2>3. e \in DutType(N) /\ e.table = d.table /\ e.tx = d.tx /\ e.wire = d.wire
      BY <1>1, <2>2 DEF DutType
    <2> QED BY <2>1, <2>2, <2>3, RegistersOnly DEF WriteIntrMask
  <1>4. ASSUME NEW bits PROVE DutInv(N, WriteMdio(d, bits))
    <2>1. PICK y \in SUBSET (0 .. 2) : y = bits \cap 0 .. 2
      OBVIOUS
    <2>2. PICK e : e = [d EXCEPT !.mdio = y]
      OBVIOUS
    <2>3. e \in DutType(N) /\ e.table = d.table /\ e.tx = d.tx /\ e.wire = d.wire
      BY <1>1, <2>2 DEF DutType
    <2> QED BY <2>1, <2>2, <2>3, RegistersOnly DEF WriteMdio
  <1>5. DutInv(N, WriteIntrTest(d))
    <2>1. PICK y \in SUBSET (4 .. 6) : y = d.sticky \cup {6}
      <3>1. d.sticky \cup {6} \in SUBSET (4 .. 6)
        BY <1>1
      <3> QED BY <3>1
    <2>2. PICK e : e = [d EXCEPT !.sticky = y]
      OBVIOUS
    <2>3. e \in DutType(N) /\ e.table = d.table /\ e.tx = d.tx /\ e.wire = d.wire
      BY <1>1, <2>2 DEF DutType
    <2> QED BY <2>1, <2>2, <2>3, RegistersOnly DEF WriteIntrTest
  <1>6. ASSUME NEW mode \in BOOLEAN \X BOOLEAN PROVE DutInv(N, WriteCtrl(d, mode))
    <2>1. PICK y \in BOOLEAN, z \in BOOLEAN : y = mode[1] /\ z = mode[2]
      OBVIOUS
    <2>2. PICK e : e = [d EXCEPT !.prom = y, !.loop = z]
      OBVIOUS
    <2>3. e \in DutType(N) /\ e.table = d.table /\ e.tx = d.tx /\ e.wire = d.wire
      BY <1>1, <2>2 DEF DutType
    <2> QED BY <2>1, <2>2, <2>3, RegistersOnly DEF WriteCtrl
  <1>7. ASSUME NEW a \in N PROVE DutInv(N, WriteMacLo(d, a)) /\ DutInv(N, WriteMacHi(d, a))
    <2>1. d.mac \in [lo : N, hi : N]
      BY <1>1 DEF DutType
    <2>2. PICK y \in [lo : N, hi : N], z \in [lo : N, hi : N] :
             y = [d.mac EXCEPT !.lo = a] /\ z = [d.mac EXCEPT !.hi = a]
      BY <2>1
    <2>3. PICK e, f : e = [d EXCEPT !.mac = y] /\ f = [d EXCEPT !.mac = z]
      OBVIOUS
    <2>4. /\ e \in DutType(N) /\ e.table = d.table /\ e.tx = d.tx /\ e.wire = d.wire
          /\ f \in DutType(N) /\ f.table = d.table /\ f.tx = d.tx /\ f.wire = d.wire
      BY <1>1, <2>3 DEF DutType
    <2>5. WriteMacLo(d, a) = e /\ WriteMacHi(d, a) = f
      <3>1. /\ [d EXCEPT !.mac.lo = a] = [d EXCEPT !.mac = [d.mac EXCEPT !.lo = a]]
            /\ [d EXCEPT !.mac.hi = a] = [d EXCEPT !.mac = [d.mac EXCEPT !.hi = a]]
        BY <1>1, <2>1 DEF DutType
      <3> QED BY <2>2, <2>3, <3>1 DEF WriteMacLo, WriteMacHi
    <2> QED BY <2>4, <2>5, RegistersOnly
  <1>8. ASSUME NEW v \in N, NEW w \in {0, 1} PROVE DutInv(N, WriteTxWord(d, w, v))
    BY WordInBounds
  <1>9. ASSUME NEW len \in Nat PROVE DutInv(N, WriteTxCtrl(d, len))
    BY KickInBounds
  <1>10. ASSUME NEW p \in Packet(N), ~d.wire.on PROVE DutInv(N, SendToWire(d, p))
    BY <1>10, WireInBounds
  <1> QED BY <1>2, <1>3, <1>4, <1>5, <1>6, <1>7, <1>8, <1>9, <1>10, PopInBounds

\* The bounds TypeOK of the bench asks of the design follow.
THEOREM BoundsGiveDutOK ==
    ASSUME NEW N, NEW d, DutInv(N, d)
    PROVE  DutOK(d)
  <1>1. d \in DutType(N) /\ d.tx \in StreamType(N) /\ d.wire \in StreamType(N)
        /\ d.table \in Seq(Entry(N))
    BY DEF DutInv, DutType
  <1>2. d.sticky \subseteq 4 .. 6 /\ d.mask \subseteq 0 .. 6 /\ d.mdio \subseteq 0 .. 2
    BY <1>1 DEF DutType
  <1>3. ASSUME NEW s \in StreamType(N), StreamInv(s) PROVE s.got <= s.len /\ s.stored <= s.len
    <2>1. s.got \in Int /\ s.len \in Nat /\ s.stored \in Nat
      BY DEF StreamType
    <2> QED BY <1>3, <2>1 DEF StreamInv
  <1>4. \A s \in {d.tx, d.wire} : s.got <= s.len /\ s.stored <= s.len
    BY <1>1, <1>3 DEF DutInv
  <1>5. Used(d) <= RxBytes
    <2> DEFINE u == Used(d)
               a == d.tx.stored
               b == d.wire.stored
    <2>1. u \in Nat /\ a \in Nat /\ b \in Nat /\ u + a + b <= RxBytes
      BY <1>1, BytesNat DEF DutInv, Used, StreamType
    <2> HIDE DEF u, a, b
    <2>2. u <= RxBytes
      BY <2>1 DEF RxBytes
    <2> QED BY <2>2 DEF u
  <1> QED BY <1>2, <1>4, <1>5 DEF DutOK, DutInv

-----------------------------------------------------------------------------
(* A whole packet through filter and buffer, with nothing beside it. *)

\* What the address filter is to say of a packet to dst.
Matches(d, dst) == dst = d.mac.hi
Wanted(d, dst) == d.prom \/ ReasonFor(dst, Matches(d, dst)) # "NON_MAC_MATCH"

\* What is known of a stream when its first k bytes have been taken in, however
\* the cycles were divided: the verdict of the filter counts from the second byte
\* on, and the packet is lost as soon as a byte of it finds no room.
Taken(d, a, k) ==
    LET room == RxBytes - Used(d)
        full == Len(d.table) = Depth
    IN  /\ a.on /\ a.got = k /\ a.pass /\ ~a.bad
        /\ a.hi = (k > 0 => Matches(d, a.dst)) /\ a.lo = (k > 2 => Matches(d, a.dst))
        /\ a.ext = (k > 1 /\ ~Wanted(d, a.dst))
        /\ ~Wanted(d, a.dst) => ~a.lost
        /\ (Wanted(d, a.dst) \/ k <= 1) /\ full => a.stored = 0 /\ (a.lost <=> k > 0 /\ room = 0)
        /\ (Wanted(d, a.dst) \/ k <= 1) /\ ~full => (a.lost <=> k > room) /\ (~a.lost => a.stored = k)
        /\ Used(d) + a.stored <= RxBytes

\* The next n bytes.  A packet that is not wanted leaves no trace unless the buffer
\* is full, or full but for one byte: it is dropped one byte after the verdict,
\* which comes with the second.
LEMMA TakeStep ==
    ASSUME NEW N, NEW d \in DutType(N), NEW a \in StreamType(N), NEW k \in Nat,
           NEW n \in Nat, n > 0, d.mac.lo = d.mac.hi, Taken(d, a, k),
           Wanted(d, a.dst) \/ Used(d) + 1 < RxBytes
    PROVE  LET b == Captured(d, a, n)
           IN  /\ b \in StreamType(N) /\ b.len = a.len /\ b.dst = a.dst /\ b.data = a.data
               /\ Taken(d, b, k + n) /\ (a.lost => b.lost)
  <1> DEFINE b == Captured(d, a, n)
             live == CapLive(d, a, n)
             tried == CapTried(d, a, n)
             write == CapWrite(d, a, n)
             left == CapRoom(d, a)
             room == RxBytes - Used(d)
             full == Len(d.table) = Depth
             W == Wanted(d, a.dst)
             M == Matches(d, a.dst)
  <1>1. /\ a.got >= 0 /\ Used(d) \in Nat /\ a.stored \in Nat /\ a.got = k
        /\ Used(d) + a.stored <= RxBytes
    <2>1. d.table \in Seq(Entry(N))
      BY DEF DutType
    <2>2. a.got = k /\ Used(d) + a.stored <= RxBytes
      BY DEF Taken
    <2> QED BY <2>1, <2>2, BytesNat DEF Used, StreamType
  <1>2. /\ a.hi = (k > 0 => M) /\ a.lo = (k > 2 => M)
        /\ a.ext = (k > 1 /\ ~W) /\ a.on /\ a.pass /\ ~a.bad
    BY DEF Taken
  <1>3. /\ ~W => ~a.lost
        /\ (W \/ k <= 1) /\ full => a.stored = 0 /\ (a.lost <=> k > 0 /\ room = 0)
        /\ (W \/ k <= 1) /\ ~full => (a.lost <=> k > room) /\ (~a.lost => a.stored = k)
    BY DEF Taken
  <1>4. /\ b \in StreamType(N) /\ b.on = a.on /\ b.got = a.got + n /\ b.len = a.len
        /\ b.dst = a.dst /\ b.data = a.data /\ b.pass = a.pass /\ b.bad = a.bad
        /\ b.hi = CapHi(d, a) /\ b.lo = CapLo(d, a, n) /\ b.ext = CapExt(d, a, n)
        /\ b.lost = (a.lost \/ (tried > write /\ write = left))
        /\ b.stored = a.stored + write
    BY <1>1, CapturedStream
  <1>5. /\ left = RxBytes - Used(d) - a.stored /\ left \in Nat
        /\ live \in 0 .. n
        /\ write = IF full THEN 0 ELSE IF live <= left THEN live ELSE left
        /\ write \in 0 .. n /\ write <= left
    BY <1>1, CapNumbers
  <1>6. left = room - a.stored /\ room \in Nat
    <2>1. PICK u \in Nat, l \in Nat, t \in Nat :
             u = Used(d) /\ l = left /\ t = a.stored /\ l = RxBytes - u - t /\ u + t <= RxBytes
      BY <1>1, <1>5
    <2>2. l = (RxBytes - u) - t /\ RxBytes - u \in Nat
      BY <2>1 DEF RxBytes
    <2> QED BY <2>1, <2>2
  <1>7. CapHi(d, a) = M
    <2>1. CapHi(d, a) = ((k > 0 => M) /\ (k < 2 => M))
      BY <1>1, <1>2 DEF CapHi, Matches
    <2>2. k > 0 \/ k < 2
      OBVIOUS
    <2>3. M \in BOOLEAN
      BY DEF Matches
    <2> HIDE DEF M
    <2> QED BY <2>1, <2>2, <2>3
  <1>8. CapLo(d, a, n) = (k + n > 2 => M)
    <2>1. CapLo(d, a, n) = ((k > 2 => M) /\ (k < 6 /\ k + n > 2 => M))
      BY <1>1, <1>2 DEF CapLo, Matches
    <2> QED BY <2>1
  <1>9. CapExt(d, a, n) = (k + n > 1 /\ ~W)
    <2>1. d.prom \in BOOLEAN
      BY DEF DutType
    <2>2. (CapHi(d, a) /\ CapLo(d, a, n)) = M
      BY <1>7, <1>8 DEF Matches
    <2>3. CapExt(d, a, n) = (a.ext \/ (~d.prom /\ k + n > 1 /\ ReasonFor(a.dst, M) = "NON_MAC_MATCH"))
      BY <1>1, <2>2 DEF CapExt
    <2>4. CapExt(d, a, n) = ((k > 1 /\ ~W) \/ (k + n > 1 /\ ~W))
      BY <1>2, <2>1, <2>3, Zenon DEF Wanted
    <2>5. k > 1 => k + n > 1
      OBVIOUS
    <2> QED BY <2>4, <2>5
  <1>10. ~W => room > 1
    BY <1>1 DEF room, RxBytes
  <1>11. live = IF a.ext \/ a.lost THEN 0
                ELSE IF ~(k + n > 1 /\ ~W) THEN n ELSE IF k = 0 THEN 1 ELSE 0
    BY <1>1, <1>9 DEF CapLive
  <1>12. tried = IF ~a.ext /\ ~a.lost /\ k + n > 1 /\ ~W THEN live + 1 ELSE live
    BY <1>9 DEF CapTried
  <1> HIDE DEF b, live, tried, write, left, room, full, W
  <1>13. b.lost <=> a.lost \/ (tried > write /\ write = left)
    BY <1>4
  <1>14. b.stored = a.stored + write
    BY <1>4
  <1>15. ASSUME W, full PROVE b.stored = 0 /\ (b.lost <=> room = 0)
    <2>1. a.stored = 0 /\ (a.lost <=> k > 0 /\ room = 0) /\ ~a.ext
      BY <1>2, <1>3, <1>15
    <2>2. write = 0 /\ left = room
      BY <1>5, <1>6, <1>15, <2>1
    <2>3. CASE a.lost
      BY <1>13, <1>14, <2>1, <2>2, <2>3
    <2>4. CASE ~a.lost
      <3>1. tried = n
        BY <1>11, <1>12, <1>15, <2>1, <2>4
      <3> QED BY <1>13, <1>14, <2>1, <2>2, <2>4, <3>1
    <2> QED BY <2>3, <2>4
  <1>16. ASSUME W, ~full
         PROVE  (b.lost <=> k + n > room) /\ (~b.lost => b.stored = k + n)
    <2>1. write = IF live <= left THEN live ELSE left
      BY <1>5, <1>16
    <2>2. CASE a.lost
      <3>1. k > room
        BY <1>3, <1>16, <2>2
      <3> QED BY <1>6, <1>13, <2>2, <3>1
    <2>3. CASE ~a.lost
      <3>1. ~(k > room) /\ a.stored = k
        BY <1>3, <1>16, <2>3
      <3>2. live = n /\ tried = n
        BY <1>2, <1>11, <1>12, <1>16, <2>3
      <3>3. b.lost <=> n > left
        BY <1>5, <1>13, <2>1, <2>3, <3>2
      <3>4. left = room - k
        BY <1>6, <3>1
      <3>5. ~b.lost => write = n
        BY <1>5, <2>1, <3>2, <3>3
      <3> QED BY <1>5, <1>6, <1>14, <3>1, <3>3, <3>4, <3>5
    <2> QED BY <2>2, <2>3
  <1>17. ASSUME ~W PROVE ~b.lost
    <2>1. ~a.lost /\ room > 1
      BY <1>3, <1>10, <1>17
    <2>2. CASE a.ext
      <3>1. tried = 0
        BY <1>11, <1>12, <2>2
      <3> QED BY <1>5, <1>13, <2>1, <3>1
    <2>3. CASE ~a.ext
      <3>1. k <= 1
        <4>1. ~(k > 1)
          BY <1>2, <1>17, <2>3, Zenon
        <4> QED BY <4>1
      <3>2. a.stored = IF full THEN 0 ELSE k
        <4>1. full => a.stored = 0
          BY <1>3, <3>1
        <4>2. ~full => a.stored = k
          BY <1>3, <2>1, <3>1
        <4> QED BY <4>1, <4>2
      <3>3. write <= IF k = 0 THEN 1 ELSE 0
        BY <1>5, <1>11, <1>17, <2>1, <2>3, <3>1
      <3>4. write + a.stored <= 1
        BY <1>5, <3>1, <3>2, <3>3
      <3>5. write # left
        BY <1>1, <1>5, <1>6, <2>1, <3>4
      <3> QED BY <1>13, <2>1, <3>5
    <2> QED BY <2>2, <2>3
  <1>18. ASSUME ~W, k + n <= 1
         PROVE  /\ full => b.stored = 0
                /\ ~full => b.stored = 1
                /\ room > 1 /\ ~b.lost /\ k = 0 /\ n = 1
    <2>1. k = 0 /\ n = 1 /\ ~a.lost /\ room > 1 /\ ~b.lost
      BY <1>3, <1>10, <1>17, <1>18
    <2>2. live = 1 /\ a.stored = 0
      <3>1. ~(k > 1) /\ ~(k + n > 1)
        BY <2>1
      <3>2. ~a.ext
        BY <1>2, <3>1
      <3> QED BY <1>3, <1>11, <2>1, <3>1, <3>2
    <2> QED BY <1>5, <1>6, <1>14, <2>1, <2>2
  <1>19. Used(d) + b.stored <= RxBytes
    <2>1. PICK u \in Nat, l \in Nat, t \in Nat, w \in Nat :
             /\ u = Used(d) /\ l = left /\ t = a.stored /\ l = RxBytes - u - t /\ w = write /\ w <= l
             /\ b.stored = t + w
      BY <1>1, <1>5, <1>14
    <2>2. u + (t + w) <= RxBytes
      BY <2>1 DEF RxBytes
    <2> QED BY <2>1, <2>2
  <1>20. Taken(d, b, k + n)
    <2>1. b.dst = a.dst /\ b.on /\ b.got = k + n /\ b.pass /\ ~b.bad
      BY <1>1, <1>2, <1>4
    <2>2. b.hi = (k + n > 0 => M) /\ b.lo = (k + n > 2 => M) /\ b.ext = (k + n > 1 /\ ~W)
      BY <1>4, <1>7, <1>8, <1>9 DEF Matches
    <2>3. (W \/ k + n <= 1) /\ full => b.stored = 0 /\ (b.lost <=> k + n > 0 /\ room = 0)
      BY <1>15, <1>18
    <2>4. (W \/ k + n <= 1) /\ ~full => (b.lost <=> k + n > room) /\ (~b.lost => b.stored = k + n)
      BY <1>6, <1>16, <1>18
    <2> HIDE DEF M
    <2> QED BY <1>17, <1>19, <2>1, <2>2, <2>3, <2>4 DEF Taken, W, M, full, room
  <1>21. a.lost => b.lost
    BY <1>13
  <1> QED BY <1>4, <1>20, <1>21 DEF b

-----------------------------------------------------------------------------
(* What Advance does to each field when one stream is on its way. *)

SameRegs(d, e) ==
    /\ e.mask = d.mask /\ e.prom = d.prom /\ e.loop = d.loop /\ e.mac = d.mac
    /\ e.buf = d.buf /\ e.mdio = d.mdio

EntryOf(s) ==
    [reason |-> ReasonFor(s.dst, s.hi /\ s.lo),
     pkt |-> [dst |-> s.dst, data |-> s.data, len |-> s.stored]]

\* A packet that the filter wants and that has found room so far.
Keep(s) == s.pass /\ ~s.ext /\ ~s.lost

\* The reason and the packet that a commit puts into the table.
LEMMA EntryType ==
    ASSUME NEW N, NEW s \in StreamType(N)
    PROVE  EntryOf(s) \in Entry(N)
  <1>1. ReasonFor(s.dst, s.hi /\ s.lo) \in Reason
    BY DEF ReasonFor, Reason
  <1>2. s.dst \in N /\ s.data \in N /\ s.stored \in Nat
    BY DEF StreamType
  <1> QED BY <1>1, <1>2 DEF EntryOf, Entry, Packet

\* The end of a packet changes the table or the packet-lost flag, or nothing.
LEMMA CommitFields ==
    ASSUME NEW N, NEW d \in DutType(N), NEW s \in StreamType(N)
    PROVE  LET e == Commit(d, s)
           IN  /\ e \in DutType(N) /\ SameRegs(d, e) /\ e.tx = d.tx /\ e.wire = d.wire
               /\ e.sent = d.sent
               /\ e.table = IF Keep(s) /\ Len(d.table) # Depth /\ ~s.bad
                            THEN Append(d.table, EntryOf(s)) ELSE d.table
               /\ e.sticky = d.sticky \cup (IF Keep(s) /\ Len(d.table) = Depth THEN {4} ELSE {})
  <1> DEFINE e == Commit(d, s)
  <1>1. EntryOf(s) \in Entry(N)
    BY EntryType
  <1>2. d.table \in Seq(Entry(N)) /\ d.sticky \in SUBSET (4 .. 6)
    BY DEF DutType
  <1>3. PICK t \in Seq(Entry(N)), x \in SUBSET (4 .. 6) :
           t = Append(d.table, EntryOf(s)) /\ x = d.sticky \cup {4}
    <2>1. Append(d.table, EntryOf(s)) \in Seq(Entry(N))
      BY <1>1, <1>2
    <2>2. d.sticky \cup {4} \in SUBSET (4 .. 6)
      BY <1>2
    <2> QED BY <2>1, <2>2
  <1>4. CASE ~Keep(s)
    <2>1. e = d
      BY <1>4 DEF Commit, Keep
    <2> QED BY <1>4, <2>1 DEF SameRegs
  <1>5. CASE Keep(s) /\ Len(d.table) = Depth
    <2>1. e = [d EXCEPT !.sticky = x]
      BY <1>3, <1>5 DEF Commit, Keep
    <2> HIDE DEF e
    <2>2. /\ e \in DutType(N) /\ e.tx = d.tx /\ e.wire = d.wire /\ e.sent = d.sent
          /\ e.table = d.table /\ e.sticky = x
      BY <2>1 DEF DutType
    <2>3. SameRegs(d, e)
      BY <2>1 DEF DutType, SameRegs
    <2> QED BY <1>3, <1>5, <2>2, <2>3 DEF e
  <1>6. CASE Keep(s) /\ Len(d.table) # Depth /\ s.bad
    <2>1. e = d
      BY <1>6 DEF Commit, Keep
    <2> QED BY <1>6, <2>1 DEF SameRegs
  <1>7. CASE Keep(s) /\ Len(d.table) # Depth /\ ~s.bad
    <2>1. e = [d EXCEPT !.table = t]
      BY <1>3, <1>7 DEF Commit, Keep, EntryOf
    <2> HIDE DEF e
    <2>2. /\ e \in DutType(N) /\ e.tx = d.tx /\ e.wire = d.wire /\ e.sent = d.sent
          /\ e.table = t /\ e.sticky = d.sticky
      BY <2>1 DEF DutType
    <2>3. SameRegs(d, e)
      BY <2>1 DEF DutType, SameRegs
    <2> QED BY <1>3, <1>7, <2>2, <2>3 DEF e
  <1> QED BY <1>4, <1>5, <1>6, <1>7

\* Without a packet being sent, n cycles do nothing on the side of the transmitter.
LEMMA TxIdle ==
    ASSUME NEW N, NEW d \in DutType(N), ~d.tx.on, NEW n
    PROVE  AdvanceTx(d, n) = d
  <1>1. Moved(d, d.tx, d.loop, d.wire, n) = d.tx
    BY DEF Moved
  <1>2. Lost(d.tx, d.tx) = {}
    BY DEF Lost
  <1>3. AdvanceTx(d, n) = [d EXCEPT !.sticky = @ \cup {} \cup {}, !.tx = d.tx]
    BY <1>1, <1>2 DEF AdvanceTx
  <1>4. [d EXCEPT !.sticky = @ \cup {} \cup {}, !.tx = d.tx] = d
    BY DEF DutType
  <1> QED BY <1>3, <1>4

\* Nor, without a packet on the pins, on the side of the receiver.
LEMMA WireIdle ==
    ASSUME NEW N, NEW d \in DutType(N), ~d.wire.on, NEW n
    PROVE  AdvanceWire(d, n) = d
  <1>1. Moved(d, d.wire, ~d.loop, d.tx, n) = d.wire
    BY DEF Moved
  <1>2. Lost(d.wire, d.wire) = {}
    BY DEF Lost
  <1>3. AdvanceWire(d, n) = [d EXCEPT !.sticky = @ \cup {}, !.wire = d.wire]
    BY <1>1, <1>2 DEF AdvanceWire
  <1>4. [d EXCEPT !.sticky = @ \cup {}, !.wire = d.wire] = d
    BY DEF DutType
  <1> QED BY <1>3, <1>4

\* n cycles of a packet from the pins.
LEMMA WireFields ==
    ASSUME NEW N, "none" \in N, NEW d \in DutType(N), ~d.tx.on, NEW n \in Nat,
           NEW w \in StreamType(N), w = Moved(d, d.wire, ~d.loop, d.tx, n)
    PROVE  LET e   == Advance(d, n)
               end == w.on /\ w.got = w.len
           IN  /\ e \in DutType(N) /\ SameRegs(d, e) /\ e.tx = d.tx /\ e.sent = d.sent
               /\ e.wire = IF end THEN Off ELSE w
               /\ e.table = IF end /\ Keep(w) /\ Len(d.table) # Depth /\ ~w.bad
                            THEN Append(d.table, EntryOf(w)) ELSE d.table
               /\ e.sticky = d.sticky \cup Lost(d.wire, w)
                                \cup (IF end /\ Keep(w) /\ Len(d.table) = Depth THEN {4} ELSE {})
  <1> DEFINE e    == Advance(d, n)
             end  == w.on /\ w.got = w.len
             next == [d EXCEPT !.sticky = @ \cup Lost(d.wire, w), !.wire = w]
             f    == Commit(next, w)
  <1>1. e = IF end THEN [f EXCEPT !.wire = Off] ELSE next
    <2>1. e = AdvanceWire(d, n)
      BY TxIdle DEF Advance
    <2> QED BY <2>1 DEF AdvanceWire
  <1>2. d.sticky \cup Lost(d.wire, w) \in SUBSET (4 .. 6)
    BY DEF Lost, DutType
  <1>3. PICK x \in SUBSET (4 .. 6) : x = d.sticky \cup Lost(d.wire, w)
    BY <1>2
  <1>4. next = [d EXCEPT !.sticky = x, !.wire = w]
    BY <1>3
  <1> HIDE DEF next
  <1>5. /\ next \in DutType(N) /\ next.tx = d.tx /\ next.wire = w /\ next.sent = d.sent
        /\ next.table = d.table /\ next.sticky = x /\ SameRegs(d, next)
    BY <1>4 DEF DutType, SameRegs
  <1>6. /\ f \in DutType(N) /\ SameRegs(next, f) /\ f.tx = next.tx /\ f.sent = next.sent
        /\ f.table = IF Keep(w) /\ Len(next.table) # Depth /\ ~w.bad
                     THEN Append(next.table, EntryOf(w)) ELSE next.table
        /\ f.sticky = next.sticky \cup (IF Keep(w) /\ Len(next.table) = Depth THEN {4} ELSE {})
    BY <1>5, CommitFields
  <1> HIDE DEF f
  <1>7. Off \in StreamType(N)
    BY OffStream
  <1>8. CASE ~end
    <2>1. e = next
      BY <1>1, <1>8
    <2> HIDE DEF e
    <2>2. e.sticky = d.sticky \cup Lost(d.wire, w) \cup {}
      BY <1>3, <1>5, <2>1
    <2> QED BY <1>5, <1>8, <2>1, <2>2 DEF e
  <1>9. CASE end
    <2>1. e = [f EXCEPT !.wire = Off]
      BY <1>1, <1>9
    <2> HIDE DEF e, end
    <2>2. /\ e \in DutType(N) /\ e.tx = f.tx /\ e.sent = f.sent /\ e.table = f.table
          /\ e.sticky = f.sticky /\ e.wire = Off /\ SameRegs(f, e)
      BY <1>6, <1>7, <2>1 DEF DutType, SameRegs
    <2>3. SameRegs(d, e)
      BY <1>5, <1>6, <2>2 DEF SameRegs
    <2>4. e.table = IF Keep(w) /\ Len(d.table) # Depth /\ ~w.bad
                    THEN Append(d.table, EntryOf(w)) ELSE d.table
      BY <1>5, <1>6, <2>2
    <2>5. e.sticky = d.sticky \cup Lost(d.wire, w)
                        \cup (IF Keep(w) /\ Len(d.table) = Depth THEN {4} ELSE {})
      BY <1>3, <1>5, <1>6, <2>2
    <2> QED BY <1>5, <1>6, <1>9, <2>2, <2>3, <2>4, <2>5 DEF e, end
  <1> QED BY <1>8, <1>9

\* n cycles of a packet from the transmit buffer.
LEMMA TxFields ==
    ASSUME NEW N, "none" \in N, NEW d \in DutType(N), ~d.wire.on, NEW n \in Nat,
           NEW t \in StreamType(N), t = Moved(d, d.tx, d.loop, d.wire, n)
    PROVE  LET e    == Advance(d, n)
               end  == t.on /\ t.got = t.len
               done == IF t.on /\ t.got = t.len - LoopLag THEN {5} ELSE {}
           IN  /\ e \in DutType(N) /\ SameRegs(d, e) /\ e.wire = d.wire
               /\ e.tx = IF end THEN Off ELSE t
               /\ e.sent = IF end THEN Logged(d.sent, [dst |-> t.dst, data |-> t.data, len |-> t.len])
                           ELSE d.sent
               /\ e.table = IF end /\ Keep(t) /\ Len(d.table) # Depth /\ ~t.bad
                            THEN Append(d.table, EntryOf(t)) ELSE d.table
               /\ e.sticky = d.sticky \cup done \cup Lost(d.tx, t)
                                \cup (IF end /\ Keep(t) /\ Len(d.table) = Depth THEN {4} ELSE {})
  <1> DEFINE e    == Advance(d, n)
             g    == AdvanceTx(d, n)
             end  == t.on /\ t.got = t.len
             done == IF t.on /\ t.got = t.len - LoopLag THEN {5} ELSE {}
             next == [d EXCEPT !.sticky = @ \cup done \cup Lost(d.tx, t), !.tx = t]
             f    == Commit(next, t)
             pkt  == [dst |-> t.dst, data |-> t.data, len |-> t.len]
  <1>1. g = IF end THEN [f EXCEPT !.tx = Off, !.sent = Logged(@, pkt)] ELSE next
    BY DEF AdvanceTx
  <1> HIDE DEF done
  <1>2. d.sticky \cup done \cup Lost(d.tx, t) \in SUBSET (4 .. 6)
    BY DEF Lost, DutType, done
  <1>3. PICK x \in SUBSET (4 .. 6) : x = d.sticky \cup done \cup Lost(d.tx, t)
    BY <1>2
  <1>4. next = [d EXCEPT !.sticky = x, !.tx = t]
    BY <1>3
  <1> HIDE DEF next
  <1>5. /\ next \in DutType(N) /\ next.tx = t /\ next.wire = d.wire /\ next.sent = d.sent
        /\ next.table = d.table /\ next.sticky = x /\ SameRegs(d, next)
    BY <1>4 DEF DutType, SameRegs
  <1>6. /\ f \in DutType(N) /\ SameRegs(next, f) /\ f.wire = next.wire /\ f.sent = next.sent
        /\ f.table = IF Keep(t) /\ Len(next.table) # Depth /\ ~t.bad
                     THEN Append(next.table, EntryOf(t)) ELSE next.table
        /\ f.sticky = next.sticky \cup (IF Keep(t) /\ Len(next.table) = Depth THEN {4} ELSE {})
    BY <1>5, CommitFields
  <1> HIDE DEF f
  <1>7. Off \in StreamType(N)
    BY OffStream
  <1>8. PICK l \in Seq(Packet(N)) : l = Logged(d.sent, pkt)
    <2>1. pkt \in Packet(N)
      BY DEF StreamType, Packet
    <2>2. d.sent \in Seq(Packet(N))
      BY DEF DutType
    <2> QED BY <2>1, <2>2, LoggedType
  <1> HIDE DEF pkt
  <1>9. CASE ~end
    <2>1. g = next
      BY <1>1, <1>9
    <2>2. e = g
      <3>1. g \in DutType(N) /\ ~g.wire.on
        BY <1>5, <2>1
      <3> QED BY <3>1, WireIdle DEF Advance
    <2>3. e = next
      BY <2>1, <2>2
    <2> HIDE DEF e, end
    <2>4. e.sticky = d.sticky \cup done \cup Lost(d.tx, t) \cup {}
      BY <1>3, <1>5, <2>3
    <2> QED BY <1>5, <1>9, <2>3, <2>4 DEF e, end, done
  <1>10. CASE end
    <2>1. g = [f EXCEPT !.tx = Off, !.sent = l]
      BY <1>1, <1>5, <1>6, <1>8, <1>10
    <2> HIDE DEF g, end
    <2>2. /\ g \in DutType(N) /\ g.wire = f.wire /\ g.sent = l /\ g.table = f.table
          /\ g.sticky = f.sticky /\ g.tx = Off /\ SameRegs(f, g)
      BY <1>6, <1>7, <2>1 DEF DutType, SameRegs
    <2>3. e = g
      <3>1. g \in DutType(N) /\ ~g.wire.on
        BY <1>5, <1>6, <2>2
      <3> QED BY <3>1, WireIdle DEF Advance, g
    <2> HIDE DEF e
    <2>4. SameRegs(d, e)
      BY <1>5, <1>6, <2>2, <2>3 DEF SameRegs
    <2>5. e.table = IF Keep(t) /\ Len(d.table) # Depth /\ ~t.bad
                    THEN Append(d.table, EntryOf(t)) ELSE d.table
      BY <1>5, <1>6, <2>2, <2>3
    <2>6. e.sticky = d.sticky \cup done \cup Lost(d.tx, t)
                        \cup (IF Keep(t) /\ Len(d.table) = Depth THEN {4} ELSE {})
      BY <1>3, <1>5, <1>6, <2>2, <2>3
    <2> QED BY <1>5, <1>6, <1>8, <1>10, <2>2, <2>3, <2>4, <2>5, <2>6 DEF e, end, done, pkt
  <1> QED BY <1>9, <1>10

-----------------------------------------------------------------------------
(* One packet on its way, however its cycles are divided. *)

\* A stream before the multiplexer, or turned away there.
Pristine(s) == ~s.pass /\ s.hi /\ s.lo /\ ~s.ext /\ ~s.lost /\ ~s.bad /\ s.stored = 0

Way(d, s, selected) ==
    s.on /\ IF s.got >= 0 /\ selected THEN Taken(d, s, s.got) ELSE Pristine(s)

Fits(d, len) == Len(d.table) < Depth /\ Used(d) + len <= RxBytes

\* The multiplexer lets a stream through, at its first byte, when its path is
\* selected and the other path is quiet; from then on its bytes are taken in.
LEMMA StreamStep ==
    ASSUME NEW N, NEW d \in DutType(N), NEW s \in StreamType(N), NEW other, ~other.on,
           NEW selected \in BOOLEAN, NEW n \in Nat, n > 0, s.got < 0 => s.got + n <= 0,
           d.mac.lo = d.mac.hi, Used(d) <= RxBytes, Way(d, s, selected),
           selected => Wanted(d, s.dst) \/ Used(d) + 1 < RxBytes
    PROVE  LET r == Moved(d, s, selected, other, n)
           IN  /\ r \in StreamType(N) /\ r.on /\ r.len = s.len /\ r.dst = s.dst /\ r.data = s.data
               /\ r.got = s.got + n /\ Way(d, r, selected) /\ (s.lost => r.lost)
  <1> DEFINE r == Moved(d, s, selected, other, n)
  <1>1. s.got \in Int /\ s.pass \in BOOLEAN /\ s.on
    BY DEF StreamType, Way
  <1>2. Used(d) \in Nat
    <2>1. d.table \in Seq(Entry(N))
      BY DEF DutType
    <2> QED BY <2>1, BytesNat DEF Used
  <1>3. CASE s.got >= 0 /\ selected
    <2>1. Taken(d, s, s.got)
      BY <1>3 DEF Way
    <2>2. s.pass
      BY <2>1 DEF Taken
    <2>3. r = Captured(d, s, n)
      BY <1>1, <1>3, <2>2 DEF Moved
    <2>4. PICK k \in Nat : k = s.got
      BY <1>1, <1>3
    <2>5. LET b == Captured(d, s, n)
          IN  /\ b \in StreamType(N) /\ b.len = s.len /\ b.dst = s.dst /\ b.data = s.data
              /\ Taken(d, b, k + n) /\ (s.lost => b.lost)
      BY <1>3, <2>1, <2>4, TakeStep
    <2> HIDE DEF r
    <2>6. /\ r \in StreamType(N) /\ r.len = s.len /\ r.dst = s.dst /\ r.data = s.data
          /\ Taken(d, r, k + n) /\ (s.lost => r.lost)
      BY <2>3, <2>5
    <2>7. r.on /\ r.got = k + n
      BY <2>6 DEF Taken
    <2>8. Way(d, r, selected)
      BY <1>3, <2>6, <2>7 DEF Way
    <2> QED BY <2>4, <2>6, <2>7, <2>8 DEF r
  <1>4. CASE ~(s.got >= 0 /\ selected)
    <2>1. Pristine(s)
      BY <1>4 DEF Way
    <2>2. PICK g \in Int, q \in BOOLEAN :
             g = s.got + n /\ q = IF g = 0 THEN selected ELSE FALSE
      <3>1. PICK g \in Int : g = s.got + n
        BY <1>1
      <3>2. (IF g = 0 THEN selected ELSE FALSE) \in BOOLEAN
        BY Zenon
      <3> QED BY <3>1, <3>2
    <2>3. r = [s EXCEPT !.got = g, !.pass = q]
      <3>1. ~s.pass
        BY <2>1 DEF Pristine
      <3>2. r = [s EXCEPT !.got = @ + n,
                     !.pass = IF s.got + n = 0 THEN selected /\ ~(other.on /\ other.pass) ELSE @]
        BY <1>1, <3>1 DEF Moved
      <3>3. (IF s.got + n = 0 THEN selected /\ ~(other.on /\ other.pass) ELSE s.pass) = q
        <4>1. CASE g = 0
          BY <2>2, <4>1
        <4>2. CASE g # 0
          <5>1. s.pass = FALSE
            BY <1>1, <3>1
          <5> QED BY <2>2, <4>2, <5>1
        <4> QED BY <4>1, <4>2
      <3> QED BY <2>2, <3>2, <3>3
    <2> HIDE DEF r
    <2>4. /\ r \in StreamType(N) /\ r.on = s.on /\ r.len = s.len /\ r.dst = s.dst /\ r.data = s.data
          /\ r.got = g /\ r.pass = q /\ r.hi = s.hi /\ r.lo = s.lo /\ r.ext = s.ext
          /\ r.lost = s.lost /\ r.bad = s.bad /\ r.stored = s.stored
      BY <2>2, <2>3 DEF StreamType
    <2>5. CASE g >= 0 /\ selected
      <3>1. g = 0 /\ q
        BY <1>1, <1>4, <2>2, <2>5
      <3>2. /\ r.on /\ r.got = 0 /\ r.pass /\ ~r.bad /\ r.hi /\ r.lo /\ ~r.ext /\ ~r.lost /\ r.stored = 0
        BY <1>1, <2>1, <2>4, <3>1 DEF Pristine
      <3>3. Taken(d, r, 0)
        <4>1. RxBytes - Used(d) >= 0 /\ Used(d) + 0 <= RxBytes
          BY <1>2 DEF RxBytes
        <4>2. r.hi = TRUE /\ r.lo = TRUE /\ r.ext = FALSE
          BY <2>4, <3>2 DEF StreamType
        <4>3. (0 > 0) = FALSE /\ (0 > 2) = FALSE /\ (0 > 1) = FALSE /\ ~(0 > RxBytes - Used(d))
          BY <1>2, <4>1 DEF RxBytes
        <4>4. /\ r.hi = (0 > 0 => Matches(d, r.dst)) /\ r.lo = (0 > 2 => Matches(d, r.dst))
              /\ r.ext = (0 > 1 /\ ~Wanted(d, r.dst))
          BY <4>2, <4>3
        <4>5. Used(d) + r.stored <= RxBytes
          BY <3>2, <4>1
        <4> QED BY <3>2, <4>3, <4>4, <4>5 DEF Taken
      <3>4. Way(d, r, selected)
        BY <2>5, <3>2, <3>3 DEF Way
      <3> QED BY <1>1, <2>1, <2>2, <2>4, <3>4 DEF r, Pristine
    <2>6. CASE ~(g >= 0 /\ selected)
      <3>1. ~q
        BY <2>2, <2>6
      <3>2. Pristine(r)
        BY <2>1, <2>4, <3>1 DEF Pristine
      <3>3. Way(d, r, selected)
        BY <1>1, <2>4, <2>6, <3>2 DEF Way
      <3> QED BY <1>1, <2>1, <2>2, <2>4, <3>3 DEF r, Pristine
    <2> QED BY <2>5, <2>6
  <1> QED BY <1>3, <1>4

\* What a whole packet leaves behind: an entry of the table if it is wanted and
\* fits, the packet-lost flag if it is wanted and does not, nothing otherwise.
LEMMA WayEnds ==
    ASSUME NEW N, NEW d \in DutType(N), NEW s \in StreamType(N), NEW selected \in BOOLEAN,
           Way(d, s, selected), s.got = s.len, s.len >= 2, Len(d.table) <= Depth
    PROVE  LET want == selected /\ Wanted(d, s.dst)
           IN  /\ Keep(s) /\ Len(d.table) # Depth /\ ~s.bad <=> want /\ Fits(d, s.len)
               /\ (Keep(s) /\ Len(d.table) = Depth) \/ s.lost <=> want /\ ~Fits(d, s.len)
               /\ want /\ Fits(d, s.len) =>
                     EntryOf(s) = [reason |-> ReasonFor(s.dst, Matches(d, s.dst)),
                                   pkt |-> [dst |-> s.dst, data |-> s.data, len |-> s.len]]
  <1>1. PICK k \in Nat, l \in Nat, u \in Nat :
           k = s.len /\ s.got = k /\ k >= 2 /\ l = Len(d.table) /\ l <= Depth /\ u = Used(d)
    <2>1. d.table \in Seq(Entry(N))
      BY DEF DutType
    <2> QED BY <2>1, BytesNat DEF Used, StreamType
  <1>2. CASE ~selected
    <2>1. Pristine(s)
      BY <1>2 DEF Way
    <2> QED BY <1>2, <2>1 DEF Pristine, Keep
  <1>3. CASE selected
    <2>1. Taken(d, s, k)
      <3>1. s.got >= 0
        BY <1>1
      <3> QED BY <1>1, <1>3, <3>1 DEF Way
    <2>2. s.pass /\ ~s.bad /\ s.hi = Matches(d, s.dst) /\ (k > 2 => s.lo = Matches(d, s.dst))
          /\ (~(k > 2) => s.lo) /\ s.ext = ~Wanted(d, s.dst)
      <3>1. k > 0 /\ k > 1
        BY <1>1
      <3> QED BY <2>1, <3>1 DEF Taken, Matches, Wanted
    <2>3. ~Wanted(d, s.dst) => ~s.lost
      BY <2>1 DEF Taken
    <2>4. Wanted(d, s.dst) /\ l = Depth => (s.lost <=> RxBytes - u = 0)
      <3>1. k > 0
        BY <1>1
      <3> QED BY <1>1, <2>1, <3>1 DEF Taken
    <2>5. Wanted(d, s.dst) /\ l # Depth => (s.lost <=> k > RxBytes - u) /\ (~s.lost => s.stored = k)
      BY <1>1, <2>1 DEF Taken
    <2>6. Fits(d, s.len) <=> l # Depth /\ ~(k > RxBytes - u)
      <3>1. Fits(d, s.len) <=> l < Depth /\ u + k <= RxBytes
        BY <1>1 DEF Fits
      <3>2. l <= 8 /\ (l < 8 <=> l # 8)
        <4>1. l <= 8
          BY <1>1 DEF Depth
        <4> QED BY <4>1
      <3>3. u + k <= RxBytes <=> ~(k > RxBytes - u)
        BY DEF RxBytes
      <3> QED BY <3>1, <3>2, <3>3 DEF Depth
    <2>7. CASE ~Wanted(d, s.dst)
      BY <2>2, <2>3, <2>7 DEF Keep
    <2>8. CASE Wanted(d, s.dst)
      <3>1. /\ Keep(s) <=> ~s.lost
            /\ l = Depth => ~Fits(d, s.len)
            /\ l # Depth => (s.lost <=> ~Fits(d, s.len))
        BY <2>2, <2>5, <2>6, <2>8 DEF Keep
      <3>2. ASSUME Fits(d, s.len)
            PROVE  EntryOf(s) = [reason |-> ReasonFor(s.dst, Matches(d, s.dst)),
                                 pkt |-> [dst |-> s.dst, data |-> s.data, len |-> s.len]]
        <4>1. s.stored = s.len
          BY <1>1, <2>5, <2>6, <2>8, <3>1, <3>2
        <4>2. (s.hi /\ s.lo) = Matches(d, s.dst)
          BY <2>2 DEF Matches
        <4> QED BY <4>1, <4>2 DEF EntryOf
      <3> QED BY <1>1, <1>3, <2>2, <2>8, <3>1, <3>2
    <2> QED BY <2>7, <2>8
  <1> QED BY <1>2, <1>3

-----------------------------------------------------------------------------
(* A packet from the pins, from SendToWire to its end. *)

\* The packet p, handed to the PHY model when the design was c, is on its way.
Receiving(N, c, p, d) ==
    /\ DutInv(N, d) /\ SameRegs(c, d) /\ d.table = c.table /\ d.sent = c.sent /\ d.tx = c.tx
    /\ d.wire.len = p.len /\ d.wire.dst = p.dst /\ d.wire.data = p.data /\ d.wire.got < p.len
    /\ Way(d, d.wire, ~d.loop)
    /\ d.sticky = c.sticky \cup (IF d.wire.lost THEN {4} ELSE {})

\* It has gone by, and left what the reference model says of it.
Received(N, c, p, d) ==
    LET want == ~c.loop /\ Wanted(c, p.dst)
    IN  /\ DutInv(N, d) /\ SameRegs(c, d) /\ d.sent = c.sent /\ d.tx = c.tx /\ d.wire = Off
        /\ d.table = IF want /\ Fits(c, p.len)
                     THEN Append(c.table, [reason |-> ReasonFor(p.dst, Matches(c, p.dst)), pkt |-> p])
                     ELSE c.table
        /\ d.sticky = c.sticky \cup (IF want /\ ~Fits(c, p.len) THEN {4} ELSE {})

\* The judgement of a packet depends on the table and two registers only.
LEMMA SameView ==
    ASSUME NEW c, NEW d, d.table = c.table, d.mac = c.mac, d.prom = c.prom
    PROVE  /\ \A dst : Matches(d, dst) = Matches(c, dst) /\ Wanted(d, dst) = Wanted(c, dst)
           /\ \A len : Fits(d, len) = Fits(c, len)
           /\ \A a, k : Taken(d, a, k) = Taken(c, a, k)
           /\ \A s, q : Way(d, s, q) = Way(c, s, q)
  <1>1. Used(d) = Used(c)
    BY DEF Used
  <1>2. \A dst : Matches(d, dst) = Matches(c, dst) /\ Wanted(d, dst) = Wanted(c, dst)
    BY DEF Matches, Wanted
  <1>3. \A len : Fits(d, len) = Fits(c, len)
    BY <1>1 DEF Fits
  <1>4. \A a, k : Taken(d, a, k) = Taken(c, a, k)
    BY <1>1, <1>2 DEF Taken
  <1>5. \A s, q : Way(d, s, q) = Way(c, s, q)
    BY <1>4 DEF Way
  <1> QED BY <1>2, <1>3, <1>4, <1>5

\* SendToWire begins it.
LEMMA ReceptionBegins ==
    ASSUME NEW N, "none" \in N, NEW d, DutInv(N, d), ~d.wire.on, NEW p \in Packet(N)
    PROVE  Receiving(N, d, p, SendToWire(d, p))
  <1> DEFINE s == Stream(p.dst, p.data, p.len, RxStart + WireLead)
             e == SendToWire(d, p)
  <1>1. p.dst \in N /\ p.data \in N /\ p.len \in Nat /\ d \in DutType(N)
    BY DEF Packet, DutInv
  <1>2. PICK w \in Nat \ {0} : w = RxStart + WireLead
    BY TimingAssumption DEF WireLead, Preamble, Fcs
  <1>3. /\ s \in StreamType(N)
        /\ s.on /\ s.got = 0 - w /\ s.len = p.len /\ s.dst = p.dst /\ s.data = p.data
        /\ ~s.pass /\ s.hi /\ s.lo /\ ~s.ext /\ ~s.lost /\ ~s.bad /\ s.stored = 0
    BY <1>1, <1>2, NewStream
  <1> HIDE DEF s
  <1>4. e = [d EXCEPT !.wire = s]
    BY DEF SendToWire, s
  <1> HIDE DEF e
  <1>5. /\ e \in DutType(N) /\ e.table = d.table /\ e.sent = d.sent /\ e.tx = d.tx
        /\ e.wire = s /\ e.sticky = d.sticky
    BY <1>1, <1>3, <1>4 DEF DutType
  <1>6. SameRegs(d, e)
    BY <1>1, <1>4 DEF DutType, SameRegs
  <1>7. Way(e, s, ~e.loop) /\ s.got < p.len
    <2>1. ~(s.got >= 0) /\ s.got < p.len
      BY <1>1, <1>2, <1>3
    <2>2. Pristine(s)
      BY <1>3 DEF Pristine
    <2> QED BY <1>3, <2>1, <2>2 DEF Way
  <1>8. e.sticky = d.sticky \cup (IF s.lost THEN {4} ELSE {})
    BY <1>3, <1>5
  <1>9. DutInv(N, e)
    BY WireInBounds DEF e
  <1> QED BY <1>3, <1>5, <1>6, <1>7, <1>8, <1>9 DEF Receiving, e

\* However the test bench divides the time up to the end of the packet, the
\* design leaves the filter and the buffer with the verdict on the whole packet.
THEOREM ReceptionRuns ==
    ASSUME NEW N, "none" \in N, NEW c, DutInv(N, c), ~c.tx.on, c.mac.lo = c.mac.hi,
           NEW p \in Packet(N), p.len >= 2,
           ~c.loop => Wanted(c, p.dst) \/ Used(c) + 1 < RxBytes,
           NEW d, Receiving(N, c, p, d),
           NEW n \in Nat, n > 0, \A x \in Horizon(d) : n <= x
    PROVE  Receiving(N, c, p, Advance(d, n)) \/ Received(N, c, p, Advance(d, n))
  <1> DEFINE s == d.wire
             w == Moved(d, d.wire, ~d.loop, d.tx, n)
             e == Advance(d, n)
  <1>1. /\ d \in DutType(N) /\ SameRegs(c, d) /\ d.table = c.table /\ d.sent = c.sent /\ d.tx = c.tx
        /\ s.len = p.len /\ s.dst = p.dst /\ s.data = p.data /\ s.got < p.len
        /\ Way(d, s, ~d.loop)
    BY DEF Receiving, DutInv
  <1>2. /\ d.mac = c.mac /\ d.prom = c.prom /\ d.loop = c.loop
    BY <1>1 DEF SameRegs
  <1>3. /\ s \in StreamType(N) /\ s.got \in Int /\ s.len \in Nat /\ d.loop \in BOOLEAN
        /\ (~d.loop) \in BOOLEAN /\ c \in DutType(N)
    BY <1>1 DEF DutType, StreamType, DutInv
  <1>4. DutOK(c)
    BY BoundsGiveDutOK
  <1>5. Used(d) = Used(c) /\ Used(d) <= RxBytes /\ Len(d.table) <= Depth
    BY <1>1, <1>4 DEF DutOK, Used
  <1>6. s.on
    BY <1>1 DEF Way
  <1>7. (s.got < 0 => s.got + n <= 0) /\ s.got + n <= s.len
    <2>1. ASSUME s.got < 0 PROVE s.got + n <= 0
      <3>1. 0 \in Points(s, WireLead, RxLag)
        BY <1>3, <2>1 DEF Points
      <3>2. 0 - s.got \in Horizon(d)
        BY <1>6, <3>1 DEF Horizon
      <3> QED BY <1>3, <3>2
    <2>2. s.got + n <= s.len
      <3>1. s.len \in Points(s, WireLead, RxLag)
        BY <1>1, <1>3 DEF Points
      <3>2. s.len - s.got \in Horizon(d)
        BY <1>6, <3>1 DEF Horizon
      <3> QED BY <1>3, <3>2
    <2> QED BY <2>1, <2>2
  <1>8. (~d.loop) => Wanted(d, s.dst) \/ Used(d) + 1 < RxBytes
    BY <1>1, <1>2, <1>5, SameView
  <1>9. /\ w \in StreamType(N) /\ w.on /\ w.len = s.len /\ w.dst = s.dst /\ w.data = s.data
        /\ w.got = s.got + n /\ Way(d, w, ~d.loop) /\ (s.lost => w.lost)
    <2>1. PICK q \in BOOLEAN : q = ~d.loop
      BY <1>3
    <2>2. ~d.tx.on /\ d.mac.lo = d.mac.hi
      BY <1>1, <1>2
    <2>3. Way(d, s, q) /\ (q => Wanted(d, s.dst) \/ Used(d) + 1 < RxBytes)
      BY <1>1, <1>8, <2>1
    <2>4. LET r == Moved(d, s, q, d.tx, n)
          IN  /\ r \in StreamType(N) /\ r.on /\ r.len = s.len /\ r.dst = s.dst /\ r.data = s.data
              /\ r.got = s.got + n /\ Way(d, r, q) /\ (s.lost => r.lost)
      BY <1>1, <1>3, <1>5, <1>7, <2>2, <2>3, StreamStep
    <2> QED BY <2>1, <2>4
  <1>10. d.sticky \cup Lost(s, w) = c.sticky \cup (IF w.lost THEN {4} ELSE {})
    <2>1. d.sticky = c.sticky \cup (IF s.lost THEN {4} ELSE {})
      BY DEF Receiving
    <2> HIDE DEF s, w
    <2>2. CASE s.lost
      BY <1>9, <2>1, <2>2 DEF Lost
    <2>3. CASE ~s.lost
      BY <2>1, <2>3 DEF Lost
    <2> QED BY <2>2, <2>3
  <1>11. /\ e \in DutType(N) /\ SameRegs(d, e) /\ e.tx = d.tx /\ e.sent = d.sent
         /\ e.wire = IF w.on /\ w.got = w.len THEN Off ELSE w
         /\ e.table = IF (w.on /\ w.got = w.len) /\ Keep(w) /\ Len(d.table) # Depth /\ ~w.bad
                      THEN Append(d.table, EntryOf(w)) ELSE d.table
         /\ e.sticky = d.sticky \cup Lost(d.wire, w)
               \cup (IF (w.on /\ w.got = w.len) /\ Keep(w) /\ Len(d.table) = Depth THEN {4} ELSE {})
    <2>1. ~d.tx.on
      BY <1>1
    <2> QED BY <1>1, <1>9, <2>1, WireFields
  <1> HIDE DEF w, e
  <1>12. SameRegs(c, e) /\ e.tx = c.tx /\ e.sent = c.sent /\ DutInv(N, e)
    <2>1. DutInv(N, e)
      BY AdvanceInBounds DEF Receiving, e
    <2> QED BY <1>1, <1>11, <2>1 DEF SameRegs
  <1>13. ASSUME w.got # w.len PROVE Receiving(N, c, p, e)
    <2>1. e.wire = w /\ e.table = d.table
      BY <1>11, <1>13
    <2>2. e.sticky = c.sticky \cup (IF e.wire.lost THEN {4} ELSE {})
      BY <1>10, <1>11, <1>13, <2>1
    <2>3. Way(e, e.wire, ~e.loop)
      <3>1. e.table = d.table /\ e.mac = d.mac /\ e.prom = d.prom /\ e.loop = d.loop
        BY <1>11, <2>1 DEF SameRegs
      <3> QED BY <1>9, <2>1, <3>1, SameView
    <2>4. e.wire.got < p.len
      BY <1>1, <1>3, <1>7, <1>9, <1>13, <2>1
    <2>5. e.table = c.table
      BY <1>1, <2>1
    <2>6. e.wire.len = p.len /\ e.wire.dst = p.dst /\ e.wire.data = p.data
      BY <1>1, <1>9, <2>1
    <2> QED BY <1>12, <2>2, <2>3, <2>4, <2>5, <2>6 DEF Receiving
  <1>14. ASSUME w.got = w.len PROVE Received(N, c, p, e)
    <2> DEFINE want == ~c.loop /\ Wanted(c, p.dst)
    <2>1. /\ Keep(w) /\ Len(d.table) # Depth /\ ~w.bad <=> (~d.loop /\ Wanted(d, w.dst)) /\ Fits(d, w.len)
          /\ (Keep(w) /\ Len(d.table) = Depth) \/ w.lost <=> (~d.loop /\ Wanted(d, w.dst)) /\ ~Fits(d, w.len)
          /\ (~d.loop /\ Wanted(d, w.dst)) /\ Fits(d, w.len) =>
                EntryOf(w) = [reason |-> ReasonFor(w.dst, Matches(d, w.dst)),
                              pkt |-> [dst |-> w.dst, data |-> w.data, len |-> w.len]]
      <3>1. w.len >= 2
        BY <1>1, <1>9
      <3>2. PICK q \in BOOLEAN : q = ~d.loop
        BY <1>3
      <3>3. Way(d, w, q)
        BY <1>9, <3>2
      <3>4. LET z == q /\ Wanted(d, w.dst)
            IN  /\ Keep(w) /\ Len(d.table) # Depth /\ ~w.bad <=> z /\ Fits(d, w.len)
                /\ (Keep(w) /\ Len(d.table) = Depth) \/ w.lost <=> z /\ ~Fits(d, w.len)
                /\ z /\ Fits(d, w.len) =>
                     EntryOf(w) = [reason |-> ReasonFor(w.dst, Matches(d, w.dst)),
                                   pkt |-> [dst |-> w.dst, data |-> w.data, len |-> w.len]]
        BY <1>1, <1>5, <1>9, <1>14, <3>1, <3>3, WayEnds
      <3> QED BY <3>2, <3>4
    <2>2. /\ (~d.loop /\ Wanted(d, w.dst)) = want /\ Fits(d, w.len) = Fits(c, p.len)
          /\ Matches(d, w.dst) = Matches(c, p.dst) /\ [dst |-> w.dst, data |-> w.data, len |-> w.len] = p
      <3>1. [dst |-> w.dst, data |-> w.data, len |-> w.len] = p
        BY <1>1, <1>9 DEF Packet
      <3> QED BY <1>1, <1>2, <1>9, <3>1, SameView
    <2> HIDE DEF want
    <2>3. e.table = IF want /\ Fits(c, p.len)
                    THEN Append(c.table, [reason |-> ReasonFor(p.dst, Matches(c, p.dst)), pkt |-> p])
                    ELSE c.table
      BY <1>1, <1>9, <1>11, <1>14, <2>1, <2>2
    <2>4. e.sticky = c.sticky \cup (IF want /\ ~Fits(c, p.len) THEN {4} ELSE {})
      <3>1. e.sticky = c.sticky \cup (IF w.lost THEN {4} ELSE {})
                          \cup (IF Keep(w) /\ Len(d.table) = Depth THEN {4} ELSE {})
        BY <1>9, <1>10, <1>11, <1>14
      <3> QED BY <2>1, <2>2, <3>1
    <2>5. e.wire = Off
      BY <1>9, <1>11, <1>14
    <2> QED BY <1>12, <2>3, <2>4, <2>5 DEF Received, want
  <1> QED BY <1>13, <1>14 DEF e

-----------------------------------------------------------------------------
(* A packet from the transmit buffer, from the write to TX_CTRL to its end. *)

\* What the transmit buffer holds, as a packet of len bytes.
Kicked(d, len) == [dst |-> d.buf.dst, data |-> d.buf.data, len |-> len]

\* A packet of len bytes, kicked off when the design was c, is on its way.
Sending(N, c, len, d) ==
    /\ DutInv(N, d) /\ SameRegs(c, d) /\ d.table = c.table /\ d.sent = c.sent /\ d.wire = c.wire
    /\ d.tx.len = len /\ d.tx.dst = c.buf.dst /\ d.tx.data = c.buf.data /\ d.tx.got < len
    /\ Way(d, d.tx, d.loop)
    /\ d.sticky = c.sticky \cup (IF d.tx.got >= len - LoopLag THEN {5} ELSE {})
                           \cup (IF d.tx.lost THEN {4} ELSE {})

\* It is out, and has left what the reference model says of it.
Sent(N, c, len, d) ==
    LET p    == Kicked(c, len)
        want == c.loop /\ Wanted(c, p.dst)
    IN  /\ DutInv(N, d) /\ SameRegs(c, d) /\ d.wire = c.wire /\ d.tx = Off
        /\ d.sent = Logged(c.sent, p)
        /\ d.table = IF want /\ Fits(c, len)
                     THEN Append(c.table, [reason |-> ReasonFor(p.dst, Matches(c, p.dst)), pkt |-> p])
                     ELSE c.table
        /\ d.sticky = c.sticky \cup {5} \cup (IF want /\ ~Fits(c, len) THEN {4} ELSE {})

\* WriteTxCtrl begins it.
LEMMA TransmissionBegins ==
    ASSUME NEW N, "none" \in N, NEW d, DutInv(N, d), ~d.tx.on, NEW len \in Nat, len > 0
    PROVE  Sending(N, d, len, WriteTxCtrl(d, len))
  <1> DEFINE s == Stream(d.buf.dst, d.buf.data, len, TxHead + LoopLag)
             e == WriteTxCtrl(d, len)
  <1>1. d \in DutType(N) /\ d.buf.dst \in N /\ d.buf.data \in N
    BY DEF DutType, DutInv
  <1>2. PICK w \in Nat \ {0} : w = TxHead + LoopLag /\ 0 - w < len - LoopLag
    BY TimingAssumption
  <1>3. /\ s \in StreamType(N)
        /\ s.on /\ s.got = 0 - w /\ s.len = len /\ s.dst = d.buf.dst /\ s.data = d.buf.data
        /\ ~s.pass /\ s.hi /\ s.lo /\ ~s.ext /\ ~s.lost /\ ~s.bad /\ s.stored = 0
    BY <1>1, <1>2, NewStream
  <1> HIDE DEF s
  <1>4. e = [d EXCEPT !.tx = s]
    BY DEF WriteTxCtrl, s
  <1> HIDE DEF e
  <1>5. /\ e \in DutType(N) /\ e.table = d.table /\ e.sent = d.sent /\ e.wire = d.wire
        /\ e.tx = s /\ e.sticky = d.sticky
    BY <1>1, <1>3, <1>4 DEF DutType
  <1>6. SameRegs(d, e)
    BY <1>1, <1>4 DEF DutType, SameRegs
  <1>7. Way(e, s, e.loop) /\ s.got < len /\ ~(s.got >= len - LoopLag)
    <2>1. ~(s.got >= 0) /\ s.got < len /\ ~(s.got >= len - LoopLag)
      BY <1>2, <1>3, TimingAssumption
    <2>2. Pristine(s)
      BY <1>3 DEF Pristine
    <2> QED BY <1>3, <2>1, <2>2 DEF Way
  <1>8. e.sticky = d.sticky \cup (IF s.got >= len - LoopLag THEN {5} ELSE {})
                            \cup (IF s.lost THEN {4} ELSE {})
    BY <1>3, <1>5, <1>7
  <1>9. DutInv(N, e)
    BY KickInBounds DEF e
  <1> QED BY <1>3, <1>5, <1>6, <1>7, <1>8, <1>9 DEF Sending, e

\* However the time is divided, a packet that is sent sets tx_done when the last
\* byte leaves the FSM, is logged when it ends, and in loopback mode leaves the
\* filter and the buffer with the verdict on the whole packet.
THEOREM TransmissionRuns ==
    ASSUME NEW N, "none" \in N, NEW c, DutInv(N, c), ~c.wire.on, c.mac.lo = c.mac.hi,
           NEW len \in Nat, len >= 2,
           c.loop => Wanted(c, c.buf.dst) \/ Used(c) + 1 < RxBytes,
           NEW d, Sending(N, c, len, d),
           NEW n \in Nat, n > 0, \A x \in Horizon(d) : n <= x
    PROVE  Sending(N, c, len, Advance(d, n)) \/ Sent(N, c, len, Advance(d, n))
  <1> DEFINE s == d.tx
             t == Moved(d, d.tx, d.loop, d.wire, n)
             e == Advance(d, n)
             p == Kicked(c, len)
  <1>1. /\ d \in DutType(N) /\ SameRegs(c, d) /\ d.table = c.table /\ d.sent = c.sent /\ d.wire = c.wire
        /\ s.len = len /\ s.dst = c.buf.dst /\ s.data = c.buf.data /\ s.got < len
        /\ Way(d, s, d.loop)
    BY DEF Sending, DutInv
  <1>2. /\ d.mac = c.mac /\ d.prom = c.prom /\ d.loop = c.loop
    BY <1>1 DEF SameRegs
  <1>3. /\ s \in StreamType(N) /\ s.got \in Int /\ s.len \in Nat /\ d.loop \in BOOLEAN
        /\ c \in DutType(N)
    BY <1>1 DEF DutType, StreamType, DutInv
  <1>4. DutOK(c)
    BY BoundsGiveDutOK
  <1>5. Used(d) = Used(c) /\ Used(d) <= RxBytes /\ Len(d.table) <= Depth
    BY <1>1, <1>4 DEF DutOK, Used
  <1>6. s.on
    BY <1>1 DEF Way
  <1>7. /\ s.got < 0 => s.got + n <= 0
        /\ s.got < len - LoopLag => s.got + n <= len - LoopLag
        /\ s.got + n <= s.len
    <2>1. ASSUME s.got < 0 PROVE s.got + n <= 0
      <3>1. 0 \in Points(s, 0, LoopLag)
        BY <1>3, <2>1 DEF Points
      <3>2. 0 - s.got \in Horizon(d)
        BY <1>6, <3>1 DEF Horizon
      <3> QED BY <1>3, <3>2
    <2>2. s.got + n <= s.len
      <3>1. s.len \in Points(s, 0, LoopLag)
        BY <1>1, <1>3 DEF Points
      <3>2. s.len - s.got \in Horizon(d)
        BY <1>6, <3>1 DEF Horizon
      <3> QED BY <1>3, <3>2
    <2>3. ASSUME s.got < len - LoopLag PROVE s.got + n <= len - LoopLag
      <3>1. s.len - LoopLag \in Points(s, 0, LoopLag)
        BY <1>1, <1>3, <2>3, TimingAssumption DEF Points
      <3>2. (s.len - LoopLag) - s.got \in Horizon(d)
        BY <1>6, <3>1 DEF Horizon
      <3>3. PICK l \in Nat : l = LoopLag
        BY TimingAssumption
      <3> QED BY <1>1, <1>3, <3>2, <3>3
    <2> QED BY <2>1, <2>2, <2>3
  <1>8. d.loop => Wanted(d, s.dst) \/ Used(d) + 1 < RxBytes
    BY <1>1, <1>2, <1>5, SameView
  <1>9. /\ t \in StreamType(N) /\ t.on /\ t.len = s.len /\ t.dst = s.dst /\ t.data = s.data
        /\ t.got = s.got + n /\ Way(d, t, d.loop) /\ (s.lost => t.lost)
    <2>1. PICK q \in BOOLEAN : q = d.loop
      BY <1>3
    <2>2. ~d.wire.on /\ d.mac.lo = d.mac.hi
      BY <1>1, <1>2
    <2>3. Way(d, s, q) /\ (q => Wanted(d, s.dst) \/ Used(d) + 1 < RxBytes)
      BY <1>1, <1>8, <2>1
    <2>4. LET r == Moved(d, s, q, d.wire, n)
          IN  /\ r \in StreamType(N) /\ r.on /\ r.len = s.len /\ r.dst = s.dst /\ r.data = s.data
              /\ r.got = s.got + n /\ Way(d, r, q) /\ (s.lost => r.lost)
      BY <1>1, <1>3, <1>5, <1>7, <2>2, <2>3, StreamStep
    <2> QED BY <2>1, <2>4
  <1> DEFINE done == IF t.on /\ t.got = t.len - LoopLag THEN {5} ELSE {}
  <1>10. d.sticky \cup done \cup Lost(s, t)
            = c.sticky \cup (IF t.got >= len - LoopLag THEN {5} ELSE {})
                       \cup (IF t.lost THEN {4} ELSE {})
    <2>1. d.sticky = c.sticky \cup (IF s.got >= len - LoopLag THEN {5} ELSE {})
                              \cup (IF s.lost THEN {4} ELSE {})
      BY DEF Sending
    <2> HIDE DEF t
    <2>2. PICK x, y, z, w : /\ x = (IF s.got >= len - LoopLag THEN {5} ELSE {}) /\ y = done
                            /\ z = (IF t.got >= len - LoopLag THEN {5} ELSE {})
                            /\ w = (IF t.lost THEN {4} ELSE {})
      OBVIOUS
    <2>3. x \cup y = z
      <3>1. PICK l \in Nat, g \in Int, k \in Nat : l = LoopLag /\ g = s.got /\ k = len
        BY <1>3, TimingAssumption
      <3>2. /\ x = (IF g >= k - l THEN {5} ELSE {}) /\ y = (IF g + n = k - l THEN {5} ELSE {})
            /\ z = (IF g + n >= k - l THEN {5} ELSE {}) /\ (g < k - l => g + n <= k - l)
        BY <1>1, <1>7, <1>9, <2>2, <3>1
      <3>3. CASE g >= k - l
        <4>1. g + n >= k - l
          BY <3>3
        <4> QED BY <3>2, <3>3, <4>1
      <3>4. CASE ~(g >= k - l) /\ g + n = k - l
        <4>1. g + n >= k - l
          BY <3>4
        <4> QED BY <3>2, <3>4, <4>1
      <3>5. CASE ~(g >= k - l) /\ g + n # k - l
        <4>1. ~(g + n >= k - l)
          BY <3>2, <3>5
        <4> QED BY <3>2, <3>5, <4>1
      <3> QED BY <3>3, <3>4, <3>5
    <2>4. (IF s.lost THEN {4} ELSE {}) \cup Lost(s, t) = w
      BY <1>9, <2>2 DEF Lost
    <2>5. d.sticky = c.sticky \cup x \cup (IF s.lost THEN {4} ELSE {})
      BY <2>1, <2>2
    <2>6. d.sticky \cup y \cup Lost(s, t) = c.sticky \cup z \cup w
      BY <2>3, <2>4, <2>5
    <2> QED BY <2>2, <2>6
  <1>11. /\ e \in DutType(N) /\ SameRegs(d, e) /\ e.wire = d.wire
         /\ e.tx = IF t.on /\ t.got = t.len THEN Off ELSE t
         /\ e.sent = IF t.on /\ t.got = t.len
                     THEN Logged(d.sent, [dst |-> t.dst, data |-> t.data, len |-> t.len]) ELSE d.sent
         /\ e.table = IF (t.on /\ t.got = t.len) /\ Keep(t) /\ Len(d.table) # Depth /\ ~t.bad
                      THEN Append(d.table, EntryOf(t)) ELSE d.table
         /\ e.sticky = d.sticky \cup done \cup Lost(d.tx, t)
               \cup (IF (t.on /\ t.got = t.len) /\ Keep(t) /\ Len(d.table) = Depth THEN {4} ELSE {})
    <2>1. ~d.wire.on
      BY <1>1
    <2> QED BY <1>1, <1>9, <2>1, TxFields
  <1> HIDE DEF t, e, done
  <1>12. SameRegs(c, e) /\ e.wire = c.wire /\ DutInv(N, e)
    <2>1. DutInv(N, e)
      BY AdvanceInBounds DEF Sending, e
    <2> QED BY <1>1, <1>11, <2>1 DEF SameRegs
  <1>13. ASSUME t.got # t.len PROVE Sending(N, c, len, e)
    <2>1. e.tx = t /\ e.table = d.table /\ e.sent = c.sent
      BY <1>1, <1>11, <1>13
    <2>2. e.sticky = c.sticky \cup (IF e.tx.got >= len - LoopLag THEN {5} ELSE {})
                              \cup (IF e.tx.lost THEN {4} ELSE {})
      BY <1>10, <1>11, <1>13, <2>1
    <2>3. Way(e, e.tx, e.loop)
      <3>1. e.table = d.table /\ e.mac = d.mac /\ e.prom = d.prom /\ e.loop = d.loop
        BY <1>11, <2>1 DEF SameRegs
      <3> QED BY <1>9, <2>1, <3>1, SameView
    <2>4. e.tx.got < len
      BY <1>1, <1>3, <1>7, <1>9, <1>13, <2>1
    <2>5. e.table = c.table
      BY <1>1, <2>1
    <2>6. e.tx.len = len /\ e.tx.dst = c.buf.dst /\ e.tx.data = c.buf.data
      BY <1>1, <1>9, <2>1
    <2> QED BY <1>12, <2>1, <2>2, <2>3, <2>4, <2>5, <2>6 DEF Sending
  <1>14. ASSUME t.got = t.len PROVE Sent(N, c, len, e)
    <2> DEFINE want == c.loop /\ Wanted(c, p.dst)
    <2>1. /\ Keep(t) /\ Len(d.table) # Depth /\ ~t.bad <=> (d.loop /\ Wanted(d, t.dst)) /\ Fits(d, t.len)
          /\ (Keep(t) /\ Len(d.table) = Depth) \/ t.lost <=> (d.loop /\ Wanted(d, t.dst)) /\ ~Fits(d, t.len)
          /\ (d.loop /\ Wanted(d, t.dst)) /\ Fits(d, t.len) =>
                EntryOf(t) = [reason |-> ReasonFor(t.dst, Matches(d, t.dst)),
                              pkt |-> [dst |-> t.dst, data |-> t.data, len |-> t.len]]
      <3>1. t.len >= 2
        BY <1>1, <1>9
      <3> QED BY <1>1, <1>3, <1>5, <1>9, <1>14, <3>1, WayEnds
    <2>2. /\ (d.loop /\ Wanted(d, t.dst)) = want /\ Fits(d, t.len) = Fits(c, len)
          /\ Matches(d, t.dst) = Matches(c, p.dst) /\ [dst |-> t.dst, data |-> t.data, len |-> t.len] = p
          /\ t.dst = p.dst
      <3>1. [dst |-> t.dst, data |-> t.data, len |-> t.len] = p /\ t.dst = p.dst
        BY <1>1, <1>9 DEF Kicked
      <3> QED BY <1>1, <1>2, <1>9, <3>1, SameView
    <2> HIDE DEF want, p
    <2>3. e.table = IF want /\ Fits(c, len)
                    THEN Append(c.table, [reason |-> ReasonFor(p.dst, Matches(c, p.dst)), pkt |-> p])
                    ELSE c.table
      BY <1>1, <1>9, <1>11, <1>14, <2>1, <2>2
    <2>4. e.sticky = c.sticky \cup {5} \cup (IF want /\ ~Fits(c, len) THEN {4} ELSE {})
      <3>1. e.sticky = c.sticky \cup (IF t.got >= len - LoopLag THEN {5} ELSE {})
                          \cup (IF t.lost THEN {4} ELSE {})
                          \cup (IF Keep(t) /\ Len(d.table) = Depth THEN {4} ELSE {})
        BY <1>9, <1>10, <1>11, <1>14
      <3>2. t.got >= len - LoopLag
        BY <1>1, <1>9, <1>14, TimingAssumption
      <3> QED BY <2>1, <2>2, <3>1, <3>2
    <2>5. e.tx = Off /\ e.sent = Logged(c.sent, p)
      BY <1>1, <1>9, <1>11, <1>14, <2>2
    <2> QED BY <1>12, <2>3, <2>4, <2>5 DEF Sent, want, p
  <1> QED BY <1>13, <1>14 DEF e

-----------------------------------------------------------------------------
(* The reference model beside the design. *)

\* The sticky flags of the model.
Flags(m) ==
    (IF m.manual_irq THEN {6} ELSE {}) \cup (IF m.tx_done_irq THEN {5} ELSE {}) \cup
    (IF m.packet_lost THEN {4} ELSE {})

\* The registers and lists of both, side by side.
SameState(m, d) ==
    /\ m.rx_packets = d.table /\ d.sticky = Flags(m) /\ m.intr_mask = d.mask
    /\ m.promiscuous = d.prom /\ m.loopback = d.loop
    /\ d.mac = [lo |-> m.mac_address, hi |-> m.mac_address]
    /\ m.tx_packet_in_progress = None /\ m.rx_packet_in_progress = None
    /\ m.tx_log = d.sent

\* intr_state_get computes from its list of packets what the design computes from
\* its table: the two spell the threshold of rx_buffer_almost_full differently.
LEMMA SameLevels ==
    ASSUME NEW N, NEW m, NEW d \in DutType(N), m.rx_packets = d.table
    PROVE  intr_state_get(m) = Flags(m) \cup Levels(d)
  <1>1. PICK n \in Nat, b \in Nat :
           n = Len(d.table) /\ b = BytesOf(d.table) /\ n = Len(m.rx_packets) /\ b = BytesOf(m.rx_packets)
    <2>1. d.table \in Seq(Entry(N))
      BY DEF DutType
    <2> QED BY <2>1, BytesNat
  <1>2. b > 8191 - 1524 <=> 8192 - b <= 1524
    OBVIOUS
  <1> DEFINE a0 == IF n > 0 THEN {0} ELSE {}
             a1 == IF n >= 6 THEN {1} ELSE {}
             a2 == IF n = 8 THEN {2} ELSE {}
             a3 == IF n > 0 /\ b > 8191 - 1524 THEN {3} ELSE {}
  <1>4. Levels(d) = a0 \cup a1 \cup a2 \cup a3
    <2>1. a3 = IF n > 0 /\ RxBytes - b <= 1524 THEN {3} ELSE {}
      BY <1>2 DEF RxBytes
    <2>2. a2 = IF n = Depth THEN {2} ELSE {}
      BY DEF Depth
    <2> HIDE DEF a2, a3
    <2> QED BY <1>1, <2>1, <2>2 DEF Levels, Used
  <1>5. intr_state_get(m) = Flags(m) \cup a3 \cup a2 \cup a1 \cup a0
    BY <1>1 DEF intr_state_get, Flags
  <1> HIDE DEF a0, a1, a2, a3
  <1> QED BY <1>4, <1>5

\* Being in sync is having the same state.
LEMMA InSyncState ==
    ASSUME NEW N, NEW m \in ModelType(N), NEW d \in DutType(N)
    PROVE  InSync(m, d) <=> SameState(m, d)
  <1>1. mode_get(m) = <<d.prom, d.loop>> <=> m.promiscuous = d.prom /\ m.loopback = d.loop
    BY DEF mode_get
  <1>2. ASSUME m.rx_packets = d.table
        PROVE  intr_state_get(m) = INTR_STATE(d) <=> d.sticky = Flags(m)
    <2>1. intr_state_get(m) = Flags(m) \cup Levels(d)
      BY <1>2, SameLevels
    <2>2. \A x \in Levels(d) : x \notin {4, 5, 6}
      BY DEF Levels
    <2>3. \A x \in Flags(m) : x \in {4, 5, 6}
      BY DEF Flags
    <2>4. \A x \in d.sticky : x \in {4, 5, 6}
      <3>1. d.sticky \subseteq 4 .. 6
        BY DEF DutType
      <3>2. \A x \in 4 .. 6 : x \in {4, 5, 6}
        OBVIOUS
      <3> QED BY <3>1, <3>2
    <2>5. Flags(m) \cup Levels(d) = d.sticky \cup Levels(d) <=> d.sticky = Flags(m)
      BY <2>2, <2>3, <2>4, Zenon
    <2> QED BY <2>1, <2>5 DEF INTR_STATE
  <1> QED BY <1>1, <1>2 DEF InSync, SameState

\* Model and design at rest.
Rest(N, m, d) == DutInv(N, d) /\ Idle(d) /\ m \in ModelType(N) /\ InSync(m, d)

\* At rest every register that the mirror reads and compares has the same value
\* on both sides, and so has the interrupt line: no comparison can fail.
THEOREM ReadsAgree ==
    ASSUME NEW N, NEW m, NEW d, Rest(N, m, d)
    PROVE  /\ intr_state_get(m) = INTR_STATE(d) /\ status_get(m) = STATUS(d)
           /\ irq_pending(m) = ethernet_irq_o(d) /\ m.intr_mask = d.mask
           /\ rx_packet_pending(m) = (STATUS(d).n > 0)
           /\ \A i \in 0 .. Len(m.rx_packets) - 1 : ReadTable(d, i) = m.rx_packets[i + 1]
  <1>1. d \in DutType(N) /\ m \in ModelType(N) /\ ~d.tx.on /\ InSync(m, d) /\ m.rx_packets = d.table
        /\ m.tx_packet_in_progress = None
    BY DEF Rest, DutInv, Idle, InSync
  <1>2. intr_state_get(m) = INTR_STATE(d) /\ m.intr_mask = d.mask
    BY <1>1 DEF InSync
  <1>3. d.table \in Seq(Entry(N))
    BY <1>1 DEF DutType
  <1>4. status_get(m) = STATUS(d)
    <2>1. intr_state_get(m) \cap 0 .. 3 = Levels(d)
      <3>1. intr_state_get(m) = Flags(m) \cup Levels(d)
        BY <1>1, SameLevels
      <3>2. \A x \in Levels(d) : x \in 0 .. 3
        BY DEF Levels
      <3>3. \A x \in Flags(m) : x \notin 0 .. 3
        BY DEF Flags
      <3> QED BY <3>1, <3>2, <3>3, Zenon
    <2>2. ~tx_busy(m) /\ ~tx_status(d)
      BY <1>1 DEF tx_busy, tx_status
    <2> QED BY <1>1, <2>1, <2>2 DEF status_get, STATUS
  <1>5. irq_pending(m) = ethernet_irq_o(d)
    BY <1>2 DEF irq_pending, ethernet_irq_o
  <1>6. rx_packet_pending(m) = (STATUS(d).n > 0)
    <2>1. STATUS(d).n = Len(d.table)
      BY DEF STATUS
    <2>2. d.table # <<>> <=> Len(d.table) > 0
      BY <1>3, EmptySeq
    <2> QED BY <1>1, <2>1, <2>2 DEF rx_packet_pending
  <1>7. ASSUME NEW i \in 0 .. Len(m.rx_packets) - 1 PROVE ReadTable(d, i) = m.rx_packets[i + 1]
    <2>1. Len(d.table) \in Nat /\ i < Len(d.table)
      BY <1>1, <1>3
    <2> QED BY <1>1, <2>1 DEF ReadTable
  <1> QED BY <1>2, <1>4, <1>5, <1>6, <1>7

\* Every call that writes a register, pops a packet or fills the transmit buffer
\* does to the design what the mirror's call does to the model.
THEOREM RegistersMirrored ==
    ASSUME NEW N, NEW m, NEW d, Rest(N, m, d)
    PROVE  /\ \A bits : Rest(N, intr_mask_set(m, bits), WriteIntrMask(d, bits))
           /\ Rest(N, test_intr(m), WriteIntrTest(d))
           /\ Rest(N, clear_test_intr(m), WriteIntrState(d, {6}))
           /\ Rest(N, clear_tx_done_flag(m), WriteIntrState(d, {5}))
           /\ Rest(N, clear_packet_lost_flag(m), WriteIntrState(d, {4}))
           /\ \A mode \in BOOLEAN \X BOOLEAN : Rest(N, mode_set(m, mode), WriteCtrl(d, mode))
           /\ \A a \in N : Rest(N, mac_address_set(m, a), WriteMacHi(WriteMacLo(d, a), a))
           /\ Rest(N, rx_pop_packet(m), WriteRxPop(d))
           /\ \A w \in {0, 1}, v \in N : Rest(N, tx_buffer_write64(m, w, v), WriteTxWord(d, w, v))
  <1>1. /\ DutInv(N, d) /\ d \in DutType(N) /\ ~d.tx.on /\ ~d.wire.on /\ m \in ModelType(N)
        /\ InSync(m, d)
    BY DEF Rest, Idle, DutInv
  <1>2. SameState(m, d)
    BY <1>1, InSyncState
  <1>3. /\ d.sticky \in SUBSET (4 .. 6) /\ d.table \in Seq(Entry(N))
    BY <1>1 DEF DutType
  <1>4. ASSUME NEW m2 \in ModelType(N), NEW e, DutInv(N, e), e.tx = d.tx, e.wire = d.wire, SameState(m2, e)
        PROVE  Rest(N, m2, e)
    <2>1. e \in DutType(N)
      BY <1>4 DEF DutInv
    <2>2. InSync(m2, e)
      BY <1>4, <2>1, InSyncState
    <2> QED BY <1>1, <1>4, <2>2 DEF Rest, Idle
  \* One call that changes neither table nor streams.
  <1>5. ASSUME NEW m2 \in ModelType(N), NEW e \in DutType(N), e.table = d.table, e.tx = d.tx,
               e.wire = d.wire, SameState(m2, e)
        PROVE  Rest(N, m2, e)
    BY <1>1, <1>4, <1>5, RegistersOnly
  <1>6. ASSUME NEW bits PROVE Rest(N, intr_mask_set(m, bits), WriteIntrMask(d, bits))
    <2>1. PICK x \in SUBSET (0 .. 6) : x = bits \cap 0 .. 6
      OBVIOUS
    <2>2. PICK m2, e : m2 = [m EXCEPT !.intr_mask = x] /\ e = [d EXCEPT !.mask = x]
      OBVIOUS
    <2>3. /\ m2 \in ModelType(N) /\ e \in DutType(N) /\ e.table = d.table /\ e.tx = d.tx /\ e.wire = d.wire
      BY <1>1, <2>2 DEF ModelType, DutType
    <2>4. SameState(m2, e)
      BY <1>1, <1>2, <2>2 DEF ModelType, DutType, SameState, Flags
    <2> QED BY <1>5, <2>1, <2>2, <2>3, <2>4 DEF intr_mask_set, WriteIntrMask
  \* One sticky flag.
  <1>7. Rest(N, test_intr(m), WriteIntrTest(d))
    <2>0. d.sticky \cup {6} \in SUBSET (4 .. 6)
      BY <1>3
    <2>1. PICK x \in SUBSET (4 .. 6) : x = d.sticky \cup {6}
      BY <2>0
    <2>2. PICK m2, e : m2 = [m EXCEPT !.manual_irq = TRUE] /\ e = [d EXCEPT !.sticky = x]
      OBVIOUS
    <2>3. /\ m2 \in ModelType(N) /\ e \in DutType(N) /\ e.table = d.table /\ e.tx = d.tx /\ e.wire = d.wire
          /\ e.sticky = x
      BY <1>1, <2>2 DEF ModelType, DutType
    <2>4. x = Flags(m2)
      <3>1. m2.manual_irq /\ m2.tx_done_irq = m.tx_done_irq /\ m2.packet_lost = m.packet_lost
        BY <1>1, <2>2 DEF ModelType
      <3>2. d.sticky = Flags(m)
        BY <1>2 DEF SameState
      <3> QED BY <2>1, <3>1, <3>2 DEF Flags
    <2>5. SameState(m2, e)
      BY <1>1, <1>2, <2>2, <2>3, <2>4 DEF ModelType, DutType, SameState
    <2> QED BY <1>5, <2>1, <2>2, <2>3, <2>5 DEF test_intr, WriteIntrTest
  <1>8. ASSUME NEW m2 \in ModelType(N), NEW i \in {4, 5, 6},
               m2.rx_packets = m.rx_packets, m2.intr_mask = m.intr_mask,
               m2.promiscuous = m.promiscuous, m2.loopback = m.loopback,
               m2.mac_address = m.mac_address, m2.tx_log = m.tx_log,
               m2.tx_packet_in_progress = m.tx_packet_in_progress,
               m2.rx_packet_in_progress = m.rx_packet_in_progress,
               Flags(m2) = Flags(m) \ {i}
        PROVE  Rest(N, m2, WriteIntrState(d, {i}))
    <2>1. PICK x \in SUBSET (4 .. 6) : x = d.sticky \ {i}
      BY <1>3
    <2>2. PICK e : e = [d EXCEPT !.sticky = x]
      OBVIOUS
    <2>3. /\ e \in DutType(N) /\ e.table = d.table /\ e.tx = d.tx /\ e.wire = d.wire /\ e.sticky = x
      BY <1>1, <2>2 DEF DutType
    <2>4. x = Flags(m2)
      BY <1>2, <1>8, <2>1 DEF SameState
    <2>5. e.mask = d.mask /\ e.prom = d.prom /\ e.loop = d.loop /\ e.mac = d.mac /\ e.sent = d.sent
      BY <1>1, <2>2 DEF DutType
    <2>6. SameState(m2, e)
      BY <1>2, <1>8, <2>3, <2>4, <2>5 DEF SameState
    <2> QED BY <1>5, <2>1, <2>2, <2>3, <2>6 DEF WriteIntrState
  <1>9. Rest(N, clear_test_intr(m), WriteIntrState(d, {6}))
    <2>1. PICK m2 : m2 = [m EXCEPT !.manual_irq = FALSE]
      OBVIOUS
    <2>2. /\ m2 \in ModelType(N) /\ m2.rx_packets = m.rx_packets /\ m2.intr_mask = m.intr_mask
          /\ m2.promiscuous = m.promiscuous /\ m2.loopback = m.loopback
          /\ m2.mac_address = m.mac_address /\ m2.tx_log = m.tx_log
          /\ m2.tx_packet_in_progress = m.tx_packet_in_progress
          /\ m2.rx_packet_in_progress = m.rx_packet_in_progress
          /\ ~m2.manual_irq /\ m2.tx_done_irq = m.tx_done_irq /\ m2.packet_lost = m.packet_lost
      BY <1>1, <2>1 DEF ModelType
    <2>3. Flags(m2) = Flags(m) \ {6}
      BY <2>2 DEF Flags
    <2> QED BY <1>8, <2>1, <2>2, <2>3 DEF clear_test_intr
  <1>10. Rest(N, clear_tx_done_flag(m), WriteIntrState(d, {5}))
    <2>1. PICK m2 : m2 = [m EXCEPT !.tx_done_irq = FALSE]
      OBVIOUS
    <2>2. /\ m2 \in ModelType(N) /\ m2.rx_packets = m.rx_packets /\ m2.intr_mask = m.intr_mask
          /\ m2.promiscuous = m.promiscuous /\ m2.loopback = m.loopback
          /\ m2.mac_address = m.mac_address /\ m2.tx_log = m.tx_log
          /\ m2.tx_packet_in_progress = m.tx_packet_in_progress
          /\ m2.rx_packet_in_progress = m.rx_packet_in_progress
          /\ ~m2.tx_done_irq /\ m2.manual_irq = m.manual_irq /\ m2.packet_lost = m.packet_lost
      BY <1>1, <2>1 DEF ModelType
    <2>3. Flags(m2) = Flags(m) \ {5}
      BY <2>2 DEF Flags
    <2> QED BY <1>8, <2>1, <2>2, <2>3 DEF clear_tx_done_flag
  <1>11. Rest(N, clear_packet_lost_flag(m), WriteIntrState(d, {4}))
    <2>1. PICK m2 : m2 = [m EXCEPT !.packet_lost = FALSE]
      OBVIOUS
    <2>2. /\ m2 \in ModelType(N) /\ m2.rx_packets = m.rx_packets /\ m2.intr_mask = m.intr_mask
          /\ m2.promiscuous = m.promiscuous /\ m2.loopback = m.loopback
          /\ m2.mac_address = m.mac_address /\ m2.tx_log = m.tx_log
          /\ m2.tx_packet_in_progress = m.tx_packet_in_progress
          /\ m2.rx_packet_in_progress = m.rx_packet_in_progress
          /\ ~m2.packet_lost /\ m2.manual_irq = m.manual_irq /\ m2.tx_done_irq = m.tx_done_irq
      BY <1>1, <2>1 DEF ModelType
    <2>3. Flags(m2) = Flags(m) \ {4}
      BY <2>2 DEF Flags
    <2> QED BY <1>8, <2>1, <2>2, <2>3 DEF clear_packet_lost_flag
  <1>12. ASSUME NEW mode \in BOOLEAN \X BOOLEAN PROVE Rest(N, mode_set(m, mode), WriteCtrl(d, mode))
    <2>1. PICK y \in BOOLEAN, z \in BOOLEAN : y = mode[1] /\ z = mode[2]
      OBVIOUS
    <2>2. PICK m2, e : m2 = [m EXCEPT !.promiscuous = y, !.loopback = z] /\ e = [d EXCEPT !.prom = y, !.loop = z]
      OBVIOUS
    <2>3. /\ m2 \in ModelType(N) /\ e \in DutType(N) /\ e.table = d.table /\ e.tx = d.tx /\ e.wire = d.wire
      BY <1>1, <2>2 DEF ModelType, DutType
    <2>4. SameState(m2, e)
      BY <1>1, <1>2, <2>2 DEF ModelType, DutType, SameState, Flags
    <2> QED BY <1>5, <2>1, <2>2, <2>3, <2>4 DEF mode_set, WriteCtrl
  <1>13. ASSUME NEW a \in N PROVE Rest(N, mac_address_set(m, a), WriteMacHi(WriteMacLo(d, a), a))
    <2>1. d.mac \in [lo : N, hi : N]
      BY <1>1 DEF DutType
    <2>2. PICK y \in [lo : N, hi : N], z \in [lo : N, hi : N] :
             y = [d.mac EXCEPT !.lo = a] /\ z = [lo |-> a, hi |-> a] /\ z = [y EXCEPT !.hi = a]
      <3>1. PICK y \in [lo : N, hi : N], z \in [lo : N, hi : N] :
               y = [d.mac EXCEPT !.lo = a] /\ z = [y EXCEPT !.hi = a]
        <4>1. [d.mac EXCEPT !.lo = a] \in [lo : N, hi : N]
          BY <2>1
        <4>2. \A y \in [lo : N, hi : N] : [y EXCEPT !.hi = a] \in [lo : N, hi : N]
          OBVIOUS
        <4> QED BY <4>1, <4>2
      <3>2. y.lo = a
        BY <2>1, <3>1
      <3>3. z.lo = a /\ z.hi = a
        BY <3>1, <3>2
      <3>4. z = [lo |-> a, hi |-> a]
        BY <3>3
      <3> QED BY <3>1, <3>4
    <2>3. PICK m2, e, f : m2 = [m EXCEPT !.mac_address = a] /\ e = [d EXCEPT !.mac = y] /\ f = [e EXCEPT !.mac = z]
      OBVIOUS
    <2>4. /\ m2 \in ModelType(N) /\ e \in DutType(N) /\ f \in DutType(N) /\ e.mac = y
          /\ f.table = d.table /\ f.tx = d.tx /\ f.wire = d.wire /\ f.mac = z
      BY <1>1, <2>3 DEF ModelType, DutType
    <2>5. SameState(m2, f)
      <3>1. /\ f.mask = d.mask /\ f.prom = d.prom /\ f.loop = d.loop /\ f.sent = d.sent /\ f.sticky = d.sticky
        BY <1>1, <2>3 DEF DutType
      <3>2. /\ m2.rx_packets = m.rx_packets /\ m2.intr_mask = m.intr_mask
            /\ m2.promiscuous = m.promiscuous /\ m2.loopback = m.loopback
            /\ m2.mac_address = a /\ m2.tx_log = m.tx_log
            /\ m2.tx_packet_in_progress = m.tx_packet_in_progress
            /\ m2.rx_packet_in_progress = m.rx_packet_in_progress
            /\ Flags(m2) = Flags(m)
        BY <1>1, <2>3 DEF ModelType, Flags
      <3> QED BY <1>2, <2>2, <2>4, <3>1, <3>2 DEF SameState
    <2>6. WriteMacHi(WriteMacLo(d, a), a) = f
      <3>1. [d EXCEPT !.mac.lo = a] = [d EXCEPT !.mac = [d.mac EXCEPT !.lo = a]]
        BY <1>1, <2>1 DEF DutType
      <3>2. WriteMacLo(d, a) = e
        BY <2>2, <2>3, <3>1 DEF WriteMacLo
      <3>3. [e EXCEPT !.mac.hi = a] = [e EXCEPT !.mac = [e.mac EXCEPT !.hi = a]]
        BY <2>4 DEF DutType
      <3>4. [e EXCEPT !.mac.hi = a] = f
        BY <2>2, <2>3, <2>4, <3>3
      <3> QED BY <3>2, <3>4 DEF WriteMacHi
    <2> QED BY <1>5, <2>3, <2>4, <2>5, <2>6 DEF mac_address_set
  <1>14. Rest(N, rx_pop_packet(m), WriteRxPop(d))
    <2>1. m.rx_packets = d.table
      BY <1>2 DEF SameState
    <2>2. CASE d.table = <<>>
      <3>1. rx_pop_packet(m) = m /\ WriteRxPop(d) = d
        BY <2>1, <2>2 DEF rx_pop_packet, WriteRxPop
      <3> QED BY <3>1
    <2>3. CASE d.table # <<>>
      <3>0. Tail(d.table) \in Seq(Entry(N))
        BY <1>3, <2>3, HeadTailProperties
      <3>1. PICK t \in Seq(Entry(N)) : t = Tail(d.table)
        BY <3>0
      <3>2. PICK m2, e : m2 = [m EXCEPT !.rx_packets = t] /\ e = [d EXCEPT !.table = t]
        OBVIOUS
      <3>3. /\ m2 \in ModelType(N) /\ e.tx = d.tx /\ e.wire = d.wire
        BY <1>1, <3>2 DEF ModelType, DutType
      <3>4. SameState(m2, e)
        BY <1>1, <1>2, <3>2 DEF ModelType, DutType, SameState, Flags
      <3>5. rx_pop_packet(m) = m2 /\ WriteRxPop(d) = e
        BY <2>1, <2>3, <3>1, <3>2 DEF rx_pop_packet, WriteRxPop
      <3>6. DutInv(N, e)
        BY <1>1, <3>5, PopInBounds
      <3> QED BY <1>4, <3>3, <3>4, <3>5, <3>6
    <2> QED BY <2>2, <2>3
  <1>15. ASSUME NEW w \in {0, 1}, NEW v \in N
         PROVE  Rest(N, tx_buffer_write64(m, w, v), WriteTxWord(d, w, v))
    <2>1. d.buf \in [dst : N, data : N] /\ m.tx_buffer \in [dst : N, data : N]
      BY <1>1 DEF DutType, ModelType
    <2>2. PICK y \in [dst : N, data : N], z \in [dst : N, data : N] :
             y = SetWord(d.buf, w, v) /\ z = SetWord(m.tx_buffer, w, v)
      <3>1. SetWord(d.buf, w, v) \in [dst : N, data : N] /\ SetWord(m.tx_buffer, w, v) \in [dst : N, data : N]
        BY <2>1 DEF SetWord
      <3> QED BY <3>1
    <2>3. PICK m2, e : m2 = [m EXCEPT !.tx_buffer = z] /\ e = [d EXCEPT !.buf = y]
      OBVIOUS
    <2>4. /\ m2 \in ModelType(N) /\ e \in DutType(N) /\ e.table = d.table /\ e.tx = d.tx /\ e.wire = d.wire
      BY <1>1, <2>3 DEF ModelType, DutType
    <2>5. SameState(m2, e)
      BY <1>1, <1>2, <2>3 DEF ModelType, DutType, SameState, Flags
    <2>6. WriteTxWord(d, w, v) = e
      <3>1. ~tx_status(d)
        BY <1>1 DEF tx_status
      <3>2. WriteTxWord(d, w, v) = [d EXCEPT !.buf = y, !.tx.data = d.tx.data]
        BY <1>1, <2>2, <3>1 DEF WriteTxWord, DutType
      <3>3. [d EXCEPT !.buf = y, !.tx.data = d.tx.data] = [d EXCEPT !.buf = y]
        BY <1>1 DEF DutType, StreamType
      <3> QED BY <2>3, <3>2, <3>3
    <2> QED BY <1>5, <2>2, <2>3, <2>4, <2>5, <2>6 DEF tx_buffer_write64
  <1> QED BY <1>6, <1>7, <1>9, <1>10, <1>11, <1>12, <1>13, <1>14, <1>15

\* The model at the end of a reception.
LEMMA RxDone ==
    ASSUME NEW N, NEW m \in ModelType(N), NEW d \in DutType(N), SameState(m, d),
           NEW p \in Packet(N), p.len >= 2
    PROVE  LET r    == wait_for_rx_done([m EXCEPT !.rx_packet_in_progress = p])
               want == Wanted(d, p.dst)
           IN  /\ r \in ModelType(N)
               /\ r.rx_packets = IF want /\ Fits(d, p.len)
                                 THEN Append(d.table, [reason |-> ReasonFor(p.dst, Matches(d, p.dst)), pkt |-> p])
                                 ELSE d.table
               /\ Flags(r) = Flags(m) \cup (IF want /\ ~Fits(d, p.len) THEN {4} ELSE {})
               /\ r.intr_mask = m.intr_mask /\ r.promiscuous = m.promiscuous /\ r.loopback = m.loopback
               /\ r.mac_address = m.mac_address /\ r.tx_log = m.tx_log
               /\ r.tx_packet_in_progress = None /\ r.rx_packet_in_progress = None
  <1> DEFINE m1     == [m EXCEPT !.rx_packet_in_progress = p]
             r      == wait_for_rx_done(m1)
             want   == Wanted(d, p.dst)
             reason == ReasonFor(p.dst, Matches(d, p.dst))
             entry  == [reason |-> reason, pkt |-> p]
  <1>1. /\ m1.rx_packet_in_progress = p /\ m1.rx_packets = m.rx_packets
        /\ m1.mac_address = m.mac_address /\ m1.promiscuous = m.promiscuous
    BY DEF ModelType
  <1>2. p # None
    <2>1. None.len = 0
      BY DEF None
    <2> QED BY <2>1
  <1>3. [m1 EXCEPT !.rx_packet_in_progress = None] = m
    <2>1. m.rx_packet_in_progress = None
      BY DEF SameState
    <2> QED BY <2>1 DEF ModelType
  <1>4. ReasonFor(p.dst, p.dst = m1.mac_address) = reason
    <2>1. d.mac.hi = m.mac_address
      BY DEF SameState
    <2> QED BY <1>1, <2>1 DEF Matches
  <1>5. (m1.promiscuous \/ ReasonFor(p.dst, p.dst = m1.mac_address) # "NON_MAC_MATCH") <=> want
    <2>1. m.promiscuous = d.prom
      BY DEF SameState
    <2> QED BY <1>1, <1>4, <2>1 DEF Wanted
  <1>6. fits(m1, p) <=> Fits(d, p.len)
    <2>1. m1.rx_packets = d.table
      BY <1>1 DEF SameState
    <2> HIDE DEF m1
    <2> QED BY <2>1 DEF fits, Fits, Used, Depth, RxBytes
  <1>7. r = IF ~want THEN m
            ELSE IF Fits(d, p.len) THEN [m EXCEPT !.rx_packets = Append(@, entry)]
            ELSE [m EXCEPT !.packet_lost = TRUE]
    <2> HIDE DEF m1, want, reason
    <2> QED BY <1>1, <1>2, <1>3, <1>4, <1>5, <1>6 DEF wait_for_rx_done, r
  <1>8. /\ m.rx_packets = d.table /\ d.table \in Seq(Entry(N))
        /\ m.tx_packet_in_progress = None /\ m.rx_packet_in_progress = None
    BY DEF SameState, DutType
  <1>9. entry \in Entry(N)
    <2>1. reason \in Reason
      BY DEF ReasonFor, Reason
    <2> HIDE DEF reason
    <2> QED BY <2>1 DEF Entry
  <1>10. PICK t \in Seq(Entry(N)) : t = Append(d.table, entry)
    <2>1. Append(d.table, entry) \in Seq(Entry(N))
      BY <1>8, <1>9
    <2> QED BY <2>1
  <1> HIDE DEF r, want, reason, m1
  <1>11. CASE ~want
    <2>1. r = m
      BY <1>7, <1>11
    <2> QED BY <1>8, <1>11, <2>1 DEF r, want, reason, m1
  <1>12. CASE want /\ Fits(d, p.len)
    <2>1. r = [m EXCEPT !.rx_packets = t]
      BY <1>7, <1>8, <1>10, <1>12
    <2>2. /\ r \in ModelType(N) /\ r.rx_packets = t
          /\ r.intr_mask = m.intr_mask /\ r.promiscuous = m.promiscuous /\ r.loopback = m.loopback
          /\ r.mac_address = m.mac_address /\ r.tx_log = m.tx_log
          /\ r.tx_packet_in_progress = None /\ r.rx_packet_in_progress = None
          /\ r.manual_irq = m.manual_irq /\ r.tx_done_irq = m.tx_done_irq /\ r.packet_lost = m.packet_lost
      BY <1>8, <2>1 DEF ModelType
    <2>3. Flags(r) = Flags(m)
      BY <2>2 DEF Flags
    <2> QED BY <1>10, <1>12, <2>2, <2>3 DEF r, want, reason, m1
  <1>13. CASE want /\ ~Fits(d, p.len)
    <2>1. r = [m EXCEPT !.packet_lost = TRUE]
      BY <1>7, <1>13
    <2>2. /\ r \in ModelType(N) /\ r.rx_packets = d.table
          /\ r.intr_mask = m.intr_mask /\ r.promiscuous = m.promiscuous /\ r.loopback = m.loopback
          /\ r.mac_address = m.mac_address /\ r.tx_log = m.tx_log
          /\ r.tx_packet_in_progress = None /\ r.rx_packet_in_progress = None
          /\ r.manual_irq = m.manual_irq /\ r.tx_done_irq = m.tx_done_irq /\ r.packet_lost
      BY <1>8, <2>1 DEF ModelType
    <2>3. Flags(r) = Flags(m) \cup {4}
      BY <2>2 DEF Flags
    <2> QED BY <1>13, <2>2, <2>3 DEF r, want, reason, m1
  <1> QED BY <1>11, <1>12, <1>13

\* A packet that the PHY model puts on the pins, in either mode, leaves model and
\* design in sync when it is through: the model, which judges the whole packet at
\* once, and the design, which judges it byte by byte, agree.
THEOREM ReceptionMirrored ==
    ASSUME NEW N, NEW m, NEW d, Rest(N, m, d), NEW p \in Packet(N), p.len >= 2,
           NEW e, Received(N, d, p, e)
    PROVE  Rest(N, wait_for_rx_done(begin_rx_packet(m, p)), e)
  <1> DEFINE r == wait_for_rx_done(begin_rx_packet(m, p))
  <1>1. /\ d \in DutType(N) /\ ~d.tx.on /\ m \in ModelType(N) /\ InSync(m, d) /\ DutInv(N, e)
        /\ e \in DutType(N)
    BY DEF Rest, Idle, DutInv, Received
  <1>2. SameState(m, d)
    BY <1>1, InSyncState
  <1>3. /\ e.tx = d.tx /\ e.wire = Off /\ e.sent = d.sent /\ e.mask = d.mask /\ e.prom = d.prom
        /\ e.loop = d.loop /\ e.mac = d.mac
    BY DEF Received, SameRegs
  <1>4. Idle(e)
    BY <1>1, <1>3 DEF Idle, Off
  <1>5. /\ e.table = IF ~d.loop /\ Wanted(d, p.dst) /\ Fits(d, p.len)
                     THEN Append(d.table, [reason |-> ReasonFor(p.dst, Matches(d, p.dst)), pkt |-> p])
                     ELSE d.table
        /\ e.sticky = d.sticky \cup (IF ~d.loop /\ Wanted(d, p.dst) /\ ~Fits(d, p.len) THEN {4} ELSE {})
    BY DEF Received
  <1>6. m.loopback = d.loop
    BY <1>2 DEF SameState
  <1>7. r \in ModelType(N) /\ SameState(r, e)
    <2>1. CASE d.loop
      <3>1. begin_rx_packet(m, p) = m
        BY <1>6, <2>1 DEF begin_rx_packet
      <3>2. m.rx_packet_in_progress = None
        BY <1>2 DEF SameState
      <3>3. r = [m EXCEPT !.rx_packet_in_progress = None]
        BY <3>1, <3>2 DEF wait_for_rx_done
      <3>4. r = m
        BY <1>1, <3>2, <3>3 DEF ModelType
      <3>5. e.table = d.table /\ e.sticky = d.sticky
        BY <1>5, <2>1
      <3> HIDE DEF r
      <3> QED BY <1>1, <1>2, <1>3, <3>4, <3>5 DEF SameState
    <2>2. CASE ~d.loop
      <3>1. begin_rx_packet(m, p) = [m EXCEPT !.rx_packet_in_progress = p]
        BY <1>6, <2>2 DEF begin_rx_packet
      <3>2. LET q == wait_for_rx_done([m EXCEPT !.rx_packet_in_progress = p])
                want == Wanted(d, p.dst)
            IN  /\ q \in ModelType(N)
                /\ q.rx_packets = IF want /\ Fits(d, p.len)
                                  THEN Append(d.table, [reason |-> ReasonFor(p.dst, Matches(d, p.dst)), pkt |-> p])
                                  ELSE d.table
                /\ Flags(q) = Flags(m) \cup (IF want /\ ~Fits(d, p.len) THEN {4} ELSE {})
                /\ q.intr_mask = m.intr_mask /\ q.promiscuous = m.promiscuous /\ q.loopback = m.loopback
                /\ q.mac_address = m.mac_address /\ q.tx_log = m.tx_log
                /\ q.tx_packet_in_progress = None /\ q.rx_packet_in_progress = None
        BY <1>1, <1>2, RxDone
      <3> HIDE DEF r
      <3>3. /\ r \in ModelType(N)
            /\ r.rx_packets = IF Wanted(d, p.dst) /\ Fits(d, p.len)
                              THEN Append(d.table, [reason |-> ReasonFor(p.dst, Matches(d, p.dst)), pkt |-> p])
                              ELSE d.table
            /\ Flags(r) = Flags(m) \cup (IF Wanted(d, p.dst) /\ ~Fits(d, p.len) THEN {4} ELSE {})
            /\ r.intr_mask = m.intr_mask /\ r.promiscuous = m.promiscuous /\ r.loopback = m.loopback
            /\ r.mac_address = m.mac_address /\ r.tx_log = m.tx_log
            /\ r.tx_packet_in_progress = None /\ r.rx_packet_in_progress = None
        BY <3>1, <3>2 DEF r
      <3>4. r.rx_packets = e.table /\ e.sticky = Flags(r)
        BY <1>2, <1>5, <2>2, <3>3 DEF SameState
      <3> QED BY <1>2, <1>3, <3>3, <3>4 DEF SameState
    <2> QED BY <2>1, <2>2
  <1> HIDE DEF r
  <1>8. InSync(r, e)
    BY <1>1, <1>7, InSyncState
  <1> QED BY <1>1, <1>4, <1>7, <1>8 DEF Rest, r

\* So does a packet that is sent, in either mode, when the transmit buffers of the
\* two hold the same: the interrupt, the log and, in loopback mode, what is received.
THEOREM TransmissionMirrored ==
    ASSUME NEW N, NEW m, NEW d, Rest(N, m, d), m.tx_buffer = d.buf, NEW len \in Nat, len >= 2,
           NEW e, Sent(N, d, len, e)
    PROVE  Rest(N, wait_for_tx_done(tx_packet_send(m, len)), e)
  <1> DEFINE p    == Kicked(d, len)
             sent == tx_packet_send(m, len)
             idle == [sent EXCEPT !.tx_packet_in_progress = None]
             done == IF sent.loopback THEN wait_for_rx_done(idle) ELSE idle
             r    == wait_for_tx_done(sent)
             want == d.loop /\ Wanted(d, p.dst)
  <1>1. /\ d \in DutType(N) /\ ~d.wire.on /\ m \in ModelType(N) /\ InSync(m, d) /\ DutInv(N, e)
        /\ e \in DutType(N)
    BY DEF Rest, Idle, DutInv, Sent
  <1>2. SameState(m, d)
    BY <1>1, InSyncState
  <1>3. /\ e.wire = d.wire /\ e.tx = Off /\ e.mask = d.mask /\ e.prom = d.prom
        /\ e.loop = d.loop /\ e.mac = d.mac
    BY DEF Sent, SameRegs
  <1>4. Idle(e)
    BY <1>1, <1>3 DEF Idle, Off
  <1>5. /\ e.sent = Logged(d.sent, p)
        /\ e.table = IF want /\ Fits(d, len)
                     THEN Append(d.table, [reason |-> ReasonFor(p.dst, Matches(d, p.dst)), pkt |-> p])
                     ELSE d.table
        /\ e.sticky = d.sticky \cup {5} \cup (IF want /\ ~Fits(d, len) THEN {4} ELSE {})
    BY DEF Sent
  <1>6. p \in Packet(N) /\ p.len = len
    BY <1>1 DEF Kicked, DutType, Packet
  <1>7. /\ m.loopback = d.loop /\ m.tx_packet_in_progress = None /\ m.rx_packet_in_progress = None
        /\ m.rx_packets = d.table /\ m.tx_log = d.sent /\ d.loop \in BOOLEAN
    BY <1>1, <1>2 DEF SameState, DutType
  <1>8. p = [dst |-> m.tx_buffer.dst, data |-> m.tx_buffer.data, len |-> len]
    BY DEF Kicked
  <1> HIDE DEF p
  <1>9. sent = [m EXCEPT !.tx_packet_in_progress = p,
                         !.rx_packet_in_progress = IF m.loopback THEN p ELSE @]
    BY <1>8 DEF tx_packet_send
  <1>10. /\ sent.tx_packet_in_progress = p /\ sent.loopback = d.loop
         /\ idle = [m EXCEPT !.rx_packet_in_progress = IF d.loop THEN p ELSE None]
    <2>1. PICK x : x = IF d.loop THEN p ELSE None
      OBVIOUS
    <2>2. sent = [m EXCEPT !.tx_packet_in_progress = p, !.rx_packet_in_progress = x]
      BY <1>1, <1>7, <1>9, <2>1 DEF ModelType
    <2> HIDE DEF sent
    <2>3. sent.tx_packet_in_progress = p /\ sent.loopback = d.loop
      BY <1>1, <1>7, <2>2 DEF ModelType
    <2>4. idle = [m EXCEPT !.rx_packet_in_progress = x]
      BY <1>1, <1>7, <2>2 DEF ModelType
    <2> QED BY <2>1, <2>3, <2>4
  <1> HIDE DEF sent, idle
  <1>11. /\ done \in ModelType(N)
         /\ done.rx_packets = e.table
         /\ Flags(done) = Flags(m) \cup (IF want /\ ~Fits(d, len) THEN {4} ELSE {})
         /\ done.intr_mask = m.intr_mask /\ done.promiscuous = m.promiscuous
         /\ done.loopback = m.loopback /\ done.mac_address = m.mac_address /\ done.tx_log = m.tx_log
         /\ done.tx_packet_in_progress = None /\ done.rx_packet_in_progress = None
    <2>1. CASE ~d.loop
      <3>1. idle = m /\ done = idle
        BY <1>1, <1>7, <1>10, <2>1 DEF ModelType
      <3>2. e.table = d.table
        BY <1>5, <2>1
      <3> QED BY <1>1, <1>7, <2>1, <3>1, <3>2
    <2>2. CASE d.loop
      <3>1. done = wait_for_rx_done([m EXCEPT !.rx_packet_in_progress = p])
        BY <1>10, <2>2
      <3>2. LET q == wait_for_rx_done([m EXCEPT !.rx_packet_in_progress = p])
                w == Wanted(d, p.dst)
            IN  /\ q \in ModelType(N)
                /\ q.rx_packets = IF w /\ Fits(d, p.len)
                                  THEN Append(d.table, [reason |-> ReasonFor(p.dst, Matches(d, p.dst)), pkt |-> p])
                                  ELSE d.table
                /\ Flags(q) = Flags(m) \cup (IF w /\ ~Fits(d, p.len) THEN {4} ELSE {})
                /\ q.intr_mask = m.intr_mask /\ q.promiscuous = m.promiscuous /\ q.loopback = m.loopback
                /\ q.mac_address = m.mac_address /\ q.tx_log = m.tx_log
                /\ q.tx_packet_in_progress = None /\ q.rx_packet_in_progress = None
        BY <1>1, <1>2, <1>6, RxDone
      <3> QED BY <1>5, <1>6, <2>2, <3>1, <3>2
    <2> QED BY <1>7, <2>1, <2>2
  <1> HIDE DEF done
  <1>12. PICK l \in Seq(Packet(N)) : l = Logged(m.tx_log, p)
    <2>1. m.tx_log \in Seq(Packet(N))
      BY <1>1 DEF ModelType
    <2> QED BY <1>6, <2>1, LoggedType
  <1>13. r = [done EXCEPT !.tx_log = l, !.tx_done_irq = TRUE]
    <2>1. r = [done EXCEPT !.tx_log = Logged(@, sent.tx_packet_in_progress), !.tx_done_irq = TRUE]
      BY DEF wait_for_tx_done, done, idle
    <2> QED BY <1>10, <1>11, <1>12, <2>1
  <1> HIDE DEF r
  <1>14. /\ r \in ModelType(N) /\ r.rx_packets = done.rx_packets /\ r.intr_mask = done.intr_mask
         /\ r.promiscuous = done.promiscuous /\ r.loopback = done.loopback
         /\ r.mac_address = done.mac_address /\ r.tx_log = l
         /\ r.tx_packet_in_progress = None /\ r.rx_packet_in_progress = None
         /\ r.manual_irq = done.manual_irq /\ r.tx_done_irq /\ r.packet_lost = done.packet_lost
    BY <1>11, <1>12, <1>13 DEF ModelType
  <1>15. Flags(r) = Flags(done) \cup {5}
    BY <1>14 DEF Flags
  <1>16. e.sticky = Flags(r)
    <2>1. d.sticky = Flags(m)
      BY <1>2 DEF SameState
    <2> HIDE DEF want
    <2> QED BY <1>5, <1>11, <1>15, <2>1
  <1>17. SameState(r, e)
    <2>1. /\ r.rx_packets = e.table /\ r.intr_mask = e.mask /\ r.promiscuous = e.prom /\ r.loopback = e.loop
          /\ e.mac = [lo |-> r.mac_address, hi |-> r.mac_address] /\ r.tx_log = e.sent
      BY <1>2, <1>3, <1>5, <1>7, <1>11, <1>12, <1>14 DEF SameState
    <2> QED BY <1>14, <1>16, <2>1 DEF SameState
  <1>18. InSync(r, e)
    BY <1>1, <1>14, <1>17, InSyncState
  <1> QED BY <1>1, <1>4, <1>14, <1>18 DEF Rest, r, sent

-----------------------------------------------------------------------------
(* Any test of one thread. *)

\* Reset leaves model and design in sync.
LEMMA ResetAtRest ==
    ASSUME NEW N, {"none", "zero", "unknown"} \subseteq N
    PROVE  Rest(N, InitModel, InitDut)
  <1>1. DutInv(N, InitDut)
    BY ResetInBounds
  <1>2. InitDut \in DutType(N)
    BY <1>1 DEF DutInv
  <1>3. Idle(InitDut)
    BY DEF Idle, InitDut, Off
  <1>4. InitModel \in ModelType(N)
    <2>1. "zero" \in N /\ "none" \in N /\ 0 \in Nat
      OBVIOUS
    <2>2. None \in Packet(N)
      BY <2>1 DEF None, Packet
    <2>3. <<>> \in Seq(Entry(N)) /\ <<>> \in Seq(Packet(N)) /\ {} \in SUBSET (0 .. 6)
      OBVIOUS
    <2> QED BY <2>1, <2>2, <2>3 DEF InitModel, ModelType
  <1>5. SameState(InitModel, InitDut)
    BY DEF SameState, InitModel, InitDut, Flags
  <1>6. InSync(InitModel, InitDut)
    BY <1>2, <1>4, <1>5, InSyncState
  <1> QED BY <1>1, <1>3, <1>4, <1>6 DEF Rest

\* Taking a packet out of both logs.
LEMMA LogsMirrored ==
    ASSUME NEW N, NEW m, NEW d, Rest(N, m, d), d.sent # <<>>
    PROVE  Rest(N, get_transmitted_packet(m), [d EXCEPT !.sent = Tail(@)])
  <1>1. /\ DutInv(N, d) /\ d \in DutType(N) /\ m \in ModelType(N) /\ InSync(m, d) /\ Idle(d)
    BY DEF Rest, DutInv
  <1>2. SameState(m, d)
    BY <1>1, InSyncState
  <1>3. d.sent \in Seq(Packet(N)) /\ m.tx_log = d.sent
    BY <1>1, <1>2 DEF DutType, SameState
  <1>4. PICK l \in Seq(Packet(N)) : l = Tail(d.sent)
    <2>1. Tail(d.sent) \in Seq(Packet(N))
      BY <1>3, HeadTailProperties
    <2> QED BY <2>1
  <1>5. PICK r, e : r = [m EXCEPT !.tx_log = l] /\ e = [d EXCEPT !.sent = l]
    OBVIOUS
  <1>6. r = get_transmitted_packet(m) /\ e = [d EXCEPT !.sent = Tail(@)]
    BY <1>3, <1>4, <1>5 DEF get_transmitted_packet
  <1>7. /\ r \in ModelType(N) /\ e \in DutType(N) /\ e.table = d.table /\ e.tx = d.tx /\ e.wire = d.wire
    BY <1>1, <1>5 DEF ModelType, DutType
  <1>8. SameState(r, e)
    BY <1>1, <1>2, <1>5 DEF ModelType, DutType, SameState, Flags
  <1>9. DutInv(N, e) /\ Idle(e) /\ InSync(r, e)
    BY <1>1, <1>7, <1>8, RegistersOnly, InSyncState DEF Idle
  <1> QED BY <1>6, <1>7, <1>9 DEF Rest

\* Between calls, model and design at rest; during a packet, the packet on its way
\* from a state in which they were.
MirrorInv ==
    \/ job = "rest" /\ Rest(Names, model, dut)
    \/ /\ job = "rx" /\ Rest(Names, before.m, before.d) /\ packet \in Packet(Names) /\ packet.len >= 2
       /\ ~before.d.loop => LeavesNoTrace(before.d, packet.dst)
       /\ model = begin_rx_packet(before.m, packet)
       /\ Receiving(Names, before.d, packet, dut)
    \/ /\ job = "tx" /\ Rest(Names, before.m, before.d) /\ packet.len \in Nat /\ packet.len >= 2
       /\ before.m.tx_buffer = before.d.buf
       /\ before.d.loop => LeavesNoTrace(before.d, before.d.buf.dst)
       /\ model = tx_packet_send(before.m, packet.len)
       /\ Sending(Names, before.d, packet.len, dut)

\* The design keeps its one address in both halves at rest.
LEMMA OneAddress ==
    ASSUME NEW N, NEW m, NEW d, Rest(N, m, d)
    PROVE  d.mac.lo = d.mac.hi
  BY DEF Rest, InSync

\* A call at rest.
LEMMA CallStep ==
    ASSUME {"none", "zero", "unknown", "mixed"} \subseteq Names, MirrorInv,
           NEW m, NEW d, Both(m, d), Rest(Names, model, dut) => Rest(Names, m, d)
    PROVE  MirrorInv'
  <1>1. Rest(Names, model, dut) /\ job' = "rest" /\ model' = m /\ dut' = d
    BY DEF MirrorInv, Both
  <1>2. Rest(Names, model', dut')
    BY <1>1
  <1> QED BY <1>1, <1>2 DEF MirrorInv

\* A packet begins.
LEMMA BeginStep ==
    ASSUME {"none", "zero", "unknown", "mixed"} \subseteq Names, MirrorInv, BeginRxPacket \/ TxPacketSend
    PROVE  MirrorInv'
  <1>1. job = "rest" /\ Rest(Names, model, dut)
    BY DEF MirrorInv, BeginRxPacket, TxPacketSend
  <1>2. DutInv(Names, dut) /\ ~dut.tx.on /\ ~dut.wire.on
    BY <1>1 DEF Rest, Idle
  <1>3. CASE BeginRxPacket
    <2>1. PICK p \in Packet(Names) :
             /\ p.len >= 2 /\ (~dut.loop => LeavesNoTrace(dut, p.dst))
             /\ model' = begin_rx_packet(model, p) /\ dut' = SendToWire(dut, p) /\ packet' = p
      BY <1>3 DEF BeginRxPacket
    <2>2. job' = "rx" /\ before' = [m |-> model, d |-> dut]
      BY <1>3 DEF BeginRxPacket
    <2>3. Receiving(Names, dut, p, SendToWire(dut, p))
      BY <1>2, ReceptionBegins
    <2>4. before'.m = model /\ before'.d = dut
      BY <2>2
    <2> QED BY <1>1, <2>1, <2>2, <2>3, <2>4 DEF MirrorInv
  <1>4. CASE TxPacketSend
    <2>1. PICK len \in Nat :
             /\ len >= 2 /\ (dut.loop => LeavesNoTrace(dut, dut.buf.dst))
             /\ model' = tx_packet_send(model, len) /\ dut' = WriteTxCtrl(dut, len)
             /\ packet' = [dst |-> dut.buf.dst, data |-> dut.buf.data, len |-> len]
      BY <1>4 DEF TxPacketSend
    <2>2. job' = "tx" /\ before' = [m |-> model, d |-> dut] /\ model.tx_buffer = dut.buf
      BY <1>4 DEF TxPacketSend
    <2>3. Sending(Names, dut, len, WriteTxCtrl(dut, len))
      BY <1>2, <2>1, TransmissionBegins
    <2>4. before'.m = model /\ before'.d = dut /\ packet'.len = len
      BY <2>1, <2>2
    <2> QED BY <1>1, <2>1, <2>2, <2>3, <2>4 DEF MirrorInv
  <1> QED BY <1>3, <1>4

\* The clock runs while a packet is on its way.
LEMMA RunStep ==
    ASSUME {"none", "zero", "unknown", "mixed"} \subseteq Names, MirrorInv, Run
    PROVE  MirrorInv'
  <1>1. PICK n \in Nat \ {0} : (\A x \in Horizon(dut) : n <= x) /\ dut' = Advance(dut, n)
    BY DEF Run
  <1>2. n \in Nat /\ n > 0
    OBVIOUS
  <1>3. /\ job # "rest" /\ packet' = packet /\ before' = before
        /\ ~Idle(dut') => model' = model /\ job' = job
        /\ Idle(dut') => /\ job' = "rest"
                         /\ model' = IF job = "rx" THEN wait_for_rx_done(model) ELSE wait_for_tx_done(model)
    BY DEF Run
  <1> DEFINE c == before.d
  <1>4. Rest(Names, before.m, c)
    BY <1>3 DEF MirrorInv
  <1>5. DutInv(Names, c) /\ ~c.tx.on /\ ~c.wire.on /\ c.mac.lo = c.mac.hi
    BY <1>4, OneAddress DEF Rest, Idle
  <1>6. \A dst : LeavesNoTrace(c, dst) => Wanted(c, dst) \/ Used(c) + 1 < RxBytes
    BY DEF LeavesNoTrace, Wanted, Matches
  <1>7. CASE job = "rx"
    <2>1. /\ packet \in Packet(Names) /\ packet.len >= 2
          /\ ~c.loop => LeavesNoTrace(c, packet.dst)
          /\ model = begin_rx_packet(before.m, packet)
          /\ Receiving(Names, c, packet, dut)
      BY <1>7 DEF MirrorInv
    <2>2. ~c.loop => Wanted(c, packet.dst) \/ Used(c) + 1 < RxBytes
      BY <1>6, <2>1
    <2>3. Receiving(Names, c, packet, Advance(dut, n)) \/ Received(Names, c, packet, Advance(dut, n))
      BY <1>1, <1>2, <1>5, <2>1, <2>2, ReceptionRuns
    <2>4. CASE Receiving(Names, c, packet, dut')
      <3>1. ~Idle(dut')
        BY <2>4 DEF Receiving, Way, Idle
      <3> QED BY <1>3, <1>4, <1>7, <2>1, <2>4, <3>1 DEF MirrorInv
    <2>5. CASE Received(Names, c, packet, dut')
      <3>1. Rest(Names, wait_for_rx_done(begin_rx_packet(before.m, packet)), dut')
        BY <1>4, <2>1, <2>5, ReceptionMirrored
      <3>2. Idle(dut')
        BY <3>1 DEF Rest
      <3>3. job' = "rest" /\ model' = wait_for_rx_done(begin_rx_packet(before.m, packet))
        BY <1>3, <1>7, <2>1, <3>2
      <3> QED BY <3>1, <3>3 DEF MirrorInv
    <2> QED BY <1>1, <2>3, <2>4, <2>5
  <1>8. CASE job = "tx"
    <2>1. /\ packet.len \in Nat /\ packet.len >= 2 /\ before.m.tx_buffer = c.buf
          /\ c.loop => LeavesNoTrace(c, c.buf.dst)
          /\ model = tx_packet_send(before.m, packet.len)
          /\ Sending(Names, c, packet.len, dut)
      BY <1>8 DEF MirrorInv
    <2>2. c.loop => Wanted(c, c.buf.dst) \/ Used(c) + 1 < RxBytes
      BY <1>6, <2>1
    <2>3. Sending(Names, c, packet.len, Advance(dut, n)) \/ Sent(Names, c, packet.len, Advance(dut, n))
      BY <1>1, <1>2, <1>5, <2>1, <2>2, TransmissionRuns
    <2>4. CASE Sending(Names, c, packet.len, dut')
      <3>1. ~Idle(dut')
        BY <2>4 DEF Sending, Way, Idle
      <3> QED BY <1>3, <1>4, <1>8, <2>1, <2>4, <3>1 DEF MirrorInv
    <2>5. CASE Sent(Names, c, packet.len, dut')
      <3>1. Rest(Names, wait_for_tx_done(tx_packet_send(before.m, packet.len)), dut')
        BY <1>4, <2>1, <2>5, TransmissionMirrored
      <3>2. Idle(dut')
        BY <3>1 DEF Rest
      <3>3. job' = "rest" /\ model' = wait_for_tx_done(tx_packet_send(before.m, packet.len))
        BY <1>3, <1>8, <2>1, <3>2
      <3> QED BY <3>1, <3>3 DEF MirrorInv
    <2> QED BY <1>1, <2>3, <2>4, <2>5
  <1> QED BY <1>3, <1>7, <1>8 DEF MirrorInv

\* The invariant of every test of one thread.
THEOREM MirrorInvariant ==
    ASSUME {"none", "zero", "unknown", "mixed"} \subseteq Names
    PROVE  Spec => []MirrorInv
  <1>1. Init => MirrorInv
    <2>1. Rest(Names, InitModel, InitDut)
      BY ResetAtRest
    <2> QED BY <2>1 DEF Init, MirrorInv
  <1>2. MirrorInv /\ [Next]_vars => MirrorInv'
    <2> SUFFICES ASSUME MirrorInv, [Next]_vars PROVE MirrorInv'
      OBVIOUS
    <2>1. CASE IntrMaskSet
      <3>1. PICK bits \in SUBSET (0 .. 31) : Both(intr_mask_set(model, bits), WriteIntrMask(dut, bits))
        BY <2>1 DEF IntrMaskSet
      <3> QED BY <3>1, RegistersMirrored, CallStep
    <2>2. CASE TestIntr
      BY <2>2, RegistersMirrored, CallStep DEF TestIntr
    <2>3. CASE ClearTestIntr
      BY <2>3, RegistersMirrored, CallStep DEF ClearTestIntr
    <2>4. CASE ClearTxDoneFlag
      BY <2>4, RegistersMirrored, CallStep DEF ClearTxDoneFlag
    <2>5. CASE ClearPacketLostFlag
      BY <2>5, RegistersMirrored, CallStep DEF ClearPacketLostFlag
    <2>6. CASE ModeSet
      <3>1. PICK mode \in BOOLEAN \X BOOLEAN : Both(mode_set(model, mode), WriteCtrl(dut, mode))
        BY <2>6 DEF ModeSet
      <3> QED BY <3>1, RegistersMirrored, CallStep
    <2>7. CASE MacAddressSet
      <3>1. PICK a \in Names : Both(mac_address_set(model, a), WriteMacHi(WriteMacLo(dut, a), a))
        BY <2>7 DEF MacAddressSet
      <3> QED BY <3>1, RegistersMirrored, CallStep
    <2>8. CASE RxPopPacket
      BY <2>8, RegistersMirrored, CallStep DEF RxPopPacket
    <2>9. CASE TxBufferWrite64
      <3>1. PICK w \in {0, 1}, v \in Names : Both(tx_buffer_write64(model, w, v), WriteTxWord(dut, w, v))
        BY <2>9 DEF TxBufferWrite64
      <3> QED BY <3>1, RegistersMirrored, CallStep
    <2>10. CASE GetTransmittedPacket
      <3>1. dut.sent # <<>> /\ Both(get_transmitted_packet(model), [dut EXCEPT !.sent = Tail(@)])
        BY <2>10 DEF GetTransmittedPacket
      <3> QED BY <3>1, LogsMirrored, CallStep
    <2>11. CASE BeginRxPacket \/ TxPacketSend
      BY <2>11, BeginStep
    <2>12. CASE Run
      BY <2>12, RunStep
    <2>13. CASE UNCHANGED vars
      BY <2>13 DEF vars, MirrorInv
    <2> QED BY <2>1, <2>2, <2>3, <2>4, <2>5, <2>6, <2>7, <2>8, <2>9, <2>10, <2>11, <2>12, <2>13 DEF Next
  <1> QED BY <1>1, <1>2, PTL DEF Spec

\* Whatever a test of one thread does, for every number of calls and every choice
\* of addresses, data and lengths: between two calls the mirror finds model and
\* design equal.
THEOREM EveryTestAgrees ==
    ASSUME {"none", "zero", "unknown", "mixed"} \subseteq Names
    PROVE  Spec => []MirrorAgrees
  <1>1. MirrorInv => MirrorAgrees
    <2> SUFFICES ASSUME MirrorInv, job = "rest" PROVE MirrorAgrees
      BY DEF MirrorAgrees
    <2>1. Rest(Names, model, dut)
      BY DEF MirrorInv
    <2> QED BY <2>1, ReadsAgree DEF MirrorAgrees, Rest
  <1> QED BY <1>1, MirrorInvariant, PTL

\* And at every moment, packets on their way included, table, buffer and streams
\* are within the bounds that TypeOK of the bench asks for.
THEOREM EveryTestInBounds ==
    ASSUME {"none", "zero", "unknown", "mixed"} \subseteq Names
    PROVE  Spec => []InBounds
  <1>1. MirrorInv => InBounds
    <2> SUFFICES ASSUME MirrorInv PROVE InBounds
      OBVIOUS
    <2>1. DutInv(Names, dut)
      BY DEF MirrorInv, Rest, Receiving, Sending
    <2> QED BY <2>1, BoundsGiveDutOK DEF InBounds
  <1> QED BY <1>1, MirrorInvariant, PTL
=============================================================================
