------------------------------ MODULE MacProofs -----------------------------
(***************************************************************************)
(* The MAC, for packets, preambles, checks and gaps of any length.  The    *)
(* transmitter sends the right frames with the right gaps between them, at *)
(* every speed; the receiver delivers the good frames and nothing else.    *)
(***************************************************************************)
EXTENDS MacLink, SequenceTheorems, WellFoundedInduction, TLAPS

-----------------------------------------------------------------------------
(* Sequences and frames. *)

\* The symbols a frame is made of.
Data == {Payload(b) : b \in Byte}
Check == {Fcs(s, k) : s \in Seq(Data), k \in Nat}
FrameSymbols == {Pre, Sfd} \cup Data \cup Check

\* A prefix grows by the next element.
LEMMA PrefixGrows ==
    ASSUME NEW S, NEW s \in Seq(S), NEW k \in Nat, k + 1 <= Len(s)
    PROVE  Append(SubSeq(s, 1, k), s[k + 1]) = SubSeq(s, 1, k + 1)
  <1> DEFINE a == Append(SubSeq(s, 1, k), s[k + 1])
             b == SubSeq(s, 1, k + 1)
  <1>1. s[k + 1] \in S
    OBVIOUS
  <1>2. SubSeq(s, 1, k) \in Seq(S) /\ Len(SubSeq(s, 1, k)) = k
        /\ \A j \in 1 .. k : SubSeq(s, 1, k)[j] = s[j]
    OBVIOUS
  <1>3. b \in Seq(S) /\ Len(b) = k + 1 /\ \A j \in 1 .. k + 1 : b[j] = s[j]
    OBVIOUS
  <1>4. a \in Seq(S) /\ Len(a) = k + 1 /\ a[k + 1] = s[k + 1] /\ \A j \in 1 .. k : a[j] = s[j]
    BY <1>1, <1>2
  <1> HIDE DEF a, b
  <1>5. \A j \in 1 .. k + 1 : a[j] = b[j]
    <2> TAKE j \in 1 .. k + 1
    <2>1. CASE j = k + 1
      BY <1>3, <1>4, <2>1
    <2>2. CASE j \in 1 .. k
      BY <1>3, <1>4, <2>2
    <2> QED BY <2>1, <2>2
  <1>6. a = b
    BY <1>3, <1>4, <1>5, SeqEqual
  <1> QED BY <1>6 DEF a, b

\* What a concatenation consists of.
LEMMA ConcatFields ==
    ASSUME NEW S, NEW s \in Seq(S), NEW t \in Seq(S)
    PROVE  /\ s \o t \in Seq(S) /\ Len(s \o t) = Len(s) + Len(t)
           /\ \A k \in 1 .. Len(s) + Len(t) :
                  (s \o t)[k] = IF k <= Len(s) THEN s[k] ELSE t[k - Len(s)]
  OBVIOUS

\* A sequence is its longest prefix.
LEMMA WholePrefix ==
    ASSUME NEW S, NEW s \in Seq(S)
    PROVE  SubSeq(s, 1, Len(s)) = s
  OBVIOUS

\* Packets are nonempty sequences that frame_ptr can count.
LEMMA PacketSeq ==
    ASSUME NEW p \in Packet
    PROVE  /\ p \in Seq(Byte) /\ Len(p) \in Nat /\ 1 <= Len(p) /\ Len(p) <= MaxLen
           /\ \A k \in 1 .. Len(p) : p[k] \in Byte
  <1>1. PICK n \in MinLen .. MaxLen : p \in [1 .. n -> Byte]
    BY DEF Packet
  <1>2. n \in Nat /\ 1 <= n /\ n <= MaxLen
    BY MacTxAssumption
  <1>3. p \in Seq(Byte) /\ Len(p) = n
    BY <1>1, <1>2
  <1> QED
    BY <1>1, <1>2, <1>3

\* The payload of a frame: the packet, and zeros up to the minimum.
LEMMA PaddedFields ==
    ASSUME NEW p \in Packet
    PROVE  /\ Padded(p) \in Seq(Data)
           /\ Len(Padded(p)) = IF Len(p) < MinPayload THEN MinPayload ELSE Len(p)
           /\ \A k \in 1 .. Len(Padded(p)) :
                  Padded(p)[k] = IF k <= Len(p) THEN Payload(p[k]) ELSE Payload(Zero)
  <1> DEFINE n == Len(p)
             z == IF n < MinPayload THEN MinPayload - n ELSE 0
             B == Bytes(p)
             Z == [k \in 1 .. z |-> Payload(Zero)]
  <1>1. n \in Nat /\ 1 <= n /\ \A k \in 1 .. n : p[k] \in Byte
    BY PacketSeq
  <1>2. z \in Nat /\ n + z = IF n < MinPayload THEN MinPayload ELSE n
    BY <1>1, MacTxAssumption
  <1>3. B \in Seq(Data) /\ Len(B) = n /\ \A k \in 1 .. n : B[k] = Payload(p[k])
    <2>1. \A k \in 1 .. n : Payload(p[k]) \in Data
      BY <1>1 DEF Data
    <2> HIDE DEF n
    <2>2. B = [k \in 1 .. n |-> Payload(p[k])]
      BY DEF Bytes, n
    <2> HIDE DEF B
    <2> QED
      BY <1>1, <2>1, <2>2
  <1>4. Z \in Seq(Data) /\ Len(Z) = z /\ \A k \in 1 .. z : Z[k] = Payload(Zero)
    <2>1. Payload(Zero) \in Data
      BY MacTxAssumption DEF Data
    <2> HIDE DEF z
    <2> QED
      BY <1>2, <2>1
  <1>5. Padded(p) = B \o Z
    BY DEF Padded
  <1> HIDE DEF B, Z, n, z
  <1>6. /\ B \o Z \in Seq(Data) /\ Len(B \o Z) = n + z
        /\ \A k \in 1 .. n + z : (B \o Z)[k] = IF k <= n THEN B[k] ELSE Z[k - n]
    BY <1>1, <1>2, <1>3, <1>4
  <1>7. \A k \in 1 .. n + z : (B \o Z)[k] = IF k <= n THEN Payload(p[k]) ELSE Payload(Zero)
    <2> TAKE k \in 1 .. n + z
    <2>1. CASE k <= n
      BY <1>1, <1>2, <1>3, <1>6, <2>1
    <2>2. CASE ~(k <= n)
      <3>1. k - n \in 1 .. z
        BY <1>1, <1>2, <2>2
      <3> QED
        BY <1>4, <1>6, <2>2, <3>1
    <2> QED BY <2>1, <2>2
  <1> QED
    BY <1>2, <1>5, <1>6, <1>7 DEF n

\* The frame of a packet, symbol by symbol.
LEMMA EncodeFields ==
    ASSUME NEW p \in Packet
    PROVE  LET h == PreambleLen + 1
               P == Padded(p)
           IN  /\ Encode(p) \in Seq(FrameSymbols)
               /\ Len(Encode(p)) = h + Len(P) + FcsLen
               /\ \A k \in 1 .. PreambleLen : Encode(p)[k] = Pre
               /\ Encode(p)[h] = Sfd
               /\ \A k \in 1 .. Len(P) : Encode(p)[h + k] = P[k]
               /\ \A k \in 1 .. FcsLen : Encode(p)[h + Len(P) + k] = Fcs(P, k - 1)
  <1> DEFINE A == [k \in 1 .. PreambleLen |-> Pre]
             B == <<Sfd>>
             P == Padded(p)
             F == FcsOf(P)
             N == Len(P)
             h == PreambleLen + 1
  <1>0. PreambleLen \in Nat /\ FcsLen \in Nat
    BY MacTxAssumption
  <1>1. A \in Seq(FrameSymbols) /\ Len(A) = PreambleLen /\ \A k \in 1 .. PreambleLen : A[k] = Pre
    <2>1. Pre \in FrameSymbols
      BY DEF FrameSymbols
    <2> QED
      BY <1>0, <2>1
  <1>2. B \in Seq(FrameSymbols) /\ Len(B) = 1 /\ B[1] = Sfd
    BY DEF FrameSymbols
  <1>3. P \in Seq(Data) /\ P \in Seq(FrameSymbols) /\ N \in Nat
    <2>1. P \in Seq(Data)
      BY PaddedFields
    <2> HIDE DEF P
    <2>2. Data \subseteq FrameSymbols
      BY DEF FrameSymbols
    <2>3. \A k \in 1 .. Len(P) : P[k] \in FrameSymbols
      BY <2>1, <2>2
    <2> QED
      BY <2>1, <2>3
  <1> HIDE DEF P
  <1>4. F \in Seq(FrameSymbols) /\ Len(F) = FcsLen /\ \A k \in 1 .. FcsLen : F[k] = Fcs(P, k - 1)
    <2>1. \A k \in 1 .. FcsLen : Fcs(P, k - 1) \in FrameSymbols
      <3> TAKE k \in 1 .. FcsLen
      <3>1. k - 1 \in Nat
        BY <1>0
      <3> QED
        BY <1>3, <3>1 DEF FrameSymbols, Check
    <2>2. F = [k \in 1 .. FcsLen |-> Fcs(P, k - 1)]
      BY DEF FcsOf
    <2> HIDE DEF F
    <2> QED
      BY <1>0, <2>1, <2>2
  <1>5. Encode(p) = ((A \o B) \o P) \o F
    BY DEF Encode, P
  <1> HIDE DEF A, B, F, N
  <1> DEFINE X == A \o B
  <1>6. /\ X \in Seq(FrameSymbols) /\ Len(X) = h
        /\ \A k \in 1 .. PreambleLen : X[k] = Pre
        /\ X[h] = Sfd
    <2>1. /\ X \in Seq(FrameSymbols) /\ Len(X) = PreambleLen + 1
          /\ \A k \in 1 .. PreambleLen + 1 :
                 X[k] = IF k <= PreambleLen THEN A[k] ELSE B[k - PreambleLen]
      BY <1>1, <1>2, ConcatFields
    <2> HIDE DEF X
    <2>2. h \in 1 .. PreambleLen + 1 /\ ~(h <= PreambleLen) /\ h - PreambleLen = 1
      BY <1>0
    <2>3. \A k \in 1 .. PreambleLen : k \in 1 .. PreambleLen + 1 /\ k <= PreambleLen
      BY <1>0
    <2> HIDE DEF h
    <2>4. X[h] = Sfd
      BY <1>2, <2>1, <2>2
    <2>5. \A k \in 1 .. PreambleLen : X[k] = Pre
      BY <1>1, <2>1, <2>3
    <2> QED
      BY <2>1, <2>4, <2>5 DEF h
  <1> HIDE DEF X
  <1> DEFINE Y == X \o P
  <1>7. h \in Nat /\ 1 <= h
    BY <1>0
  <1>8. Y \in Seq(FrameSymbols) /\ Len(Y) = h + N
        /\ \A k \in 1 .. h + N : Y[k] = IF k <= h THEN X[k] ELSE P[k - h]
    BY <1>3, <1>6, <1>7 DEF N
  <1> HIDE DEF Y
  <1> DEFINE Z == Y \o F
  <1>9. Z \in Seq(FrameSymbols) /\ Len(Z) = h + N + FcsLen
        /\ \A k \in 1 .. h + N + FcsLen : Z[k] = IF k <= h + N THEN Y[k] ELSE F[k - (h + N)]
    <2>1. Y \in Seq(FrameSymbols) /\ F \in Seq(FrameSymbols)
      BY <1>4, <1>8
    <2>2. /\ Z \in Seq(FrameSymbols) /\ Len(Z) = Len(Y) + Len(F)
          /\ \A k \in 1 .. Len(Y) + Len(F) :
                 Z[k] = IF k <= Len(Y) THEN Y[k] ELSE F[k - Len(Y)]
      BY <2>1, ConcatFields
    <2>3. Len(Y) = h + N /\ Len(F) = FcsLen
      BY <1>4, <1>8
    <2> HIDE DEF Z, h
    <2> QED
      BY <2>2, <2>3
  <1>10. Encode(p) = Z
    BY <1>5 DEF X, Y
  <1> HIDE DEF Z, h
  <1>11. \A k \in 1 .. h : Z[k] = X[k]
    BY <1>0, <1>3, <1>7, <1>8, <1>9
  <1>12. \A k \in 1 .. N : Z[h + k] = P[k]
    <2> TAKE k \in 1 .. N
    <2>1. h + k \in 1 .. h + N /\ h + k \in 1 .. h + N + FcsLen /\ ~(h + k <= h)
          /\ (h + k) - h = k /\ h + k <= h + N
      BY <1>0, <1>3, <1>7
    <2> QED
      BY <1>8, <1>9, <2>1
  <1>13. \A k \in 1 .. FcsLen : Z[h + N + k] = F[k]
    <2> TAKE k \in 1 .. FcsLen
    <2>1. h + N + k \in 1 .. h + N + FcsLen /\ ~(h + N + k <= h + N)
          /\ (h + N + k) - (h + N) = k
      BY <1>0, <1>3, <1>7
    <2> QED
      BY <1>9, <2>1
  <1>14. \A k \in 1 .. PreambleLen : Z[k] = Pre
    <2>1. \A k \in 1 .. PreambleLen : k \in 1 .. h
      BY <1>0 DEF h
    <2> QED
      BY <1>6, <1>11, <2>1
  <1>15. Z[h] = Sfd
    BY <1>6, <1>7, <1>11
  <1> QED
    BY <1>4, <1>9, <1>10, <1>12, <1>13, <1>14, <1>15 DEF h, N, P

-----------------------------------------------------------------------------
(* The stream and the gap. *)

\* What happens to the byte on offer.
LEMMA StreamMoves ==
    ASSUME StreamInv, Stream
    PROVE  /\ pos \in Nat /\ Len(pkt) \in Nat
           /\ ~s_axis_tready /\ pos > 0 => pkt' = pkt /\ pos' = pos
           /\ pos = 0 => pos' \in {0, 1}
           /\ s_axis_tready /\ pos > 0 /\ pos # Len(pkt) => pkt' = pkt /\ pos' = pos + 1
           /\ s_axis_tready /\ pos > 0 /\ pos = Len(pkt) => pos' = 0
  <1>1. CASE pos = 0
    <2>1. pkt = <<>>
      BY <1>1 DEF StreamInv
    <2>2. Len(pkt) = 0
      BY <2>1
    <2> QED
      BY <1>1, <2>2 DEF Stream, s_axis_tvalid
  <1>2. CASE pos # 0
    <2>1. pkt \in Packet /\ pos \in 1 .. Len(pkt)
      BY <1>2 DEF StreamInv
    <2>2. Len(pkt) \in Nat
      BY <2>1, PacketSeq
    <2> QED
      BY <2>1, <2>2 DEF Stream, s_axis_tvalid, s_axis_tlast
  <1> QED BY <1>1, <1>2

\* Every cycle keeps the stream in order.
LEMMA StreamStep ==
    ASSUME StreamInv, Stream, Offered, s_axis_tready' \in BOOLEAN, worked' \in BOOLEAN,
           s_axis_tready' => worked', full_rate' = full_rate
    PROVE  StreamInv' /\ (proper' => proper)
  <1>1. proper' \in BOOLEAN /\ (proper' => proper /\ Len(pkt') # 1)
    BY DEF Offered, StreamInv
  <1>2. IF pos' = 0 THEN pkt' = <<>> ELSE pkt' \in Packet /\ pos' \in 1 .. Len(pkt')
    <2>1. CASE pos = 0
      <3>1. (pkt' = pkt /\ pos' = pos) \/ (pkt' \in Packet /\ pos' = 1)
        BY <2>1 DEF Stream, s_axis_tvalid
      <3>2. CASE pkt' = pkt /\ pos' = pos
        BY <2>1, <3>2 DEF StreamInv
      <3>3. CASE pkt' \in Packet /\ pos' = 1
        BY <3>3, PacketSeq
      <3> QED BY <3>1, <3>2, <3>3
    <2>2. CASE pos # 0
      <3>1. pkt \in Packet /\ pos \in 1 .. Len(pkt)
        BY <2>2 DEF StreamInv
      <3>2. Len(pkt) \in Nat
        BY <3>1, PacketSeq
      <3>3. \/ pkt' = pkt /\ pos' = pos
            \/ pkt' = <<>> /\ pos' = 0
            \/ pkt' = pkt /\ pos' = pos + 1 /\ pos # Len(pkt)
        BY <3>1, <3>2 DEF Stream, s_axis_tvalid, s_axis_tlast
      <3> QED
        BY <3>1, <3>2, <3>3
    <2> QED BY <2>1, <2>2
  <1> QED
    BY <1>1, <1>2 DEF StreamInv

\* The FSM's registers hold Booleans.
LEMMA WorkType ==
    ASSUME StreamInv, Work
    PROVE  s_axis_tready' \in BOOLEAN
  BY DEF StreamInv, Work, STATE_IDLE, STATE_PREAMBLE, STATE_PAYLOAD, STATE_LAST, STATE_PAD,
         STATE_FCS, STATE_WAIT_END, STATE_IFG, tready_after_last

\* When the wire is active the history of the gap stands still, and it counts the
\* silent byte times from the first on.
LEMMA GapCounts ==
    ASSUME GapInv, Observe, gmii'.en \in BOOLEAN
    PROVE  /\ gap' \in 0 .. IfgDelay
           /\ gmii'.en => gap' = gap
           /\ ~gmii'.en /\ gmii.en => gap' = 1
           /\ ~gmii'.en /\ ~gmii.en => gap' = IfgDelay \/ gap' = gap + 1
           /\ gap = IfgDelay /\ ~gmii.en => gap' = gap
  BY MacTxAssumption DEF GapInv, Observe

\* The symbols of the FSM as the wire shows them.
LEMMA WireOf ==
    /\ Silence.en = FALSE /\ Silence.er = FALSE
    /\ \A x : Symbol(x).en = TRUE /\ Symbol(x).er = FALSE /\ Symbol(x).txd = x
              /\ [Symbol(x) EXCEPT !.er = TRUE].en = TRUE
  BY DEF Silence, Symbol

\* Every working cycle keeps the count of the gap.
LEMMA GapStep ==
    ASSUME GapInv, Work, Observe
    PROVE  GapInv'
  <1> USE DEF Silent, Sending
  <1>1. CASE state = "IDLE"
    <2>1. STATE_IDLE /\ gap = IfgDelay /\ ~gmii.en /\ gmii.en \in BOOLEAN
      BY <1>1 DEF Work, GapInv
    <2>2. CASE s_axis_tvalid
      <3>1. state' = "PREAMBLE" /\ gmii'.en = TRUE /\ ifg' = ifg
        BY <2>1, <2>2, WireOf DEF STATE_IDLE
      <3>2. gap' = gap
        BY <3>1, GapCounts
      <3> QED
        BY <2>1, <3>1, <3>2 DEF GapInv
    <2>3. CASE ~s_axis_tvalid
      <3>1. state' = "IDLE" /\ gmii'.en = FALSE /\ ifg' = ifg
        BY <2>1, <2>3, WireOf DEF STATE_IDLE
      <3>2. gap' = gap
        BY <2>1, <3>1, GapCounts
      <3> QED
        BY <2>1, <3>1, <3>2 DEF GapInv
    <2> QED BY <2>2, <2>3
  <1>2. CASE state \in {"PREAMBLE", "PAYLOAD", "LAST", "PAD", "FCS"}
    <2>1. /\ state' \in Sending \cup {"WAIT_END", "IFG"}
          /\ gmii'.en = TRUE
          /\ (ifg' = ifg /\ state' # "IFG") \/ ifg' = 0
      <3>1. CASE state = "PREAMBLE"
        BY <3>1, WireOf DEF Work, STATE_PREAMBLE
      <3>2. CASE state = "PAYLOAD"
        BY <3>2, WireOf DEF Work, STATE_PAYLOAD
      <3>3. CASE state = "LAST"
        BY <3>3, WireOf DEF Work, STATE_LAST
      <3>4. CASE state = "PAD"
        BY <3>4, WireOf DEF Work, STATE_PAD
      <3>5. CASE state = "FCS"
        BY <3>5, WireOf DEF Work, STATE_FCS
      <3> QED BY <1>2, <3>1, <3>2, <3>3, <3>4, <3>5
    <2>2. gmii.en /\ gap = IfgDelay
      BY <1>2 DEF GapInv
    <2>3. gap' = gap
      BY <2>1, GapCounts
    <2>4. 0 \in 0 .. IfgDelay - 1
      BY MacTxAssumption
    <2> QED
      BY <2>1, <2>2, <2>3, <2>4 DEF GapInv
  <1>3. CASE state = "WAIT_END"
    <2>1. /\ gmii'.en = FALSE
          /\ (state' = "IFG" /\ ifg' = 0) \/ (state' = "WAIT_END" /\ ifg' = ifg)
      BY <1>3, WireOf DEF Work, STATE_WAIT_END
    <2>2. gap' \in 0 .. IfgDelay
      BY <2>1, GapCounts
    <2>3. ifg' \in 0 .. IfgDelay - 1 /\ (state' = "IFG" => gap' >= ifg')
      <3>1. 0 \in 0 .. IfgDelay - 1
        BY MacTxAssumption
      <3>2. gap' >= 0
        BY <2>2
      <3> QED
        BY <2>1, <3>1, <3>2 DEF GapInv
    <2> QED
      BY <2>1, <2>2, <2>3 DEF GapInv
  <1>4. CASE state = "IFG"
    <2>1. /\ gmii'.en = FALSE
          /\ IF ifg_goes_on THEN state' = "IFG" /\ ifg' = ifg_next ELSE state' = "IDLE" /\ ifg' = ifg
      BY <1>4, WireOf DEF Work, STATE_IFG
    <2>2. /\ gap' \in 0 .. IfgDelay /\ ifg \in 0 .. IfgDelay - 1 /\ gap \in 0 .. IfgDelay
          /\ gmii.en => ifg = 0 /\ gap' = 1
          /\ ~gmii.en => gap >= ifg /\ (gap' = IfgDelay \/ gap' = gap + 1)
      BY <1>4, <2>1, GapCounts DEF GapInv
    <2>3. gap' >= ifg + 1
      BY <2>2, MacTxAssumption
    <2>4. CASE ifg_goes_on
      <3>1. ifg' = ifg + 1 /\ ifg' \in 0 .. IfgDelay - 1
        BY <2>1, <2>2, <2>4, MacTxAssumption DEF ifg_goes_on, ifg_next
      <3> QED
        BY <2>1, <2>2, <2>3, <2>4, <3>1 DEF GapInv
    <2>5. CASE ~ifg_goes_on
      <3>1. gap' = IfgDelay
        BY <2>2, <2>3, <2>5, MacTxAssumption DEF ifg_goes_on
      <3> QED
        BY <2>1, <2>2, <2>5, <3>1 DEF GapInv
    <2> QED BY <2>4, <2>5
  <1> QED
    BY <1>1, <1>2, <1>3, <1>4 DEF GapInv

-----------------------------------------------------------------------------
(* The frame. *)

\* The next symbol of the frame goes out.
LEMMA Emits ==
    ASSUME current \in Packet, NEW k \in Nat, k + 1 <= Len(Encode(current)),
           frame = SubSeq(Encode(current), 1, k), gmii.en = TRUE, Observe,
           gmii' = Symbol(Encode(current)[k + 1])
    PROVE  frame' = SubSeq(Encode(current), 1, k + 1)
  <1> DEFINE E == Encode(current)
  <1>1. E \in Seq(FrameSymbols)
    BY EncodeFields
  <1>2. gmii'.en = TRUE /\ gmii'.txd = E[k + 1]
    BY WireOf
  <1>3. frame' = Append(frame, E[k + 1])
    BY <1>2 DEF Observe
  <1> HIDE DEF E
  <1>4. Append(SubSeq(E, 1, k), E[k + 1]) = SubSeq(E, 1, k + 1)
    BY <1>1, PrefixGrows DEF E
  <1> QED
    BY <1>3, <1>4 DEF E

\* frame_ptr does not wrap while it counts symbols.
LEMMA PtrCounts ==
    ASSUME frame_ptr \in Nat, frame_ptr + 1 < PtrRange
    PROVE  frame_ptr_inc = frame_ptr + 1
  <1>1. \A x, r \in Nat : x < r => x % r = x
    OBVIOUS
  <1> QED
    BY <1>1, MacTxAssumption DEF frame_ptr_inc

\* A byte of the padded packet goes out and into the check.
LEMMA DataStep ==
    ASSUME current \in Packet, InData, gmii.en = TRUE, Observe, gmii' = Symbol(s_tdata),
           crc' = Append(crc, s_tdata)
    PROVE  /\ frame_ptr \in Nat /\ frame_ptr + 1 <= Len(Padded(current))
           /\ Len(Padded(current)) \in Nat
           /\ PreambleLen + 1 + (frame_ptr + 1) <= Len(Encode(current))
           /\ frame' = SubSeq(Encode(current), 1, PreambleLen + 1 + (frame_ptr + 1))
           /\ crc' = SubSeq(Padded(current), 1, frame_ptr + 1)
  <1> DEFINE E == Encode(current)
             P == Padded(current)
             h == PreambleLen + 1
  <1>1. P \in Seq(Data) /\ Len(P) \in Nat
    BY PaddedFields
  <1>2. /\ Len(E) = h + Len(P) + FcsLen
        /\ \A k \in 1 .. Len(P) : E[h + k] = P[k]
    BY EncodeFields
  <1>3. frame_ptr \in Nat /\ frame_ptr + 1 <= Len(P) /\ h \in Nat /\ FcsLen \in Nat
    BY <1>1, MacTxAssumption DEF InData
  <1>4. s_tdata = P[frame_ptr + 1] /\ frame = SubSeq(E, 1, h + frame_ptr)
        /\ crc = SubSeq(P, 1, frame_ptr)
    BY DEF InData, Sent
  <1> HIDE DEF E, P, h
  <1>5. h + frame_ptr \in Nat /\ h + frame_ptr + 1 <= Len(E) /\ frame_ptr + 1 \in 1 .. Len(P)
        /\ h + (frame_ptr + 1) = h + frame_ptr + 1
    BY <1>1, <1>2, <1>3
  <1>6. E[h + frame_ptr + 1] = s_tdata
    BY <1>2, <1>4, <1>5
  <1>7. frame' = SubSeq(E, 1, h + frame_ptr + 1)
    BY <1>4, <1>5, <1>6, Emits DEF E
  <1>8. crc' = SubSeq(P, 1, frame_ptr + 1)
    BY <1>1, <1>3, <1>4, PrefixGrows
  <1> QED
    BY <1>1, <1>3, <1>5, <1>7, <1>8 DEF E, P, h

\* The next packet is not touched between frames.
LEMMA NoneTakenStep ==
    ASSUME StreamInv, Stream, ~s_axis_tready, pos <= 1
    PROVE  pos' <= 1
  <1>1. pos \in Nat
    BY StreamMoves
  <1>2. CASE pos = 0
    BY <1>2, StreamMoves
  <1>3. CASE pos > 0
    BY <1>3, StreamMoves
  <1> QED BY <1>1, <1>2, <1>3

\* A frame begins when the FSM finds a packet.
LEMMA IdleStep ==
    ASSUME StreamInv, GapInv, SendInv, Working, proper, proper', state = "IDLE"
    PROVE  SendInv'
  <1>1. STATE_IDLE /\ Stream /\ Observe
    BY DEF Working, Work
  <1>2. NoneTaken /\ ~gmii.en /\ s_axis_tready' = FALSE
    BY <1>1 DEF SendInv, STATE_IDLE, GapInv
  <1>3. CASE ~s_axis_tvalid
    <2>1. state' = "IDLE" /\ gmii'.en = FALSE /\ gmii'.er = FALSE
      BY <1>1, <1>3, WireOf DEF STATE_IDLE
    <2>2. frame' = frame /\ current' = current
      BY <1>1, <1>3, <2>1 DEF Observe
    <2>3. pos' <= 1
      BY <1>1, <1>2, NoneTakenStep DEF NoneTaken
    <2> QED
      BY <1>2, <2>1, <2>2, <2>3 DEF SendInv, NoneTaken
  <1>4. CASE s_axis_tvalid
    <2>1. state' = "PREAMBLE" /\ frame_ptr' = 1 /\ gmii'.er = FALSE /\ gmii'.en = TRUE
          /\ gmii'.txd = Pre /\ crc' = <<>>
      BY <1>1, <1>4, WireOf DEF STATE_IDLE
    <2>2. pos = 1 /\ pkt \in Packet /\ Len(pkt) >= 2
      <3>1. pos \in Nat /\ pos > 0
        BY <1>1, <1>4, StreamMoves DEF s_axis_tvalid
      <3>2. pkt \in Packet /\ Len(pkt) # 1
        BY <3>1 DEF StreamInv
      <3>3. Len(pkt) \in Nat /\ 1 <= Len(pkt)
        BY <3>2, PacketSeq
      <3>4. pos = 1
        BY <1>2, <3>1 DEF NoneTaken
      <3> DEFINE n == Len(pkt)
      <3>5. n \in Nat /\ 1 <= n /\ n # 1
        BY <3>2, <3>3
      <3> HIDE DEF n
      <3>6. n >= 2
        BY <3>5
      <3> QED
        BY <3>2, <3>4, <3>6 DEF n
    <2>3. pkt' = pkt /\ pos' = 1
      BY <1>1, <1>2, <2>2, StreamMoves DEF NoneTaken
    <2>4. current' = pkt /\ frame' = <<Pre>>
      BY <1>1, <1>2, <1>4, <2>1 DEF Observe
    <2>5. <<Pre>> = SubSeq(Encode(pkt), 1, 1) /\ 1 <= Len(Encode(pkt))
      <3> DEFINE E == Encode(pkt)
      <3>1. E \in Seq(FrameSymbols) /\ Len(E) = PreambleLen + 1 + Len(Padded(pkt)) + FcsLen
            /\ \A k \in 1 .. PreambleLen : E[k] = Pre
        BY <2>2, EncodeFields
      <3>2. Len(Padded(pkt)) \in Nat
        BY <2>2, PaddedFields
      <3> HIDE DEF E
      <3>3. 1 <= Len(E) /\ E[1] = Pre
        BY <3>1, <3>2, MacTxAssumption
      <3>4. SubSeq(E, 1, 1) = <<E[1]>>
        <4>1. Append(SubSeq(E, 1, 0), E[0 + 1]) = SubSeq(E, 1, 0 + 1)
          BY <3>1, <3>3, PrefixGrows
        <4>2. SubSeq(E, 1, 0) = <<>>
          BY <3>1
        <4>3. Append(<<>>, E[1]) = <<E[1]>>
          OBVIOUS
        <4>4. 0 + 1 = 1
          OBVIOUS
        <4> QED
          BY <4>1, <4>2, <4>3, <4>4, Zenon
      <3> QED
        BY <3>3, <3>4 DEF E
    <2>6. PreambleLen \in Nat /\ 1 < PreambleLen /\ 1 \in 1 .. PreambleLen
      BY MacTxAssumption
    <2>7. Sent(frame_ptr)'
      BY <2>1, <2>4, <2>5 DEF Sent
    <2>8. InPreamble'
      BY <1>2, <2>1, <2>3, <2>4, <2>6, <2>7 DEF InPreamble
    <2> QED
      BY <2>1, <2>2, <2>4, <2>8 DEF SendInv
  <1> QED BY <1>3, <1>4

\* What the states of a frame have in common.
LEMMA InFrame ==
    ASSUME StreamInv, GapInv, SendInv, Working, state \in Sending
    PROVE  /\ current \in Packet /\ Len(current) >= 2 /\ current' = current
           /\ gmii.en = TRUE /\ Stream /\ Observe /\ full_rate' = full_rate
           /\ full_rate \in BOOLEAN /\ s_axis_tready \in BOOLEAN
           /\ ~full_rate => ~s_axis_tready
  <1>1. state # "IDLE"
    BY DEF Sending
  <1> QED
    BY <1>1 DEF SendInv, GapInv, Working, StreamInv, Observe

\* The preamble; the first byte of the packet is taken before its end.
LEMMA PreambleStep ==
    ASSUME StreamInv, GapInv, SendInv, Working, state = "PREAMBLE"
    PROVE  SendInv'
  <1> DEFINE E == Encode(current)
             P == Padded(current)
             h == PreambleLen + 1
  <1>1. STATE_PREAMBLE /\ InPreamble
    BY DEF Working, Work, SendInv
  <1>2. /\ current \in Packet /\ Len(current) >= 2 /\ current' = current
        /\ gmii.en = TRUE /\ Stream /\ Observe /\ full_rate' = full_rate
        /\ full_rate \in BOOLEAN /\ s_axis_tready \in BOOLEAN
        /\ ~full_rate => ~s_axis_tready
    BY InFrame DEF Sending
  <1>3. Len(current) \in Nat /\ Len(P) \in Nat /\ P \in Seq(Data)
        /\ Len(P) >= Len(current) /\ P[1] = Payload(current[1])
    <2>1. Len(current) \in Nat
      BY <1>2, PacketSeq
    <2>2. /\ Len(P) = IF Len(current) < MinPayload THEN MinPayload ELSE Len(current)
          /\ P \in Seq(Data)
          /\ \A k \in 1 .. Len(P) : P[k] = IF k <= Len(current) THEN Payload(current[k])
                                           ELSE Payload(Zero)
      BY <1>2, PaddedFields
    <2> HIDE DEF P
    <2>3. Len(P) \in Nat /\ Len(P) >= Len(current) /\ 1 \in 1 .. Len(P) /\ 1 <= Len(current)
      BY <1>2, <2>1, <2>2, MacTxAssumption
    <2> QED
      BY <2>1, <2>2, <2>3
  <1>4. /\ Len(E) = h + Len(P) + FcsLen
        /\ \A k \in 1 .. PreambleLen : E[k] = Pre
        /\ E[h] = Sfd
    BY <1>2, EncodeFields
  <1>5. PreambleLen \in Nat /\ PreambleLen < PtrRange /\ FcsLen \in Nat /\ PtrRange \in Nat
    BY MacTxAssumption
  <1>6. /\ frame_ptr \in 1 .. PreambleLen /\ frame_ptr \in Nat
        /\ frame = SubSeq(E, 1, frame_ptr) /\ pkt = current
    BY <1>1, <1>5 DEF InPreamble, Sent
  <1> HIDE DEF E, P
  <1>7. CASE frame_ptr < PreambleLen
    <2>1. frame_ptr' = frame_ptr + 1
      BY <1>1, <1>5, <1>6, <1>7, PtrCounts DEF STATE_PREAMBLE
    <2>2. /\ state' = "PREAMBLE" /\ gmii' = Symbol(Pre) /\ crc' = <<>>
          /\ s_axis_tready' = (frame_ptr = PreambleLen - 1)
          /\ s_tdata' = IF frame_ptr = PreambleLen - 1 THEN s_axis_tdata ELSE s_tdata
      BY <1>1, <1>5, <1>6, <1>7 DEF STATE_PREAMBLE
    <2>3. pos = 1 /\ ~s_axis_tready
      BY <1>1, <1>7 DEF InPreamble
    <2>4. pos' = 1 /\ pkt' = pkt
      BY <1>2, <2>3, StreamMoves
    <2>5. s_axis_tdata = P[1]
      BY <1>3, <1>6, <2>3 DEF s_axis_tdata, s_axis_tvalid
    <2>6. frame_ptr + 1 <= Len(E) /\ E[frame_ptr + 1] = Pre /\ frame_ptr + 1 \in 1 .. PreambleLen
      BY <1>3, <1>4, <1>5, <1>6, <1>7
    <2>7. frame' = SubSeq(E, 1, frame_ptr + 1)
      BY <1>2, <1>6, <2>2, <2>6, Emits DEF E
    <2>8. Sent(frame_ptr)'
      BY <1>2, <2>1, <2>6, <2>7 DEF Sent, E
    <2>9. IF frame_ptr' < PreambleLen THEN pos' = 1 /\ ~s_axis_tready'
          ELSE /\ pos' = IF s_axis_tready' THEN 1 ELSE 2
               /\ full_rate' => s_axis_tready'
               /\ s_tdata' = P[1]
      <3>1. CASE frame_ptr = PreambleLen - 1
        <4>1. ~(frame_ptr' < PreambleLen)
          BY <1>5, <1>6, <2>1, <3>1
        <4>2. s_axis_tready' = TRUE /\ s_tdata' = P[1]
          BY <2>2, <2>5, <3>1
        <4> QED
          BY <2>4, <4>1, <4>2
      <3>2. CASE frame_ptr # PreambleLen - 1
        <4>1. frame_ptr' < PreambleLen
          BY <1>5, <1>6, <1>7, <2>1, <3>2
        <4>2. s_axis_tready' = FALSE
          BY <2>2, <3>2
        <4> QED
          BY <2>4, <4>1, <4>2
      <3> QED BY <3>1, <3>2
    <2>10. InPreamble'
      BY <1>2, <1>6, <2>1, <2>2, <2>4, <2>6, <2>8, <2>9 DEF InPreamble, P
    <2>11. gmii'.er = FALSE
      BY <2>2, WireOf
    <2> QED
      BY <1>2, <2>2, <2>10, <2>11 DEF SendInv
  <1>8. CASE frame_ptr = PreambleLen
    <2>1. /\ state' = "PAYLOAD" /\ frame_ptr' = 0 /\ gmii' = Symbol(Sfd) /\ crc' = <<>>
          /\ s_axis_tready' = s_axis_tready
          /\ s_tdata' = IF s_axis_tready THEN s_axis_tdata ELSE s_tdata
      BY <1>1, <1>8 DEF STATE_PREAMBLE
    <2>2. /\ pos = IF s_axis_tready THEN 1 ELSE 2
          /\ full_rate => s_axis_tready
          /\ s_tdata = P[1]
      BY <1>1, <1>5, <1>8 DEF InPreamble, P
    <2>3. s_tdata' = P[1]
      BY <1>3, <1>6, <2>1, <2>2 DEF s_axis_tdata, s_axis_tvalid
    <2>4. pos' = 2 /\ pkt' = pkt
      <3>1. CASE s_axis_tready
        <4>1. pos = 1
          BY <2>2, <3>1
        <4>2. 1 # Len(pkt)
          BY <1>2, <1>6
        <4> QED
          BY <1>2, <3>1, <4>1, <4>2, StreamMoves
      <3>2. CASE ~s_axis_tready
        BY <1>2, <2>2, <3>2, StreamMoves
      <3> QED BY <3>1, <3>2
    <2>5. h <= Len(E) /\ E[PreambleLen + 1] = Sfd
      BY <1>3, <1>4, <1>5
    <2>6. frame' = SubSeq(E, 1, h)
      BY <1>2, <1>5, <1>6, <1>8, <2>1, <2>5, Emits DEF E
    <2>7. PreambleLen + 1 + 0 = h /\ 0 \in 0 .. Len(P) - 1
      BY <1>2, <1>3, <1>5
    <2>8. SubSeq(P, 1, 0) = <<>>
      BY <1>3
    <2>9. InData'
      <3>1. Sent(PreambleLen + 1 + frame_ptr)'
        <4>1. PreambleLen + 1 + frame_ptr' = h
          BY <2>1, <2>7
        <4> QED
          BY <1>2, <2>5, <2>6, <4>1 DEF Sent, E
      <3>2. 0 + 1 = 1
        OBVIOUS
      <3> QED
        BY <1>2, <2>1, <2>3, <2>7, <2>8, <3>1, <3>2 DEF InData, P
    <2>10. InPayload'
      <3>1. 0 + 2 <= Len(current) /\ 0 + 2 = 2
        BY <1>2, <1>3
      <3>2. s_axis_tready' = full_rate'
        BY <1>2, <2>1, <2>2
      <3>3. pos' = frame_ptr' + IF s_axis_tready' /\ ~full_rate' THEN 1 ELSE 2
        BY <2>1, <2>4, <3>2
      <3> QED
        BY <1>2, <1>6, <2>1, <2>4, <2>9, <3>1, <3>2, <3>3 DEF InPayload
    <2>11. gmii'.er = FALSE
      BY <2>1, WireOf
    <2> QED
      BY <1>2, <2>1, <2>10, <2>11 DEF SendInv
  <1> QED
    BY <1>5, <1>6, <1>7, <1>8

\* A byte of the packet goes out and the next one is fetched from the stream.
LEMMA PayloadStep ==
    ASSUME StreamInv, GapInv, SendInv, Working, state = "PAYLOAD"
    PROVE  SendInv'
  <1> DEFINE E == Encode(current)
             P == Padded(current)
             n == Len(current)
             N == Len(P)
             f == frame_ptr
  <1>1. STATE_PAYLOAD /\ InPayload
    BY DEF Working, Work, SendInv
  <1>2. /\ current \in Packet /\ n >= 2 /\ current' = current
        /\ gmii.en = TRUE /\ Stream /\ Observe /\ full_rate' = full_rate
        /\ full_rate \in BOOLEAN /\ s_axis_tready \in BOOLEAN
        /\ ~full_rate => ~s_axis_tready
    BY InFrame DEF Sending
  <1>3. n \in Nat /\ n <= MaxLen /\ N = IF n < MinPayload THEN MinPayload ELSE n
    BY <1>2, PacketSeq, PaddedFields
  <1>4. \A k \in 1 .. N : P[k] = IF k <= n THEN Payload(current[k]) ELSE Payload(Zero)
    BY <1>2, PaddedFields
  <1>5. pkt = current /\ f + 2 <= n /\ InData /\ f \in 0 .. N - 1
        /\ (full_rate => s_axis_tready)
        /\ pos = f + IF s_axis_tready /\ ~full_rate THEN 1 ELSE 2
    BY <1>1 DEF InPayload, InData
  <1> HIDE DEF E, P, n, N
  <1>6. f \in Nat /\ N \in Nat /\ n <= N /\ f + 1 < PtrRange /\ f + 2 \in 1 .. N
    BY <1>3, <1>5, MacTxAssumption
  <1>7. pos = f + 2 /\ pos > 0 /\ s_axis_tvalid
    <2>1. pos = f + 2
      BY <1>2, <1>5
    <2> QED
      BY <1>6, <2>1 DEF s_axis_tvalid
  <1>8. s_axis_tdata = P[f + 2]
    <2>1. s_axis_tdata = Payload(current[f + 2])
      BY <1>5, <1>7 DEF s_axis_tdata
    <2> QED
      BY <1>4, <1>5, <1>6, <2>1
  <1>9. /\ crc' = Append(crc, s_tdata) /\ s_tdata' = P[f + 2] /\ gmii' = Symbol(s_tdata)
        /\ state' = IF s_axis_tlast THEN "LAST" ELSE "PAYLOAD"
        /\ s_axis_tready' = IF s_axis_tlast THEN ~s_axis_tready ELSE TRUE
        /\ frame_ptr' = f + 1
    BY <1>1, <1>6, <1>7, <1>8, PtrCounts DEF STATE_PAYLOAD, tready_after_last
  <1>10. /\ PreambleLen + 1 + (f + 1) <= Len(E)
         /\ frame' = SubSeq(E, 1, PreambleLen + 1 + (f + 1))
         /\ crc' = SubSeq(P, 1, f + 1)
    BY <1>2, <1>5, <1>9, DataStep DEF E, P
  <1>11. InData'
    <2>1. f + 1 \in 0 .. N - 1 /\ f + 1 + 1 = f + 2
      BY <1>6
    <2> QED
      BY <1>2, <1>9, <1>10, <2>1 DEF InData, Sent, E, P, N
  <1>12. gmii'.er = FALSE
    BY <1>9, WireOf
  <1>13. CASE s_axis_tlast
    <2>1. pos = n /\ pos = Len(pkt) /\ state' = "LAST" /\ s_axis_tready' = ~s_axis_tready
      BY <1>5, <1>9, <1>13 DEF s_axis_tlast, n
    <2>2. frame_ptr' + 1 = n
      BY <1>6, <1>7, <1>9, <2>1
    <2>3. CASE s_axis_tready
      <3>1. pos' = 0 /\ s_axis_tready' = FALSE
        BY <1>2, <1>7, <2>1, <2>3, StreamMoves
      <3>2. InLast'
        BY <1>2, <1>11, <2>2, <3>1 DEF InLast, n
      <3> QED
        BY <1>2, <1>12, <2>1, <3>2 DEF SendInv, n
    <2>4. CASE ~s_axis_tready
      <3>1. pos' = pos /\ pkt' = pkt /\ s_axis_tready' = TRUE /\ full_rate' = FALSE
        BY <1>2, <1>5, <1>7, <2>1, <2>4, StreamMoves
      <3>2. InLast'
        BY <1>2, <1>5, <1>11, <2>1, <2>2, <3>1 DEF InLast, n
      <3> QED
        BY <1>2, <1>12, <2>1, <3>2 DEF SendInv, n
    <2> QED BY <2>3, <2>4
  <1>14. CASE ~s_axis_tlast
    <2>1. pos # Len(pkt) /\ state' = "PAYLOAD" /\ s_axis_tready' = TRUE
      BY <1>9, <1>14 DEF s_axis_tlast
    <2>2. f + 1 + 2 <= n
      <3>1. f + 2 # n
        BY <1>5, <1>7, <2>1 DEF n
      <3> QED
        BY <1>3, <1>5, <1>6, <3>1
    <2>3. pkt' = pkt /\ pos' = f + 1 + IF full_rate THEN 2 ELSE 1
      <3>1. CASE s_axis_tready
        <4>1. full_rate /\ pkt' = pkt /\ pos' = pos + 1
          BY <1>2, <1>7, <2>1, <3>1, StreamMoves
        <4> QED
          BY <1>6, <1>7, <4>1
      <3>2. CASE ~s_axis_tready
        <4>1. ~full_rate /\ pkt' = pkt /\ pos' = pos
          BY <1>2, <1>5, <1>7, <3>2, StreamMoves
        <4> QED
          BY <1>6, <1>7, <4>1
      <3> QED BY <3>1, <3>2
    <2>4. pos' = frame_ptr' + IF s_axis_tready' /\ ~full_rate' THEN 1 ELSE 2
      BY <1>2, <1>9, <2>1, <2>3
    <2>5. InPayload'
      BY <1>2, <1>5, <1>9, <1>11, <2>1, <2>2, <2>3, <2>4 DEF InPayload, n
    <2> QED
      BY <1>2, <1>12, <2>1, <2>5 DEF SendInv, n
  <1> QED BY <1>13, <1>14

\* The last symbol of the payload, whether of the packet or of its padding, is followed
\* by padding or by the check.
LEMMA TailStep ==
    ASSUME StreamInv, GapInv, SendInv, Working, state \in {"LAST", "PAD"}
    PROVE  SendInv'
  <1> DEFINE E == Encode(current)
             P == Padded(current)
             n == Len(current)
             N == Len(P)
             f == frame_ptr
  <1>1. /\ current \in Packet /\ n >= 2 /\ current' = current
        /\ gmii.en = TRUE /\ Stream /\ Observe
        /\ ~full_rate => ~s_axis_tready
    BY InFrame DEF Sending
  <1>2. n \in Nat /\ N = IF n < MinPayload THEN MinPayload ELSE n
    BY <1>1, PacketSeq, PaddedFields
  <1>3. /\ \A k \in 1 .. N : P[k] = IF k <= n THEN Payload(current[k]) ELSE Payload(Zero)
        /\ P \in Seq(Data)
    BY <1>1, PaddedFields
  <1>4. InData /\ f \in 0 .. N - 1 /\ f + 1 >= n /\ ~s_axis_tready /\ pos <= 1
        /\ (state = "LAST" => f + 1 = n) /\ (state = "PAD" => f >= n)
    <2>1. CASE state = "LAST"
      BY <1>1, <2>1 DEF SendInv, InLast, InData
    <2>2. CASE state = "PAD"
      <3>1. InPad
        BY <2>2 DEF SendInv
      <3>2. f \in 0 .. N - 1 /\ n <= f
        BY <3>1 DEF InPad, InData
      <3> HIDE DEF n, N
      <3>3. N \in Nat
        BY <1>2, MacTxAssumption
      <3>4. f + 1 >= n /\ f >= n
        BY <1>2, <3>2, <3>3
      <3> QED
        BY <2>2, <3>1, <3>2, <3>4 DEF InPad, NoneTaken
    <2> QED BY <2>1, <2>2
  <1> HIDE DEF E, P, n, N
  <1>5. f \in Nat /\ N \in Nat
    BY <1>2, <1>4, MacTxAssumption
  <1>6. state = "PAD" => s_tdata = Payload(Zero)
    <2> SUFFICES ASSUME state = "PAD" PROVE s_tdata = Payload(Zero)
      OBVIOUS
    <2>1. f + 1 \in 1 .. N /\ ~(f + 1 <= n)
      BY <1>2, <1>4, <1>5
    <2>2. s_tdata = P[f + 1]
      BY <1>4 DEF InData, P
    <2> QED
      BY <1>3, <2>1, <2>2
  <1>7. /\ crc' = Append(crc, s_tdata) /\ gmii' = Symbol(s_tdata) /\ s_axis_tready' = FALSE
        /\ IF needs_padding
           THEN state' = "PAD" /\ frame_ptr' = frame_ptr_inc /\ s_tdata' = Payload(Zero)
           ELSE state' = "FCS" /\ frame_ptr' = 0
    <2>1. CASE state = "LAST"
      BY <2>1 DEF Working, Work, STATE_LAST
    <2>2. CASE state = "PAD"
      BY <1>6, <2>2 DEF Working, Work, STATE_PAD
    <2> QED BY <2>1, <2>2
  <1>8. /\ PreambleLen + 1 + (f + 1) <= Len(E)
        /\ frame' = SubSeq(E, 1, PreambleLen + 1 + (f + 1))
        /\ crc' = SubSeq(P, 1, f + 1)
    BY <1>1, <1>4, <1>7, DataStep DEF E, P
  <1>9. gmii'.er = FALSE
    BY <1>7, WireOf
  <1>10. pos' <= 1
    BY <1>1, <1>4, NoneTakenStep
  <1>11. CASE needs_padding
    <2>1. f < MinPayload - 1
      BY <1>11 DEF needs_padding
    <2>2. f + 1 < N /\ f + 1 < PtrRange /\ f + 2 \in 1 .. N /\ ~(f + 2 <= n)
          /\ f + 1 \in 0 .. N - 1 /\ f + 1 + 1 = f + 2
      BY <1>2, <1>4, <1>5, <2>1, MacTxAssumption
    <2>3. state' = "PAD" /\ frame_ptr' = f + 1 /\ s_tdata' = Payload(Zero)
      BY <1>5, <1>7, <1>11, <2>2, PtrCounts
    <2>4. P[f + 2] = Payload(Zero)
      BY <1>3, <2>2
    <2>5. InData'
      BY <1>1, <1>8, <2>2, <2>3, <2>4 DEF InData, Sent, E, P, N
    <2>6. n <= f + 1
      BY <1>2, <1>4, <1>5
    <2>7. InPad'
      BY <1>1, <1>7, <1>10, <2>3, <2>5, <2>6 DEF InPad, NoneTaken, n
    <2> QED
      BY <1>1, <1>9, <2>3, <2>7 DEF SendInv, n
  <1>12. CASE ~needs_padding
    <2>1. ~(f < MinPayload - 1)
      BY <1>12 DEF needs_padding
    <2>2. f + 1 = N
      BY <1>2, <1>4, <1>5, <2>1, MacTxAssumption
    <2>3. state' = "FCS" /\ frame_ptr' = 0
      BY <1>7, <1>12
    <2>4. crc' = P
      BY <1>3, <1>8, <2>2, WholePrefix DEF N
    <2>5. PreambleLen + 1 + N + 0 = PreambleLen + 1 + (f + 1) /\ 0 \in 0 .. FcsLen - 1
      BY <1>5, <2>2, MacTxAssumption
    <2>6. Sent(PreambleLen + 1 + Len(Padded(current)) + frame_ptr)'
      <3>1. PreambleLen + 1 + Len(Padded(current')) + frame_ptr' = PreambleLen + 1 + (f + 1)
        BY <1>1, <2>3, <2>5 DEF N, P
      <3> QED
        BY <1>1, <1>8, <3>1 DEF Sent, E
    <2>7. InFcs'
      BY <1>1, <1>7, <1>10, <2>3, <2>4, <2>5, <2>6 DEF InFcs, NoneTaken, P
    <2> QED
      BY <1>1, <1>9, <2>3, <2>7 DEF SendInv, n
  <1> QED BY <1>11, <1>12

\* The bytes of the check go out; after the last one the frame is whole.
LEMMA FcsStep ==
    ASSUME StreamInv, GapInv, SendInv, Working, state = "FCS"
    PROVE  SendInv'
  <1> DEFINE E == Encode(current)
             P == Padded(current)
             N == Len(P)
             f == frame_ptr
             b == PreambleLen + 1 + N
  <1>1. /\ current \in Packet /\ Len(current) >= 2 /\ current' = current
        /\ gmii.en = TRUE /\ Stream /\ Observe
    BY InFrame DEF Sending
  <1>2. STATE_FCS /\ InFcs
    BY DEF Working, Work, SendInv
  <1>3. /\ E \in Seq(FrameSymbols) /\ Len(E) = b + FcsLen
        /\ \A k \in 1 .. FcsLen : E[b + k] = Fcs(P, k - 1)
    BY <1>1, EncodeFields
  <1>4. N \in Nat
    BY <1>1, PaddedFields
  <1>5. /\ f \in 0 .. FcsLen - 1 /\ crc = P /\ frame = SubSeq(E, 1, b + f)
        /\ ~s_axis_tready /\ pos <= 1
    BY <1>2 DEF InFcs, Sent, NoneTaken
  <1> HIDE DEF E, P, N
  <1>6. /\ b \in Nat /\ f \in Nat /\ b + f \in Nat /\ b + f + 1 = b + (f + 1)
        /\ f + 1 \in 1 .. FcsLen /\ (f + 1) - 1 = f /\ f + 1 < PtrRange
        /\ b + f + 1 <= Len(E)
    BY <1>3, <1>4, <1>5, MacTxAssumption
  <1>7. /\ gmii' = Symbol(Fcs(P, f)) /\ s_axis_tready' = FALSE /\ crc' = crc
        /\ IF f < FcsLen - 1 THEN state' = "FCS" /\ frame_ptr' = frame_ptr_inc
           ELSE state' = "IFG"
    BY <1>2, <1>5 DEF STATE_FCS
  <1> HIDE DEF b
  <1>8. E[b + f + 1] = Fcs(P, f)
    BY <1>3, <1>6
  <1>9. frame' = SubSeq(E, 1, b + f + 1)
    BY <1>1, <1>5, <1>6, <1>7, <1>8, Emits DEF E
  <1>10. gmii'.er = FALSE
    BY <1>7, WireOf
  <1>11. pos' <= 1
    BY <1>1, <1>5, NoneTakenStep
  <1>12. CASE f < FcsLen - 1
    <2>1. state' = "FCS" /\ frame_ptr' = f + 1 /\ f + 1 \in 0 .. FcsLen - 1
      BY <1>5, <1>6, <1>7, <1>12, PtrCounts, MacTxAssumption
    <2>2. Sent(PreambleLen + 1 + Len(Padded(current)) + frame_ptr)'
      <3>1. PreambleLen + 1 + Len(Padded(current')) + frame_ptr' = b + f + 1
        BY <1>1, <1>6, <2>1 DEF b, N, P
      <3> QED
        BY <1>1, <1>6, <1>9, <3>1 DEF Sent, E
    <2>3. InFcs'
      BY <1>1, <1>5, <1>7, <1>11, <2>1, <2>2 DEF InFcs, NoneTaken, P
    <2> QED
      BY <1>1, <1>10, <2>1, <2>3 DEF SendInv
  <1>13. CASE ~(f < FcsLen - 1)
    <2>1. state' = "IFG" /\ b + f + 1 = Len(E)
      BY <1>3, <1>5, <1>6, <1>7, <1>13, MacTxAssumption
    <2>2. frame' = E
      BY <1>3, <1>9, <2>1, WholePrefix
    <2> QED
      BY <1>1, <1>7, <1>10, <1>11, <2>1, <2>2 DEF SendInv, NoneTaken, E
  <1> QED BY <1>12, <1>13

\* The gap leaves the frame as it is.
LEMMA IfgStep ==
    ASSUME StreamInv, GapInv, SendInv, Working, state = "IFG"
    PROVE  SendInv'
  <1>1. STATE_IFG /\ Stream /\ Observe
    BY DEF Working, Work
  <1>2. /\ NoneTaken /\ frame = Encode(current)
        /\ current \in Packet /\ Len(current) >= 2
    BY DEF SendInv
  <1>3. gmii'.en = FALSE /\ gmii'.er = FALSE /\ s_axis_tready' = FALSE /\ state' \in {"IFG", "IDLE"}
    BY <1>1, WireOf DEF STATE_IFG
  <1>4. frame' = frame /\ current' = current
    BY <1>1, <1>3 DEF Observe
  <1>5. pos' <= 1
    BY <1>1, <1>2, NoneTakenStep DEF NoneTaken
  <1> QED
    BY <1>2, <1>3, <1>4, <1>5 DEF SendInv, NoneTaken

\* In a cycle in which the FSM rests, the byte that ready was high for is taken.
LEMMA HoldStep ==
    ASSUME StreamInv, GapInv, SendInv, Holding
    PROVE  SendInv'
  <1>1. /\ UNCHANGED <<fsm, gmii, full_rate, current, frame>> /\ Stream
        /\ s_axis_tready' = FALSE /\ full_rate = FALSE
    BY DEF Holding, Hold, StreamInv
  <1>2. UNCHANGED <<state, frame_ptr, s_tdata, crc, gmii, full_rate, current, frame>>
    BY <1>1 DEF fsm
  <1>3. InData => InData'
    BY <1>2 DEF InData, Sent
  <1>4. NoneTaken => NoneTaken'
    BY <1>1, NoneTakenStep DEF NoneTaken
  <1>5. s_axis_tready \in BOOLEAN /\ pos \in Nat /\ Len(pkt) \in Nat
    BY <1>1, StreamMoves DEF StreamInv
  <1>6. ASSUME state = "PREAMBLE" PROVE InPreamble'
    <2>1. InPreamble
      BY <1>6 DEF SendInv
    <2>2. Sent(frame_ptr)'
      BY <1>2, <2>1 DEF InPreamble, Sent
    <2>3. CASE frame_ptr < PreambleLen
      <3>1. pos = 1 /\ ~s_axis_tready
        BY <2>1, <2>3 DEF InPreamble
      <3>2. pos' = 1 /\ pkt' = pkt
        BY <1>1, <3>1, StreamMoves
      <3> QED
        BY <1>1, <1>2, <2>1, <2>2, <2>3, <3>2 DEF InPreamble
    <2>4. CASE ~(frame_ptr < PreambleLen)
      <3>1. pos = (IF s_axis_tready THEN 1 ELSE 2) /\ s_tdata = Padded(current)[1] /\ pkt = current
        BY <2>1, <2>4 DEF InPreamble
      <3>2. pos' = 2 /\ pkt' = pkt
        <4>1. CASE s_axis_tready
          <5>1. pos = 1
            BY <3>1, <4>1
          <5>2. 1 # Len(pkt)
            BY <1>6, <3>1 DEF SendInv
          <5> QED
            BY <1>1, <4>1, <5>1, <5>2, StreamMoves
        <4>2. CASE ~s_axis_tready
          BY <1>1, <3>1, <4>2, StreamMoves
        <4> QED BY <4>1, <4>2
      <3>3. ~(frame_ptr' < PreambleLen) /\ ~full_rate' /\ s_tdata' = Padded(current')[1]
        BY <1>1, <1>2, <2>4, <3>1
      <3> QED
        BY <1>1, <1>2, <2>1, <2>2, <3>2, <3>3 DEF InPreamble
    <2> QED BY <2>3, <2>4
  <1>7. ASSUME state = "PAYLOAD" PROVE InPayload'
    <2>1. InPayload
      BY <1>7 DEF SendInv
    <2>2. pkt = current /\ frame_ptr + 2 <= Len(current) /\ InData
          /\ pos = frame_ptr + IF s_axis_tready THEN 1 ELSE 2
      BY <1>1, <2>1 DEF InPayload
    <2>3. frame_ptr \in Nat
      <3>1. Len(Padded(current)) \in Nat
        BY <1>7, PaddedFields DEF SendInv
      <3>2. frame_ptr \in 0 .. Len(Padded(current)) - 1
        BY <2>2 DEF InData
      <3> QED
        BY <3>1, <3>2
    <2>4. pos' = frame_ptr + 2 /\ pkt' = pkt
      <3>1. CASE s_axis_tready
        <4>1. pos = frame_ptr + 1 /\ pos > 0
          BY <2>2, <2>3, <3>1
        <4> DEFINE n == Len(pkt)
        <4>2. n \in Nat /\ frame_ptr + 2 <= n
          BY <1>5, <2>2
        <4> HIDE DEF n
        <4>3. pos # n
          BY <2>3, <4>1, <4>2
        <4>4. pos' = pos + 1 /\ pkt' = pkt
          BY <1>1, <3>1, <4>1, <4>3, StreamMoves DEF n
        <4> QED
          BY <2>3, <4>1, <4>4
      <3>2. CASE ~s_axis_tready
        <4>1. pos = frame_ptr + 2 /\ pos > 0
          BY <2>2, <2>3, <3>2
        <4> QED
          BY <1>1, <3>2, <4>1, StreamMoves
      <3> QED BY <3>1, <3>2
    <2>5. pos' = frame_ptr' + IF s_axis_tready' /\ ~full_rate' THEN 1 ELSE 2
      BY <1>1, <1>2, <2>4
    <2> QED
      BY <1>1, <1>2, <1>3, <2>2, <2>4, <2>5 DEF InPayload
  <1>8. ASSUME state = "LAST" PROVE InLast'
    <2>1. InLast
      BY <1>8 DEF SendInv
    <2>2. frame_ptr + 1 = Len(current) /\ InData
      BY <2>1 DEF InLast
    <2>3. pos' <= 1
      <3>1. CASE s_axis_tready
        <4>1. pkt = current /\ pos = Len(pkt)
          BY <2>1, <3>1 DEF InLast
        <4>2. pos > 0
          <5>1. Len(current) >= 2
            BY <1>8 DEF SendInv
          <5> QED
            BY <1>5, <4>1, <5>1
        <4>3. pos' = 0
          BY <1>1, <3>1, <4>1, <4>2, StreamMoves
        <4> QED
          BY <4>3
      <3>2. CASE ~s_axis_tready
        BY <1>1, <2>1, <3>2, NoneTakenStep DEF InLast
      <3> QED BY <3>1, <3>2
    <2> QED
      BY <1>1, <1>2, <1>3, <2>2, <2>3 DEF InLast
  <1>9. ASSUME state = "PAD" PROVE InPad'
    BY <1>2, <1>3, <1>4, <1>9 DEF SendInv, InPad
  <1>10. ASSUME state = "FCS" PROVE InFcs'
    BY <1>2, <1>4, <1>10 DEF SendInv, InFcs, Sent
  <1> QED
    BY <1>2, <1>4, <1>6, <1>7, <1>8, <1>9, <1>10 DEF SendInv

-----------------------------------------------------------------------------
(* The theorems. *)

\* The invariant holds after reset.
LEMMA MacTxInit == Init => MacTxInv
  <1> SUFFICES ASSUME Init PROVE MacTxInv
    OBVIOUS
  <1>1. StreamInv
    <2>1. Len(<<>>) # 1
      OBVIOUS
    <2> QED
      BY <2>1 DEF Init, StreamInv
  <1>2. GapInv
    <2>1. IfgDelay \in 0 .. IfgDelay /\ 0 \in 0 .. IfgDelay - 1
      BY MacTxAssumption
    <2> QED
      BY <2>1, WireOf DEF Init, GapInv, Silent, Sending
  <1>3. SendInv
    BY WireOf DEF Init, SendInv, NoneTaken
  <1> QED
    BY <1>1, <1>2, <1>3 DEF MacTxInv

\* Every cycle preserves it.
LEMMA MacTxNext ==
    ASSUME MacTxInv, Next
    PROVE  MacTxInv'
  <1>1. StreamInv /\ GapInv /\ (proper => SendInv)
    BY DEF MacTxInv
  <1>2. CASE Working
    <2>1. StreamInv' /\ (proper' => proper)
      <3>1. s_axis_tready' \in BOOLEAN
        BY <1>1, <1>2, WorkType DEF Working
      <3> QED
        BY <1>1, <1>2, <3>1, StreamStep DEF Working
    <2>2. GapInv'
      BY <1>1, <1>2, GapStep DEF Working
    <2>3. ASSUME proper' PROVE SendInv'
      <3>1. proper /\ SendInv
        BY <1>1, <2>1, <2>3
      <3>2. state \in {"IDLE", "PREAMBLE", "PAYLOAD", "LAST", "PAD", "FCS", "IFG"}
        BY <1>1, <3>1 DEF GapInv, Silent, Sending, SendInv
      <3> QED
        BY <1>1, <1>2, <2>3, <3>1, <3>2, IdleStep, PreambleStep, PayloadStep, TailStep, FcsStep,
           IfgStep
    <2> QED
      BY <2>1, <2>2, <2>3 DEF MacTxInv
  <1>3. CASE Holding
    <2>1. StreamInv' /\ (proper' => proper)
      BY <1>1, <1>3, StreamStep DEF Holding, Hold
    <2>2. GapInv'
      BY <1>1, <1>3 DEF Holding, Hold, fsm, GapInv
    <2>3. ASSUME proper' PROVE SendInv'
      BY <1>1, <1>3, <2>1, <2>3, HoldStep
    <2> QED
      BY <2>1, <2>2, <2>3 DEF MacTxInv
  <1> QED
    BY <1>2, <1>3 DEF Next

\* The inductive invariant holds in every state.
THEOREM MacTxInvariant == Spec => []MacTxInv
  <1>1. MacTxInv /\ [Next]_vars => MacTxInv'
    <2> SUFFICES ASSUME MacTxInv, [Next]_vars PROVE MacTxInv'
      OBVIOUS
    <2>1. CASE Next
      BY <2>1, MacTxNext
    <2>2. CASE UNCHANGED vars
      <3>1. StreamInv' /\ GapInv'
        BY <2>2 DEF vars, fsm, MacTxInv, StreamInv, GapInv
      <3>2. SendInv => SendInv'
        BY <2>2 DEF vars, fsm, SendInv, NoneTaken, InPreamble, InPayload, InLast, InPad, InFcs,
                    InData, Sent
      <3> QED
        BY <2>2, <3>1, <3>2 DEF vars, MacTxInv
    <2> QED BY <2>1, <2>2
  <1> QED
    BY <1>1, MacTxInit, PTL DEF Spec

\* Two frames are never closer than IfgDelay, whole or failed, at every speed.
THEOREM MacKeepsGap == Spec => []GapKept
  <1>1. MacTxInv => GapKept
    BY DEF MacTxInv, GapInv, GapKept
  <1> QED
    BY <1>1, MacTxInvariant, PTL

\* No byte of the next packet is taken while a frame is being sent.
THEOREM MacTakesOnlyCurrent == Spec => []TakesOnlyCurrent
  <1>1. MacTxInv => TakesOnlyCurrent
    <2> SUFFICES ASSUME MacTxInv, proper, pos > 1
                 PROVE  pkt = current /\ state \in {"PREAMBLE", "PAYLOAD", "LAST"}
      BY DEF TakesOnlyCurrent
    <2>1. SendInv /\ StreamInv /\ state \in Silent \cup Sending
      BY DEF MacTxInv, GapInv
    <2>2. ~(pos <= 1)
      <3>1. pos \in Nat
        <4>1. CASE pos = 0
          BY <4>1
        <4>2. CASE pos # 0
          BY <2>1, <4>2 DEF StreamInv
        <4> QED BY <4>1, <4>2
      <3> QED
        BY <3>1
    <2>3. CASE state \in {"IDLE", "WAIT_END", "PAD", "FCS", "IFG"}
      BY <2>1, <2>2, <2>3 DEF SendInv, InPad, InFcs, NoneTaken
    <2>4. CASE state \in {"PREAMBLE", "PAYLOAD", "LAST"}
      BY <2>1, <2>2, <2>4 DEF SendInv, InPreamble, InPayload, InLast
    <2> QED
      BY <2>1, <2>3, <2>4 DEF Silent, Sending
  <1> QED
    BY <1>1, MacTxInvariant, PTL

\* A prefix of the frame knows its own length.
LEMMA SentIsPrefix ==
    ASSUME current \in Packet, NEW k \in Nat, Sent(k)
    PROVE  frame = SubSeq(Encode(current), 1, Len(frame))
  <1>1. Encode(current) \in Seq(FrameSymbols)
    BY EncodeFields
  <1>2. Len(SubSeq(Encode(current), 1, k)) = k
    BY <1>1 DEF Sent
  <1> QED
    BY <1>2 DEF Sent

\* What is on the wire is the frame of the packet, at every speed and for every
\* length, padding and check included.
THEOREM MacFrameCorrect == Spec => []FrameCorrect
  <1>1. MacTxInv => FrameCorrect
    <2> SUFFICES ASSUME MacTxInv, proper
                 PROVE  /\ ~gmii.er
                        /\ gmii.en => frame = SubSeq(Encode(current), 1, Len(frame))
                        /\ ~gmii.en /\ frame # <<>> => frame = Encode(current)
      BY DEF FrameCorrect
    <2>1. SendInv /\ GapInv /\ ~gmii.er
      BY DEF MacTxInv, SendInv
    <2>2. CASE state = "IDLE"
      BY <2>1, <2>2 DEF SendInv, GapInv
    <2>3. CASE state = "IFG"
      <3>1. current \in Packet /\ frame = Encode(current)
        BY <2>1, <2>3 DEF SendInv
      <3>2. Encode(current) \in Seq(FrameSymbols)
        BY <3>1, EncodeFields
      <3> QED
        BY <2>1, <3>1, <3>2, WholePrefix
    <2>4. CASE state \in Sending
      <3>1. current \in Packet /\ gmii.en
        BY <2>1, <2>4 DEF SendInv, GapInv, Sending
      <3>2. Len(Padded(current)) \in Nat /\ PreambleLen \in Nat /\ FcsLen \in Nat
        BY <3>1, PaddedFields, MacTxAssumption
      <3>3. \E k \in Nat : Sent(k)
        <4> DEFINE N == Len(Padded(current))
        <4>1. CASE state = "PREAMBLE"
          <5>1. frame_ptr \in Nat /\ Sent(frame_ptr)
            BY <2>1, <3>2, <4>1 DEF SendInv, InPreamble
          <5> QED
            BY <5>1
        <4>2. CASE state \in {"PAYLOAD", "LAST", "PAD"}
          <5>1. frame_ptr \in 0 .. N - 1 /\ Sent(PreambleLen + 1 + frame_ptr)
            BY <2>1, <4>2 DEF SendInv, InPayload, InLast, InPad, InData
          <5> HIDE DEF N
          <5>2. PreambleLen + 1 + frame_ptr \in Nat
            BY <3>2, <5>1 DEF N
          <5> QED
            BY <5>1, <5>2
        <4>3. CASE state = "FCS"
          <5>1. frame_ptr \in 0 .. FcsLen - 1 /\ Sent(PreambleLen + 1 + N + frame_ptr)
            BY <2>1, <4>3 DEF SendInv, InFcs
          <5> HIDE DEF N
          <5>2. PreambleLen + 1 + N + frame_ptr \in Nat
            BY <3>2, <5>1 DEF N
          <5> QED
            BY <5>1, <5>2
        <4> QED
          BY <2>4, <4>1, <4>2, <4>3 DEF Sending
      <3> QED
        BY <2>1, <3>1, <3>3, SentIsPrefix
    <2> QED
      BY <2>1, <2>2, <2>3, <2>4 DEF GapInv, Silent, SendInv
  <1> QED
    BY <1>1, MacTxInvariant, PTL

-----------------------------------------------------------------------------
(* The MAC receiver: symbols and bursts. *)

\* A symbol in the delay line moves on with its valid flag cleared or kept.
LEMMA InputMoves ==
    ASSUME NEW x, IsInput(x), NEW v \in BOOLEAN
    PROVE  LET y == [x EXCEPT !.dv = x.dv /\ v]
           IN  /\ IsInput(y)
               /\ y.dv = (x.dv /\ v) /\ y.er = x.er /\ y.v = x.v
               /\ v => y = x
  <1> DEFINE y == [x EXCEPT !.dv = x.dv /\ v]
  <1>1. x = [dv |-> x.dv, er |-> x.er, v |-> x.v] /\ x.dv \in BOOLEAN /\ x.er \in BOOLEAN
    BY DEF IsInput
  <1>2. y = [dv |-> x.dv /\ v, er |-> x.er, v |-> x.v]
    BY <1>1
  <1> HIDE DEF y
  <1>3. y.dv = (x.dv /\ v) /\ y.er = x.er /\ y.v = x.v
    BY <1>2
  <1>4. IsInput(y)
    BY <1>1, <1>2, <1>3, Zenon DEF IsInput
  <1>5. ASSUME v PROVE y = x
    BY <1>1, <1>2, <1>5, Zenon
  <1> QED BY <1>3, <1>4, <1>5 DEF y

\* What a sequence and a longer one consist of.
LEMMA Grows ==
    ASSUME NEW s, IsSequence(s), NEW x
    PROVE  /\ Len(s) \in Nat
           /\ IsSequence(Append(s, x)) /\ Append(s, x) # <<>>
           /\ Len(Append(s, x)) = Len(s) + 1
           /\ \A k \in 1 .. Len(s) : Append(s, x)[k] = s[k]
           /\ Append(s, x)[Len(s) + 1] = x
  <1> DEFINE S == {s[k] : k \in 1 .. Len(s)} \cup {x}
             t == Append(s, x)
  <1>1. s \in Seq(S) /\ x \in S
    BY DEF IsSequence
  <1> HIDE DEF S
  <1>2. /\ Len(s) \in Nat /\ t \in Seq(S) /\ Len(t) = Len(s) + 1
        /\ \A k \in 1 .. Len(s) : t[k] = s[k]
        /\ t[Len(s) + 1] = x
    BY <1>1
  <1> HIDE DEF t
  <1>3. t # <<>>
    BY <1>2
  <1>4. IsSequence(t)
    BY <1>2 DEF IsSequence
  <1> QED BY <1>2, <1>3, <1>4 DEF t

\* The empty sequence, and the length of any other.
LEMMA Empty ==
    /\ IsSequence(<<>>) /\ Len(<<>>) = 0
    /\ \A s : IsSequence(s) => Len(s) \in Nat /\ (Len(s) = 0 <=> s = <<>>)
  <1>1. IsSequence(<<>>) /\ Len(<<>>) = 0
    BY DEF IsSequence
  <1>2. ASSUME NEW s, IsSequence(s) PROVE Len(s) \in Nat /\ (Len(s) = 0 <=> s = <<>>)
    BY <1>2 DEF IsSequence
  <1> QED BY <1>1, <1>2

\* A function on 1 .. n is a sequence.
LEMMA FunctionSequence ==
    ASSUME NEW n \in Nat, NEW f, f = [k \in 1 .. n |-> f[k]]
    PROVE  IsSequence(f) /\ Len(f) = n
  <1> DEFINE S == {f[k] : k \in 1 .. n}
  <1>1. f \in [1 .. n -> S]
    OBVIOUS
  <1> HIDE DEF S
  <1>2. f \in Seq(S) /\ Len(f) = n
    BY <1>1
  <1> QED BY <1>2 DEF IsSequence, S

\* If there is a start-of-frame delimiter there is a first one, and Start is it.
LEMMA StartFirst ==
    ASSUME NEW b, IsSequence(b), HasFrame(b)
    PROVE  /\ Start(b) \in 1 .. Len(b) /\ IsSfd(b[Start(b)])
           /\ \A j \in 1 .. Start(b) - 1 : ~IsSfd(b[j])
  <1> DEFINE n == Len(b)
             T == {i \in 1 .. n : IsSfd(b[i])}
  <1>1. n \in Nat /\ T # {} /\ T \subseteq Nat
    BY Empty DEF HasFrame
  <1>2. PICK i \in T : \A y \in T : ~(<<y, i>> \in OpToRel(<, Nat))
    <2> HIDE DEF T
    <2> QED BY <1>1, WFMin, NatLessThanWellFounded
  <1>3. \A y \in T : ~(y < i)
    BY <1>1, <1>2 DEF OpToRel
  <1>4. i \in 1 .. n /\ IsSfd(b[i]) /\ \A j \in 1 .. i - 1 : ~IsSfd(b[j])
    BY <1>1, <1>3
  <1>5. \E k \in 1 .. Len(b) : IsSfd(b[k]) /\ \A j \in 1 .. k - 1 : ~IsSfd(b[j])
    BY <1>4
  <1> QED BY <1>5 DEF Start

\* There is only one first delimiter.
LEMMA StartIs ==
    ASSUME NEW b, IsSequence(b), NEW i \in 1 .. Len(b), IsSfd(b[i]),
           \A j \in 1 .. i - 1 : ~IsSfd(b[j])
    PROVE  HasFrame(b) /\ Start(b) = i
  <1>1. HasFrame(b)
    BY DEF HasFrame
  <1> DEFINE n == Len(b)
             s == Start(b)
  <1>2. /\ n \in Nat /\ i \in 1 .. n /\ s \in 1 .. n /\ IsSfd(b[s])
        /\ \A j \in 1 .. s - 1 : ~IsSfd(b[j])
    BY <1>1, StartFirst, Empty
  <1> HIDE DEF n, s
  <1>3. s = i
    BY <1>2
  <1> QED BY <1>1, <1>3 DEF s

\* A frame keeps its start while it grows.
LEMMA StartKept ==
    ASSUME NEW b, IsSequence(b), HasFrame(b), NEW x
    PROVE  HasFrame(Append(b, x)) /\ Start(Append(b, x)) = Start(b)
  <1> DEFINE n == Len(b)
             s == Start(b)
             c == Append(b, x)
  <1>1. /\ n \in Nat /\ s \in 1 .. n /\ IsSfd(b[s]) /\ \A j \in 1 .. s - 1 : ~IsSfd(b[j])
    BY StartFirst, Empty
  <1>2. IsSequence(c) /\ Len(c) = n + 1 /\ \A k \in 1 .. n : c[k] = b[k]
    BY Grows
  <1> HIDE DEF n, s, c
  <1>3. s \in 1 .. Len(c) /\ IsSfd(c[s]) /\ \A j \in 1 .. s - 1 : ~IsSfd(c[j])
    BY <1>1, <1>2
  <1> QED BY <1>2, <1>3, StartIs DEF c, s

\* The frame of a burst, and the symbols it begins with.
LEMMA FrameFields ==
    ASSUME NEW b, IsSequence(b), HasFrame(b)
    PROVE  /\ Len(Frame(b)) = Len(b) - Start(b) /\ Len(b) - Start(b) \in Nat
           /\ \A k \in 1 .. Len(b) - Start(b) :
                 Frame(b)[k] = b[Start(b) + k] /\ Symbols(Frame(b))[k] = b[Start(b) + k].v
           /\ IsSequence(Symbols(Frame(b))) /\ Len(Symbols(Frame(b))) = Len(b) - Start(b)
           /\ \A n \in 0 .. Len(b) - Start(b) :
                 SubSeq(Symbols(Frame(b)), 1, n) = Begins(b, n)
  <1> DEFINE m == Len(b)
             s == Start(b)
             f == Frame(b)
             y == Symbols(f)
  <1>1. m \in Nat /\ s \in 1 .. m /\ m - s \in Nat
    BY StartFirst, Empty
  <1>2. Len(f) = m - s /\ \A k \in 1 .. m - s : f[k] = b[s + k]
    <2> DEFINE S == {b[k] : k \in 1 .. Len(b)}
    <2>1. b \in Seq(S)
      BY DEF IsSequence
    <2> HIDE DEF S
    <2>2. s + 1 \in 1 .. m + 1 /\ m <= Len(b)
      BY <1>1
    <2>3. f = SubSeq(b, s + 1, m)
      BY DEF Frame
    <2> HIDE DEF s, f
    <2> QED BY <1>1, <2>1, <2>2, <2>3
  <1> HIDE DEF m, s, f
  <1>3. y = [k \in 1 .. m - s |-> b[s + k].v]
    BY <1>1, <1>2 DEF Symbols
  <1> HIDE DEF y
  <1>4. y = [k \in 1 .. m - s |-> y[k]]
    BY <1>3, Zenon
  <1>5. IsSequence(y) /\ Len(y) = m - s
    BY <1>1, <1>4, FunctionSequence
  <1>6. ASSUME NEW n \in 0 .. m - s
        PROVE  SubSeq(y, 1, n) = Begins(b, n)
    <2> DEFINE S == {y[k] : k \in 1 .. Len(y)}
    <2>1. y \in Seq(S)
      BY <1>5 DEF IsSequence
    <2> HIDE DEF S
    <2>2. SubSeq(y, 1, n) = [k \in 1 .. n |-> y[k]]
      BY <2>1, <1>1, <1>5, <1>6
    <2>3. \A k \in 1 .. n : y[k] = b[s + k].v
      BY <1>1, <1>3
    <2> QED BY <2>2, <2>3, Zenon DEF Begins, s
  <1>7. \A k \in 1 .. m - s : y[k] = b[s + k].v
    BY <1>3
  <1> QED BY <1>1, <1>2, <1>5, <1>6, <1>7 DEF m, s, f, y

\* A good frame, told by the symbols of the burst; and its content.
LEMMA GoodFrameFields ==
    ASSUME NEW b, IsSequence(b), HasFrame(b), Len(b) - Start(b) > FcsLen
    PROVE  /\ GoodFrame(b) <=>
                 /\ \A k \in Start(b) + 1 .. Len(b) : ~b[k].er
                 /\ \A k \in 0 .. FcsLen - 1 : b[Len(b) - k].v =
                        Fcs(Begins(b, Len(b) - Start(b) - FcsLen), FcsLen - 1 - k)
           /\ Content(b) = Begins(b, Len(b) - Start(b) - FcsLen)
  <1> DEFINE m == Len(b)
             s == Start(b)
             f == Frame(b)
             y == Symbols(f)
             c == Begins(b, m - s - FcsLen)
             z == SubSeq(y, m - s - FcsLen + 1, m - s)
  <1>1. m \in Nat /\ s \in 1 .. m /\ m - s > FcsLen /\ FcsLen \in Nat /\ FcsLen > 0
    BY StartFirst, Empty, MacRxAssumption
  <1>2. /\ Len(f) = m - s /\ IsSequence(y) /\ Len(y) = m - s
        /\ \A k \in 1 .. m - s : f[k] = b[s + k] /\ y[k] = b[s + k].v
        /\ \A n \in 0 .. m - s : SubSeq(y, 1, n) = Begins(b, n)
    BY FrameFields
  <1>3. Content(b) = c
    <2>1. Content(b) = SubSeq(y, 1, Len(f) - FcsLen)
      BY DEF Content
    <2>2. m - s - FcsLen \in 0 .. m - s
      BY <1>1
    <2> HIDE DEF m, s, f, y
    <2> QED BY <1>2, <2>1, <2>2 DEF m, s
  <1>4. GoodFrame(b) <=> (\A k \in 1 .. m - s : ~f[k].er) /\ z = FcsOf(c)
    <2>1. GoodFrame(b) <=>
             /\ Len(f) > FcsLen
             /\ \A k \in 1 .. Len(f) : ~f[k].er
             /\ SubSeq(y, Len(f) - FcsLen + 1, Len(f)) = FcsOf(Content(b))
      BY DEF GoodFrame
    <2> HIDE DEF m, s, f, y, c
    <2> QED BY <1>1, <1>2, <1>3, <2>1
  <1> HIDE DEF m, s, f, y, c
  <1>5. z = [k \in 1 .. FcsLen |-> y[m - s - FcsLen + k]]
    <2> DEFINE S == {y[k] : k \in 1 .. Len(y)}
    <2>1. y \in Seq(S)
      BY <1>2 DEF IsSequence
    <2> HIDE DEF S
    <2> DEFINE l == m - s - FcsLen + 1
               h == m - s
    <2>2. /\ l \in 1 .. Len(y) + 1 /\ h \in l - 1 .. Len(y) /\ h - l + 1 = FcsLen
          /\ \A k \in 1 .. FcsLen : l + k - 1 = m - s - FcsLen + k
      BY <1>1, <1>2
    <2> HIDE DEF l, h
    <2>3. /\ z \in Seq(S) /\ Len(z) = h - l + 1
          /\ \A k \in 1 .. h - l + 1 : z[k] = y[l + k - 1]
      BY <2>1, <2>2, SubSeqProperties DEF l, h
    <2> HIDE DEF z
    <2>4. z = [k \in 1 .. FcsLen |-> z[k]]
      BY <2>2, <2>3
    <2>5. \A k \in 1 .. FcsLen : z[k] = y[m - s - FcsLen + k]
      BY <2>2, <2>3
    <2> QED BY <2>4, <2>5, Zenon
  <1> HIDE DEF z
  <1>6. z = FcsOf(c) <=> \A k \in 1 .. FcsLen : y[m - s - FcsLen + k] = Fcs(c, k - 1)
    BY <1>5 DEF FcsOf
  <1>7. (\A k \in 1 .. FcsLen : y[m - s - FcsLen + k] = Fcs(c, k - 1))
        <=> \A k \in 0 .. FcsLen - 1 : b[m - k].v = Fcs(c, FcsLen - 1 - k)
    <2>1. ASSUME \A k \in 1 .. FcsLen : y[m - s - FcsLen + k] = Fcs(c, k - 1),
                 NEW k \in 0 .. FcsLen - 1
          PROVE  b[m - k].v = Fcs(c, FcsLen - 1 - k)
      <3>1. PICK j \in 1 .. FcsLen : j = FcsLen - k
        BY <1>1
      <3>2. y[m - s - FcsLen + j] = Fcs(c, j - 1)
        BY <2>1
      <3>3. j - 1 = FcsLen - 1 - k /\ m - s - FcsLen + j \in 1 .. m - s
            /\ s + (m - s - FcsLen + j) = m - k
        BY <1>1, <3>1
      <3> QED BY <1>2, <3>2, <3>3
    <2>2. ASSUME \A k \in 0 .. FcsLen - 1 : b[m - k].v = Fcs(c, FcsLen - 1 - k),
                 NEW k \in 1 .. FcsLen
          PROVE  y[m - s - FcsLen + k] = Fcs(c, k - 1)
      <3>1. PICK j \in 0 .. FcsLen - 1 : j = FcsLen - k
        BY <1>1
      <3>2. b[m - j].v = Fcs(c, FcsLen - 1 - j)
        BY <2>2
      <3>3. FcsLen - 1 - j = k - 1 /\ m - s - FcsLen + k \in 1 .. m - s
            /\ s + (m - s - FcsLen + k) = m - j
        BY <1>1, <3>1
      <3> QED BY <1>2, <3>2, <3>3
    <2> QED BY <2>1, <2>2
  <1>8. (\A k \in 1 .. m - s : ~f[k].er) <=> \A k \in s + 1 .. m : ~b[k].er
    <2>1. ASSUME \A k \in 1 .. m - s : ~f[k].er, NEW k \in s + 1 .. m PROVE ~b[k].er
      <3>1. k - s \in 1 .. m - s /\ s + (k - s) = k
        BY <1>1
      <3> QED BY <1>2, <2>1, <3>1
    <2>2. ASSUME \A k \in s + 1 .. m : ~b[k].er, NEW k \in 1 .. m - s PROVE ~f[k].er
      <3>1. s + k \in s + 1 .. m
        BY <1>1
      <3> QED BY <1>2, <2>2, <3>1
    <2> QED BY <2>1, <2>2
  <1> QED BY <1>3, <1>4, <1>6, <1>7, <1>8 DEF m, s, c

\* A burst without a frame longer than its check is not good.
LEMMA ShortIsBad ==
    ASSUME NEW b, IsSequence(b), HasFrame(b) => Len(b) - Start(b) <= FcsLen
    PROVE  ~GoodFrame(b)
  <1> SUFFICES ASSUME GoodFrame(b) PROVE FALSE
    OBVIOUS
  <1>1. HasFrame(b) /\ Len(Frame(b)) > FcsLen
    BY DEF GoodFrame
  <1> DEFINE m == Len(b)
             s == Start(b)
  <1>2. Len(Frame(b)) = m - s /\ m \in Nat /\ s \in 1 .. m /\ m - s <= FcsLen /\ FcsLen \in Nat
    BY <1>1, FrameFields, StartFirst, Empty, MacRxAssumption
  <1> HIDE DEF m, s
  <1> QED BY <1>1, <1>2

\* The beginning of a frame grows by its next symbol, and does not change when the
\* burst goes on.
LEMMA BeginsGrows ==
    ASSUME NEW b, IsSequence(b), HasFrame(b), NEW n \in Nat, Start(b) + n + 1 <= Len(b)
    PROVE  /\ IsSequence(Begins(b, n)) /\ Len(Begins(b, n)) = n
           /\ Append(Begins(b, n), b[Start(b) + n + 1].v) = Begins(b, n + 1)
           /\ \A x : Begins(Append(b, x), n) = Begins(b, n)
  <1> DEFINE m == Len(b)
             s == Start(b)
             p == Begins(b, n)
             q == Begins(b, n + 1)
  <1>1. m \in Nat /\ s \in 1 .. m /\ s + n + 1 <= m
    BY StartFirst, Empty
  <1>2. p = [k \in 1 .. n |-> b[s + k].v] /\ q = [k \in 1 .. n + 1 |-> b[s + k].v]
    BY DEF Begins
  <1> HIDE DEF m, s, p, q
  <1>3. IsSequence(p) /\ Len(p) = n /\ IsSequence(q) /\ Len(q) = n + 1
    <2>1. p = [k \in 1 .. n |-> p[k]] /\ q = [k \in 1 .. n + 1 |-> q[k]]
      BY <1>2, Zenon
    <2> QED BY <1>1, <2>1, FunctionSequence
  <1> DEFINE a == Append(p, b[s + n + 1].v)
  <1>4. /\ IsSequence(a) /\ Len(a) = n + 1 /\ a[n + 1] = b[s + n + 1].v
        /\ \A k \in 1 .. n : a[k] = p[k]
    BY <1>3, Grows
  <1> HIDE DEF a
  <1>5. a = q
    <2>1. \A k \in 1 .. n + 1 : a[k] = q[k]
      <3> TAKE k \in 1 .. n + 1
      <3>1. CASE k = n + 1
        BY <1>1, <1>2, <1>4, <3>1
      <3>2. CASE k \in 1 .. n
        BY <1>1, <1>2, <1>4, <3>2
      <3> QED BY <3>1, <3>2
    <2> DEFINE S == {a[k] : k \in 1 .. Len(a)} \cup {q[k] : k \in 1 .. Len(q)}
    <2>2. a \in Seq(S) /\ q \in Seq(S)
      BY <1>3, <1>4 DEF IsSequence
    <2> HIDE DEF S
    <2> QED BY <1>3, <1>4, <2>1, <2>2, SeqEqual
  <1>6. ASSUME NEW x PROVE Begins(Append(b, x), n) = p
    <2> DEFINE c == Append(b, x)
    <2>1. Start(c) = s /\ \A k \in 1 .. m : c[k] = b[k]
      BY StartKept, Grows DEF s, m
    <2> HIDE DEF c
    <2>2. \A k \in 1 .. n : s + k \in 1 .. m
      BY <1>1
    <2>3. \A k \in 1 .. n : c[s + k].v = b[s + k].v
      BY <2>1, <2>2, Zenon
    <2>4. Begins(c, n) = [k \in 1 .. n |-> c[s + k].v]
      BY <2>1, Zenon DEF Begins
    <2>5. Begins(c, n) = p
      BY <1>2, <2>3, <2>4, Zenon
    <2> QED BY <2>5 DEF c
  <1> QED BY <1>3, <1>5, <1>6 DEF p, q, a, s

\* The beginning of a frame is a prefix of it; the shortest one is empty.
LEMMA BeginsFrame ==
    ASSUME NEW b, IsSequence(b), HasFrame(b), NEW n \in Nat, Start(b) + n <= Len(b)
    PROVE  LET g == Begins(b, n)
           IN  /\ Len(g) <= Len(Frame(b)) /\ g = SubSeq(Symbols(Frame(b)), 1, Len(g))
               /\ n = 0 => g = <<>>
  <1> DEFINE m == Len(b)
             s == Start(b)
             g == Begins(b, n)
  <1>1. m \in Nat /\ s \in 1 .. m /\ s + n <= m
    BY StartFirst, Empty
  <1>2. Len(Frame(b)) = m - s
        /\ \A k \in 0 .. m - s : SubSeq(Symbols(Frame(b)), 1, k) = Begins(b, k)
    BY FrameFields
  <1>3. IsSequence(g) /\ Len(g) = n
    <2>1. g = [k \in 1 .. n |-> b[s + k].v]
      BY DEF Begins
    <2> HIDE DEF g, s
    <2>2. g = [k \in 1 .. n |-> g[k]]
      BY <2>1, Zenon
    <2> QED BY <2>2, FunctionSequence
  <1>4. n = 0 => g = <<>>
    BY <1>3, Empty
  <1>5. g = SubSeq(Symbols(Frame(b)), 1, n)
    <2>1. n \in 0 .. m - s
      <3> HIDE DEF m, s
      <3> QED BY <1>1
    <2> QED BY <1>2, <2>1
  <1> HIDE DEF m, s, g
  <1>6. Len(g) <= Len(Frame(b))
    BY <1>1, <1>2, <1>3
  <1> QED BY <1>3, <1>4, <1>5, <1>6 DEF g

-----------------------------------------------------------------------------
(* The MAC receiver: the delay line. *)

\* What may come from a wire: silence, or a symbol of a burst that keeps its distance.
FromWire(in) ==
    /\ IsInput(in)
    /\ ~in.dv => in = Idle
    /\ in.dv => burst # <<>> \/ silent >= MinGap

\* What the wire of MacRx carries is of this kind.
LEMMA WireIsFromWire ==
    ASSUME NEW in \in Wire
    PROVE  FromWire(in)
  <1>1. IsInput(Idle) /\ Idle.dv = FALSE
    BY DEF Idle, IsInput
  <1>2. CASE in = Idle
    BY <1>1, <1>2 DEF FromWire
  <1>3. CASE in # Idle
    <2> DEFINE V == {Payload(x) : x \in Byte} \cup {Sfd} \cup CheckBytes(burst)
    <2>1. (burst # <<>> \/ silent >= MinGap) /\ in \in [dv : {TRUE}, er : BOOLEAN, v : V]
      BY <1>3 DEF Wire
    <2> HIDE DEF V
    <2>2. IsInput(in) /\ in.dv
      BY <2>1 DEF IsInput
    <2> QED BY <1>1, <2>1, <2>2 DEF FromWire
  <1> QED BY <1>2, <1>3

\* The parts of an input.
LEMMA WireInput ==
    ASSUME NEW in, FromWire(in)
    PROVE  /\ IsInput(in) /\ (~in.dv => in = Idle) /\ Idle.dv = FALSE /\ Idle.v = Pre
           /\ in.dv => burst # <<>> \/ silent >= MinGap
  BY DEF FromWire, Idle

\* The line goes on holding the newest symbols of the burst.
LEMMA LineStep ==
    ASSUME LineInv, NEW in, FromWire(in), DelayLine(in), RxObserve(in)
    PROVE  LineInv' /\ (silent' = 1 <=> ~in.dv /\ burst # <<>>)
  <1> DEFINE m == Len(burst)
  <1>1. /\ IsInput(in) /\ (~in.dv => in = Idle) /\ in.dv \in BOOLEAN
        /\ Idle.dv = FALSE /\ FcsLen \in Nat /\ FcsLen > 0
    <2>1. FcsLen \in Nat /\ FcsLen > 0
      BY MacRxAssumption
    <2>2. IsInput(in) /\ (~in.dv => in = Idle) /\ Idle.dv = FALSE
      BY WireInput, Zenon
    <2>3. in.dv \in BOOLEAN
      BY <2>2, Zenon DEF IsInput
    <2> QED BY <2>1, <2>2, <2>3
  <1>2. /\ IsSequence(burst) /\ m \in Nat /\ (m = 0 <=> burst = <<>>)
        /\ \A k \in 1 .. m : IsInput(burst[k]) /\ burst[k].dv
        /\ DOMAIN d = 0 .. FcsLen /\ \A k \in 0 .. FcsLen : IsInput(d[k])
        /\ \A k \in 0 .. FcsLen : IF k < m THEN d[k] = burst[m - k] ELSE ~d[k].dv
        /\ silent \in Nat /\ (burst = <<>> <=> silent > 0)
    BY Empty DEF LineInv
  <1>3. /\ burst' = IF in.dv THEN Append(burst, in) ELSE <<>>
        /\ silent' = IF in.dv THEN 0 ELSE IF silent < MinGap THEN silent + 1 ELSE silent
    BY DEF RxObserve
  <1>4. DOMAIN d' = 0 .. FcsLen /\ d'[0] = in
    BY <1>1 DEF DelayLine
  <1>5. ASSUME NEW k \in 0 .. FcsLen, k # 0
        PROVE  /\ k - 1 \in 0 .. FcsLen /\ IsInput(d'[k])
               /\ d'[k].dv = (d[k - 1].dv /\ in.dv) /\ (in.dv => d'[k] = d[k - 1])
    <2>1. k - 1 \in 0 .. FcsLen
      BY <1>1, <1>5
    <2>2. d'[k] = [d[k - 1] EXCEPT !.dv = d[k - 1].dv /\ in.dv]
      BY <1>5 DEF DelayLine
    <2> QED BY <1>1, <1>2, <2>1, <2>2, InputMoves
  <1>6. \A k \in 0 .. FcsLen : IsInput(d'[k])
    BY <1>1, <1>4, <1>5
  <1>7. silent' \in Nat /\ (silent' = 1 <=> ~in.dv /\ burst # <<>>)
    BY <1>1, <1>2, <1>3, MacRxAssumption
  <1>8. CASE in.dv
    <2>1. /\ burst' = Append(burst, in) /\ IsSequence(burst') /\ burst' # <<>>
          /\ Len(burst') = m + 1 /\ burst'[m + 1] = in
          /\ \A k \in 1 .. m : burst'[k] = burst[k]
      BY <1>2, <1>3, <1>8, Grows
    <2> HIDE DEF m
    <2>2. \A k \in 1 .. m + 1 : IsInput(burst'[k]) /\ burst'[k].dv
      <3> TAKE k \in 1 .. m + 1
      <3>1. k = m + 1 \/ k \in 1 .. m
        BY <1>2
      <3> QED BY <1>1, <1>2, <1>8, <2>1, <3>1
    <2>3. ASSUME NEW k \in 0 .. FcsLen
          PROVE  IF k < m + 1 THEN d'[k] = burst'[m + 1 - k] ELSE ~d'[k].dv
      <3>1. CASE k = 0
        BY <1>2, <1>4, <2>1, <3>1
      <3>2. CASE k # 0 /\ k < m + 1
        <4>1. k - 1 \in 0 .. FcsLen /\ k - 1 < m /\ d'[k] = d[k - 1]
          BY <1>2, <1>5, <1>8, <3>2
        <4>2. d[k - 1] = burst[m - (k - 1)] /\ m - (k - 1) = m + 1 - k /\ m + 1 - k \in 1 .. m
          BY <1>2, <3>2, <4>1
        <4> QED BY <2>1, <3>2, <4>1, <4>2
      <3>3. CASE ~(k < m + 1)
        <4>1. k # 0 /\ k - 1 \in 0 .. FcsLen /\ ~(k - 1 < m)
          BY <1>1, <1>2, <3>3
        <4>2. ~d[k - 1].dv
          BY <1>2, <4>1
        <4> QED BY <1>5, <3>3, <4>1, <4>2
      <3> QED BY <3>1, <3>2, <3>3
    <2>4. silent' = 0
      BY <1>3, <1>8
    <2>5. /\ \A k \in 1 .. Len(burst') : IsInput(burst'[k]) /\ burst'[k].dv
          /\ \A k \in 0 .. FcsLen :
                IF k < Len(burst') THEN d'[k] = burst'[Len(burst') - k] ELSE ~d'[k].dv
      <3> DEFINE n == Len(burst')
      <3>1. n = m + 1
        BY <2>1
      <3> HIDE DEF n
      <3>2. \A k \in 1 .. n : IsInput(burst'[k]) /\ burst'[k].dv
        BY <2>2, <3>1, Zenon
      <3>3. ASSUME NEW k \in 0 .. FcsLen
            PROVE  IF k < n THEN d'[k] = burst'[n - k] ELSE ~d'[k].dv
        <4>1. IF k < m + 1 THEN d'[k] = burst'[m + 1 - k] ELSE ~d'[k].dv
          BY <2>3
        <4>2. (k < n <=> k < m + 1) /\ n - k = m + 1 - k
          BY <1>2, <3>1
        <4>3. CASE k < m + 1
          BY <4>1, <4>2, <4>3, Zenon
        <4>4. CASE ~(k < m + 1)
          BY <4>1, <4>2, <4>4, Zenon
        <4> QED BY <4>3, <4>4, Zenon
      <3> QED BY <3>2, <3>3 DEF n
    <2>6. ~(silent' > 0)
      BY <2>4
    <2> QED BY <1>4, <1>6, <1>7, <2>1, <2>5, <2>6, Zenon DEF LineInv
  <1>9. CASE ~in.dv
    <2>1. burst' = <<>> /\ IsSequence(burst') /\ Len(burst') = 0 /\ d'[0] = Idle
      BY <1>1, <1>3, <1>4, <1>9, Empty
    <2>2. \A k \in 0 .. FcsLen : ~d'[k].dv
      BY <1>1, <1>4, <1>5, <1>9
    <2>3. silent' > 0
      BY <1>2, <1>3, <1>9, MacRxAssumption
    <2>4. \A k \in 0 .. FcsLen : ~(k < Len(burst'))
      BY <2>1
    <2>5. \A k \in 1 .. Len(burst') : IsInput(burst'[k]) /\ burst'[k].dv
      BY <2>1
    <2> QED BY <1>4, <1>6, <1>7, <2>1, <2>2, <2>3, <2>4, <2>5 DEF LineInv
  <1> QED BY <1>8, <1>9

\* What leaves the line, and how the burst goes on.
LEMMA Leaves ==
    ASSUME LineInv, NEW in, FromWire(in), RxObserve(in)
    PROVE  /\ Len(burst) \in Nat /\ (Len(burst) = 0 <=> burst = <<>>) /\ IsSequence(burst)
           /\ IF FcsLen < Len(burst) THEN Out = burst[Len(burst) - FcsLen] /\ Out.dv ELSE ~Out.dv
           /\ in.dv => /\ burst' = Append(burst, in) /\ IsSequence(burst') /\ burst' # <<>>
                       /\ Len(burst') = Len(burst) + 1 /\ ended' = <<>>
                       /\ \A k \in 1 .. Len(burst) : burst'[k] = burst[k]
           /\ ~in.dv => burst' = <<>> /\ Len(burst') = 0 /\ ended' = burst
           /\ FcsLen \in Nat /\ FcsLen > 0 /\ in.dv \in BOOLEAN
           /\ FcsLen < Len(burst) => Out.er \in BOOLEAN
  <1>1. FcsLen \in Nat /\ FcsLen > 0 /\ FcsLen \in 0 .. FcsLen
    BY MacRxAssumption
  <1>2. /\ Len(burst) \in Nat /\ (Len(burst) = 0 <=> burst = <<>>) /\ IsSequence(burst)
        /\ IsInput(Out)
        /\ IF FcsLen < Len(burst) THEN Out = burst[Len(burst) - FcsLen] ELSE ~Out.dv
    BY <1>1, Empty DEF LineInv, Out
  <1>3. FcsLen < Len(burst) => Out.dv
    <2> DEFINE m == Len(burst)
    <2>1. \A k \in 1 .. m : burst[k].dv
      BY DEF LineInv
    <2>2. m \in Nat
      BY <1>2
    <2> HIDE DEF m
    <2>3. FcsLen < m => m - FcsLen \in 1 .. m
      BY <1>1, <2>2
    <2> QED BY <1>2, <2>1, <2>3 DEF m
  <1>4. in.dv => /\ burst' = Append(burst, in) /\ IsSequence(burst') /\ burst' # <<>>
                 /\ Len(burst') = Len(burst) + 1 /\ ended' = <<>>
                 /\ \A k \in 1 .. Len(burst) : burst'[k] = burst[k]
    BY <1>2, Grows DEF RxObserve
  <1>5. ~in.dv => burst' = <<>> /\ Len(burst') = 0 /\ ended' = burst
    BY Empty DEF RxObserve
  <1>6. in.dv \in BOOLEAN /\ Out.er \in BOOLEAN
    BY <1>2, WireInput DEF IsInput
  <1> QED BY <1>1, <1>2, <1>3, <1>4, <1>5, <1>6

\* The bytes before the one on the stream: those of the packet being passed on.
LEMMA GotStep ==
    ASSUME MacRxInv, NEW in, RxObserve(in)
    PROVE  got' = IF rx_state = "PAYLOAD" THEN rx_crc ELSE <<>>
  <1>1. got' = IF ~m_axis.valid THEN got ELSE IF m_axis.last THEN <<>> ELSE Append(got, m_axis.data)
    BY DEF RxObserve
  <1>2. CASE rx_state = "PAYLOAD"
    BY <1>1, <1>2, Zenon DEF MacRxInv, InPacket
  <1>3. CASE rx_state # "PAYLOAD"
    BY <1>1, <1>3, Zenon DEF MacRxInv, BetweenPackets
  <1> QED BY <1>2, <1>3

-----------------------------------------------------------------------------
(* The MAC receiver: the states of the FSM. *)

\* What a step of the FSM has to show.
Fits ==
    /\ rx_state \in {"IDLE", "PAYLOAD", "CRC", "WAIT_LAST"}
    /\ IF rx_state = "PAYLOAD" THEN InPacket ELSE BetweenPackets
    /\ DeliversGoodFrames
    /\ OneBurstPerPacket
    /\ IsSequence(got)

\* Fields of what is put on the stream.
LEMMA StreamFields ==
    /\ Quiet.valid = FALSE
    /\ \A x : [Quiet EXCEPT !.data = x].valid = FALSE
    /\ \A l, u : /\ Beat(l, u).valid = TRUE /\ Beat(l, u).last = l
                 /\ Beat(l, u).user = u /\ Beat(l, u).data = Out.v
  BY DEF Quiet, Beat

\* Without a packet on the stream and with a burst that is not good, nothing is wrong.
LEMMA NothingDelivered ==
    ASSUME MacRxInv, NEW in, RxObserve(in), rx_state # "PAYLOAD", m_axis'.valid = FALSE,
           in.dv \/ ~GoodFrame(burst)
    PROVE  DeliversGoodFrames' /\ OneBurstPerPacket' /\ got' = <<>> /\ IsSequence(got')
  <1>1. got' = <<>> /\ IsSequence(got')
    BY GotStep, Empty
  <1>2. ended' = IF in.dv THEN <<>> ELSE burst
    BY DEF RxObserve
  <1>3. ~(ended' # <<>> /\ GoodFrame(ended'))
    BY <1>2, Zenon
  <1>4. ~Delivers'
    BY Zenon DEF Delivers
  <1>5. DeliversGoodFrames'
    BY <1>3, <1>4, Zenon DEF DeliversGoodFrames
  <1> QED BY <1>1, <1>5, Zenon DEF OneBurstPerPacket

\* IDLE: the first delimiter that leaves the line starts a packet.
LEMMA RxIdleStep ==
    ASSUME MacRxInv, NEW in, FromWire(in), LineInv', RxObserve(in), DelayLine(in),
           rx_state = "IDLE", RX_IDLE
    PROVE  Fits'
  <1> DEFINE m == Len(burst)
             b == burst
             c == burst'
             o == m - FcsLen
  <1>1. /\ m \in Nat /\ (m = 0 <=> b = <<>>) /\ IsSequence(b)
        /\ IF FcsLen < m THEN Out = b[o] /\ Out.dv ELSE ~Out.dv
        /\ in.dv => /\ c = Append(b, in) /\ IsSequence(c) /\ c # <<>> /\ Len(c) = m + 1
                    /\ \A k \in 1 .. m : c[k] = b[k]
        /\ ~in.dv => c = <<>> /\ Len(c) = 0
        /\ FcsLen \in Nat /\ FcsLen > 0
    BY Leaves DEF MacRxInv
  <1>2. \A k \in 1 .. m - FcsLen - 1 : ~IsSfd(b[k])
    BY DEF MacRxInv, BetweenPackets, Gone
  <1>3. ~GoodFrame(b)
    <2>1. ASSUME HasFrame(b) PROVE m - Start(b) <= FcsLen
      <3>1. Start(b) \in 1 .. m /\ IsSfd(b[Start(b)])
        BY <1>1, <2>1, StartFirst
      <3> HIDE DEF m
      <3> QED BY <1>1, <1>2, <3>1
    <2> QED BY <1>1, <2>1, ShortIsBad
  <1>4. m_axis' = Quiet /\ rx_crc' = <<>> /\ m_axis'.valid = FALSE
    BY StreamFields DEF RX_IDLE
  <1>5. DeliversGoodFrames' /\ OneBurstPerPacket' /\ got' = <<>> /\ IsSequence(got')
    BY <1>3, <1>4, NothingDelivered
  <1>6. CASE Out.dv /\ ~Out.er /\ Out.v = Sfd
    <2>1. rx_state' = "PAYLOAD"
      BY <1>6 DEF RX_IDLE
    <2>2. FcsLen < m /\ Out = b[o] /\ IsSfd(b[o])
      BY <1>1, <1>6 DEF IsSfd
    <2>3. HasFrame(b) /\ Start(b) = o
      <3> HIDE DEF m
      <3>1. o \in 1 .. m /\ \A j \in 1 .. o - 1 : ~IsSfd(b[j])
        BY <1>1, <1>2, <2>2
      <3> HIDE DEF o
      <3> QED BY <1>1, <2>2, <3>1, StartIs DEF m
    <2>4. CASE in.dv
      <3>1. HasFrame(c) /\ Start(c) = o
        BY <1>1, <2>3, <2>4, StartKept
      <3>2. Gone' = o
        <4>1. Gone' = Len(c) - FcsLen - 1
          BY DEF Gone
        <4> HIDE DEF m, c
        <4> QED BY <1>1, <2>4, <4>1
      <3>3. Begins(c, 0) = <<>>
        <4>1. Start(c) + 0 <= Len(c)
          <5> HIDE DEF m, c
          <5> QED BY <1>1, <2>2, <2>4, <3>1
        <4> QED BY <1>1, <2>4, <3>1, <4>1, BeginsFrame
      <3>4. o - o = 0 /\ o <= o /\ \A k \in o + 1 .. o : FALSE
        <4> HIDE DEF m
        <4> QED BY <1>1
      <3>5. /\ HasFrame(c) /\ Start(c) <= Gone'
            /\ \A k \in Start(c) + 1 .. Gone' : ~c[k].er
            /\ rx_crc' = Begins(c, Gone' - Start(c))
        <4> HIDE DEF o, c
        <4> QED BY <1>4, <3>1, <3>2, <3>3, <3>4
      <3>6. InPacket'
        BY <1>1, <1>4, <1>5, <2>4, <3>5 DEF InPacket
      <3> QED BY <1>5, <2>1, <3>6 DEF Fits
    <2>5. CASE ~in.dv
      <3>1. silent' = 1
        <4>1. b # <<>>
          <5> HIDE DEF m
          <5> QED BY <1>1, <2>2
        <4> QED BY <2>5, <4>1, LineStep DEF MacRxInv
      <3>2. InPacket'
        BY <1>1, <1>4, <1>5, <2>5, <3>1 DEF InPacket
      <3> QED BY <1>5, <2>1, <3>2 DEF Fits
    <2> QED BY <2>4, <2>5
  <1>7. CASE ~(Out.dv /\ ~Out.er /\ Out.v = Sfd)
    <2>1. rx_state' = "IDLE"
      BY <1>7 DEF RX_IDLE
    <2>2. \A k \in 1 .. Gone' : ~IsSfd(c[k])
      <3>1. Gone' = Len(c) - FcsLen - 1
        BY DEF Gone
      <3>2. FcsLen < m => ~IsSfd(b[o])
        BY <1>1, <1>7 DEF IsSfd
      <3>3. CASE in.dv
        <4> HIDE DEF m, c
        <4>1. \A k \in 1 .. Gone' : k \in 1 .. m /\ (k = o \/ k \in 1 .. m - FcsLen - 1)
          BY <1>1, <3>1, <3>3
        <4>2. \A k \in 1 .. Gone' : FcsLen < m
          BY <1>1, <3>1, <3>3
        <4> QED BY <1>1, <1>2, <3>2, <3>3, <4>1, <4>2
      <3>4. CASE ~in.dv
        <4> HIDE DEF c
        <4>1. Gone' < 1 /\ Gone' \in Int
          BY <1>1, <3>1, <3>4
        <4> QED BY <4>1
      <3> QED BY <3>3, <3>4
    <2>3. BetweenPackets'
      BY <1>4, <1>5, <2>1, <2>2 DEF BetweenPackets
    <2> QED BY <1>5, <2>1, <2>3 DEF Fits
  <1> QED BY <1>6, <1>7

\* CRC: the symbols of the check leave the line; the next burst may begin meanwhile,
\* but none of it leaves the line before the FSM is back in IDLE.
LEMMA RxCrcStep ==
    ASSUME MacRxInv, NEW in, FromWire(in), RxObserve(in), rx_state = "CRC", RX_CRC
    PROVE  Fits'
  <1> DEFINE m == Len(burst)
             n == Len(burst')
  <1>1. /\ m \in Nat /\ n \in Nat /\ n <= m + 1 /\ IsSequence(burst)
        /\ FcsLen \in Nat /\ FcsLen > 0
    BY Leaves DEF MacRxInv
  <1>2. crc_cnt \in 0 .. FcsLen - 1 /\ m <= crc_cnt
    BY DEF MacRxInv, BetweenPackets
  <1>3. ~GoodFrame(burst)
    <2>1. ASSUME HasFrame(burst) PROVE m - Start(burst) <= FcsLen
      <3>1. Start(burst) \in 1 .. m
        BY <1>1, <2>1, StartFirst
      <3> HIDE DEF m
      <3> QED BY <1>1, <1>2, <3>1
    <2> QED BY <1>1, <2>1, ShortIsBad
  <1>4. m_axis'.valid = FALSE
    BY StreamFields DEF RX_CRC
  <1>5. DeliversGoodFrames' /\ OneBurstPerPacket' /\ got' = <<>> /\ IsSequence(got')
    BY <1>3, <1>4, NothingDelivered
  <1>6. Gone' = n - FcsLen - 1
    BY DEF Gone
  <1> HIDE DEF m, n
  <1>7. CASE crc_cnt = FcsLen - 1
    <2>1. rx_state' = "IDLE"
      BY <1>7 DEF RX_CRC
    <2>2. Gone' < 1 /\ Gone' \in Int
      BY <1>1, <1>2, <1>6, <1>7
    <2>3. \A k \in 1 .. Gone' : ~IsSfd(burst'[k])
      BY <2>2
    <2>4. BetweenPackets'
      BY <1>4, <1>5, <2>1, <2>3 DEF BetweenPackets
    <2> QED BY <1>5, <2>1, <2>4 DEF Fits
  <1>8. CASE crc_cnt # FcsLen - 1
    <2>1. rx_state' = "CRC" /\ crc_cnt' = (crc_cnt + 1) % FcsLen
      BY <1>8 DEF RX_CRC
    <2>2. crc_cnt' = crc_cnt + 1
      BY <1>1, <1>2, <1>8, <2>1
    <2>3. crc_cnt' \in 0 .. FcsLen - 1 /\ n <= crc_cnt'
      BY <1>1, <1>2, <1>8, <2>2
    <2>4. BetweenPackets'
      BY <1>4, <1>5, <2>1, <2>3 DEF BetweenPackets, n
    <2> QED BY <1>5, <2>1, <2>4 DEF Fits
  <1> QED BY <1>7, <1>8

\* An error in a frame stays in it.
LEMMA ErrorStays ==
    ASSUME NEW b, IsSequence(b), HasFrame(b), NEW k \in Start(b) + 1 .. Len(b), b[k].er, NEW x
    PROVE  LET c == Append(b, x)
           IN  HasFrame(c) /\ \E j \in Start(c) + 1 .. Len(c) : c[j].er
  <1> DEFINE c == Append(b, x)
             m == Len(b)
             s == Start(b)
  <1>1. HasFrame(c) /\ Start(c) = s /\ Len(c) = m + 1 /\ \A j \in 1 .. m : c[j] = b[j]
    BY StartKept, Grows
  <1>2. m \in Nat /\ s \in 1 .. m /\ k \in s + 1 .. m
    BY StartFirst, Empty
  <1> HIDE DEF c, m, s
  <1>3. k \in 1 .. m /\ k \in s + 1 .. m + 1
    BY <1>2
  <1>4. c[k].er
    BY <1>1, <1>3
  <1>5. k \in Start(c) + 1 .. Len(c)
    BY <1>1, <1>3
  <1> QED BY <1>1, <1>4, <1>5 DEF c

\* WAIT_LAST: the rest of a frame with an error is let through.
LEMMA RxWaitStep ==
    ASSUME MacRxInv, NEW in, FromWire(in), LineInv', RxObserve(in), DelayLine(in),
           rx_state = "WAIT_LAST", RX_WAIT_LAST(in)
    PROVE  Fits'
  <1>1. /\ Len(burst) \in Nat /\ IsSequence(burst) /\ (Len(burst) = 0 <=> burst = <<>>)
        /\ in.dv => burst' = Append(burst, in) /\ burst' # <<>>
        /\ ~in.dv => burst' = <<>> /\ Len(burst') = 0
        /\ FcsLen \in Nat /\ FcsLen > 0
    BY Leaves DEF MacRxInv
  <1>2. IF burst = <<>> THEN silent = 1
        ELSE HasFrame(burst) /\ \E k \in Start(burst) + 1 .. Len(burst) : burst[k].er
    BY DEF MacRxInv, BetweenPackets
  <1>3. ~GoodFrame(burst)
    <2>1. CASE burst = <<>>
      <3>1. ~HasFrame(burst)
        BY <1>1, <2>1 DEF HasFrame
      <3> QED BY <3>1 DEF GoodFrame
    <2>2. CASE burst # <<>>
      <3>1. HasFrame(burst) /\ \E k \in Start(burst) + 1 .. Len(burst) : burst[k].er
        BY <1>2, <2>2
      <3>2. CASE Len(burst) - Start(burst) > FcsLen
        BY <1>1, <3>1, <3>2, GoodFrameFields
      <3>3. CASE ~(Len(burst) - Start(burst) > FcsLen)
        <4>1. Start(burst) \in 1 .. Len(burst)
          BY <1>1, <3>1, StartFirst
        <4>2. Len(burst) - Start(burst) <= FcsLen
          BY <1>1, <3>3, <4>1
        <4> QED BY <1>1, <4>2, ShortIsBad
      <3> QED BY <3>2, <3>3
    <2> QED BY <2>1, <2>2
  <1>4. m_axis'.valid = FALSE
    BY StreamFields DEF RX_WAIT_LAST
  <1>5. DeliversGoodFrames' /\ OneBurstPerPacket' /\ got' = <<>> /\ IsSequence(got')
    BY <1>3, <1>4, NothingDelivered
  <1>6. CASE ~in.dv
    <2>1. rx_state' = "IDLE"
      BY <1>6 DEF RX_WAIT_LAST
    <2>2. Gone' < 1 /\ Gone' \in Int
      BY <1>1, <1>6 DEF Gone
    <2>3. \A k \in 1 .. Gone' : ~IsSfd(burst'[k])
      BY <2>2
    <2>4. BetweenPackets'
      BY <1>4, <1>5, <2>1, <2>3 DEF BetweenPackets
    <2> QED BY <1>5, <2>1, <2>4 DEF Fits
  <1>7. CASE in.dv
    <2>1. rx_state' = "WAIT_LAST"
      BY <1>7 DEF RX_WAIT_LAST
    <2>2. burst # <<>>
      <3>1. burst # <<>> \/ silent >= MinGap
        BY <1>7, WireInput
      <3> QED BY <1>2, <3>1, MacRxAssumption
    <2>3. HasFrame(burst') /\ \E k \in Start(burst') + 1 .. Len(burst') : burst'[k].er
      <3>1. HasFrame(burst)
        BY <1>2, <2>2
      <3>2. PICK k \in Start(burst) + 1 .. Len(burst) : burst[k].er
        BY <1>2, <2>2
      <3> QED BY <1>1, <1>7, <3>1, <3>2, ErrorStays
    <2>4. BetweenPackets'
      BY <1>1, <1>4, <1>5, <1>7, <2>1, <2>3 DEF BetweenPackets
    <2> QED BY <1>5, <2>1, <2>4 DEF Fits
  <1> QED BY <1>6, <1>7

\* PAYLOAD with nothing but the check behind the delimiter: the packet that begins
\* in the silence has a wrong check and ends at once.
LEMMA EmptyPayloadStep ==
    ASSUME MacRxInv, NEW in, FromWire(in), RxObserve(in), rx_state = "PAYLOAD", burst = <<>>,
           RX_PAYLOAD(in)
    PROVE  Fits'
  <1>1. silent = 1 /\ rx_crc = <<>>
    BY DEF MacRxInv, InPacket
  <1>2. ~in.dv
    <2>1. ~(silent >= MinGap)
      BY <1>1, MacRxAssumption
    <2> QED BY <2>1, WireInput, Zenon
  <1>3. /\ burst' = <<>> /\ Len(burst') = 0 /\ ended' = <<>> /\ ~Out.dv
        /\ FcsLen \in Nat /\ FcsLen > 0
    BY <1>2, Leaves DEF MacRxInv
  <1>4. EndOfPacket
    BY <1>2, <1>3, Zenon DEF RX_PAYLOAD
  <1>5. ~FcsGood
    <2>1. 0 \in 0 .. FcsLen - 1 /\ FcsLen - 1 - 0 = FcsLen - 1
      BY <1>3
    <2>2. d[0].v = Pre
      BY WireInput, Zenon DEF MacRxInv, LineInv
    <2>3. Pre # Fcs(Append(rx_crc, Out.v), FcsLen - 1 - 0)
      BY DEF Pre, Fcs
    <2> QED BY <2>1, <2>2, <2>3, Zenon DEF FcsGood
  <1>6. /\ m_axis'.valid = TRUE /\ m_axis'.last = TRUE
        /\ m_axis'.user = (ErrorInFcs \/ ~FcsGood)
        /\ rx_state' = "CRC" /\ crc_cnt' = 0
    BY <1>4, StreamFields, Zenon DEF EndOfPacket
  <1>7. got' = <<>> /\ IsSequence(got')
    BY <1>1, GotStep, Empty
  <1>8. DeliversGoodFrames' /\ OneBurstPerPacket'
    <2>1. ~Delivers'
      BY <1>5, <1>6, Zenon DEF Delivers
    <2> QED BY <1>3, <1>7, <2>1, Zenon DEF DeliversGoodFrames, OneBurstPerPacket
  <1>9. BetweenPackets'
    BY <1>3, <1>6, <1>7 DEF BetweenPackets
  <1> QED BY <1>6, <1>7, <1>8, <1>9 DEF Fits

\* PAYLOAD while the burst is on the wire or just ends: where the FSM is in the frame.
LEMMA PayloadPlace ==
    ASSUME MacRxInv, NEW in, FromWire(in), RxObserve(in), rx_state = "PAYLOAD", burst # <<>>
    PROVE  LET m == Len(burst)
               s == Start(burst)
           IN  /\ HasFrame(burst) /\ IsSequence(burst) /\ m \in Nat /\ s \in 1 .. m
               /\ s + 1 <= m - FcsLen /\ m - s > FcsLen /\ m - FcsLen - 1 - s \in Nat
               /\ FcsLen \in Nat /\ FcsLen > 0
               /\ Out = burst[m - FcsLen] /\ Out.dv /\ Out.er \in BOOLEAN
               /\ \A k \in s + 1 .. m - FcsLen - 1 : ~burst[k].er
               /\ IsSequence(rx_crc) /\ got' = rx_crc
               /\ rx_crc = Begins(burst, m - FcsLen - 1 - s)
               /\ Append(rx_crc, Out.v) = Begins(burst, m - FcsLen - s)
               /\ in.dv => /\ Begins(burst', m - FcsLen - 1 - s) = rx_crc
                           /\ HasFrame(burst') /\ Start(burst') = s
  <1> DEFINE m == Len(burst)
             s == Start(burst)
             n == m - FcsLen - 1 - s
  <1>1. /\ HasFrame(burst) /\ s <= m - FcsLen - 1
        /\ \A k \in s + 1 .. m - FcsLen - 1 : ~burst[k].er
        /\ rx_crc = Begins(burst, n)
    BY DEF MacRxInv, InPacket, Gone
  <1>2. /\ IsSequence(burst) /\ m \in Nat /\ FcsLen \in Nat /\ FcsLen > 0
        /\ FcsLen < m => Out = burst[m - FcsLen] /\ Out.dv /\ Out.er \in BOOLEAN
        /\ in.dv => burst' = Append(burst, in)
    BY Leaves DEF MacRxInv
  <1>3. s \in 1 .. m
    BY <1>1, <1>2, StartFirst
  <1>4. /\ s + 1 <= m - FcsLen /\ m - s > FcsLen /\ n \in Nat /\ FcsLen < m
        /\ s + n + 1 = m - FcsLen /\ s + n + 1 <= m /\ n + 1 = m - FcsLen - s
    <2> HIDE DEF m, s
    <2> QED BY <1>1, <1>2, <1>3
  <1>5. Out = burst[m - FcsLen] /\ Out.dv /\ Out.er \in BOOLEAN
    BY <1>2, <1>4
  <1>6. /\ IsSequence(Begins(burst, n))
        /\ Append(Begins(burst, n), burst[s + n + 1].v) = Begins(burst, n + 1)
        /\ \A x : Begins(Append(burst, x), n) = Begins(burst, n)
    <2> HIDE DEF n
    <2> QED BY <1>1, <1>2, <1>4, BeginsGrows
  <1>7. IsSequence(rx_crc) /\ Append(rx_crc, Out.v) = Begins(burst, m - FcsLen - s)
    <2> HIDE DEF m, s, n
    <2> QED BY <1>1, <1>4, <1>5, <1>6
  <1>8. in.dv => /\ Begins(burst', n) = rx_crc /\ HasFrame(burst') /\ Start(burst') = s
    <2> HIDE DEF n
    <2> QED BY <1>1, <1>2, <1>6, StartKept
  <1>9. got' = rx_crc
    BY GotStep
  <1> QED BY <1>1, <1>2, <1>3, <1>4, <1>5, <1>7, <1>8, <1>9

\* The bytes passed on are the beginning of the frame, on the wire or just ended.
LEMMA PayloadOneBurst ==
    ASSUME MacRxInv, NEW in, FromWire(in), RxObserve(in), rx_state = "PAYLOAD", burst # <<>>
    PROVE  OneBurstPerPacket' /\ IsSequence(got')
  <1> DEFINE m == Len(burst)
             s == Start(burst)
             n == m - FcsLen - 1 - s
  <1>1. /\ HasFrame(burst) /\ IsSequence(burst) /\ m \in Nat /\ s \in 1 .. m
        /\ n \in Nat /\ FcsLen \in Nat
        /\ IsSequence(rx_crc) /\ got' = rx_crc /\ rx_crc = Begins(burst, n)
        /\ in.dv => Begins(burst', n) = rx_crc /\ HasFrame(burst') /\ Start(burst') = s
    BY PayloadPlace
  <1>2. /\ in.dv => IsSequence(burst') /\ Len(burst') = m + 1
        /\ ~in.dv => ended' = burst
    BY Leaves DEF MacRxInv
  <1>3. PICK b \in {burst', ended'} :
           /\ IsSequence(b) /\ HasFrame(b) /\ Begins(b, n) = got' /\ Start(b) + n <= Len(b)
    <2>1. CASE in.dv
      <3>1. s + n <= m + 1
        <4> HIDE DEF m, s
        <4> QED BY <1>1
      <3> QED BY <1>1, <1>2, <2>1, <3>1
    <2>2. CASE ~in.dv
      <3>1. s + n <= m
        <4> HIDE DEF m, s
        <4> QED BY <1>1
      <3> QED BY <1>1, <1>2, <2>2, <3>1
    <2> QED BY <2>1, <2>2
  <1>4. Len(got') <= Len(Frame(b)) /\ got' = SubSeq(Symbols(Frame(b)), 1, Len(got'))
    <2> HIDE DEF n
    <2> QED BY <1>1, <1>3, BeginsFrame
  <1>5. OneBurstPerPacket'
    BY <1>3, <1>4, Zenon DEF OneBurstPerPacket
  <1> QED BY <1>1, <1>5

\* PAYLOAD, an error leaves the line: the packet ends with tuser.
LEMMA ErrorStep ==
    ASSUME MacRxInv, NEW in, FromWire(in), LineInv', RxObserve(in), DelayLine(in),
           rx_state = "PAYLOAD", burst # <<>>, RX_PAYLOAD(in), Out.er
    PROVE  Fits'
  <1> DEFINE m == Len(burst)
             s == Start(burst)
             o == m - FcsLen
  <1>1. /\ HasFrame(burst) /\ IsSequence(burst) /\ m \in Nat /\ s \in 1 .. m
        /\ s + 1 <= o /\ m - s > FcsLen /\ FcsLen \in Nat /\ FcsLen > 0
        /\ Out = burst[o] /\ Out.dv
    BY PayloadPlace
  <1>2. EndInError
    BY <1>1, Zenon DEF RX_PAYLOAD
  <1>3. /\ m_axis'.valid = TRUE /\ m_axis'.last = TRUE /\ m_axis'.user = TRUE
        /\ rx_state' = "WAIT_LAST"
    BY <1>2, StreamFields, Zenon DEF EndInError
  <1>4. o \in s + 1 .. m /\ burst[o].er
    <2> HIDE DEF m, s
    <2> QED BY <1>1
  <1>5. ~GoodFrame(burst)
    <2> HIDE DEF o
    <2> QED BY <1>1, <1>4, GoodFrameFields
  <1>6. DeliversGoodFrames'
    <2>1. ~Delivers'
      BY <1>3, Zenon DEF Delivers
    <2>2. ended' = IF in.dv THEN <<>> ELSE burst
      BY DEF RxObserve
    <2>3. ~(ended' # <<>> /\ GoodFrame(ended'))
      BY <1>5, <2>2, Zenon
    <2> QED BY <2>1, <2>3, Zenon DEF DeliversGoodFrames
  <1>7. OneBurstPerPacket' /\ IsSequence(got')
    BY PayloadOneBurst
  <1>8. CASE in.dv
    <2>1. burst' = Append(burst, in) /\ burst' # <<>>
      BY <1>8, Leaves DEF MacRxInv
    <2>2. HasFrame(burst') /\ \E k \in Start(burst') + 1 .. Len(burst') : burst'[k].er
      <3> HIDE DEF o
      <3> QED BY <1>1, <1>4, <2>1, ErrorStays
    <2>3. BetweenPackets'
      BY <1>3, <2>1, <2>2 DEF BetweenPackets
    <2> QED BY <1>3, <1>6, <1>7, <2>3 DEF Fits
  <1>9. CASE ~in.dv
    <2>1. burst' = <<>>
      BY <1>9, Leaves DEF MacRxInv
    <2>2. silent' = 1
      BY <1>9, LineStep DEF MacRxInv
    <2>3. BetweenPackets'
      BY <1>3, <2>1, <2>2 DEF BetweenPackets
    <2> QED BY <1>3, <1>6, <1>7, <2>3 DEF Fits
  <1> QED BY <1>8, <1>9

\* PAYLOAD, the wire falls silent: the packet ends, with tuser unless the frame is good.
LEMMA EndStep ==
    ASSUME MacRxInv, NEW in, FromWire(in), RxObserve(in),
           rx_state = "PAYLOAD", burst # <<>>, RX_PAYLOAD(in), ~Out.er, ~in.dv
    PROVE  Fits'
  <1> DEFINE m == Len(burst)
             s == Start(burst)
             o == m - FcsLen
             c == Begins(burst, m - FcsLen - s)
  <1>1. /\ HasFrame(burst) /\ IsSequence(burst) /\ m \in Nat /\ s \in 1 .. m
        /\ s + 1 <= o /\ m - s > FcsLen /\ FcsLen \in Nat /\ FcsLen > 0
        /\ Out = burst[o] /\ got' = rx_crc /\ Append(rx_crc, Out.v) = c
        /\ \A k \in s + 1 .. o - 1 : ~burst[k].er
    BY PayloadPlace
  <1>2. EndOfPacket
    BY Zenon DEF RX_PAYLOAD
  <1>3. /\ m_axis'.valid = TRUE /\ m_axis'.last = TRUE /\ m_axis'.data = Out.v
        /\ m_axis'.user = (ErrorInFcs \/ ~FcsGood)
        /\ rx_state' = "CRC" /\ crc_cnt' = 0
    BY <1>2, StreamFields, Zenon DEF EndOfPacket
  <1>4. burst' = <<>> /\ Len(burst') = 0 /\ ended' = burst
    BY Leaves DEF MacRxInv
  <1>5. \A k \in 0 .. FcsLen - 1 : d[k] = burst[m - k]
    <2>1. \A k \in 0 .. FcsLen : IF k < m THEN d[k] = burst[m - k] ELSE ~d[k].dv
      BY DEF MacRxInv, LineInv
    <2> HIDE DEF m, s
    <2>2. \A k \in 0 .. FcsLen - 1 : k \in 0 .. FcsLen /\ k < m
      BY <1>1
    <2> QED BY <2>1, <2>2
  <1>6. GoodFrame(burst) <=>
           /\ \A k \in s + 1 .. m : ~burst[k].er
           /\ \A k \in 0 .. FcsLen - 1 : burst[m - k].v = Fcs(c, FcsLen - 1 - k)
    <2>1. m - s - FcsLen = m - FcsLen - s
      <3> HIDE DEF m, s
      <3> QED BY <1>1
    <2> QED BY <1>1, <2>1, GoodFrameFields
  <1>7. FcsGood <=> \A k \in 0 .. FcsLen - 1 : burst[m - k].v = Fcs(c, FcsLen - 1 - k)
    <2>1. FcsGood <=> \A k \in 0 .. FcsLen - 1 : d[k].v = Fcs(c, FcsLen - 1 - k)
      BY <1>1 DEF FcsGood
    <2> HIDE DEF m, c
    <2> QED BY <1>5, <2>1
  <1>8. ~ErrorInFcs <=> \A k \in s + 1 .. m : ~burst[k].er
    <2>1. ErrorInFcs <=> \E k \in 0 .. FcsLen - 1 : d[k].er
      BY DEF ErrorInFcs
    <2>2. ASSUME ~ErrorInFcs, NEW k \in s + 1 .. m PROVE ~burst[k].er
      <3> HIDE DEF m, s
      <3>1. CASE k \in s + 1 .. o - 1
        BY <1>1, <3>1
      <3>2. CASE k = o
        BY <1>1, <3>2
      <3>3. CASE k \in o + 1 .. m
        <4>1. PICK j \in 0 .. FcsLen - 1 : j = m - k
          BY <1>1, <3>3
        <4>2. m - j = k
          BY <1>1, <4>1
        <4> QED BY <1>5, <2>1, <2>2, <4>2
      <3> QED BY <1>1, <3>1, <3>2, <3>3
    <2>3. ASSUME \A k \in s + 1 .. m : ~burst[k].er, NEW k \in 0 .. FcsLen - 1 PROVE ~d[k].er
      <3> HIDE DEF m, s
      <3>1. m - k \in s + 1 .. m
        BY <1>1
      <3> QED BY <1>5, <2>3, <3>1
    <2> QED BY <2>1, <2>2, <2>3
  <1>9. Delivers' <=> GoodFrame(burst)
    <2> HIDE DEF m, s, c
    <2>1. Delivers' <=> ~(ErrorInFcs \/ ~FcsGood)
      BY <1>3, Zenon DEF Delivers
    <2> QED BY <1>6, <1>7, <1>8, <2>1, Zenon
  <1>10. Append(got', m_axis'.data) = Content(burst)
    <2>1. Content(burst) = Begins(burst, m - s - FcsLen)
      BY <1>1, GoodFrameFields
    <2>2. m - s - FcsLen = m - FcsLen - s
      <3> HIDE DEF m, s
      <3> QED BY <1>1
    <2> QED BY <1>1, <1>3, <2>1, <2>2
  <1>11. DeliversGoodFrames'
    BY <1>4, <1>9, <1>10, Zenon DEF DeliversGoodFrames
  <1>12. OneBurstPerPacket' /\ IsSequence(got')
    BY PayloadOneBurst
  <1>13. BetweenPackets'
    BY <1>1, <1>3, <1>4 DEF BetweenPackets
  <1> QED BY <1>3, <1>11, <1>12, <1>13 DEF Fits

\* PAYLOAD, the burst goes on: another byte is passed on.
LEMMA ByteStep ==
    ASSUME MacRxInv, NEW in, FromWire(in), RxObserve(in),
           rx_state = "PAYLOAD", burst # <<>>, RX_PAYLOAD(in), ~Out.er, in.dv
    PROVE  Fits'
  <1> DEFINE m == Len(burst)
             s == Start(burst)
             o == m - FcsLen
  <1>1. /\ HasFrame(burst) /\ IsSequence(burst) /\ m \in Nat /\ s \in 1 .. m
        /\ s + 1 <= o /\ FcsLen \in Nat /\ FcsLen > 0
        /\ Out = burst[o] /\ got' = rx_crc /\ Append(rx_crc, Out.v) = Begins(burst, o - s)
        /\ \A k \in s + 1 .. o - 1 : ~burst[k].er
        /\ HasFrame(burst') /\ Start(burst') = s
    BY PayloadPlace
  <1>2. m_axis' = Beat(FALSE, FALSE) /\ rx_state' = "PAYLOAD" /\ rx_crc' = Append(rx_crc, Out.v)
    BY Zenon DEF RX_PAYLOAD
  <1>3. m_axis'.valid = TRUE /\ m_axis'.last = FALSE /\ m_axis'.data = Out.v
    BY <1>2, StreamFields, Zenon
  <1>4. /\ burst' = Append(burst, in) /\ burst' # <<>> /\ ended' = <<>> /\ Len(burst') = m + 1
        /\ \A k \in 1 .. m : burst'[k] = burst[k]
    BY Leaves DEF MacRxInv
  <1>5. Gone' = o
    <2>1. Gone' = Len(burst') - FcsLen - 1
      BY DEF Gone
    <2> HIDE DEF m
    <2> QED BY <1>1, <1>4, <2>1
  <1>6. \A k \in s + 1 .. o : ~burst'[k].er
    <2> HIDE DEF m, s
    <2>1. \A k \in s + 1 .. o : k \in 1 .. m /\ (k = o \/ k \in s + 1 .. o - 1)
      BY <1>1
    <2> QED BY <1>1, <1>4, <2>1
  <1>7. Begins(burst', o - s) = Begins(burst, o - s)
    <2>1. o - s \in Nat /\ s + (o - s) + 1 <= m
      <3> HIDE DEF m, s
      <3> QED BY <1>1
    <2> HIDE DEF o
    <2> QED BY <1>1, <1>4, <2>1, BeginsGrows
  <1>8. InPacket'
    <2>1. /\ HasFrame(burst') /\ Start(burst') <= Gone'
          /\ \A k \in Start(burst') + 1 .. Gone' : ~burst'[k].er
          /\ rx_crc' = Begins(burst', Gone' - Start(burst'))
      <3>1. s <= o
        <4> HIDE DEF m, s
        <4> QED BY <1>1
      <3> HIDE DEF o, s
      <3> QED BY <1>1, <1>2, <1>5, <1>6, <1>7, <3>1
    <2> QED BY <1>1, <1>2, <1>3, <1>4, <2>1 DEF InPacket
  <1>9. DeliversGoodFrames'
    <2>1. ~Delivers'
      BY <1>3, Zenon DEF Delivers
    <2> QED BY <1>4, <2>1, Zenon DEF DeliversGoodFrames
  <1>10. OneBurstPerPacket' /\ IsSequence(got')
    BY PayloadOneBurst
  <1> QED BY <1>2, <1>8, <1>9, <1>10 DEF Fits

-----------------------------------------------------------------------------
(* The MAC receiver: the theorems. *)

\* Silence and an empty line satisfy the invariant.
LEMMA MacRxInit == RxInit => MacRxInv
  <1> SUFFICES ASSUME RxInit PROVE MacRxInv
    OBVIOUS
  <1>1. /\ rx_state = "IDLE" /\ burst = <<>> /\ ended = <<>> /\ got = <<>>
        /\ m_axis = Quiet /\ silent = MinGap /\ d = [k \in 0 .. FcsLen |-> Idle]
    BY DEF RxInit
  <1>2. FcsLen \in Nat /\ MinGap \in Nat /\ MinGap >= 2
    BY MacRxAssumption
  <1>3. IsInput(Idle) /\ Idle.dv = FALSE
    BY DEF Idle, IsInput
  <1>4. IsSequence(burst) /\ Len(burst) = 0 /\ IsSequence(got)
    BY <1>1, Empty
  <1>5. LineInv
    <2>1. DOMAIN d = 0 .. FcsLen /\ \A k \in 0 .. FcsLen : d[k] = Idle
      BY <1>1
    <2>2. 0 \in 0 .. FcsLen /\ silent \in Nat /\ silent > 0
      BY <1>1, <1>2
    <2>3. \A k \in 0 .. FcsLen : ~(k < Len(burst)) /\ ~d[k].dv /\ IsInput(d[k])
      BY <1>2, <1>3, <1>4, <2>1
    <2>4. \A k \in 1 .. Len(burst) : FALSE
      BY <1>4
    <2> QED BY <1>1, <1>4, <2>1, <2>2, <2>3, <2>4 DEF LineInv
  <1>6. BetweenPackets
    <2>1. m_axis.valid = FALSE
      BY <1>1, StreamFields
    <2>2. Gone < 1 /\ Gone \in Int
      BY <1>2, <1>4 DEF Gone
    <2>3. \A k \in 1 .. Gone : FALSE
      BY <2>2
    <2> QED BY <1>1, <2>1, <2>3 DEF BetweenPackets
  <1>7. DeliversGoodFrames /\ OneBurstPerPacket
    <2>1. ~Delivers
      BY <1>1, StreamFields DEF Delivers
    <2> QED BY <1>1, <2>1, Zenon DEF DeliversGoodFrames, OneBurstPerPacket
  <1> QED BY <1>1, <1>4, <1>5, <1>6, <1>7 DEF MacRxInv

\* Every cycle keeps it, whatever comes from the wire.
LEMMA MacRxCycle ==
    ASSUME MacRxInv, NEW in, FromWire(in), Cycle(in)
    PROVE  MacRxInv'
  <1>2. DelayLine(in) /\ Fsm(in) /\ RxObserve(in)
    BY DEF Cycle
  <1>3. LineInv'
    BY <1>2, LineStep DEF MacRxInv
  <1>4. CASE rx_state = "IDLE" /\ RX_IDLE
    <2>1. Fits'
      BY <1>2, <1>3, <1>4, RxIdleStep
    <2> QED BY <1>3, <2>1 DEF Fits, MacRxInv
  <1>5. CASE rx_state = "PAYLOAD" /\ RX_PAYLOAD(in)
    <2>1. CASE burst = <<>>
      <3>1. Fits'
        BY <1>2, <1>5, <2>1, EmptyPayloadStep
      <3> QED BY <1>3, <3>1 DEF Fits, MacRxInv
    <2>2. CASE burst # <<>> /\ Out.er
      <3>1. Fits'
        BY <1>2, <1>3, <1>5, <2>2, ErrorStep
      <3> QED BY <1>3, <3>1 DEF Fits, MacRxInv
    <2>3. CASE burst # <<>> /\ ~Out.er /\ ~in.dv
      <3>1. Fits'
        BY <1>2, <1>5, <2>3, EndStep
      <3> QED BY <1>3, <3>1 DEF Fits, MacRxInv
    <2>4. CASE burst # <<>> /\ ~Out.er /\ in.dv
      <3>1. Fits'
        BY <1>2, <1>5, <2>4, ByteStep
      <3> QED BY <1>3, <3>1 DEF Fits, MacRxInv
    <2> QED BY <2>1, <2>2, <2>3, <2>4
  <1>6. CASE rx_state = "CRC" /\ RX_CRC
    <2>1. Fits'
      BY <1>2, <1>6, RxCrcStep
    <2> QED BY <1>3, <2>1 DEF Fits, MacRxInv
  <1>7. CASE rx_state = "WAIT_LAST" /\ RX_WAIT_LAST(in)
    <2>1. Fits'
      BY <1>2, <1>3, <1>7, RxWaitStep
    <2> QED BY <1>3, <2>1 DEF Fits, MacRxInv
  <1> QED BY <1>2, <1>4, <1>5, <1>6, <1>7 DEF Fsm

\* Every step keeps it.
LEMMA MacRxNext == MacRxInv /\ [RxNext]_rxVars => MacRxInv'
  <1> SUFFICES ASSUME MacRxInv, [RxNext]_rxVars PROVE MacRxInv'
    OBVIOUS
  <1>1. CASE RxNext
    <2>1. PICK in \in Wire : Cycle(in)
      BY <1>1 DEF RxNext
    <2>2. FromWire(in)
      BY <2>1, WireIsFromWire
    <2> QED BY <2>1, <2>2, MacRxCycle
  <1>2. CASE UNCHANGED rxVars
    BY <1>2 DEF rxVars, rxRegs, MacRxInv, LineInv, InPacket, BetweenPackets, Gone,
                DeliversGoodFrames, Delivers, OneBurstPerPacket
  <1> QED BY <1>1, <1>2

\* The invariant of the receiver: the delay line holds the newest symbols of the
\* burst on the wire and the FSM is where the rest of the burst has taken it.
THEOREM MacRxInvariant == RxSpec => []MacRxInv
  BY MacRxInit, MacRxNext, PTL DEF RxSpec

\* A packet is delivered without tuser exactly when a good frame has just ended, with
\* the content of that frame, for every length of check, of bursts and of gaps from 2 on.
THEOREM MacDeliversGoodFrames == RxSpec => []DeliversGoodFrames
  <1>1. MacRxInv => DeliversGoodFrames
    BY DEF MacRxInv
  <1> QED BY <1>1, MacRxInvariant, PTL

\* A packet on the stream, good or bad, holds bytes of one burst only.
THEOREM MacOneBurstPerPacket == RxSpec => []OneBurstPerPacket
  <1>1. MacRxInv => OneBurstPerPacket
    BY DEF MacRxInv
  <1> QED BY <1>1, MacRxInvariant, PTL

-----------------------------------------------------------------------------
(* The link. *)

\* The frame of a packet is a good frame, and its content is the packet and the padding:
\* the receiver's notion of a frame is the transmitter's.
THEOREM SentFrameIsGood ==
    ASSUME NEW p \in Packet, NEW b, IsSequence(b), Len(b) = Len(Encode(p)),
           \A k \in 1 .. Len(b) : b[k].v = Encode(p)[k] /\ ~b[k].er
    PROVE  GoodFrame(b) /\ Content(b) = Padded(p)
  <1> DEFINE E == Encode(p)
             P == Padded(p)
             N == Len(P)
             h == PreambleLen + 1
             L == Len(b)
  <1>1. /\ N \in Nat /\ N >= 1 /\ h \in Nat /\ h >= 1 /\ FcsLen \in Nat /\ FcsLen > 0
        /\ PreambleLen \in Nat
    <2>1. PreambleLen \in Nat /\ FcsLen \in Nat /\ FcsLen > 0 /\ MinPayload \in Nat
          /\ MinPayload > 0
      BY MacTxAssumption
    <2>2. Len(p) \in Nat /\ 1 <= Len(p)
      BY PacketSeq
    <2>3. N = IF Len(p) < MinPayload THEN MinPayload ELSE Len(p)
      BY PaddedFields
    <2> HIDE DEF N
    <2> QED BY <2>1, <2>2, <2>3
  <1>2. /\ Len(E) = h + N + FcsLen
        /\ \A k \in 1 .. PreambleLen : E[k] = Pre
        /\ E[h] = Sfd
        /\ \A k \in 1 .. N : E[h + k] = P[k]
        /\ \A k \in 1 .. FcsLen : E[h + N + k] = Fcs(P, k - 1)
    BY EncodeFields
  <1>3. L = h + N + FcsLen /\ \A k \in 1 .. L : b[k].v = E[k] /\ ~b[k].er
    BY <1>2
  <1>4. P \in Seq(Data)
    BY PaddedFields
  <1> HIDE DEF E, P, N, L
  <1>5. HasFrame(b) /\ Start(b) = h
    <2>1. h \in 1 .. L
      BY <1>1, <1>3
    <2>2. IsSfd(b[h])
      BY <1>2, <1>3, <2>1 DEF IsSfd
    <2>3. ASSUME NEW j \in 1 .. h - 1 PROVE ~IsSfd(b[j])
      <3>1. j \in 1 .. PreambleLen /\ j \in 1 .. L
        BY <1>1, <1>3
      <3>2. b[j].v = Pre
        BY <1>2, <1>3, <3>1
      <3>3. Pre # Sfd
        <4>1. Pre.kind = "preamble" /\ Sfd.kind = "sfd"
          BY DEF Pre, Sfd
        <4> QED BY <4>1
      <3> QED BY <3>2, <3>3 DEF IsSfd
    <2> HIDE DEF h
    <2> QED BY <2>1, <2>2, <2>3, StartIs DEF L
  <1> HIDE DEF h
  <1>6. Len(b) - Start(b) > FcsLen /\ Len(b) - Start(b) - FcsLen = N /\ Len(b) = L
    BY <1>1, <1>3, <1>5 DEF L
  <1>7. Begins(b, N) = P
    <2>1. Begins(b, N) = [k \in 1 .. N |-> b[h + k].v]
      BY <1>5 DEF Begins
    <2>2. \A k \in 1 .. N : b[h + k].v = P[k]
      <3> TAKE k \in 1 .. N
      <3>1. h + k \in 1 .. L
        BY <1>1, <1>3
      <3> QED BY <1>2, <1>3, <3>1
    <2>3. P = [k \in 1 .. N |-> P[k]]
      BY <1>4 DEF N
    <2> QED BY <2>1, <2>2, <2>3, Zenon
  <1>8. Content(b) = P
    BY <1>5, <1>6, <1>7, GoodFrameFields
  <1>9. \A k \in Start(b) + 1 .. Len(b) : ~b[k].er
    <2> TAKE k \in Start(b) + 1 .. Len(b)
    <2>1. k \in 1 .. L
      BY <1>1, <1>3, <1>5, <1>6
    <2> QED BY <1>3, <2>1
  <1>10. \A k \in 0 .. FcsLen - 1 : b[Len(b) - k].v =
            Fcs(Begins(b, Len(b) - Start(b) - FcsLen), FcsLen - 1 - k)
    <2> TAKE k \in 0 .. FcsLen - 1
    <2>1. PICK i : i = FcsLen - k
      OBVIOUS
    <2>2. i \in 1 .. FcsLen /\ L - k = h + N + i /\ L - k \in 1 .. L /\ i - 1 = FcsLen - 1 - k
      BY <1>1, <1>3, <2>1
    <2>3. b[L - k].v = E[h + N + i]
      BY <1>3, <2>2
    <2>4. E[h + N + i] = Fcs(P, i - 1)
      BY <1>2, <2>2
    <2> QED BY <1>6, <1>7, <2>2, <2>3, <2>4
  <1>11. GoodFrame(b)
    BY <1>5, <1>6, <1>9, <1>10, GoodFrameFields
  <1> QED BY <1>8, <1>11 DEF P

\* The link starts in silence.
LEMMA LinkInitInv == LinkInit => LinkInv
  <1> SUFFICES ASSUME LinkInit PROVE LinkInv
    OBVIOUS
  <1>1. MacTxInv /\ MacRxInv
    BY MacTxInit, MacRxInit DEF LinkInit
  <1>2. Follows
    <2>1. IsSequence(frame) /\ Len(burst) = 0 /\ burst = <<>> /\ silent = MinGap
      BY Empty DEF LinkInit, Init, RxInit
    <2>2. gmii.en = FALSE /\ gmii.er = FALSE
      BY DEF LinkInit, Init, Silence
    <2>3. silent >= MinGap
      BY <2>1, MacRxAssumption
    <2>4. \A k \in 1 .. Len(burst) : FALSE
      BY <2>1
    <2> QED BY <2>1, <2>2, <2>3, <2>4, Zenon DEF Follows
  <1>3. LinkDelivers
    <2>1. ~Delivers /\ ended = <<>>
      BY StreamFields DEF LinkInit, RxInit, Delivers
    <2> QED BY <2>1 DEF LinkDelivers
  <1> QED BY <1>1, <1>2, <1>3 DEF LinkInv

\* What a working cycle puts on the cable; the packet changes only behind a whole gap.
LEMMA WorkEmits ==
    ASSUME GapInv, gmii.er \in BOOLEAN, Work, Observe
    PROVE  /\ gmii'.er \in BOOLEAN
           /\ gmii.en \in BOOLEAN
           /\ gap \in Nat
           /\ gap # IfgDelay => current' = current
  <1>1. gmii'.er \in BOOLEAN
    BY WireOf DEF Work, STATE_IDLE, STATE_PREAMBLE, STATE_PAYLOAD, STATE_LAST, STATE_PAD,
                  STATE_FCS, STATE_WAIT_END, STATE_IFG, Symbol
  <1>2. gap # IfgDelay => current' = current
    BY DEF GapInv, Observe
  <1>3. gmii.en \in BOOLEAN /\ gap \in Nat
    BY MacTxAssumption DEF GapInv
  <1> QED BY <1>1, <1>2, <1>3

\* What the cable carries is an input the receiver knows.
LEMMA CableIsWire ==
    ASSUME GapInv, Follows, NEW in, in = OnCable
    PROVE  /\ FromWire(in)
           /\ in.dv = gmii.en
           /\ gmii.en => in.er = gmii.er /\ in.v = gmii.txd
  <1>1. gmii.en \in BOOLEAN /\ gmii.er \in BOOLEAN
    BY DEF GapInv, Follows
  <1>2. CASE gmii.en
    <2>1. in = [dv |-> TRUE, er |-> gmii.er, v |-> gmii.txd]
      BY <1>2 DEF OnCable
    <2>2. in.dv = TRUE /\ in.er = gmii.er /\ in.v = gmii.txd
      BY <2>1
    <2>3. burst # <<>> \/ silent >= MinGap
      BY <1>2 DEF Follows
    <2>4. IsInput(in)
      BY <1>1, <2>1, <2>2, Zenon DEF IsInput
    <2> QED BY <1>1, <1>2, <2>2, <2>3, <2>4 DEF FromWire
  <1>3. CASE ~gmii.en
    <2>1. in = Idle
      BY <1>3 DEF OnCable
    <2>2. IsInput(Idle) /\ Idle.dv = FALSE
      BY DEF Idle, IsInput
    <2> QED BY <1>1, <1>3, <2>1, <2>2 DEF FromWire
  <1> QED BY <1>1, <1>2, <1>3

\* The receiver stays one symbol behind.
LEMMA FollowsStep ==
    ASSUME MacTxInv, MacTxInv', MacRxInv, Follows, Work, Observe, proper' => proper,
           NEW in, in = OnCable, RxObserve(in)
    PROVE  Follows'
  <1> DEFINE m == Len(burst)
             n == Len(frame)
             T == gmii'.txd
  <1>1. GapInv /\ GapInv' /\ (proper => gmii.er = FALSE)
    BY DEF MacTxInv, SendInv
  <1>2. /\ in.dv = gmii.en /\ (gmii.en => in.er = gmii.er /\ in.v = gmii.txd)
        /\ gmii.en \in BOOLEAN /\ gmii'.en \in BOOLEAN /\ gmii'.er \in BOOLEAN
    BY <1>1, CableIsWire, WorkEmits DEF GapInv, Follows
  <1>3. IsSequence(burst) /\ m \in Nat /\ silent \in Nat
    BY Empty DEF MacRxInv, LineInv
  <1>4. IsSequence(frame) /\ n \in Nat
    BY Empty DEF Follows
  <1>5. /\ \A k \in 1 .. m : burst[k].v = frame[k]
        /\ proper => \A k \in 1 .. m : ~burst[k].er
    BY DEF Follows
  <1>6. MinGap \in Nat /\ IfgDelay \in Nat /\ IfgDelay >= MinGap /\ MinGap >= 2
    BY MacTxAssumption, MacRxAssumption, LinkAssumption
  <1>7. gap \in Nat /\ gap' \in Nat
    BY <1>1, <1>6 DEF GapInv
  <1>8. /\ frame' = IF ~gmii'.en THEN frame
                    ELSE IF gmii.en THEN Append(frame, T) ELSE <<T>>
        /\ gap' = IF gmii'.en THEN gap ELSE IF gmii.en THEN 1
                  ELSE IF gap < IfgDelay THEN gap + 1 ELSE gap
    BY DEF Observe
  <1>9. /\ burst' = IF in.dv THEN Append(burst, in) ELSE <<>>
        /\ silent' = IF in.dv THEN 0 ELSE IF silent < MinGap THEN silent + 1 ELSE silent
    BY DEF RxObserve
  <1> HIDE DEF T
  <1>10. CASE gmii.en
    <2>1. n = m + 1 /\ frame[n] = gmii.txd
      BY <1>10 DEF Follows
    <2>2. burst' = Append(burst, in) /\ silent' = 0
      BY <1>2, <1>9, <1>10
    <2>3. /\ Len(burst') = m + 1 /\ burst' # <<>> /\ burst'[m + 1] = in
          /\ \A k \in 1 .. m : burst'[k] = burst[k]
      BY <1>3, <2>2, Grows
    <2>4. ASSUME NEW k \in 1 .. m + 1
          PROVE  burst'[k].v = frame[k] /\ (proper => ~burst'[k].er)
      <3>1. CASE k = m + 1
        BY <1>1, <1>2, <1>10, <2>1, <2>3, <3>1
      <3>2. CASE k # m + 1
        <4>1. k \in 1 .. m
          BY <1>3, <3>2
        <4> QED BY <1>5, <2>3, <4>1
      <3> QED BY <3>1, <3>2
    <2>5. CASE gmii'.en
      <3>1. frame' = Append(frame, T)
        BY <1>8, <1>10, <2>5
      <3>2. /\ IsSequence(frame') /\ Len(frame') = n + 1 /\ frame'[n + 1] = T
            /\ \A k \in 1 .. n : frame'[k] = frame[k]
        BY <1>4, <3>1, Grows
      <3>3. Len(frame') = Len(burst') + 1 /\ frame'[Len(frame')] = T
        BY <2>1, <2>3, <3>2
      <3>4. \A k \in 1 .. Len(burst') : burst'[k].v = frame'[k] /\ (proper' => ~burst'[k].er)
        BY <2>1, <2>3, <2>4, <3>2
      <3> QED BY <1>2, <2>3, <2>5, <3>2, <3>3, <3>4 DEF Follows, T
    <2>6. CASE ~gmii'.en
      <3>1. frame' = frame /\ gap' = 1
        BY <1>8, <1>10, <2>6
      <3>2. Len(frame') = Len(burst') /\ silent' + 1 >= gap'
        BY <2>1, <2>2, <2>3, <3>1
      <3>3. \A k \in 1 .. Len(burst') : burst'[k].v = frame'[k] /\ (proper' => ~burst'[k].er)
        BY <2>3, <2>4, <3>1
      <3> QED BY <1>2, <1>4, <2>6, <3>1, <3>2, <3>3 DEF Follows
    <2> QED BY <1>2, <2>5, <2>6
  <1>11. CASE ~gmii.en
    <2>1. silent >= MinGap \/ silent + 1 >= gap
      BY <1>11 DEF Follows
    <2>2. /\ burst' = <<>> /\ Len(burst') = 0
          /\ silent' = IF silent < MinGap THEN silent + 1 ELSE silent
      BY <1>2, <1>9, <1>11, Empty
    <2>3. \A k \in 1 .. Len(burst') : FALSE
      BY <2>2
    <2>4. CASE gmii'.en
      <3>1. frame' = <<T>> /\ gap = IfgDelay
        <4>1. gap' = IfgDelay
          BY <1>1, <2>4 DEF GapInv
        <4> QED BY <1>8, <1>11, <2>4, <4>1
      <3>2. IsSequence(frame') /\ Len(frame') = 1 /\ frame'[1] = T
        BY <3>1 DEF IsSequence
      <3>3. silent' >= MinGap
        BY <1>3, <1>6, <2>1, <2>2, <3>1
      <3>4. Len(frame') = Len(burst') + 1 /\ frame'[Len(frame')] = T
        BY <2>2, <3>2
      <3> QED BY <1>2, <2>3, <2>4, <3>2, <3>3, <3>4, Zenon DEF Follows, T
    <2>5. CASE ~gmii'.en
      <3>1. frame' = frame
        BY <1>8, <2>5
      <3>2. silent' >= MinGap \/ silent' + 1 >= gap'
        <4>1. gap' = IF gap < IfgDelay THEN gap + 1 ELSE gap
          BY <1>8, <1>11, <2>5
        <4> QED BY <1>3, <1>6, <1>7, <2>1, <2>2, <4>1
      <3> QED BY <1>2, <1>4, <2>2, <2>3, <2>5, <3>1, <3>2, Zenon DEF Follows
    <2> QED BY <1>2, <2>4, <2>5
  <1> QED BY <1>2, <1>10, <1>11

\* When the frame has left the cable, it is the whole frame of the packet sent.
LEMMA LinkDeliversStep ==
    ASSUME MacTxInv, MacTxInv', MacRxInv, MacRxInv', Follows, Work, Observe, proper,
           NEW in, in = OnCable, RxObserve(in)
    PROVE  /\ ended' # <<>> <=> Delivers'
           /\ Delivers' => Append(got', m_axis'.data) = Padded(current')
  <1>1. /\ Delivers' <=> ended' # <<>> /\ GoodFrame(ended')
        /\ Delivers' => Append(got', m_axis'.data) = Content(ended')
    BY DEF MacRxInv, DeliversGoodFrames
  <1>2. ASSUME ended' # <<>>
        PROVE  GoodFrame(ended') /\ Content(ended') = Padded(current')
    <2>1. GapInv /\ SendInv
      BY DEF MacTxInv
    <2>2. in.dv = gmii.en
      BY <2>1, CableIsWire
    <2>3. ended' = burst /\ burst # <<>> /\ ~gmii.en
      BY <1>2, <2>2 DEF RxObserve
    <2>4. gap = 1 /\ Len(frame) = Len(burst)
      BY <2>3 DEF Follows
    <2>5. gap # IfgDelay
      BY <2>4, MacRxAssumption, LinkAssumption, MacTxAssumption
    <2>6. current' = current
      BY <2>1, <2>5, WorkEmits DEF Follows
    <2>7. state = "IFG"
      <3>1. state # "IDLE" /\ state \in Silent \cup Sending /\ state \notin Sending
        BY <2>1, <2>3, <2>5 DEF GapInv
      <3>2. state # "WAIT_END"
        BY <2>1 DEF SendInv
      <3> QED BY <3>1, <3>2 DEF Silent
    <2>8. frame = Encode(current) /\ current \in Packet
      BY <2>1, <2>7 DEF SendInv
    <2>9. IsSequence(burst)
      BY DEF MacRxInv, LineInv
    <2>10. \A k \in 1 .. Len(burst) : burst[k].v = frame[k] /\ ~burst[k].er
      BY DEF Follows
    <2>11. GoodFrame(burst) /\ Content(burst) = Padded(current)
      BY <2>4, <2>8, <2>9, <2>10, SentFrameIsGood
    <2> QED BY <2>3, <2>6, <2>11
  <1> QED BY <1>1, <1>2

\* Every cycle of the link keeps its invariant.
LEMMA LinkNextInv == LinkInv /\ [LinkNext]_linkVars => LinkInv'
  <1> SUFFICES ASSUME LinkInv, [LinkNext]_linkVars PROVE LinkInv'
    OBVIOUS
  <1>1. MacTxInv /\ MacRxInv /\ (full_rate => Follows) /\ LinkDelivers
    BY DEF LinkInv
  <1>2. CASE LinkNext
    <2>1. MacTxInv' /\ full_rate' = full_rate
      BY <1>1, <1>2, MacTxNext DEF LinkNext, Next, Working, Holding
    <2>2. CASE full_rate
      <3>1. PICK in : in = OnCable
        OBVIOUS
      <3>2. Cycle(in) /\ Work /\ Observe /\ Stream /\ Offered
        BY <1>2, <2>2, <3>1 DEF LinkNext, Next, Working, Holding
      <3>3. proper' => proper
        BY <3>2, <1>1 DEF Offered, MacTxInv, StreamInv
      <3>4. RxObserve(in) /\ GapInv
        BY <1>1, <3>2 DEF Cycle, MacTxInv
      <3>5. FromWire(in)
        BY <1>1, <2>2, <3>1, <3>4, CableIsWire
      <3>6. MacRxInv'
        BY <1>1, <3>2, <3>5, MacRxCycle
      <3>7. Follows'
        BY <1>1, <2>1, <2>2, <3>1, <3>2, <3>3, <3>4, FollowsStep
      <3>8. LinkDelivers'
        <4>1. CASE proper'
          <5>1. /\ ended' # <<>> <=> Delivers'
                /\ Delivers' => Append(got', m_axis'.data) = Padded(current')
            BY <1>1, <2>1, <2>2, <3>1, <3>2, <3>3, <3>4, <3>6, <4>1, LinkDeliversStep
          <5> QED BY <5>1 DEF LinkDelivers
        <4>2. CASE ~proper'
          BY <4>2 DEF LinkDelivers
        <4> QED BY <4>1, <4>2
      <3> QED BY <2>1, <3>6, <3>7, <3>8 DEF LinkInv
    <2>3. CASE ~full_rate
      <3>1. UNCHANGED rxVars
        BY <1>2, <2>3 DEF LinkNext
      <3>2. MacRxInv'
        BY <1>1, <3>1, MacRxNext
      <3> QED BY <2>1, <2>3, <3>2 DEF LinkInv, LinkDelivers
    <2> QED BY <2>2, <2>3
  <1>3. CASE UNCHANGED linkVars
    <2>1. UNCHANGED vars /\ UNCHANGED rxVars
      BY <1>3 DEF linkVars
    <2>2. MacTxInv'
      <3>1. StreamInv' /\ GapInv'
        BY <1>1, <2>1 DEF vars, fsm, MacTxInv, StreamInv, GapInv
      <3>2. SendInv => SendInv'
        BY <2>1 DEF vars, fsm, SendInv, NoneTaken, InPreamble, InPayload, InLast, InPad, InFcs,
                    InData, Sent
      <3> QED
        BY <1>1, <2>1, <3>1, <3>2 DEF vars, MacTxInv
    <2>3. MacRxInv'
      BY <1>1, <2>1, MacRxNext
    <2>4. (full_rate => Follows)'
      BY <1>1, <2>1 DEF vars, rxVars, rxRegs, Follows
    <2>5. LinkDelivers'
      BY <1>1, <2>1 DEF vars, rxVars, rxRegs, LinkDelivers, Delivers
    <2> QED BY <2>2, <2>3, <2>4, <2>5 DEF LinkInv
  <1> QED BY <1>2, <1>3

\* The transmitter does not notice the receiver: its steps in the link are its own.
THEOREM LinkImplementsTx == LinkSpec => Spec
  <1>1. LinkInit => Init
    BY DEF LinkInit
  <1>2. [LinkNext]_linkVars => [Next]_vars
    BY DEF LinkNext, linkVars
  <1> QED BY <1>1, <1>2, PTL DEF LinkSpec, Spec

\* The invariant of the link: the receiver holds what the transmitter has sent up to
\* the symbol on the cable, and the gap between frames is long enough for it.
THEOREM LinkInvariant == LinkSpec => []LinkInv
  BY LinkInitInv, LinkNextInv, PTL DEF LinkSpec

\* What is sent is what is received, packet by packet, padding included, whatever the
\* lengths of packets, preamble, check and gap.
THEOREM LinkDeliversPackets == LinkSpec => []LinkDelivers
  <1>1. LinkInv => LinkDelivers
    BY DEF LinkInv
  <1> QED BY <1>1, LinkInvariant, PTL
=============================================================================
