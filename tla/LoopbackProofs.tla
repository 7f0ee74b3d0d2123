--------------------------- MODULE LoopbackProofs ---------------------------
(***************************************************************************)
(* The transmit path, part by part: what ethernet_send_packet is given is  *)
(* what the MAC is handed (SendPacket, for every word size, buffer size    *)
(* and range of lengths); the multiplexer never mixes or cuts packets      *)
(* (PktMux, for packets of any length); and together they loop back to the *)
(* receive side what software asked for (Loopback).                        *)
(***************************************************************************)
EXTENDS Loopback, SequenceTheorems, TLAPS

-----------------------------------------------------------------------------
(* The driver and TX framing. *)

\* The TX buffer as it is addressed by words and by bytes.
LEMMA DivMod ==
    ASSUME NEW a \in Nat
    PROVE  /\ a \div WordBytes \in Nat
           /\ a % WordBytes \in 0 .. WordBytes - 1
           /\ a = (a \div WordBytes) * WordBytes + (a % WordBytes)
  BY BufferAssumption

\* Words are long enough for the bytes before their end.
LEMMA WordsCover ==
    ASSUME NEW W \in Nat \ {0}, NEW a \in Nat, NEW l \in Nat, a < l,
           NEW q \in Nat, NEW n \in Nat,
           a >= q * W, l + W - 1 < n * W + W
    PROVE  q < n
  OBVIOUS

\* Fewer words than the buffer has are needed.
LEMMA WordsFit ==
    ASSUME NEW W \in Nat \ {0}, NEW l \in Nat, NEW n \in Nat, NEW m \in Nat,
           n * W <= l + W - 1, l <= W * m
    PROVE  n <= m
  OBVIOUS

\* len_words is not truncated to its eight bits, it covers the packet and it
\* fits the buffer.
LEMMA LenWords ==
    ASSUME TypeOK
    PROVE  /\ len_words \in 0 .. BufWords
           /\ \A a \in 0 .. len_bytes - 1 : a \div WordBytes < len_words
  <1> DEFINE l == len_bytes
             t == l + WordBytes - 1
             n == t \div WordBytes
  <1>1. l \in Nat /\ l <= MaxLen
    BY LengthAssumption DEF TypeOK
  <1>2. t \in Nat
    BY <1>1, BufferAssumption
  <1>3. n \in Nat /\ t % WordBytes \in 0 .. WordBytes - 1 /\ t = n * WordBytes + (t % WordBytes)
    BY <1>2, DivMod
  <1>4. len_words = n % LenWordsRange
    BY DEF len_words
  <1> HIDE DEF n
  <1>5. n * WordBytes <= l + WordBytes - 1 /\ l + WordBytes - 1 < n * WordBytes + WordBytes
    BY <1>1, <1>3, BufferAssumption
  <1>6. n <= BufWords
    <2>1. l <= WordBytes * BufWords
      BY <1>1, LengthAssumption, BufferAssumption
    <2> QED
      BY <1>1, <1>3, <1>5, <2>1, BufferAssumption, WordsFit
  <1>7. n < LenWordsRange
    <2>1. l + WordBytes - 1 < WordBytes * LenWordsRange
      BY <1>1, LengthAssumption, BufferAssumption
    <2>2. n * WordBytes < LenWordsRange * WordBytes
      BY <1>3, <1>5, <2>1, LengthAssumption, BufferAssumption
    <2> QED
      BY <1>3, <2>2, LengthAssumption, BufferAssumption
  <1>8. len_words = n
    BY <1>3, <1>4, <1>7, LengthAssumption
  <1>9. ASSUME NEW a \in 0 .. l - 1
        PROVE  a \div WordBytes < n
    <2> DEFINE q == a \div WordBytes
    <2>1. a \in Nat /\ a < l
      BY <1>1
    <2>2. q \in Nat /\ a % WordBytes \in 0 .. WordBytes - 1 /\ a = q * WordBytes + (a % WordBytes)
      BY <2>1, DivMod
    <2> HIDE DEF q
    <2>3. a >= q * WordBytes
      BY <2>1, <2>2, BufferAssumption
    <2>4. q < n
      BY <1>1, <1>3, <1>5, <2>1, <2>2, <2>3, BufferAssumption, WordsCover
    <2> QED
      BY <2>4 DEF q
  <1> QED
    BY <1>3, <1>6, <1>8, <1>9, BufferAssumption

\* The words of the packet fit the buffer.
WordsInBuffer == len_words \in 0 .. BufWords

\* The copy loop never runs past the TX buffer.
LEMMA LenWordsAlways == TypeOK => WordsInBuffer
  BY LenWords DEF WordsInBuffer

\* A byte address is in one word of the buffer.
LEMMA ByteInRam ==
    ASSUME TypeOK, NEW a \in Addr
    PROVE  /\ a \div WordBytes \in 0 .. BufWords - 1
           /\ ByteAt(a) \in Byte
  <1>1. a \in Nat /\ a < WordBytes * BufWords
    BY BufferAssumption DEF Addr, BufBytes
  <1> DEFINE q == a \div WordBytes
  <1>2. q \in Nat /\ a % WordBytes \in 0 .. WordBytes - 1 /\ a = q * WordBytes + (a % WordBytes)
    BY <1>1, DivMod
  <1>3. q < BufWords
    <2> HIDE DEF q
    <2>1. q * WordBytes < BufWords * WordBytes
      BY <1>1, <1>2, BufferAssumption
    <2> QED
      BY <1>2, <2>1, BufferAssumption
  <1>4. q \in 0 .. BufWords - 1
    BY <1>2, <1>3, BufferAssumption
  <1> QED
    BY <1>2, <1>4 DEF ByteAt, TypeOK, Word

\* The buffer has room for the longest packet, and is not empty.
LEMMA Room == BufBytes \in Nat \ {0} /\ MaxLen <= BufBytes /\ MaxLen \in Nat /\ 0 \in Addr
  <1>1. WordBytes * BufWords \in Nat \ {0}
    BY BufferAssumption
  <1> QED
    BY <1>1, LengthAssumption DEF BufBytes, Addr

\* A write to the buffer or to TX_CTRL, or none.
LegalAccess(wr, ctrl) ==
    /\ wr.en \in BOOLEAN /\ ctrl.en \in BOOLEAN
    /\ wr.en => wr.addr \in 0 .. BufWords - 1 /\ wr.data \in Word
    /\ ctrl.en => ctrl.len \in 1 .. MaxLen

\* One cycle of the hardware keeps the types of its registers.
LEMMA HardwareType ==
    ASSUME TypeOK, NEW wr, NEW ctrl, NEW ready \in BOOLEAN, LegalAccess(wr, ctrl),
           TxCycle(wr, ctrl, ready), Observe(ready)
    PROVE  /\ tx_packet_len' \in 0 .. MaxLen /\ tx_busy' \in BOOLEAN
           /\ tx_buffer_addr' \in Addr /\ ram' \in [0 .. BufWords - 1 -> Word]
           /\ tx_data' \in Byte /\ sent' \in Seq(Byte) /\ delivered' \in Seq(Byte)
           /\ tx_buffer_addr_next(ready) \in Addr
  <1>1. tx_packet_len' \in 0 .. MaxLen
    BY LengthAssumption DEF TxCycle, TxCtrl, TypeOK, LegalAccess
  <1>2. tx_busy' \in BOOLEAN
    BY DEF TxCycle, TxFsm, TypeOK
  <1>3. tx_buffer_addr_next(ready) \in Addr
    <2>1. tx_buffer_addr \in Nat
      BY Room DEF TypeOK, Addr
    <2>2. (tx_buffer_addr + 1) % BufBytes \in Addr
      BY <2>1, Room DEF Addr
    <2> QED
      BY <2>2, Room DEF tx_buffer_addr_next, TypeOK
  <1>4. tx_buffer_addr' \in Addr
    BY <1>3 DEF TxCycle, TxFsm
  <1>5. ram' \in [0 .. BufWords - 1 -> Word]
    BY DEF TxCycle, TxBuffer, TypeOK, LegalAccess
  <1>6. tx_data' \in Byte
    <2>1. ByteAt(tx_buffer_addr_next(ready)) \in Byte
      BY <1>3, ByteInRam
    <2> QED
      BY <2>1 DEF TxCycle, TxBuffer, TypeOK
  <1>7. sent' \in Seq(Byte) /\ delivered' \in Seq(Byte)
    <2>1. Append(sent, tx_data) \in Seq(Byte) /\ <<>> \in Seq(Byte)
      BY DEF TypeOK
    <2> QED
      BY <2>1 DEF Observe, TypeOK
  <1> QED
    BY <1>1, <1>2, <1>3, <1>4, <1>5, <1>6, <1>7

\* While a packet is sent, one cycle offers the same byte again, or the next
\* one, or ends the packet with all of it delivered.
LEMMA SendingStep ==
    ASSUME TypeOK, tx_busy, Sending, NEW ready \in BOOLEAN,
           TxCycle(NoWrite, NoCtrl, ready), Observe(ready), requested' = requested
    PROVE  IF tx_busy' THEN Sending' ELSE Resting'
  <1> DEFINE L == Len(requested)
             A == tx_buffer_addr
  <1>1. /\ tx_packet_len = L /\ A < L /\ A \in Nat /\ L \in Nat /\ L <= MaxLen
        /\ sent \in Seq(Byte) /\ Len(sent) = A /\ requested \in Seq(Byte) /\ tx_data \in Byte
    BY Room DEF Sending, TypeOK, Addr
  <1>2. tx_packet_len' = L /\ ram' = ram /\ A \in Addr
    BY <1>1 DEF TxCycle, TxCtrl, TxBuffer, NoWrite, NoCtrl, TypeOK
  <1>3. /\ tx_busy' = IF ready /\ tx_last THEN FALSE ELSE TRUE
        /\ tx_buffer_addr' = tx_buffer_addr_next(ready)
        /\ tx_data' = ByteAt(tx_buffer_addr_next(ready))
    BY DEF TxCycle, TxFsm, TxBuffer, NoCtrl, tx_kick, done_pulse, tx_valid
  <1>4. tx_buffer_addr_next(ready) =
           IF ready THEN IF tx_last THEN 0 ELSE (A + 1) % BufBytes ELSE A
    BY DEF tx_buffer_addr_next, tx_valid
  <1>5. tx_last <=> A = L - 1
    BY <1>1 DEF tx_last
  <1>6. \A a \in 0 .. L - 1 : ByteAt(a) = requested[a + 1] /\ ByteAt(a)' = requested[a + 1]
    BY <1>1, <1>2 DEF Sending, ByteAt
  <1>7. \A k \in 1 .. A : sent[k] = requested[k]
    BY <1>1 DEF Sending
  <1>8. tx_data = requested[A + 1]
    BY DEF Sending
  <1> DEFINE got == Append(sent, tx_data)
  <1>9. /\ got \in Seq(Byte) /\ Len(got) = A + 1
        /\ \A k \in 1 .. A + 1 : got[k] = requested[k]
    <2>1. got \in Seq(Byte) /\ Len(got) = A + 1 /\ got[A + 1] = tx_data
          /\ \A k \in 1 .. A : got[k] = sent[k]
      BY <1>1
    <2> HIDE DEF got
    <2>2. ASSUME NEW k \in 1 .. A + 1 PROVE got[k] = requested[k]
      <3>1. CASE k \in 1 .. A
        BY <1>7, <2>1, <3>1
      <3>2. CASE k = A + 1
        BY <1>8, <2>1, <3>2
      <3> QED
        BY <1>1, <3>1, <3>2
    <2> QED
      BY <2>1, <2>2
  <1>10. CASE ~ready
    <2>1. tx_busy' /\ tx_buffer_addr' = A /\ tx_data' = ByteAt(A) /\ sent' = sent
      BY <1>3, <1>4, <1>10 DEF Observe
    <2>2. ByteAt(A) = requested[A + 1]
      BY <1>1, <1>6
    <2>3. Sending'
      BY <1>1, <1>2, <1>6, <1>7, <2>1, <2>2 DEF Sending
    <2> QED
      BY <2>1, <2>3
  <1>11. CASE ready /\ tx_last
    <2>1. ~tx_busy' /\ tx_buffer_addr' = 0 /\ sent' = <<>> /\ delivered' = got
      BY <1>3, <1>4, <1>11 DEF Observe, tx_valid
    <2>2. A + 1 = L
      BY <1>1, <1>5, <1>11
    <2> HIDE DEF got
    <2>3. got = requested
      BY <1>1, <1>9, <2>2, SeqEqual
    <2> QED
      BY <2>1, <2>3 DEF Resting
  <1>12. CASE ready /\ ~tx_last
    <2>1. A + 1 < L
      BY <1>1, <1>5, <1>12
    <2>2. (A + 1) % BufBytes = A + 1
      BY <1>1, <2>1, Room
    <2>3. tx_busy' /\ tx_buffer_addr' = A + 1 /\ tx_data' = ByteAt(A + 1) /\ sent' = got
      BY <1>3, <1>4, <1>12, <2>2 DEF Observe, tx_valid
    <2>4. ByteAt(A + 1) = requested[A + 1 + 1]
      BY <1>1, <1>6, <2>1
    <2> HIDE DEF got
    <2>5. Sending'
      <3>1. Len(sent') = tx_buffer_addr' /\ tx_buffer_addr' < tx_packet_len'
        BY <1>2, <1>9, <2>1, <2>3
      <3>2. \A k \in 1 .. Len(sent') : sent'[k] = requested[k]
        BY <1>9, <2>3
      <3>3. tx_data' = requested[tx_buffer_addr' + 1]
        BY <2>3, <2>4
      <3> QED
        BY <1>2, <1>6, <3>1, <3>2, <3>3 DEF Sending
    <2> QED
      BY <2>3, <2>5
  <1> QED
    BY <1>10, <1>11, <1>12

\* An idle transmitter that is not kicked stays idle, whatever is written.
LEMMA RestingStep ==
    ASSUME TypeOK, ~tx_busy, Resting, NEW ready \in BOOLEAN, NEW wr, NEW ctrl,
           TxCycle(wr, ctrl, ready), Observe(ready)
    PROVE  /\ tx_busy' = tx_kick(ctrl) /\ tx_buffer_addr' = 0 /\ sent' = <<>>
           /\ delivered' = delivered
           /\ tx_kick(ctrl) => tx_data' = ByteAt(0)
  <1>1. tx_buffer_addr_next(ready) = 0
    BY DEF tx_buffer_addr_next, tx_valid, Resting
  <1>2. tx_kick(ctrl) \in BOOLEAN
    BY DEF tx_kick
  <1>3. tx_busy' = tx_kick(ctrl)
    <2>1. CASE tx_kick(ctrl)
      BY <2>1 DEF TxCycle, TxFsm
    <2>2. CASE ~tx_kick(ctrl)
      <3>1. tx_busy' = tx_busy
        BY <2>2 DEF TxCycle, TxFsm, done_pulse, tx_valid
      <3>2. tx_busy = FALSE
        BY DEF TypeOK
      <3> QED
        BY <1>2, <2>2, <3>1, <3>2
    <2> QED BY <1>2, <2>1, <2>2
  <1> QED
    BY <1>1, <1>3 DEF TxCycle, TxFsm, TxBuffer, Observe, tx_valid, Resting

\* The hardware's part of the invariant when nothing is written.
LEMMA QuietCycle ==
    ASSUME IInv, NEW ready \in BOOLEAN, TxCycle(NoWrite, NoCtrl, ready), Observe(ready),
           requested' = requested
    PROVE  /\ IF tx_busy' THEN Sending' ELSE Resting'
           /\ ~tx_busy => ~tx_busy'
  <1>1. TypeOK
    BY DEF IInv
  <1>2. CASE tx_busy
    BY <1>1, <1>2, SendingStep DEF IInv
  <1>3. CASE ~tx_busy
    <2>1. ~tx_kick(NoCtrl)
      BY DEF tx_kick, NoCtrl
    <2>2. tx_busy' = FALSE /\ tx_buffer_addr' = 0 /\ sent' = <<>> /\ delivered' = delivered
      BY <1>1, <1>3, <2>1, RestingStep DEF IInv
    <2> QED
      BY <1>3, <2>2 DEF IInv, Resting
  <1> QED BY <1>2, <1>3

\* The invariant holds after reset.
LEMMA InitIInv == Init => IInv
  <1> SUFFICES ASSUME Init PROVE IInv
    OBVIOUS
  <1>1. TypeOK
    <2>1. 0 \in 0 .. MaxLen /\ 0 \in 0 .. BufWords /\ 0 \in Addr
      BY Room, LengthAssumption, BufferAssumption
    <2>2. <<>> \in Seq(Byte)
      OBVIOUS
    <2> QED
      BY <2>1, <2>2 DEF Init, TxInit, TypeOK
  <1> QED
    BY <1>1 DEF Init, TxInit, IInv, Resting

\* A cycle without a write that matters.
LEMMA NoAccessIInv ==
    ASSUME IInv, NEW ready \in BOOLEAN, NoAccess(ready)
    PROVE  IInv'
  <1>1. TypeOK /\ TxCycle(NoWrite, NoCtrl, ready) /\ Observe(ready)
        /\ UNCHANGED hostVars /\ requested' = requested
    BY DEF IInv, NoAccess
  <1>2. LegalAccess(NoWrite, NoCtrl)
    BY DEF LegalAccess, NoWrite, NoCtrl
  <1>3. TypeOK'
    BY <1>1, <1>2, HardwareType DEF TypeOK, hostVars
  <1>4. IF tx_busy' THEN Sending' ELSE Resting'
    BY <1>1, QuietCycle
  <1>5. pc' = "copy" => Copying'
    <2> SUFFICES ASSUME pc = "copy" PROVE Copying'
      BY <1>1 DEF hostVars
    <2>1. Copying
      BY DEF IInv
    <2>2. ~tx_busy'
      BY <1>1, <2>1, QuietCycle DEF Copying
    <2>3. ram' = ram
      BY <1>1 DEF TxCycle, TxBuffer, NoWrite
    <2> QED
      BY <1>1, <2>1, <2>2, <2>3 DEF Copying, hostVars, len_words
  <1> QED
    BY <1>3, <1>4, <1>5 DEF IInv

\* ethernet_send_packet starts to copy.
LEMMA CallIInv ==
    ASSUME IInv, NEW ready \in BOOLEAN, NEW d \in Array, NEW len \in 0 .. MaxLen + 1,
           Call(d, len, ready)
    PROVE  IInv'
  <1>1. TypeOK /\ TxCycle(NoWrite, NoCtrl, ready) /\ Observe(ready) /\ requested' = requested
    BY DEF IInv, Call
  <1>2. LegalAccess(NoWrite, NoCtrl)
    BY DEF LegalAccess, NoWrite, NoCtrl
  <1>3. pc' = "copy" /\ data' = d /\ len_bytes' = len /\ i' = 0 /\ ~tx_busy
        /\ len >= MinLen /\ len <= MaxLen
    BY DEF Call
  <1>4. TypeOK'
    <2>1. len \in 0 .. MaxLen /\ 0 \in 0 .. BufWords
      BY <1>3, LengthAssumption, BufferAssumption
    <2> QED
      BY <1>1, <1>2, <1>3, <2>1, HardwareType DEF TypeOK
  <1>5. (IF tx_busy' THEN Sending' ELSE Resting') /\ ~tx_busy'
    BY <1>1, <1>3, QuietCycle
  <1>6. Copying'
    <2>1. WordsInBuffer'
      BY <1>4, LenWordsAlways, PTL
    <2>2. i' <= len_words'
      BY <1>3, <2>1, BufferAssumption DEF WordsInBuffer
    <2> QED
      BY <1>3, <1>5, <2>2 DEF Copying
  <1> QED
    BY <1>4, <1>5, <1>6 DEF IInv

\* One word is copied.
LEMMA CopyWordIInv ==
    ASSUME IInv, NEW ready \in BOOLEAN, CopyWord(ready)
    PROVE  IInv'
  <1> DEFINE w == DataWord(data, i)
  <1>1. TypeOK /\ TxCycle(WriteWord(i, w), NoCtrl, ready) /\ Observe(ready)
        /\ i < len_words /\ i' = i + 1 /\ UNCHANGED <<pc, data, len_bytes, requested>>
    BY DEF IInv, CopyWord
  <1>2. Copying /\ Resting /\ ~tx_busy
    BY DEF IInv, CopyWord, Copying
  <1>3. i \in 0 .. BufWords - 1 /\ i + 1 \in 0 .. BufWords /\ i + 1 <= len_words
    <2>1. len_words \in 0 .. BufWords /\ i \in 0 .. BufWords /\ i < len_words
      BY <1>1, LenWords DEF TypeOK
    <2> QED
      BY <2>1, BufferAssumption
  <1>4. w \in Word
    <2>1. ASSUME NEW j \in 0 .. WordBytes - 1
          PROVE  i * WordBytes + j \in Addr
      <3>1. i * WordBytes + WordBytes <= WordBytes * BufWords /\ i * WordBytes \in Nat
        <4>1. (i + 1) * WordBytes <= BufWords * WordBytes
          BY <1>3, BufferAssumption
        <4> QED
          BY <1>3, <4>1, BufferAssumption
      <3>2. WordBytes * BufWords \in Nat
        BY BufferAssumption
      <3> QED
        BY <2>1, <3>1, <3>2, BufferAssumption DEF Addr, BufBytes
    <2> QED
      BY <1>1, <2>1 DEF DataWord, Word, TypeOK, Array
  <1>5. LegalAccess(WriteWord(i, w), NoCtrl)
    BY <1>3, <1>4 DEF LegalAccess, WriteWord, NoCtrl
  <1>6. TypeOK'
    BY <1>1, <1>3, <1>5, HardwareType DEF TypeOK
  <1>7. ~tx_kick(NoCtrl)
    BY DEF tx_kick, NoCtrl
  <1>8. tx_busy' = FALSE /\ tx_buffer_addr' = 0 /\ sent' = <<>> /\ delivered' = delivered
    BY <1>1, <1>2, <1>7, RestingStep
  <1>9. Resting'
    BY <1>1, <1>2, <1>8 DEF Resting
  <1>10. ram' = [ram EXCEPT ![i] = w]
    BY <1>1 DEF TxCycle, TxBuffer, WriteWord
  <1>11. Copying'
    <2>1. \A v \in 0 .. i' - 1 : ram'[v] = DataWord(data', v)
      <3> TAKE v \in 0 .. i' - 1
      <3>1. v \in 0 .. BufWords - 1 /\ (v = i \/ v \in 0 .. i - 1)
        BY <1>1, <1>3, BufferAssumption
      <3>2. ram \in [0 .. BufWords - 1 -> Word]
        BY <1>1 DEF TypeOK
      <3>3. CASE v = i
        BY <1>1, <1>10, <3>1, <3>2, <3>3
      <3>4. CASE v # i /\ v \in 0 .. i - 1
        BY <1>1, <1>2, <1>10, <3>1, <3>2, <3>4 DEF Copying
      <3> QED
        BY <3>1, <3>3, <3>4
    <2>2. len_words' = len_words
      BY <1>1 DEF len_words
    <2> QED
      BY <1>1, <1>2, <1>3, <1>8, <2>1, <2>2 DEF Copying
  <1> QED
    BY <1>6, <1>8, <1>9, <1>11 DEF IInv

\* The length is written to TX_CTRL.
LEMMA TriggerIInv ==
    ASSUME IInv, NEW ready \in BOOLEAN, Trigger(ready)
    PROVE  IInv'
  <1> DEFINE ctrl == WriteCtrl(len_bytes)
             L == len_bytes
  <1>1. TypeOK /\ TxCycle(NoWrite, ctrl, ready) /\ Observe(ready)
        /\ pc' = "idle" /\ i >= len_words /\ requested' = Prefix(data, L)
        /\ UNCHANGED <<data, len_bytes, i>>
    BY DEF IInv, Trigger
  <1>2. Copying /\ Resting /\ ~tx_busy
    BY DEF IInv, Trigger, Copying
  <1>3. L \in 1 .. MaxLen /\ L \in Nat
    BY <1>1, <1>2, LengthAssumption DEF TypeOK, Copying
  <1>4. LegalAccess(NoWrite, ctrl) /\ tx_kick(ctrl)
    BY <1>3 DEF LegalAccess, NoWrite, WriteCtrl, tx_kick
  <1>5. \A a \in 0 .. L - 1 : a \in Addr
    BY <1>3, Room DEF Addr
  <1>6. /\ requested' \in Seq(Byte) /\ Len(requested') = L
        /\ \A k \in 1 .. L : requested'[k] = data[k - 1]
    <2>1. \A k \in 1 .. L : data[k - 1] \in Byte
      BY <1>1, <1>3, <1>5 DEF TypeOK, Array
    <2> QED
      BY <1>1, <1>3, <2>1 DEF Prefix
  <1>7. TypeOK'
    BY <1>1, <1>4, <1>6, HardwareType DEF TypeOK
  <1>8. tx_busy' = TRUE /\ tx_buffer_addr' = 0 /\ sent' = <<>> /\ tx_data' = ByteAt(0)
    BY <1>1, <1>2, <1>4, RestingStep
  <1>9. tx_packet_len' = L /\ ram' = ram
    BY <1>1 DEF TxCycle, TxCtrl, TxBuffer, WriteCtrl, NoWrite
  <1>10. ASSUME NEW a \in 0 .. L - 1
         PROVE  ByteAt(a) = data[a]
    <2> DEFINE q == a \div WordBytes
               o == a % WordBytes
    <2>1. a \in Nat
      BY <1>3
    <2>2. q \in Nat /\ o \in 0 .. WordBytes - 1 /\ a = q * WordBytes + o
      BY <2>1, DivMod
    <2>3. q < len_words /\ len_words \in Nat /\ i \in Nat
      <3>1. /\ len_words \in 0 .. BufWords /\ i \in 0 .. BufWords
            /\ \A b \in 0 .. len_bytes - 1 : b \div WordBytes < len_words
        BY <1>1, LenWords DEF TypeOK
      <3> QED
        BY <3>1, BufferAssumption
    <2> HIDE DEF q, o
    <2>4. q \in 0 .. i - 1
      BY <1>1, <2>2, <2>3
    <2>5. ram[q] = DataWord(data, q)
      BY <1>2, <2>4 DEF Copying
    <2>6. DataWord(data, q)[o] = data[q * WordBytes + o]
      BY <2>2 DEF DataWord
    <2> QED
      BY <2>2, <2>5, <2>6 DEF ByteAt, q, o
  <1>11. Sending'
    <2>1. \A a \in 0 .. L - 1 : ByteAt(a)' = requested'[a + 1]
      <3> TAKE a \in 0 .. L - 1
      <3>1. ByteAt(a)' = ByteAt(a)
        BY <1>9 DEF ByteAt
      <3>2. a + 1 \in 1 .. L /\ (a + 1) - 1 = a
        BY <1>3
      <3> QED
        BY <1>6, <1>10, <3>1, <3>2
    <2>2. tx_data' = requested'[0 + 1]
      <3>1. 0 \in 0 .. L - 1 /\ 1 \in 1 .. L /\ 1 - 1 = 0
        BY <1>3
      <3> QED
        BY <1>6, <1>8, <1>10, <3>1
    <2>3. Len(sent') = 0
      BY <1>8
    <2> QED
      BY <1>3, <1>6, <1>8, <1>9, <2>1, <2>2, <2>3 DEF Sending
  <1> QED
    BY <1>1, <1>7, <1>8, <1>11 DEF IInv

\* The inductive invariant holds in every state.
THEOREM SendPacketInvariant == Spec => []IInv
  <1>1. IInv /\ [Next]_vars => IInv'
    <2> SUFFICES ASSUME IInv, [Next]_vars PROVE IInv'
      OBVIOUS
    <2>1. CASE Next
      BY <2>1, NoAccessIInv, CallIInv, CopyWordIInv, TriggerIInv DEF Next, Step
    <2>2. CASE UNCHANGED vars
      <3>1. TypeOK' /\ (Sending' <=> Sending) /\ (Resting' <=> Resting) /\ (Copying' <=> Copying)
        BY <2>2 DEF IInv, vars, txVars, TypeOK, Sending, Resting, Copying, ByteAt, len_words
      <3> QED
        BY <2>2, <3>1 DEF IInv, vars, txVars
    <2> QED BY <2>1, <2>2
  <1> QED
    BY <1>1, InitIInv, PTL DEF Spec

\* Registers and driver variables keep their types; in particular the address
\* never leaves the buffer and the copy loop never writes past it.
THEOREM SendPacketType == Spec => []TypeOK
  <1>1. IInv => TypeOK
    BY DEF IInv
  <1> QED
    BY <1>1, SendPacketInvariant, PTL

\* The driver obeys the rule of the TX hardware: no access while it is busy.
THEOREM DriverQuietWhileBusy == Spec => []QuietWhileBusy
  <1>1. IInv => QuietWhileBusy
    BY DEF IInv, TypeOK, QuietWhileBusy, Copying
  <1> QED
    BY <1>1, SendPacketInvariant, PTL

\* What the invariant says about the bytes on the stream.
LEMMA SendingIsRequested == IInv => SendsRequested
  <1> SUFFICES ASSUME IInv PROVE SendsRequested
    OBVIOUS
  <1>1. CASE ~tx_busy
    BY <1>1 DEF IInv, Resting, SendsRequested
  <1>2. CASE tx_busy
    <2> DEFINE A == tx_buffer_addr
               L == Len(requested)
               got == Append(sent, tx_data)
               pre == SubSeq(requested, 1, Len(sent) + 1)
    <2>1. /\ tx_packet_len = L /\ A < L /\ A \in Nat /\ L \in Nat /\ Len(sent) = A
          /\ sent \in Seq(Byte) /\ requested \in Seq(Byte) /\ tx_data \in Byte
          /\ tx_data = requested[A + 1] /\ \A k \in 1 .. A : sent[k] = requested[k]
      BY <1>2, Room DEF IInv, TypeOK, Sending, Addr
    <2>2. tx_last <=> A + 1 = L
      BY <2>1 DEF tx_last
    <2>3. /\ got \in Seq(Byte) /\ Len(got) = A + 1
          /\ got[A + 1] = tx_data /\ \A k \in 1 .. A : got[k] = sent[k]
      BY <2>1
    <2>4. /\ pre \in Seq(Byte) /\ Len(pre) = A + 1
          /\ \A k \in 1 .. A + 1 : pre[k] = requested[k]
      BY <2>1
    <2> HIDE DEF got, pre
    <2>5. \A k \in 1 .. A + 1 : got[k] = pre[k]
      <3> TAKE k \in 1 .. A + 1
      <3>1. CASE k \in 1 .. A
        BY <2>1, <2>3, <2>4, <3>1
      <3>2. CASE k = A + 1
        BY <2>1, <2>3, <2>4, <3>2
      <3> QED
        BY <2>1, <3>1, <3>2
    <2>6. got = pre
      BY <2>3, <2>4, <2>5, SeqEqual
    <2> QED
      BY <1>2, <2>1, <2>2, <2>6 DEF SendsRequested, got, pre
  <1> QED BY <1>1, <1>2

\* The MAC is handed exactly the packets the driver was given.
THEOREM DriverSendsRequested == Spec => []SendsRequested
  BY SendingIsRequested, SendPacketInvariant, PTL

\* A byte the MAC did not take is offered again.
LEMMA StableStep ==
    ASSUME IInv, tx_valid, Step(FALSE)
    PROVE  tx_valid' /\ tx_data' = tx_data /\ (tx_last' <=> tx_last)
  <1>1. tx_busy /\ TypeOK /\ Sending
    BY DEF tx_valid, IInv
  <1>2. pc # "copy"
    BY <1>1 DEF IInv, Copying
  <1>3. NoAccess(FALSE)
    BY <1>1, <1>2 DEF Step, Call, CopyWord, Trigger
  <1>4. TxCycle(NoWrite, NoCtrl, FALSE)
    BY <1>3 DEF NoAccess
  <1>5. tx_buffer_addr_next(FALSE) = tx_buffer_addr
    BY DEF tx_buffer_addr_next
  <1>6. /\ tx_busy' = tx_busy /\ tx_packet_len' = tx_packet_len
        /\ tx_buffer_addr' = tx_buffer_addr /\ tx_data' = ByteAt(tx_buffer_addr)
    BY <1>1, <1>4, <1>5
       DEF TxCycle, TxCtrl, TxFsm, TxBuffer, NoCtrl, tx_kick, done_pulse
  <1>7. ByteAt(tx_buffer_addr) = requested[tx_buffer_addr + 1]
    <2>1. tx_buffer_addr \in 0 .. tx_packet_len - 1
      BY <1>1, Room DEF TypeOK, Sending, Addr
    <2> QED
      BY <1>1, <2>1 DEF Sending
  <1> QED
    BY <1>1, <1>6, <1>7 DEF tx_valid, tx_last, Sending

\* TxAxisValidStaysUntilHandshake_A and TxAxisInvariantUntilHandshake_A hold for
\* every behaviour of driver and hardware.
THEOREM OfferedByteStable == Spec => AxisStable
  <1>1. IInv /\ [Next]_vars =>
            [tx_valid /\ Step(FALSE)
                => tx_valid' /\ tx_data' = tx_data /\ (tx_last' <=> tx_last)]_vars
    BY StableStep
  <1> QED
    BY <1>1, SendPacketInvariant, PTL DEF Spec, AxisStable

-----------------------------------------------------------------------------
(* The multiplexer. *)

\* At most one path is connected, whatever the select line says: the paths'
\* isolate inputs exclude each other between packets, and during a packet the
\* isolator's own flag equals the registered one that holds off the other path.
LEMMA InterlockWorks == MuxInv => NeverMixPaths
  BY DEF MuxInv, MuxTypeOK, NeverMixPaths, isolated, isolate_i, Path, Other

\* The invariant holds after reset.
LEMMA MuxInitInv == MuxInit => MuxInv
  <1> SUFFICES ASSUME MuxInit PROVE MuxInv
    OBVIOUS
  <1>1. Zero \in OutBeat /\ None \in [src : Path, idx : 0 .. MaxBeats]
    BY MaxBeatsAssumption DEF Zero, None, OutBeat, Path
  <1>2. MuxTypeOK
    <2>1. 0 \in 0 .. MaxBeats - 1
      BY MaxBeatsAssumption
    <2> QED
      BY <1>1, <2>1 DEF MuxInit, MuxTypeOK
  <1>3. OutBeats = {}
    BY DEF MuxInit, OutBeats, Zero
  <1>4. Open = None
    BY <1>3 DEF Open, MuxInit
  <1> QED
    BY <1>2, <1>4 DEF MuxInit, MuxInv, Path, Passing, NoSplice, Zero

\* The beats that are on the multiplexer's inputs.
LEMMA InputType ==
    ASSUME MuxTypeOK, NEW rx \in Axis, NEW tx \in Axis, NEW ready \in BOOLEAN, NEW p \in Path
    PROVE  /\ axis_i(rx, tx, ready)[p] \in OutBeat
           /\ axis_i(rx, tx, ready)[p].src = p
           /\ axis_i(rx, tx, ready)[p].idx = pos[p]
           /\ axis_i(rx, tx, ready)[p].valid = Taken(rx, tx, ready, p)
           /\ axis_i(rx, tx, ready)[p].last = Stream(rx, tx, p).last
  <1> DEFINE b == IF p = 0 THEN rx ELSE tx_axis_modified(tx, ready)
  <1>1. b.valid \in BOOLEAN /\ b.last \in BOOLEAN
    BY DEF Axis, tx_axis_modified
  <1>2. axis_i(rx, tx, ready)[p] = [valid |-> b.valid, last |-> b.last, src |-> p, idx |-> pos[p]]
    BY DEF axis_i
  <1>3. pos[p] \in 0 .. MaxBeats - 1
    BY DEF MuxTypeOK
  <1>4. b.valid = Taken(rx, tx, ready, p) /\ b.last = Stream(rx, tx, p).last
    BY DEF Axis, tx_axis_modified, Taken, Stream, Path
  <1> QED
    BY <1>1, <1>2, <1>3, <1>4 DEF OutBeat

\* Every cycle preserves the type invariant.
LEMMA CycleType ==
    ASSUME MuxInv, NEW rx \in Axis, NEW tx \in Axis, NEW ready \in BOOLEAN, NEW en \in BOOLEAN,
           Cycle(rx, tx, ready, en)
    PROVE  MuxTypeOK'
  <1> DEFINE in == axis_i(rx, tx, ready)
  <1>1. MuxTypeOK
    BY DEF MuxInv
  <1>2. \A p \in Path : in[p] \in OutBeat
    BY <1>1, InputType
  <1>3. /\ Isolators(in) /\ Mux(in) /\ Streams(rx, tx, ready) /\ open' = Open
        /\ loopback_en' = en
        /\ \A p \in Path : StreamMayDeliver(Stream(rx, tx, p), p)
    BY DEF Cycle
  <1> HIDE DEF in
  <1>4. Zero \in OutBeat
    BY MaxBeatsAssumption DEF Zero, OutBeat, Path
  <1>5. axis_o' \in [Path -> OutBeat]
    BY <1>2, <1>3, <1>4 DEF Mux, axis_isolated
  <1>6. pos' \in [Path -> 0 .. MaxBeats - 1]
    <2>1. ASSUME NEW p \in Path
          PROVE  (IF ~Taken(rx, tx, ready, p) THEN pos[p]
                  ELSE IF Stream(rx, tx, p).last THEN 0 ELSE pos[p] + 1) \in 0 .. MaxBeats - 1
      <3>1. pos[p] \in 0 .. MaxBeats - 1
        BY <1>1 DEF MuxTypeOK
      <3>2. ~Stream(rx, tx, p).last => pos[p] + 1 < MaxBeats
        BY <1>3 DEF StreamMayDeliver
      <3> QED
        BY <3>1, <3>2, MaxBeatsAssumption
    <2> QED
      BY <1>3, <2>1 DEF Streams
  <1>7. open' \in [src : Path, idx : 0 .. MaxBeats]
    <2>1. CASE OutBeats = {}
      BY <1>1, <1>3, <2>1 DEF MuxTypeOK, Open
    <2>2. CASE OutBeats # {}
      <3> DEFINE b == CHOOSE b \in OutBeats : TRUE
      <3>1. b \in OutBeats
        BY <2>2
      <3>2. b \in OutBeat
        BY <3>1, <1>1 DEF OutBeats, MuxTypeOK
      <3>3. open' = IF b.last THEN None ELSE [src |-> b.src, idx |-> b.idx]
        BY <1>3, <2>2 DEF Open
      <3> HIDE DEF b
      <3>4. b.src \in Path /\ b.idx \in 0 .. MaxBeats
        BY <3>2, MaxBeatsAssumption DEF OutBeat
      <3>5. None \in [src : Path, idx : 0 .. MaxBeats]
        BY MaxBeatsAssumption DEF None, Path
      <3> QED
        BY <3>3, <3>4, <3>5
    <2> QED BY <2>1, <2>2
  <1>8. /\ packet_in_progress' \in [Path -> BOOLEAN]
        /\ held' \in [Path -> BOOLEAN]
        /\ isolated_q' \in [Path -> BOOLEAN]
    <2>1. \A p \in Path : isolate_i(p) \in BOOLEAN
      BY DEF isolate_i
    <2>2. \A p \in Path : isolated(p) \in BOOLEAN
      BY <1>1, <2>1 DEF isolated, MuxTypeOK
    <2>3. packet_in_progress' \in [Path -> BOOLEAN]
      BY <1>1, <1>2, <1>3 DEF Isolators, MuxTypeOK, OutBeat
    <2>4. held' \in [Path -> BOOLEAN]
      BY <1>1, <1>3, <2>1 DEF Isolators, MuxTypeOK
    <2>5. isolated_q' \in [Path -> BOOLEAN]
      BY <1>3, <2>2 DEF Mux
    <2> QED
      BY <2>3, <2>4, <2>5
  <1> QED
    BY <1>3, <1>5, <1>6, <1>7, <1>8 DEF MuxTypeOK

\* What the output beats of the next cycle are, path by path.
LEMMA NextBeats ==
    ASSUME MuxInv, NEW rx \in Axis, NEW tx \in Axis, NEW ready \in BOOLEAN, NEW en \in BOOLEAN,
           Cycle(rx, tx, ready, en), NEW p \in Path
    PROVE  LET in == axis_i(rx, tx, ready)[p]
           IN  /\ axis_o'[p].valid = (~isolated(p) /\ in.valid)
               /\ axis_o'[p].valid => axis_o'[p] = in
               /\ in.valid \in BOOLEAN /\ in.last \in BOOLEAN
               /\ in.src = p /\ in.idx = pos[p]
               /\ packet_in_progress'[p] = IF in.valid THEN ~in.last ELSE packet_in_progress[p]
               /\ held'[p] = isolated(p)
               /\ isolated_q'[p] = isolated(p)
               /\ pos'[p] = IF ~in.valid THEN pos[p] ELSE IF in.last THEN 0 ELSE pos[p] + 1
               /\ pos[p] \in Nat /\ pos[p] < MaxBeats
               /\ (packet_in_progress[p] <=> pos[p] > 0)
               /\ packet_in_progress[p] \in BOOLEAN /\ isolated(p) \in BOOLEAN
               /\ Passing(p) <=> (packet_in_progress[p] /\ ~isolated(p))
  <1> DEFINE a == axis_i(rx, tx, ready)
  <1>1. MuxTypeOK
    BY DEF MuxInv
  <1>2. /\ a[p] \in OutBeat /\ a[p].src = p /\ a[p].idx = pos[p]
        /\ a[p].valid = Taken(rx, tx, ready, p) /\ a[p].last = Stream(rx, tx, p).last
    BY <1>1, InputType
  <1>3. /\ Isolators(a) /\ Mux(a) /\ Streams(rx, tx, ready)
    BY DEF Cycle
  <1> HIDE DEF a
  <1>4. a[p].valid \in BOOLEAN /\ a[p].last \in BOOLEAN
    BY <1>2 DEF OutBeat
  <1>5. /\ axis_o'[p] = IF isolated(p) THEN Zero ELSE a[p]
        /\ isolated_q'[p] = isolated(p)
    BY <1>3 DEF Mux, axis_isolated
  <1>6. packet_in_progress[p] \in BOOLEAN /\ held[p] \in BOOLEAN /\ isolated(p) \in BOOLEAN
    BY <1>1 DEF MuxTypeOK, isolated, isolate_i
  <1>7. /\ axis_o'[p].valid = (~isolated(p) /\ a[p].valid)
        /\ axis_o'[p].valid => axis_o'[p] = a[p]
    <2>1. CASE isolated(p)
      <3>1. axis_o'[p].valid = FALSE
        BY <1>5, <2>1 DEF Zero
      <3> QED
        BY <2>1, <3>1
    <2>2. CASE ~isolated(p)
      <3>1. axis_o'[p] = a[p]
        BY <1>5, <2>2
      <3>2. a[p].valid = (~isolated(p) /\ a[p].valid)
        BY <1>4, <2>2
      <3> QED
        BY <3>1, <3>2
    <2> QED BY <2>1, <2>2
  <1>8. held'[p] = isolated(p)
    BY <1>3 DEF Isolators, isolated
  <1>9. packet_in_progress'[p] = IF a[p].valid THEN ~a[p].last ELSE packet_in_progress[p]
    BY <1>3 DEF Isolators
  <1>10. pos'[p] = IF ~a[p].valid THEN pos[p] ELSE IF a[p].last THEN 0 ELSE pos[p] + 1
    BY <1>2, <1>3 DEF Streams
  <1>11. pos[p] \in 0 .. MaxBeats - 1
    BY <1>1 DEF MuxTypeOK
  <1>12. pos[p] \in Nat /\ pos[p] < MaxBeats
    BY <1>11, MaxBeatsAssumption
  <1>13. Passing(p) <=> (packet_in_progress[p] /\ ~isolated(p))
    BY <1>6 DEF Passing, isolated
  <1>14. packet_in_progress[p] <=> pos[p] > 0
    BY DEF MuxInv
  <1> QED
    BY <1>2, <1>4, <1>5, <1>6, <1>7, <1>8, <1>9, <1>10, <1>12, <1>13, <1>14 DEF a

\* Every cycle preserves the invariant.
LEMMA CycleIInv ==
    ASSUME MuxInv, NEW rx \in Axis, NEW tx \in Axis, NEW ready \in BOOLEAN, NEW en \in BOOLEAN,
           Cycle(rx, tx, ready, en)
    PROVE  MuxInv'
  <1> DEFINE a == axis_i(rx, tx, ready)
  <1>1. MuxTypeOK'
    BY CycleType
  <1>2. isolated(0) \/ isolated(1)
    BY InterlockWorks DEF NeverMixPaths
  <1>3. \A p \in Path : Other(p) \in Path /\ Other(p) # p /\ Other(Other(p)) = p
                        /\ (~isolated(p) => isolated(Other(p)))
                        /\ \A j \in Path : j # p => j = Other(p)
    BY <1>2 DEF Path, Other
  <1>4. \A p \in Path : isolated_q'[p] = isolated(p) /\ held'[p] = isolated(p)
    BY NextBeats
  <1>5. isolated_q'[0] \/ isolated_q'[1]
    BY <1>2, <1>4 DEF Path
  <1>6. \A p \in Path : packet_in_progress'[p] <=> pos'[p] > 0
    <2> TAKE p \in Path
    <2>1. CASE ~a[p].valid
      BY <2>1, NextBeats
    <2>2. CASE a[p].valid /\ a[p].last
      BY <2>2, NextBeats
    <2>3. CASE a[p].valid /\ ~a[p].last
      <3>1. pos'[p] = pos[p] + 1 /\ pos[p] \in Nat /\ packet_in_progress'[p]
        BY <2>3, NextBeats
      <3> QED
        BY <3>1
    <2> QED BY <2>1, <2>2, <2>3
  <1>7. open' = Open
    BY DEF Cycle
  <1>8. /\ \A p \in Path : Passing(p) => Open = [src |-> p, idx |-> pos[p] - 1]
        /\ (\A p \in Path : ~Passing(p)) => Open = None
    BY DEF MuxInv
  <1>9. \A p \in Path : Passing(p) => ~isolated(p)
    BY NextBeats
  <1>10. \A p \in Path : ~isolated(p) /\ ~packet_in_progress[p] => Open = None
    <2> TAKE p \in Path
    <2> HAVE ~isolated(p) /\ ~packet_in_progress[p]
    <2>1. ~Passing(p)
      BY DEF Passing
    <2>2. ~Passing(Other(p))
      BY <1>3, <1>9
    <2> QED
      BY <1>3, <1>8, <2>1, <2>2
  <1>11. ASSUME NEW p \in Path, Passing(p)
         PROVE  Open # None
    <2>1. Open = [src |-> p, idx |-> pos[p] - 1] /\ pos[p] \in Nat /\ pos[p] < MaxBeats
      BY <1>8, <1>11, NextBeats
    <2>2. pos[p] - 1 # MaxBeats
      BY <2>1, MaxBeatsAssumption
    <2> QED
      BY <2>1, <2>2 DEF None
  <1>12. NoSplice'
    <2> SUFFICES ASSUME NEW p \in Path, axis_o'[p].valid
                 PROVE  /\ ~axis_o'[Other(p)].valid
                        /\ IF open' = None THEN axis_o'[p].idx = 0
                           ELSE open' = [src |-> axis_o'[p].src, idx |-> axis_o'[p].idx - 1]
      BY DEF NoSplice
    <2>1. ~isolated(p) /\ axis_o'[p].src = p /\ axis_o'[p].idx = pos[p]
      BY NextBeats
    <2>2. ~axis_o'[Other(p)].valid
      BY <1>3, <2>1, NextBeats
    <2>3. CASE packet_in_progress[p]
      <3>1. Passing(p)
        BY <2>1, <2>3, NextBeats
      <3> QED
        BY <1>7, <1>8, <1>11, <2>1, <2>2, <3>1
    <2>4. CASE ~packet_in_progress[p]
      <3>1. open' = None
        BY <1>7, <1>10, <2>1, <2>4
      <3>2. pos[p] = 0
        BY <2>4, NextBeats
      <3> QED
        BY <2>1, <2>2, <3>1, <3>2
    <2> QED BY <2>3, <2>4
  <1>13. /\ \A p \in Path : Passing(p)' => Open' = [src |-> p, idx |-> pos'[p] - 1]
         /\ (\A p \in Path : ~Passing(p)') => Open' = None
    <2>1. CASE \E p \in Path : axis_o'[p].valid
      <3>1. PICK p \in Path : axis_o'[p].valid
        BY <2>1
      <3>2. /\ ~isolated(p) /\ axis_o'[p] = a[p] /\ a[p].src = p /\ a[p].idx = pos[p]
            /\ a[p].valid /\ a[p].last \in BOOLEAN
        BY <3>1, NextBeats
      <3>3. \A j \in Path : axis_o'[j].valid => j = p
        <4>1. \A j \in Path : axis_o'[j].valid => ~isolated(j)
          BY NextBeats
        <4> QED
          BY <1>3, <3>2, <4>1
      <3>4. OutBeats' = {a[p]}
        BY <3>1, <3>2, <3>3 DEF OutBeats
      <3>5. Open' = IF a[p].last THEN None ELSE [src |-> p, idx |-> pos[p]]
        <4>1. (CHOOSE b \in {a[p]} : TRUE) = a[p]
          OBVIOUS
        <4>2. OutBeats' # {}
          BY <3>4
        <4> QED
          BY <3>2, <3>4, <4>1, <4>2 DEF Open
      <3>6. ~Passing(Other(p))'
        BY <1>3, <1>4, <3>2 DEF Passing
      <3>7. CASE a[p].last
        <4>1. ~Passing(p)'
          BY <3>2, <3>7, NextBeats DEF Passing
        <4> QED
          BY <1>3, <3>5, <3>6, <3>7, <4>1
      <3>8. CASE ~a[p].last
        <4>1. Passing(p)' /\ pos'[p] = pos[p] + 1 /\ pos[p] \in Nat
          BY <3>2, <3>8, NextBeats DEF Passing
        <4>2. pos'[p] - 1 = pos[p]
          BY <4>1
        <4> QED
          BY <1>3, <3>5, <3>6, <3>8, <4>1, <4>2
      <3> QED BY <3>2, <3>7, <3>8
    <2>2. CASE \A p \in Path : ~axis_o'[p].valid
      <3>1. Open' = Open
        <4>1. OutBeats' = {}
          BY <2>2 DEF OutBeats
        <4> QED
          BY <1>7, <4>1 DEF Open
      <3>2. ASSUME NEW p \in Path
            PROVE  Passing(p)' = Passing(p) /\ (Passing(p) => pos'[p] = pos[p])
        <4>1. CASE isolated(p)
          BY <4>1, <1>4, NextBeats DEF Passing
        <4>2. CASE ~isolated(p)
          <5>1. ~a[p].valid
            BY <2>2, <4>2, NextBeats
          <5>2. packet_in_progress'[p] = packet_in_progress[p] /\ pos'[p] = pos[p]
                /\ held'[p] = FALSE
            BY <4>2, <5>1, NextBeats
          <5>3. Passing(p) <=> packet_in_progress[p]
            BY <4>2, NextBeats
          <5>4. Passing(p)' <=> packet_in_progress[p]
            BY <5>2 DEF Passing
          <5>5. Passing(p) \in BOOLEAN /\ Passing(p)' \in BOOLEAN
            BY DEF Passing
          <5> QED
            BY <5>2, <5>3, <5>4, <5>5
        <4> QED BY <4>1, <4>2
      <3> QED
        BY <1>8, <3>1, <3>2
    <2> QED BY <2>1, <2>2
  <1> QED
    BY <1>1, <1>4, <1>5, <1>6, <1>12, <1>13 DEF MuxInv

\* The inductive invariant holds in every state.
THEOREM PktMuxInvariant == MuxSpec => []MuxInv
  <1>1. MuxInv /\ [MuxNext]_muxVars => MuxInv'
    <2> SUFFICES ASSUME MuxInv, [MuxNext]_muxVars PROVE MuxInv'
      OBVIOUS
    <2>1. CASE MuxNext
      BY <2>1, CycleIInv DEF MuxNext
    <2>2. CASE UNCHANGED muxVars
      <3>1. MuxTypeOK' /\ NoSplice' /\ OutBeats' = OutBeats
        BY <2>2 DEF muxVars, MuxInv, MuxTypeOK, NoSplice, OutBeats
      <3>2. Open' = Open /\ \A p \in Path : Passing(p)' = Passing(p)
        BY <2>2, <3>1 DEF muxVars, Open, Passing
      <3> QED
        BY <2>2, <3>1, <3>2 DEF muxVars, MuxInv
    <2> QED BY <2>1, <2>2
  <1> QED
    BY <1>1, MuxInitInv, PTL DEF MuxSpec

\* Flags, beats and positions stay in their ranges.
THEOREM PktMuxType == MuxSpec => []MuxTypeOK
  <1>1. MuxInv => MuxTypeOK
    BY DEF MuxInv
  <1> QED
    BY <1>1, PktMuxInvariant, PTL

\* NeverMixPaths_A holds in every cycle of every behaviour.
THEOREM PathsNeverMix == MuxSpec => []NeverMixPaths
  BY InterlockWorks, PktMuxInvariant, PTL

\* The output is a sequence of whole packets, each from one path.
THEOREM OutputNeverSpliced == MuxSpec => []NoSplice
  <1>1. MuxInv => NoSplice
    BY DEF MuxInv
  <1> QED
    BY <1>1, PktMuxInvariant, PTL

-----------------------------------------------------------------------------
(* The composition. *)

\* The stream that goes to the MAC is a stream the multiplexer can be given.
LEMMA TxAxisType ==
    ASSUME TypeOK
    PROVE  tx_axis \in Axis /\ tx_axis.valid = tx_busy /\ tx_axis.last = tx_last
  <1>1. tx_busy \in BOOLEAN /\ tx_last \in BOOLEAN
    BY DEF TypeOK, tx_last
  <1> QED
    BY <1>1 DEF tx_axis, Axis, tx_valid

\* Driver and TX framing do not notice the multiplexer: every behaviour of the
\* composition is one of theirs, and what is proved of SendPacket holds in it.
THEOREM LoopbackImplementsSend == LoopSpec => Spec
  <1>1. LoopInit => Init
    BY DEF LoopInit
  <1>2. [LoopNext]_loopVars => [Next]_vars
    BY DEF LoopNext, LoopStep, Next, loopVars
  <1> QED
    BY <1>1, <1>2, PTL DEF LoopSpec, Spec

\* The multiplexer, given the stream of TX framing, takes steps of its own
\* specification: what is proved of PktMux for any stream holds for this one.
THEOREM LoopbackImplementsMux == LoopSpec => MuxSpec
  <1>1. LoopInit => MuxInit
    BY DEF LoopInit
  <1>2. IInv /\ [LoopNext]_loopVars => [MuxNext]_muxVars
    <2> SUFFICES ASSUME IInv, [LoopNext]_loopVars PROVE [MuxNext]_muxVars
      OBVIOUS
    <2>1. tx_axis \in Axis
      BY TxAxisType DEF IInv
    <2>2. CASE LoopNext
      BY <2>1, <2>2 DEF LoopNext, LoopStep, MuxNext
    <2>3. CASE UNCHANGED loopVars
      BY <2>3 DEF loopVars
    <2> QED BY <2>2, <2>3
  <1> QED
    BY <1>1, <1>2, LoopbackImplementsSend, SendPacketInvariant, PTL DEF LoopSpec, MuxSpec

\* A trigger needs an idle transmitter: the request does not change under a packet.
LEMMA RequestHeld ==
    ASSUME IInv, NEW ready \in BOOLEAN, Step(ready), tx_busy
    PROVE  requested' = requested /\ Observe(ready)
  <1>1. pc # "copy"
    BY DEF IInv, Copying
  <1> QED
    BY <1>1 DEF Step, NoAccess, Call, CopyWord, Trigger

\* In a cycle without a handshake the MAC's count of bytes does not move.
LEMMA NothingTaken ==
    ASSUME NEW ready \in BOOLEAN, Step(ready), ~(tx_busy /\ ready)
    PROVE  sent' = sent
  <1>1. Observe(ready)
    BY DEF Step, NoAccess, Call, CopyWord, Trigger
  <1> QED
    BY <1>1 DEF Observe, tx_valid

\* What the MAC takes in a cycle with a handshake.
LEMMA ByteTaken ==
    ASSUME IInv, NEW ready \in BOOLEAN, Step(ready), tx_busy /\ ready
    PROVE  /\ requested' = requested
           /\ sent \in Seq(Byte) /\ tx_data \in Byte
           /\ ~tx_last => sent' = Append(sent, tx_data)
           /\ tx_last => sent' = <<>> /\ Append(sent, tx_data) = requested
  <1>1. requested' = requested /\ Observe(ready)
    BY RequestHeld
  <1>2. sent \in Seq(Byte) /\ tx_data \in Byte /\ requested \in Seq(Byte)
    BY DEF IInv, TypeOK
  <1>3. sent' = IF tx_last THEN <<>> ELSE Append(sent, tx_data)
    BY <1>1 DEF Observe, tx_valid
  <1>4. ASSUME tx_last PROVE Append(sent, tx_data) = requested
    <2>1. /\ Append(sent, tx_data) = SubSeq(requested, 1, Len(sent) + 1)
          /\ Len(sent) + 1 = Len(requested)
      BY <1>4, SendingIsRequested DEF SendsRequested
    <2> QED
      BY <1>2, <2>1
  <1> QED
    BY <1>1, <1>2, <1>3, <1>4

\* The registers of path 1 after a cycle, in terms of the transmitted stream.
LEMMA PathOne ==
    ASSUME IInv, MuxInv, NEW ready \in BOOLEAN, NEW rx \in Axis, NEW en \in BOOLEAN,
           Cycle(rx, tx_axis, ready, en)
    PROVE  /\ axis_o'[1].valid <=> ~isolated(1) /\ tx_busy /\ ready
           /\ axis_o'[1].valid => (axis_o'[1].last <=> tx_last)
           /\ Passing(1)' <=> ~isolated(1) /\ IF tx_busy /\ ready THEN ~tx_last
                                              ELSE packet_in_progress[1]
           /\ Passing(1) <=> ~isolated(1) /\ packet_in_progress[1]
           /\ packet_in_progress[1] <=> pos[1] > 0
           /\ pos'[1] = IF ~(tx_busy /\ ready) THEN pos[1] ELSE IF tx_last THEN 0 ELSE pos[1] + 1
  <1> DEFINE a == axis_i(rx, tx_axis, ready)[1]
  <1>1. tx_axis \in Axis /\ tx_axis.valid = tx_busy /\ tx_axis.last = tx_last /\ 1 \in Path
    BY TxAxisType DEF IInv, Path
  <1>2. a.valid = (tx_busy /\ ready) /\ a.last = tx_last
    <2>1. MuxTypeOK
      BY DEF MuxInv
    <2>2. a.valid = Taken(rx, tx_axis, ready, 1) /\ a.last = Stream(rx, tx_axis, 1).last
      BY <1>1, <2>1, InputType
    <2> QED
      BY <1>1, <2>2 DEF Taken, Stream
  <1>3. /\ axis_o'[1].valid = (~isolated(1) /\ a.valid)
        /\ axis_o'[1].valid => axis_o'[1] = a
        /\ packet_in_progress'[1] = IF a.valid THEN ~a.last ELSE packet_in_progress[1]
        /\ held'[1] = isolated(1)
        /\ pos'[1] = IF ~a.valid THEN pos[1] ELSE IF a.last THEN 0 ELSE pos[1] + 1
        /\ packet_in_progress[1] <=> pos[1] > 0
        /\ Passing(1) <=> (packet_in_progress[1] /\ ~isolated(1))
    BY <1>1, NextBeats
  <1> HIDE DEF a
  <1>4. Passing(1)' <=> packet_in_progress'[1] /\ ~held'[1]
    BY DEF Passing
  <1> QED
    BY <1>2, <1>3, <1>4

\* The invariant of the composition holds after reset.
LEMMA LoopInitInv == LoopInit => LoopInv
  BY DEF LoopInit, LoopInv, Init, MuxInit, Looped, Passing, Path, Zero

\* Every cycle preserves it.
LEMMA LoopStepInv ==
    ASSUME IInv, MuxInv, LoopInv, NEW ready \in BOOLEAN, LoopStep(ready)
    PROVE  LoopInv'
  <1>1. PICK rx \in Axis, en \in BOOLEAN : Cycle(rx, tx_axis, ready, en)
    BY DEF LoopStep
  <1>2. Step(ready) /\ looped' = Looped
        /\ axis_o_data' = IF isolated(1) \/ ~(tx_busy /\ ready) THEN <<>> ELSE <<tx_data>>
    BY DEF LoopStep, OutputData, tx_valid
  <1>3. sent \in Seq(Byte) /\ tx_data \in Byte
    BY DEF IInv, TypeOK
  <1>4. Looped \in Seq(Byte) /\ Looped = IF Passing(1) THEN sent ELSE <<>>
    BY <1>3 DEF LoopInv
  <1>5. axis_o_data' \in Seq(Byte) /\ looped' \in Seq(Byte)
    BY <1>2, <1>3, <1>4
  <1>6. /\ axis_o'[1].valid <=> ~isolated(1) /\ tx_busy /\ ready
        /\ axis_o'[1].valid => (axis_o'[1].last <=> tx_last)
        /\ Passing(1)' <=> ~isolated(1) /\ IF tx_busy /\ ready THEN ~tx_last
                                           ELSE packet_in_progress[1]
        /\ Passing(1) <=> ~isolated(1) /\ packet_in_progress[1]
        /\ packet_in_progress[1] <=> pos[1] > 0
        /\ pos'[1] = IF ~(tx_busy /\ ready) THEN pos[1] ELSE IF tx_last THEN 0 ELSE pos[1] + 1
    BY <1>1, PathOne
  <1>7. pos[1] = Len(sent)
    BY DEF LoopInv
  <1>8. Looped' = IF axis_o'[1].valid /\ axis_o'[1].last THEN <<>> ELSE Looped \o axis_o_data'
    BY <1>2 DEF Looped
  <1>9. CASE ~(tx_busy /\ ready)
    <2>1. sent' = sent /\ axis_o_data' = <<>> /\ ~axis_o'[1].valid
      BY <1>2, <1>6, <1>9, NothingTaken
    <2>2. Looped' = Looped
      BY <1>4, <1>8, <2>1
    <2>3. Passing(1)' <=> Passing(1)
      BY <1>6, <1>9
    <2> QED
      BY <1>4, <1>5, <1>6, <1>7, <1>9, <2>1, <2>2, <2>3 DEF LoopInv
  <1>10. CASE tx_busy /\ ready
    <2>1. /\ requested' = requested
          /\ ~tx_last => sent' = Append(sent, tx_data)
          /\ tx_last => sent' = <<>> /\ Append(sent, tx_data) = requested
      BY <1>2, <1>10, ByteTaken
    <2>2. pos'[1] = Len(sent')
      BY <1>3, <1>6, <1>7, <1>10, <2>1
    <2>3. CASE isolated(1)
      <3>1. axis_o_data' = <<>> /\ ~axis_o'[1].valid /\ ~Passing(1)' /\ ~Passing(1)
        BY <1>2, <1>6, <2>3
      <3>2. Looped' = <<>>
        BY <1>4, <1>8, <3>1
      <3> QED
        BY <1>5, <2>2, <3>1, <3>2 DEF LoopInv
    <2>4. CASE ~isolated(1)
      <3>1. /\ axis_o_data' = <<tx_data>> /\ axis_o'[1].valid
            /\ axis_o'[1].last <=> tx_last
            /\ Passing(1)' <=> ~tx_last
        BY <1>2, <1>6, <1>10, <2>4
      <3>2. Looped = sent
        <4>1. CASE Passing(1)
          BY <1>4, <4>1
        <4>2. CASE ~Passing(1)
          <5>1. Len(sent) = 0
            BY <1>3, <1>6, <1>7, <2>4, <4>2
          <5>2. sent = <<>>
            BY <1>3, <5>1
          <5> QED
            BY <1>4, <4>2, <5>2
        <4> QED BY <4>1, <4>2
      <3>3. looped' \o axis_o_data' = Append(sent, tx_data)
        <4>1. sent \o <<tx_data>> = Append(sent, tx_data)
          BY <1>3
        <4> QED
          BY <1>2, <3>1, <3>2, <4>1
      <3>4. Looped' = IF Passing(1)' THEN sent' ELSE <<>>
        BY <1>2, <1>8, <2>1, <3>1, <3>3
      <3> QED
        BY <1>5, <2>1, <2>2, <3>1, <3>3, <3>4 DEF LoopInv
    <2> QED BY <2>3, <2>4
  <1> QED BY <1>9, <1>10

\* The three parts of the invariant hold together in every state.
THEOREM LoopbackInvariant == LoopSpec => [](IInv /\ MuxInv /\ LoopInv)
  <1>1. IInv /\ MuxInv /\ LoopInv /\ [LoopNext]_loopVars => LoopInv'
    <2> SUFFICES ASSUME IInv, MuxInv, LoopInv, [LoopNext]_loopVars PROVE LoopInv'
      OBVIOUS
    <2>1. CASE LoopNext
      BY <2>1, LoopStepInv DEF LoopNext
    <2>2. CASE UNCHANGED loopVars
      BY <2>2 DEF loopVars, vars, txVars, muxVars, LoopInv, Looped, Passing
    <2> QED BY <2>1, <2>2
  <1> QED
    BY <1>1, LoopInitInv, LoopbackImplementsSend, LoopbackImplementsMux, SendPacketInvariant,
       PktMuxInvariant, PTL DEF LoopSpec

\* What the invariant says about the bytes the receive side is given.
LEMMA LoopedIsRequested == IInv /\ MuxInv /\ LoopInv => LoopsRequested
  <1> DEFINE got == looped \o axis_o_data
  <1> SUFFICES ASSUME IInv, MuxInv, LoopInv, axis_o[1].valid
               PROVE  /\ got = SubSeq(requested, 1, Len(got))
                      /\ axis_o[1].last <=> Len(got) = Len(requested)
    BY DEF LoopsRequested
  <1>1. sent \in Seq(Byte) /\ requested \in Seq(Byte) /\ tx_data \in Byte
    BY DEF IInv, TypeOK
  <1>2. CASE axis_o[1].last
    <2>1. got = requested
      BY <1>2 DEF LoopInv
    <2> HIDE DEF got
    <2> QED
      BY <1>1, <1>2, <2>1
  <1>3. CASE ~axis_o[1].last
    <2>1. Passing(1) /\ got = sent
      BY <1>3 DEF LoopInv, Looped
    <2>2. Len(sent) > 0
      BY <2>1 DEF LoopInv, MuxInv, Passing, Path
    <2>3. tx_busy
      BY <2>2 DEF IInv, Resting
    <2>4. Len(sent) < Len(requested) /\ \A k \in 1 .. Len(sent) : sent[k] = requested[k]
      BY <2>3, SendingIsRequested DEF IInv, Sending, SendsRequested
    <2> DEFINE pre == SubSeq(requested, 1, Len(sent))
    <2>5. /\ pre \in Seq(Byte) /\ Len(pre) = Len(sent)
          /\ \A k \in 1 .. Len(sent) : pre[k] = requested[k]
      BY <1>1, <2>4
    <2> HIDE DEF got, pre
    <2>6. sent = pre
      BY <1>1, <2>4, <2>5, SeqEqual
    <2>7. Len(got) # Len(requested)
      BY <1>1, <2>1, <2>4
    <2> QED
      BY <1>3, <2>1, <2>6, <2>7 DEF pre
  <1> QED BY <1>2, <1>3

\* Whatever leaves the multiplexer on path 1 is the packet software asked for, from
\* its first byte to its last, however loopback_en changes and the MAC stalls.
THEOREM LoopbackLoopsRequested == LoopSpec => []LoopsRequested
  BY LoopedIsRequested, LoopbackInvariant, PTL
=============================================================================
