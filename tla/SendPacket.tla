----------------------------- MODULE SendPacket -----------------------------
(***************************************************************************)
(* The driver's ethernet_send_packet (ethernet.c) running against the TX   *)
(* hardware (TxFraming).  The driver reads tx_busy once, copies the packet *)
(* word by word into the TX buffer and writes its length to TX_CTRL; every *)
(* one of these is a bus access, and any number of cycles passes between   *)
(* two of them.  The MAC is ready in any cycle.                            *)
(***************************************************************************)
EXTENDS TxFraming, Sequences

CONSTANTS
    MinLen, MaxLen, \* 60 and 1518
    LenWordsRange   \* 256: len_words is a uint8_t

ASSUME LengthAssumption ==
    /\ MinLen \in Nat \ {0} /\ MaxLen \in Nat /\ MinLen <= MaxLen
    /\ MaxLen <= WordBytes * BufWords
    /\ LenWordsRange \in Nat /\ MaxLen + WordBytes <= WordBytes * LenWordsRange

VARIABLES
    pc,             \* "idle", or "copy" while in the copy loop
    data,           \* the caller's array, with what follows it in memory
    len_bytes,
    i,              \* words copied
    requested,      \* history: the packet of the latest trigger
    sent,           \* history: bytes of it the MAC has taken
    delivered       \* history: the latest packet the MAC has taken to its last byte

vars == <<txVars, pc, data, len_bytes, i, requested, sent, delivered>>

hostVars == <<pc, data, len_bytes, i>>

\* Caller arrays: the copy reads whole words, hence up to the end of the buffer.
Array == [Addr -> Byte]

len_words == ((len_bytes + WordBytes - 1) \div WordBytes) % LenWordsRange

\* word, put together from eight bytes of the array.
DataWord(d, w) == [j \in 0 .. WordBytes - 1 |-> d[w * WordBytes + j]]

Prefix(d, n) == [k \in 1 .. n |-> d[k - 1]]

-----------------------------------------------------------------------------
Init ==
    /\ TxInit
    /\ pc = "idle"
    /\ data \in Array
    /\ len_bytes = 0
    /\ i = 0
    /\ requested = <<>> /\ sent = <<>> /\ delivered = <<>>

\* What the MAC takes in this cycle.
Observe(ready) ==
    LET got == Append(sent, tx_data)
    IN  IF tx_valid /\ ready
        THEN /\ sent' = IF tx_last THEN <<>> ELSE got
             /\ delivered' = IF tx_last THEN got ELSE delivered
        ELSE UNCHANGED <<sent, delivered>>

\* A cycle without a bus access that changes anything (a poll, or no access).
NoAccess(ready) ==
    /\ TxCycle(NoWrite, NoCtrl, ready)
    /\ Observe(ready)
    /\ UNCHANGED <<hostVars, requested>>

\* Fault: the driver does not look at tx_busy.
CallUnchecked(d, len, ready) ==
    /\ pc = "idle"
    /\ len >= MinLen /\ len <= MaxLen
    /\ pc' = "copy" /\ data' = d /\ len_bytes' = len /\ i' = 0
    /\ TxCycle(NoWrite, NoCtrl, ready)
    /\ Observe(ready)
    /\ UNCHANGED requested

\* Fault: the upper limit on the length is off by one.
CallTooLong(d, len, ready) ==
    /\ pc = "idle"
    /\ ~tx_busy
    /\ len >= MinLen /\ len <= MaxLen + 1
    /\ pc' = "copy" /\ data' = d /\ len_bytes' = len /\ i' = 0
    /\ TxCycle(NoWrite, NoCtrl, ready)
    /\ Observe(ready)
    /\ UNCHANGED requested

\* ethernet_send_packet is called and gets past its checks; a call that
\* returns 1, 2 or 3 changes nothing.
Call(d, len, ready) ==
    /\ pc = "idle"
    /\ ~tx_busy
    /\ len >= MinLen /\ len <= MaxLen
    /\ pc' = "copy" /\ data' = d /\ len_bytes' = len /\ i' = 0
    /\ TxCycle(NoWrite, NoCtrl, ready)
    /\ Observe(ready)
    /\ UNCHANGED requested

\* ethernet_tx_buffer_write64
CopyWord(ready) ==
    /\ pc = "copy" /\ i < len_words
    /\ i' = i + 1
    /\ TxCycle(WriteWord(i, DataWord(data, i)), NoCtrl, ready)
    /\ Observe(ready)
    /\ UNCHANGED <<pc, data, len_bytes, requested>>

\* ethernet_tx_packet_trigger
Trigger(ready) ==
    /\ pc = "copy" /\ i >= len_words
    /\ pc' = "idle"
    /\ TxCycle(NoWrite, WriteCtrl(len_bytes), ready)
    /\ Observe(ready)
    /\ requested' = Prefix(data, len_bytes)
    /\ UNCHANGED <<data, len_bytes, i>>

Step(ready) ==
    \/ NoAccess(ready)
    \/ \E d \in Array, len \in 0 .. MaxLen + 1 : Call(d, len, ready)
    \/ CopyWord(ready)
    \/ Trigger(ready)

Next == \E ready \in BOOLEAN : Step(ready)

Spec == Init /\ [][Next]_vars

-----------------------------------------------------------------------------
(* Properties. *)

\* Registers and driver variables hold values of their types.
TypeOK ==
    /\ tx_packet_len \in 0 .. MaxLen
    /\ tx_busy \in BOOLEAN
    /\ tx_buffer_addr \in Addr
    /\ ram \in [0 .. BufWords - 1 -> Word]
    /\ tx_data \in Byte
    /\ pc \in {"idle", "copy"}
    /\ data \in Array
    /\ len_bytes \in 0 .. MaxLen
    /\ i \in 0 .. BufWords
    /\ requested \in Seq(Byte) /\ sent \in Seq(Byte) /\ delivered \in Seq(Byte)

\* The MAC is given exactly the caller's packet: while a transmission runs, the
\* bytes it has taken and the byte offered next are a prefix of the packet, and
\* when it is over the MAC has taken all of it, ended by one last flag.
SendsRequested ==
    IF tx_busy
    THEN /\ Len(sent) < Len(requested)
         /\ Append(sent, tx_data) = SubSeq(requested, 1, Len(sent) + 1)
         /\ tx_last <=> Len(sent) + 1 = Len(requested)
    ELSE sent = <<>> /\ delivered = requested

\* NoTxKickWhileBusy_A: the driver touches buffer and TX_CTRL only while idle.
QuietWhileBusy == tx_busy => pc = "idle"

\* TxAxisValidStaysUntilHandshake_A and TxAxisInvariantUntilHandshake_A: a byte
\* the MAC has not taken stays on offer unchanged.
AxisStable ==
    [][tx_valid /\ Step(FALSE)
          => tx_valid' /\ tx_data' = tx_data /\ (tx_last' <=> tx_last)]_vars

\* Every transmission that is kicked ends.
EveryKickEnds == tx_busy ~> ~tx_busy

-----------------------------------------------------------------------------
(* The inductive invariant. *)

\* The buffer holds the packet being sent, and the RAM's register its next byte.
Sending ==
    /\ tx_packet_len = Len(requested)
    /\ tx_buffer_addr < tx_packet_len
    /\ \A a \in 0 .. tx_packet_len - 1 : ByteAt(a) = requested[a + 1]
    /\ tx_data = requested[tx_buffer_addr + 1]
    /\ Len(sent) = tx_buffer_addr
    /\ \A k \in 1 .. Len(sent) : sent[k] = requested[k]

Resting == tx_buffer_addr = 0 /\ sent = <<>> /\ delivered = requested

\* The words copied so far are in the buffer.
Copying ==
    /\ ~tx_busy
    /\ len_bytes >= MinLen
    /\ i <= len_words
    /\ \A w \in 0 .. i - 1 : ram[w] = DataWord(data, w)

IInv ==
    /\ TypeOK
    /\ IF tx_busy THEN Sending ELSE Resting
    /\ pc = "copy" => Copying
=============================================================================
