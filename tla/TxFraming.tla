----------------------------- MODULE TxFraming ------------------------------
(***************************************************************************)
(* ethernet_tx_framing.sv with its data buffer (ram_downsizer_w64_r8.sv)   *)
(* and the TX_CTRL register of ethernet_csr.sv that configures it.  A      *)
(* write of a nonzero length to TX_CTRL kicks the FSM, which then sends    *)
(* the bytes of the buffer from address 0 over an AXI stream; the MAC      *)
(* takes a byte in the cycles in which it raises ready.  The RAM answers   *)
(* one cycle late, so the FSM reads the address it will send next.         *)
(*                                                                         *)
(* One step is one clock cycle.  wr is the write port of the buffer (only  *)
(* writes with all byte enables set reach it), ctrl a write to TX_CTRL.    *)
(***************************************************************************)
EXTENDS Integers

CONSTANTS
    WordBytes,      \* bytes in a word of the host's bus (8)
    BufWords,       \* words in the buffer (256)
    Byte            \* values of a byte

ASSUME BufferAssumption ==
    /\ WordBytes \in Nat \ {0}
    /\ BufWords \in Nat \ {0}

VARIABLES
    tx_packet_len,  \* the TX_CTRL register
    tx_busy,
    tx_buffer_addr,
    ram,            \* the data buffer, word by word
    tx_data         \* tx_axis_o.data, the read register of the RAM

txVars == <<tx_packet_len, tx_busy, tx_buffer_addr, ram, tx_data>>

BufBytes == WordBytes * BufWords
Addr == 0 .. BufBytes - 1
Word == [0 .. WordBytes - 1 -> Byte]

NoWrite == [en |-> FALSE]
WriteWord(w, d) == [en |-> TRUE, addr |-> w, data |-> d]

\* Writes to TX_CTRL; the register has eleven bits and so has an address.
NoCtrl == [en |-> FALSE]
WriteCtrl(len) == [en |-> TRUE, len |-> len]

-----------------------------------------------------------------------------
tx_kick(ctrl) == ctrl.en /\ ctrl.len # 0

\* Never true for length zero: the subtraction is 32 bits wide.
tx_last == tx_buffer_addr = tx_packet_len - 1

tx_valid == tx_busy

\* Fault: the end is looked for one past the last byte, where the address never gets.
done_pulse_past_end(ready) == tx_valid /\ ready /\ tx_buffer_addr = tx_packet_len
done_pulse(ready) == tx_valid /\ ready /\ tx_last

\* Fault: the address moves on although the MAC is not ready.
tx_buffer_addr_next_unchecked(ready) ==
    IF tx_valid THEN IF tx_last THEN 0 ELSE (tx_buffer_addr + 1) % BufBytes
    ELSE tx_buffer_addr
tx_buffer_addr_next(ready) ==
    IF tx_valid /\ ready
    THEN IF tx_last THEN 0 ELSE (tx_buffer_addr + 1) % BufBytes
    ELSE tx_buffer_addr

\* The byte of the buffer at address a.
ByteAt(a) == ram[a \div WordBytes][a % WordBytes]

TxInit ==
    /\ tx_packet_len = 0
    /\ tx_busy = FALSE
    /\ tx_buffer_addr = 0
    /\ ram \in [0 .. BufWords - 1 -> Word]      \* not reset
    /\ tx_data \in Byte

TxCtrl(ctrl) == tx_packet_len' = IF ctrl.en THEN ctrl.len ELSE tx_packet_len

TxFsm(kick, ready) ==
    /\ tx_busy' = IF kick /\ ~tx_busy THEN TRUE
                  ELSE IF done_pulse(ready) THEN FALSE ELSE tx_busy
    /\ tx_buffer_addr' = tx_buffer_addr_next(ready)

\* Fault: the RAM is asked for the address being sent, one cycle too late.
TxBufferReadsCurrent(wr, kick, ready) ==
    /\ tx_data' = IF tx_busy \/ kick THEN ByteAt(tx_buffer_addr) ELSE tx_data
    /\ ram' = IF wr.en THEN [ram EXCEPT ![wr.addr] = wr.data] ELSE ram
TxBuffer(wr, kick, ready) ==
    /\ tx_data' = IF tx_busy \/ kick THEN ByteAt(tx_buffer_addr_next(ready)) ELSE tx_data
    /\ ram' = IF wr.en THEN [ram EXCEPT ![wr.addr] = wr.data] ELSE ram

TxCycle(wr, ctrl, ready) ==
    /\ TxCtrl(ctrl)
    /\ TxFsm(tx_kick(ctrl), ready)
    /\ TxBuffer(wr, tx_kick(ctrl), ready)
=============================================================================
