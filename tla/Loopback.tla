------------------------------ MODULE Loopback ------------------------------
(***************************************************************************)
(* A packet on its way from the software to the receive side in loopback   *)
(* mode: the driver and TX framing (SendPacket) compose with the loopback  *)
(* multiplexer (PktMux) as core_eth/top/ethernet_top.sv connects them.     *)
(* The multiplexer listens to the stream that goes to the MAC, in the      *)
(* cycles in which the MAC takes it; packets arrive from the MAC at the    *)
(* same time, and software changes loopback_en whenever it likes.          *)
(***************************************************************************)
EXTENDS SendPacket, PktMux

VARIABLES
    axis_o_data,    \* data of the output flop, if path 1 provides it
    looped          \* history: bytes of the current packet that left on path 1

loopVars == <<vars, muxVars, axis_o_data, looped>>

\* tx_axis_o, the stream both the MAC and the multiplexer are given.
tx_axis == [valid |-> tx_valid, last |-> tx_last]

LoopInit ==
    /\ Init
    /\ MuxInit
    /\ axis_o_data = <<>>
    /\ looped = <<>>

\* What the receive side takes in this cycle.
Looped == IF axis_o[1].valid /\ axis_o[1].last THEN <<>> ELSE looped \o axis_o_data

\* The data of the output flop; of an isolated stream, and without a beat, none.
OutputData(ready) ==
    /\ axis_o_data' = IF isolated(1) \/ ~(tx_valid /\ ready) THEN <<>> ELSE <<tx_data>>
    /\ looped' = Looped

LoopStep(ready) ==
    /\ Step(ready)
    /\ OutputData(ready)
    /\ \E rx \in Axis, en \in BOOLEAN : Cycle(rx, tx_axis, ready, en)

LoopNext == \E ready \in BOOLEAN : LoopStep(ready)

LoopSpec == LoopInit /\ [][LoopNext]_loopVars

\* The clock keeps ticking, and the MAC always takes a byte on offer in the end:
\* axis_gmii_tx raises ready once per byte of the payload and returns to its idle
\* state after every frame.
LoopFairSpec ==
    /\ LoopSpec
    /\ WF_loopVars(LoopNext)
    /\ WF_loopVars(tx_valid /\ LoopStep(TRUE))

-----------------------------------------------------------------------------
(* Properties. *)

\* What the receive side is given of a transmitted packet, it is given whole:
\* the bytes that leave the multiplexer on path 1 are a prefix of the packet the
\* driver was asked to send, and at the last flag they are all of it, however
\* loopback_en changed and the MAC stalled on the way.
LoopsRequested ==
    axis_o[1].valid =>
        LET got == looped \o axis_o_data
        IN  /\ got = SubSeq(requested, 1, Len(got))
            /\ axis_o[1].last <=> Len(got) = Len(requested)

-----------------------------------------------------------------------------
(* The inductive invariant. *)

\* The MAC and the multiplexer count the same bytes.  While a transmitted packet
\* passes, the receive side has been given, with the output flop, what the MAC has
\* taken; it has been given nothing of a packet that is held back.
LoopInv ==
    /\ axis_o_data \in Seq(Byte) /\ looped \in Seq(Byte)
    /\ pos[1] = Len(sent)
    /\ Looped = IF Passing(1) THEN sent ELSE <<>>
    /\ axis_o[1].valid /\ ~axis_o[1].last => Passing(1)
    /\ axis_o[1].valid /\ axis_o[1].last => looped \o axis_o_data = requested
=============================================================================
