------------------------------- MODULE MacLink ------------------------------
(***************************************************************************)
(* A MAC transmitter and a MAC receiver at the two ends of a cable.  The   *)
(* receiver is modelled at 1000 Mbit/s, so at the lower speeds only the    *)
(* transmitter works.  The registers gmii of the transmitter are the       *)
(* receiver's input of the same cycle; on a silent wire the value is the   *)
(* one of MacRx's Idle, which nobody looks at.                             *)
(***************************************************************************)
EXTENDS MacTx, MacRx

\* The gap the transmitter keeps is one the receiver can do with.
ASSUME LinkAssumption == IfgDelay >= MinGap

linkVars == <<vars, rxVars>>

OnCable == IF gmii.en THEN [dv |-> TRUE, er |-> gmii.er, v |-> gmii.txd] ELSE Idle

LinkInit == Init /\ RxInit

LinkNext == Next /\ IF full_rate THEN Cycle(OnCable) ELSE UNCHANGED rxVars

LinkSpec == LinkInit /\ [][LinkNext]_linkVars

\* The clock keeps ticking, and clk_enable keeps pulsing.
FairLinkSpec == LinkSpec /\ WF_vars(Working) /\ WF_vars(worked /\ Holding)

-----------------------------------------------------------------------------
(* Properties. *)

\* What is sent is what is received: when the frame of a packet has left the cable, the
\* receiver ends a packet without tuser in that very cycle, its bytes are those of the
\* packet and the padding, and no packet is delivered at any other time; as long as
\* every packet had two bytes or more.
LinkDelivers ==
    full_rate /\ proper =>
        /\ ended # <<>> <=> Delivers
        /\ Delivers => Append(got, m_axis.data) = Padded(current)

-----------------------------------------------------------------------------
(* The inductive invariant. *)

\* The receiver is one symbol behind the transmitter.
Follows ==
    /\ IsSequence(frame) /\ gmii.er \in BOOLEAN
    /\ IF gmii.en
       THEN /\ Len(frame) = Len(burst) + 1 /\ frame[Len(frame)] = gmii.txd
            /\ burst = <<>> => silent >= MinGap
       ELSE /\ burst # <<>> => Len(frame) = Len(burst) /\ gap = 1
            /\ silent >= MinGap \/ silent + 1 >= gap
    /\ \A k \in 1 .. Len(burst) : burst[k].v = frame[k]
    /\ proper => \A k \in 1 .. Len(burst) : ~burst[k].er

LinkInv == MacTxInv /\ MacRxInv /\ (full_rate => Follows) /\ LinkDelivers
=============================================================================
