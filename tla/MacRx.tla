------------------------------- MODULE MacRx --------------------------------
(***************************************************************************)
(* axis_gmii_rx.sv at 1000 Mbit/s: the symbols of the wire pass through a  *)
(* delay line that is one longer than the check sequence; after the SFD    *)
(* every symbol that leaves it is passed on as a byte of the packet.  When *)
(* the wire falls silent, the symbols still in the line must be the check  *)
(* over the bytes passed on; if not, the last byte carries tuser.          *)
(*                                                                         *)
(* One step is one clock cycle, with the input in from the wire.           *)
(***************************************************************************)
EXTENDS Integers, Gmii

CONSTANTS
    MaxBurst,       \* symbols in the longest burst on the wire
    MinGap          \* cycles of silence between two bursts (12)

ASSUME MacRxAssumption ==
    /\ FcsLen \in Nat \ {0}
    /\ MaxBurst \in Nat \ {0}
    /\ MinGap \in Nat /\ MinGap >= 2

VARIABLES
    rx_state,
    d,              \* delay line: gmii_rxd_d.., gmii_rx_dv_d.., gmii_rx_er_d..
    rx_crc, crc_cnt,
    m_axis,         \* m_axis_tdata, tvalid, tlast, tuser
    burst,          \* history: what the wire carried since it became active
    ended,          \* history: the burst that ended in the cycle before
    silent,         \* history: cycles of silence, up to MinGap
    got             \* history: bytes of the output packet before m_axis

rxRegs == <<rx_state, d, rx_crc, crc_cnt, m_axis>>
rxVars == <<rxRegs, burst, ended, silent, got>>

Idle == [dv |-> FALSE, er |-> FALSE, v |-> Pre]
Quiet == [valid |-> FALSE, last |-> FALSE, user |-> FALSE, data |-> Pre]

Out == d[FcsLen]    \* what leaves the delay line

-----------------------------------------------------------------------------
(* States of the FSM. *)

RX_IDLE ==
    /\ rx_crc' = <<>>
    /\ m_axis' = Quiet
    /\ rx_state' = IF Out.dv /\ ~Out.er /\ Out.v = Sfd THEN "PAYLOAD" ELSE "IDLE"
    /\ UNCHANGED crc_cnt

ErrorInFcs == \E k \in 0 .. FcsLen - 1 : d[k].er

\* Fault: the check covers the bytes before the last one only.
FcsGoodStale == \A k \in 0 .. FcsLen - 1 : d[k].v = Fcs(rx_crc, FcsLen - 1 - k)
\* The newest symbol is in d[0], so it is the last byte of the check.
FcsGood == \A k \in 0 .. FcsLen - 1 : d[k].v = Fcs(Append(rx_crc, Out.v), FcsLen - 1 - k)

Beat(last, user) == [valid |-> TRUE, last |-> last, user |-> user, data |-> Out.v]

\* Fault: a receive error stops the packet without tlast.
EndInErrorUnmarked == m_axis' = Beat(FALSE, TRUE) /\ rx_state' = "WAIT_LAST" /\ UNCHANGED crc_cnt
EndInError == m_axis' = Beat(TRUE, TRUE) /\ rx_state' = "WAIT_LAST" /\ UNCHANGED crc_cnt

EndOfPacket ==
    /\ m_axis' = Beat(TRUE, ErrorInFcs \/ ~FcsGood)
    /\ rx_state' = "CRC" /\ crc_cnt' = 0

RX_PAYLOAD(in) ==
    /\ rx_crc' = Append(rx_crc, Out.v)
    /\ IF Out.dv /\ Out.er THEN EndInError
       ELSE IF ~in.dv THEN EndOfPacket
       ELSE m_axis' = Beat(FALSE, FALSE) /\ UNCHANGED <<rx_state, crc_cnt>>

RX_CRC ==
    /\ rx_crc' = Append(rx_crc, Out.v)
    /\ m_axis' = [Quiet EXCEPT !.data = Out.v]
    /\ crc_cnt' = (crc_cnt + 1) % FcsLen
    /\ rx_state' = IF crc_cnt = FcsLen - 1 THEN "IDLE" ELSE "CRC"

RX_WAIT_LAST(in) ==
    /\ m_axis' = Quiet
    /\ rx_state' = IF ~in.dv THEN "IDLE" ELSE "WAIT_LAST"
    /\ UNCHANGED <<rx_crc, crc_cnt>>

\* The valid flags are cleared all at once when the wire falls silent.
DelayLine(in) ==
    d' = [k \in 0 .. FcsLen |-> IF k = 0 THEN in
                                ELSE [d[k - 1] EXCEPT !.dv = d[k - 1].dv /\ in.dv]]

Fsm(in) ==
    \/ rx_state = "IDLE" /\ RX_IDLE
    \/ rx_state = "PAYLOAD" /\ RX_PAYLOAD(in)
    \/ rx_state = "CRC" /\ RX_CRC
    \/ rx_state = "WAIT_LAST" /\ RX_WAIT_LAST(in)

RxInit ==
    /\ rx_state = "IDLE"
    /\ d = [k \in 0 .. FcsLen |-> Idle]
    /\ rx_crc = <<>> /\ crc_cnt = 0
    /\ m_axis = Quiet
    /\ burst = <<>> /\ ended = <<>> /\ silent = MinGap /\ got = <<>>

RxObserve(in) ==
    /\ burst' = IF in.dv THEN Append(burst, in) ELSE <<>>
    /\ ended' = IF in.dv THEN <<>> ELSE burst
    /\ silent' = IF in.dv THEN 0 ELSE IF silent < MinGap THEN silent + 1 ELSE silent
    /\ got' = IF ~m_axis.valid THEN got ELSE IF m_axis.last THEN <<>>
              ELSE Append(got, m_axis.data)

Cycle(in) == DelayLine(in) /\ Fsm(in) /\ RxObserve(in)

-----------------------------------------------------------------------------
(* The wire: any symbols with any errors, among them the right check bytes *)
(* for what came before.                                                   *)

\* What follows the first start-of-frame delimiter of a burst.
IsSfd(x) == x.v = Sfd /\ ~x.er
HasFrame(b) == \E i \in 1 .. Len(b) : IsSfd(b[i])
Start(b) == CHOOSE i \in 1 .. Len(b) : IsSfd(b[i]) /\ \A j \in 1 .. i - 1 : ~IsSfd(b[j])
Frame(b) == SubSeq(b, Start(b) + 1, Len(b))
Symbols(f) == [k \in 1 .. Len(f) |-> f[k].v]

CheckBytes(b) ==
    IF ~HasFrame(b) THEN {}
    ELSE LET s == Symbols(Frame(b))
         IN  {Fcs(SubSeq(s, 1, n), Len(s) - n) :
                 n \in {m \in 1 .. Len(s) : Len(s) - m < FcsLen}}

Wire ==
    {Idle} \cup
    (IF Len(burst) < MaxBurst /\ (burst # <<>> \/ silent >= MinGap)
     THEN [dv : {TRUE}, er : BOOLEAN,
           v : {Payload(x) : x \in Byte} \cup {Sfd} \cup CheckBytes(burst)]
     ELSE {})

RxNext == \E in \in Wire : Cycle(in)

RxSpec == RxInit /\ [][RxNext]_rxVars

-----------------------------------------------------------------------------
(* Properties. *)

Content(b) == SubSeq(Symbols(Frame(b)), 1, Len(Frame(b)) - FcsLen)

\* A frame as it should be: at least one byte, the check over all bytes, no error.
GoodFrame(b) ==
    /\ HasFrame(b)
    /\ Len(Frame(b)) > FcsLen
    /\ \A k \in 1 .. Len(Frame(b)) : ~Frame(b)[k].er
    /\ SubSeq(Symbols(Frame(b)), Len(Frame(b)) - FcsLen + 1, Len(Frame(b))) = FcsOf(Content(b))

Delivers == m_axis.valid /\ m_axis.last /\ ~m_axis.user

\* A packet is delivered without tuser exactly when a good frame has just ended,
\* and its bytes are the content of that frame: neither a frame with an error, nor
\* what is left of an earlier one in the delay line, gets through.
DeliversGoodFrames ==
    /\ Delivers <=> ended # <<>> /\ GoodFrame(ended)
    /\ Delivers => Append(got, m_axis.data) = Content(ended)

\* Good or bad, a packet on the stream holds bytes of one burst only, the one on the
\* wire or the one just ended: the stages behind can tell packets apart by tlast alone.
OneBurstPerPacket ==
    got # <<>> => \E b \in {burst, ended} : /\ HasFrame(b)
                                          /\ Len(got) <= Len(Frame(b))
                                          /\ got = SubSeq(Symbols(Frame(b)), 1, Len(got))

-----------------------------------------------------------------------------
(* The inductive invariant. *)

IsInput(x) ==
    x = [dv |-> x.dv, er |-> x.er, v |-> x.v] /\ x.dv \in BOOLEAN /\ x.er \in BOOLEAN

IsSequence(s) == s \in Seq({s[k] : k \in 1 .. Len(s)})

\* The first n symbols after the delimiter.
Begins(b, n) == [k \in 1 .. n |-> b[Start(b) + k].v]

\* Symbols of the burst that have left the delay line.
Gone == Len(burst) - FcsLen - 1

\* The line holds the newest symbols of the burst on the wire, in order; what is
\* left of earlier bursts is not valid.
LineInv ==
    /\ IsSequence(burst)
    /\ \A k \in 1 .. Len(burst) : IsInput(burst[k]) /\ burst[k].dv
    /\ DOMAIN d = 0 .. FcsLen /\ \A k \in 0 .. FcsLen : IsInput(d[k])
    /\ \A k \in 0 .. FcsLen :
          IF k < Len(burst) THEN d[k] = burst[Len(burst) - k] ELSE ~d[k].dv
    /\ burst = <<>> => d[0] = Idle
    /\ silent \in Nat /\ (burst = <<>> <=> silent > 0)

\* While a packet is passed on: the bytes so far are those of the frame up to the
\* end of the line.  A burst may also end with just the check behind the delimiter;
\* the packet then begins in the first of the cycles of silence.
InPacket ==
    /\ IF burst = <<>> THEN silent = 1 /\ rx_crc = <<>>
       ELSE /\ HasFrame(burst) /\ Start(burst) <= Gone
            /\ \A k \in Start(burst) + 1 .. Gone : ~burst[k].er
            /\ rx_crc = Begins(burst, Gone - Start(burst))
    /\ IF m_axis.valid THEN ~m_axis.last /\ rx_crc = Append(got, m_axis.data)
       ELSE got = <<>> /\ rx_crc = <<>>

\* Between two packets: the delimiter of the burst on the wire is still in the
\* line, or the rest of a frame with an error is waited for.
BetweenPackets ==
    /\ m_axis.valid => m_axis.last
    /\ got # <<>> => m_axis.valid
    /\ rx_state = "IDLE" => \A k \in 1 .. Gone : ~IsSfd(burst[k])
    /\ rx_state = "CRC" => crc_cnt \in 0 .. FcsLen - 1 /\ Len(burst) <= crc_cnt
    /\ rx_state = "WAIT_LAST" =>
          IF burst = <<>> THEN silent = 1
          ELSE HasFrame(burst) /\ \E k \in Start(burst) + 1 .. Len(burst) : burst[k].er

MacRxInv ==
    /\ rx_state \in {"IDLE", "PAYLOAD", "CRC", "WAIT_LAST"}
    /\ LineInv
    /\ IF rx_state = "PAYLOAD" THEN InPacket ELSE BetweenPackets
    /\ DeliversGoodFrames
    /\ OneBurstPerPacket
    /\ IsSequence(got)
=============================================================================
