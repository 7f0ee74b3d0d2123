------------------------------- MODULE PktMux -------------------------------
(***************************************************************************)
(* The loopback multiplexer: ethernet_loopback.sv around axis_pkt_mux.sv,  *)
(* which holds two axis_pkt_isolate.sv.  Path 0 is the stream received     *)
(* from the MAC, path 1 the stream transmitted to it; loopback_en (a bit   *)
(* of the CTRL register) selects one and may change in any cycle.  Neither *)
(* stream can be paused, so the multiplexer may only switch between        *)
(* packets: it first isolates the old path, and the new path waits for     *)
(* the registered isolated flag of the old one.                            *)
(*                                                                         *)
(* One step is one clock cycle.  The data of a beat is abstracted to the   *)
(* path it comes from and its position in its packet, which is what a      *)
(* splice would confuse.                                                   *)
(***************************************************************************)
EXTENDS Naturals

CONSTANT MaxBeats       \* beats in the longest packet of either stream

ASSUME MaxBeatsAssumption == MaxBeats \in Nat \ {0}

VARIABLES
    loopback_en,        \* the select line
    packet_in_progress, \* per isolator
    held,               \* per isolator: its isolated_q
    isolated_q,         \* per path: the multiplexer's register of isolated_o
    axis_o,             \* output flop: what each gated stream contributed to it
    pos,                \* environment: beats of the current packet already sent
    open                \* history: the beat last taken from axis_o, if its packet goes on

muxVars == <<loopback_en, packet_in_progress, held, isolated_q, axis_o, pos, open>>

Path == {0, 1}
Other(i) == 1 - i

Axis == [valid : BOOLEAN, last : BOOLEAN]

Zero == [valid |-> FALSE, last |-> FALSE, src |-> 0, idx |-> 0]
None == [src |-> 0, idx |-> MaxBeats]

-----------------------------------------------------------------------------
(* Combinational signals. *)

\* Fault: the other path's registered flag is ignored.
isolate_i_no_interlock(i) == loopback_en # (i = 1)
\* Fault: the path waits for its own flag instead of the other's.
isolate_i_wrong_flag(i) == (loopback_en # (i = 1)) \/ ~isolated_q[i]

\* isolate0 gets sel_i | !isolated_q[1], isolate1 gets !sel_i | !isolated_q[0].
isolate_i(i) == (loopback_en # (i = 1)) \/ ~isolated_q[Other(i)]

\* Fault: isolation takes effect in the middle of a packet.
isolated_at_once(i) == isolate_i(i)
isolated(i) == IF packet_in_progress[i] THEN held[i] ELSE isolate_i(i)

\* The TX stream only counts in the cycles in which the MAC takes it.
tx_axis_modified(tx, ready) == [tx EXCEPT !.valid = tx.valid /\ ready]

\* axis_i of the multiplexer, with the path and position of each beat.
axis_i(rx, tx, ready) ==
    [i \in Path |->
        LET b == IF i = 0 THEN rx ELSE tx_axis_modified(tx, ready)
        IN  [valid |-> b.valid, last |-> b.last, src |-> i, idx |-> pos[i]]]

\* The output flop ORs the gated streams; an isolated stream is zero.
axis_isolated(in) == [i \in Path |-> IF isolated(i) THEN Zero ELSE in[i]]

-----------------------------------------------------------------------------
MuxInit ==
    /\ loopback_en = FALSE
    /\ packet_in_progress = [i \in Path |-> FALSE]
    /\ held = [i \in Path |-> TRUE]
    /\ isolated_q = [i \in Path |-> TRUE]
    /\ axis_o = [i \in Path |-> Zero]
    /\ pos = [i \in Path |-> 0]
    /\ open = None

\* Registers of the two isolators.
Isolators(in) ==
    /\ packet_in_progress' =
          [i \in Path |-> IF in[i].valid THEN ~in[i].last ELSE packet_in_progress[i]]
    /\ held' = [i \in Path |-> IF packet_in_progress[i] THEN held[i] ELSE isolate_i(i)]

\* Registers of the multiplexer.
Mux(in) ==
    /\ isolated_q' = [i \in Path |-> isolated(i)]
    /\ axis_o' = axis_isolated(in)

\* The streams: beats of a packet follow each other, tlast ends the packet.
\* A received beat is gone after its cycle, a transmitted one is taken by the
\* MAC when it is ready.
Stream(rx, tx, i)    == IF i = 0 THEN rx ELSE tx
Taken(rx, tx, ready, i) == Stream(rx, tx, i).valid /\ (i = 0 \/ ready)

StreamMayDeliver(b, i) == ~b.last => pos[i] + 1 < MaxBeats

Streams(rx, tx, ready) ==
    pos' = [i \in Path |-> IF ~Taken(rx, tx, ready, i) THEN pos[i]
                           ELSE IF Stream(rx, tx, i).last THEN 0 ELSE pos[i] + 1]

\* The consumer of axis_o, ethernet_rx_framing, takes every valid beat.
OutBeats == {axis_o[i] : i \in {j \in Path : axis_o[j].valid}}

Open == IF OutBeats = {} THEN open
        ELSE LET b == CHOOSE b \in OutBeats : TRUE
             IN  IF b.last THEN None ELSE [src |-> b.src, idx |-> b.idx]

Cycle(rx, tx, ready, en) ==
    LET in == axis_i(rx, tx, ready)
    IN  /\ \A i \in Path : StreamMayDeliver(Stream(rx, tx, i), i)
        /\ Isolators(in)
        /\ Mux(in)
        /\ Streams(rx, tx, ready)
        /\ open' = Open
        /\ loopback_en' = en    \* the register written by software

MuxNext == \E rx, tx \in Axis, ready, en \in BOOLEAN : Cycle(rx, tx, ready, en)

MuxSpec == MuxInit /\ [][MuxNext]_muxVars

-----------------------------------------------------------------------------
(* Properties. *)

OutBeat == [valid : BOOLEAN, last : BOOLEAN, src : Path, idx : 0 .. MaxBeats - 1]

\* Flags are Booleans, beats carry a path and a position in a packet.
MuxTypeOK ==
    /\ loopback_en \in BOOLEAN
    /\ packet_in_progress \in [Path -> BOOLEAN]
    /\ held \in [Path -> BOOLEAN]
    /\ isolated_q \in [Path -> BOOLEAN]
    /\ axis_o \in [Path -> OutBeat]
    /\ pos \in [Path -> 0 .. MaxBeats - 1]
    /\ open \in [src : Path, idx : 0 .. MaxBeats]

\* NeverMixPaths_A: in no cycle are both paths connected to the output.
NeverMixPaths == isolated(0) \/ isolated(1)

\* The output stream is a sequence of whole packets: a beat is either the first
\* of its packet, and then the packet before it was finished, or the successor
\* of the beat before it, from the same path; wherever loopback_en changed.
NoSplice ==
    \A i \in Path : axis_o[i].valid =>
        /\ ~axis_o[Other(i)].valid
        /\ IF open = None THEN axis_o[i].idx = 0
           ELSE open = [src |-> axis_o[i].src, idx |-> axis_o[i].idx - 1]

\* When software leaves loopback_en alone and packets end, the multiplexer
\* settles on the selected path and isolates the other one.
SwitchCompletes ==
    \A i \in Path :
        (/\ <>[](loopback_en = (i = 1))
         /\ \A j \in Path : []<>~packet_in_progress[j])
        => <>[](~isolated(i) /\ isolated(Other(i)))

-----------------------------------------------------------------------------
(* The inductive invariant. *)

\* The path whose packet is on its way through the output.
Passing(i) == packet_in_progress[i] /\ ~held[i]

MuxInv ==
    /\ MuxTypeOK
    /\ isolated_q[0] \/ isolated_q[1]
    /\ \A i \in Path : packet_in_progress[i] => held[i] = isolated_q[i]
    /\ \A i \in Path : packet_in_progress[i] <=> pos[i] > 0
    \* What is left of the output packet is what the passing path still sends.
    /\ \A i \in Path : Passing(i) => Open = [src |-> i, idx |-> pos[i] - 1]
    /\ (\A i \in Path : ~Passing(i)) => Open = None
    /\ NoSplice
=============================================================================
