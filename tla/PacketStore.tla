----------------------------- MODULE PacketStore ----------------------------
(***************************************************************************)
(* What the RX packet ring buffer promises to the framing logic and to     *)
(* software: a queue of at most Depth packets, strings of bytes with their *)
(* metadata, that together with the packet being received take at most     *)
(* Capacity bytes.  No pointers, no memory: how long a packet is kept and  *)
(* what is read back does not depend on where it lies.                     *)
(***************************************************************************)
EXTENDS Integers, QueueOps

CONSTANTS
    Capacity,   \* bytes in the buffer
    Depth,      \* entries of the table
    Byte,
    Metadata

VARIABLES
    kept,       \* bytes stored of the packet being received
    refused,    \* this packet will not be entered in the queue
    q,          \* the packets, oldest first
    used        \* bytes of the packets in q

vars == <<kept, refused, q, used>>

Beat == [valid : BOOLEAN, last : BOOLEAN, data : Byte, abandon : BOOLEAN,
         metadata : Metadata]

NoSpace == used + Len(kept) = Capacity
NoEntry == Len(q) = Depth

GiveUp(b) == refused \/ b.abandon \/ NoSpace \/ NoEntry

Stored(b) == [metadata |-> b.metadata, bytes |-> Append(kept, b.data)]

\* What the beat adds to the bytes of the queue, and what a pop frees.
Gain(b)   == IF b.valid /\ b.last /\ ~GiveUp(b) THEN Len(kept) + 1 ELSE 0
Freed(pop) == IF pop /\ q # <<>> THEN Len(q[1].bytes) ELSE 0

Init ==
    /\ kept = <<>>
    /\ refused = FALSE
    /\ q = <<>>
    /\ used = 0

\* One cycle.  A packet that meets a full buffer or is abandoned is refused to
\* its end; a byte that meets a full queue is left out, and the packet is
\* refused if that byte is its last.
Cycle(b, pop) ==
    /\ refused' = IF ~b.valid THEN refused
                  ELSE ~b.last /\ (refused \/ b.abandon \/ NoSpace)
    /\ used' = used + Gain(b) - Freed(pop)
    /\ kept' = IF ~b.valid THEN kept
               ELSE IF b.last THEN <<>>
               ELSE IF GiveUp(b) THEN kept ELSE Append(kept, b.data)
    /\ q' = PushPop(q, b.valid /\ b.last /\ ~GiveUp(b), Stored(b), pop)

Next == \E b \in Beat, pop \in BOOLEAN : Cycle(b, pop)

Spec == Init /\ [][Next]_vars
=============================================================================
