------------------------------ MODULE QueueOps ------------------------------
(***************************************************************************)
(* What one clock cycle does to a hardware queue: an entry is pushed at    *)
(* the end, the oldest one is popped at the front, or both.  Both read the *)
(* state before the cycle, so an entry pushed into an empty queue is not   *)
(* popped in the same cycle.                                               *)
(***************************************************************************)
EXTENDS Sequences

PushPop(q, push, d, pop) ==
    LET pushed == IF push THEN Append(q, d) ELSE q
    IN  IF pop /\ q # <<>> THEN Tail(pushed) ELSE pushed
=============================================================================
