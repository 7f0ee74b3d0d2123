---------------------------- MODULE BoundedQueue ----------------------------
(***************************************************************************)
(* What random_access_fifo.sv promises: a queue of at most Depth entries.  *)
(* The inputs of the current cycle are the variable in, so the promise     *)
(* says which pushes and pops take effect and not only that some might.    *)
(***************************************************************************)
EXTENDS Naturals, QueueOps

CONSTANTS
    Depth,      \* capacity
    Item,       \* values of dtype_t
    Zero        \* the value of the read register after reset

VARIABLES
    in,         \* the inputs during this cycle
    started,    \* FALSE in the first cycle out of reset, when nothing is accepted
    q,          \* the entries, oldest first
    rsp         \* answer to the latest random-access read

vars == <<in, started, q, rsp>>

Input == [clr : BOOLEAN, push : BOOLEAN, data : Item, pop : BOOLEAN,
          req : BOOLEAN, addr : 0 .. Depth - 1]

Refused == [err |-> TRUE, data |-> Zero]

\* A read is relative to the head; beyond the last entry it is an error.
Answer(addr) ==
    IF addr < Len(q) THEN [err |-> FALSE, data |-> q[addr + 1]] ELSE Refused

Init ==
    /\ in \in Input
    /\ started = FALSE
    /\ q = <<>>
    /\ rsp = [err |-> FALSE, data |-> Zero]

Next ==
    /\ in' \in Input
    /\ started' = TRUE
    /\ q' = IF in.clr THEN <<>>
            ELSE PushPop(q, started /\ in.push /\ Len(q) < Depth, in.data, started /\ in.pop)
    /\ rsp' = IF in.req THEN Answer(in.addr) ELSE rsp

Spec == Init /\ [][Next]_vars
=============================================================================
