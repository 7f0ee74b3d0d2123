-------------------------- MODULE RandomAccessFifo --------------------------
(***************************************************************************)
(* random_access_fifo.sv: a FIFO in a storage array with read and write    *)
(* pointers, a head output, and a second read port that addresses entries  *)
(* relative to the head.  The pointer counters are OpenTitan's             *)
(* prim_fifo_sync_cnt: each pointer carries a wrap flag, which tells a     *)
(* full FIFO from an empty one.                                            *)
(*                                                                         *)
(* One step is one clock cycle; in holds the inputs during the cycle.      *)
(***************************************************************************)
EXTENDS Integers, Sequences

CONSTANTS Depth, Item, Zero, AlmostFullThreshold

ASSUME FifoAssumption ==
    /\ Depth \in Nat \ {0}
    /\ Zero \in Item
    /\ AlmostFullThreshold \in 0 .. Depth

VARIABLES
    in,                     \* clr_i, wr_push_i, wr_data_i, rd_pop_i, rd_req_i, rd_addr_i
    under_rst,
    fifo_wptr, fifo_rptr,   \* [idx, wrap]
    fifo_storage,
    rd_data, rd_err         \* registers of the random-access read

fifoVars == <<in, under_rst, fifo_wptr, fifo_rptr, fifo_storage, rd_data, rd_err>>

Index == 0 .. Depth - 1
Pointer == [idx : Index, wrap : BOOLEAN]
Input == [clr : BOOLEAN, push : BOOLEAN, data : Item, pop : BOOLEAN,
          req : BOOLEAN, addr : Index]

-----------------------------------------------------------------------------
(* prim_fifo_sync_cnt. *)

Start == [idx |-> 0, wrap |-> FALSE]

Increment(p) == IF p.idx = Depth - 1 THEN [idx |-> 0, wrap |-> ~p.wrap]
                ELSE [idx |-> p.idx + 1, wrap |-> p.wrap]

full  == fifo_wptr.idx = fifo_rptr.idx /\ fifo_wptr.wrap # fifo_rptr.wrap
empty == fifo_wptr = fifo_rptr

n_buffered ==
    IF fifo_wptr.wrap = fifo_rptr.wrap THEN fifo_wptr.idx - fifo_rptr.idx
    ELSE Depth - fifo_rptr.idx + fifo_wptr.idx

PointerAfter(p, incr) ==
    IF in.clr THEN Start ELSE IF incr THEN Increment(p) ELSE p

-----------------------------------------------------------------------------
fifo_incr_wptr == in.push /\ ~full /\ ~under_rst
fifo_incr_rptr == in.pop /\ ~empty /\ ~under_rst

almost_full == n_buffered >= Depth - AlmostFullThreshold

rd_head_data == fifo_storage[fifo_rptr.idx]

\* The sum of head and address keeps the width of a pointer (Depth is a power of 2).
Slot(addr) == (fifo_rptr.idx + addr) % Depth

FifoInit ==
    /\ in \in Input
    /\ under_rst = TRUE
    /\ fifo_wptr = Start
    /\ fifo_rptr = Start
    /\ fifo_storage \in [Index -> Item]     \* not reset
    /\ rd_data = Zero
    /\ rd_err = FALSE

Write ==
    fifo_storage' = IF fifo_incr_wptr THEN [fifo_storage EXCEPT ![fifo_wptr.idx] = in.data]
                    ELSE fifo_storage

\* Fault: the second read port addresses the storage, not the queue.
RandomReadAbsolute ==
    /\ rd_err'  = IF in.req THEN in.addr >= n_buffered ELSE rd_err
    /\ rd_data' = IF in.req THEN fifo_storage[in.addr] ELSE rd_data

RandomRead ==
    /\ rd_err'  = IF in.req THEN in.addr >= n_buffered ELSE rd_err
    /\ rd_data' = IF in.req THEN fifo_storage[Slot(in.addr)] ELSE rd_data

FifoNext ==
    /\ in' \in Input
    /\ under_rst' = FALSE
    /\ fifo_wptr' = PointerAfter(fifo_wptr, fifo_incr_wptr)
    /\ fifo_rptr' = PointerAfter(fifo_rptr, fifo_incr_rptr)
    /\ Write
    /\ RandomRead

FifoSpec == FifoInit /\ [][FifoNext]_fifoVars

-----------------------------------------------------------------------------
(* Properties. *)

\* Registers hold values of their types, and the number of entries computed
\* from the pointers stays within the FIFO (depthShallNotExceedParamDepth).
FifoTypeOK ==
    /\ in \in Input
    /\ under_rst \in BOOLEAN
    /\ fifo_wptr \in Pointer
    /\ fifo_rptr \in Pointer
    /\ fifo_storage \in [Index -> Item]
    /\ rd_data \in Item
    /\ rd_err \in BOOLEAN
    /\ n_buffered \in 0 .. Depth

\* The queue that the pointers and the storage represent.
queue == [k \in 1 .. n_buffered |-> fifo_storage[Slot(k - 1)]]

Queue == INSTANCE BoundedQueue WITH
    started <- ~under_rst,
    q   <- queue,
    rsp <- IF rd_err THEN [err |-> TRUE, data |-> Zero] ELSE [err |-> FALSE, data |-> rd_data]

\* The FIFO is a bounded queue: no entry is lost, duplicated or reordered, a push
\* into a full and a pop from an empty FIFO do nothing, and a random read returns
\* the entry at that distance from the head as it is in the cycle of the request.
ImplementsQueue == Queue!Spec

=============================================================================
