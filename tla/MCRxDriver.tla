---------------------------- MODULE MCRxDriver ------------------------------
(* The byte values are interchangeable: bytes are stored, copied and compared, and *)
(* the one that is on tdata without tvalid is looked at by nobody.                 *)
EXTENDS RxDriver, TLC

MCSymmetry == Permutations(Byte)

(* Bytes of the RAM that belong to no packet do not tell states apart: what a word *)
(* takes of them stays in the view.                                                *)
Within(a, h, n) == PtrSub(a, h) < n

Held ==
    {a \in Ptr : \/ \E k \in 1 .. Len(table) : Within(a, table[k].head_ptr, table[k].pkt_len)
                 \/ Within(a, current_packet_head_ptr, PtrSub(buf_write_ptr, current_packet_head_ptr))}

MCView == <<buf_write_ptr, current_packet_head_ptr, abandon_sticky, table,
            [a \in Held |-> mem[a]], cur, hist, pc, loopVars, cacheVars>>
=============================================================================
