---------------------------- MODULE MCRxFraming -----------------------------
(* Two-byte addresses over two byte values: 11 is broadcast, 1- multicast   *)
(* and 01 the station's own address, so that 00 belongs to somebody else.   *)
EXTENDS RxFraming

MCMulticast == <<1>>
MCMacAddress == {<<0, 1>>, <<1, 0>>}

\* The bytes in the RAM: the filter, the descriptors and the histories never depend on them.
MCView == <<vars, buf_write_ptr, current_packet_head_ptr, abandon_sticky, table, cur, hist, crc, log>>
=============================================================================
