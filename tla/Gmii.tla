-------------------------------- MODULE Gmii --------------------------------
(***************************************************************************)
(* What travels between the two MACs: one symbol per byte time.  The frame *)
(* check sequence is abstracted to the bytes it was computed over, so two  *)
(* checks agree exactly when they cover the same bytes (rgmii_lfsr.sv      *)
(* computes a CRC-32, whose collisions are left out).                      *)
(***************************************************************************)
EXTENDS Naturals, Sequences

CONSTANTS
    Byte,           \* values of a byte of payload
    FcsLen          \* bytes of the frame check sequence (4)

Pre == [kind |-> "preamble", val |-> 0, of |-> <<>>]
Sfd == [kind |-> "sfd", val |-> 0, of |-> <<>>]
Payload(b) == [kind |-> "data", val |-> b, of |-> <<>>]

\* The k-th byte, from 0 on, of the check over the symbols s.
Fcs(s, k) == [kind |-> "fcs", val |-> k, of |-> s]
FcsOf(s) == [k \in 1 .. FcsLen |-> Fcs(s, k - 1)]

Bytes(p) == [k \in 1 .. Len(p) |-> Payload(p[k])]
=============================================================================
