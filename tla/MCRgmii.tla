------------------------------ MODULE MCRgmii -------------------------------
(***************************************************************************)
(* At 100 Mbit/s the transmit clock has the period of rgmii_phy_if.sv, 5   *)
(* cycles; at 10 Mbit/s 10 cycles and not 50.  The measurement has a       *)
(* reference counter of six bits and not of seven, and slower clocks to    *)
(* match; these numbers and the real ones tell the speeds apart.           *)
(***************************************************************************)
EXTENDS Rgmii

MCToggle == [r \in {0, 1, 2} |-> CASE r = 0 -> 39 [] r = 1 -> 11 [] r = 2 -> 4]
MCRise == [s \in {0, 1} |-> IF s = 0 THEN 4 ELSE 2]
MCWrap == [s \in {0, 1} |-> IF s = 0 THEN 9 ELSE 4]

\* Changes every 4 periods of 2.5, 25 and 125 MHz, in cycles of 125 MHz.
ASSUME RealNumbers ==
    TellsApart(7, [r \in {0, 1, 2} |-> CASE r = 0 -> 200 [] r = 1 -> 20 [] r = 2 -> 4])
=============================================================================
