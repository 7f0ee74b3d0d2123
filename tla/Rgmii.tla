------------------------------- MODULE Rgmii --------------------------------
(***************************************************************************)
(* The clocks of the RGMII: eth_mac_1g_rgmii.sv measures the speed of the  *)
(* PHY's receive clock and hands it to rgmii_phy_if.sv, which divides the  *)
(* transmit clock by it.  Both run on the same 125 MHz clock; the PHY may  *)
(* renegotiate its speed between any two cycles.                           *)
(***************************************************************************)
EXTENDS SpeedDetect

CONSTANTS Rise, Wrap

ASSUME DividerAssumption ==
    /\ Rise \in [{0, 1} -> Nat] /\ Wrap \in [{0, 1} -> Nat]
    /\ Wrap[1] > 0 /\ Wrap[1] <= Wrap[0] /\ Wrap[0] < 64
    /\ 2 * (Wrap[0] - Rise[0]) = Wrap[0] + 1 /\ 2 * (Wrap[1] - Rise[1]) = Wrap[1]

VARIABLES rgmii_tx_clk_1, rgmii_tx_clk_2, rgmii_tx_clk_fall, count_reg, levels, periods

Tx == INSTANCE TxClock WITH speed <- speed_reg

txVars == <<rgmii_tx_clk_1, rgmii_tx_clk_2, rgmii_tx_clk_fall, count_reg, levels, periods>>
rgmiiVars == <<vars, txVars>>

-----------------------------------------------------------------------------
RgmiiInit == Init /\ Tx!Init

RgmiiCycle == Cycle /\ Tx!Cycle

RgmiiNext ==
    \/ RgmiiCycle
    \/ \E r \in Speed : Renegotiate(r) /\ UNCHANGED txVars

\* The 125 MHz clock keeps ticking.
RgmiiSpec == RgmiiInit /\ [][RgmiiNext]_rgmiiVars /\ WF_rgmiiVars(RgmiiCycle)

-----------------------------------------------------------------------------
(* Properties. *)

\* Once the link has been measured, and with it the transmit clock, has been steady
\* for a few symbols, the PHY gets exactly one well-formed clock period of its own
\* speed for every symbol of the MAC; a late sample or an unlucky phase never disturbs it.
OneEdgePerSymbol ==
    windows >= 2 /\ periods = 3 /\ Tx!gmii_clk_en /\ rate # 2 => Tx!WellFormedPeriod(rate)

\* However the measured speed changes, the MAC never waits longer for its clock enable
\* than a period of the slowest speed.
EnabledInTime == Tx!EnabledInTime

-----------------------------------------------------------------------------
RgmiiInv == SpeedInv /\ Tx!ClockInv
=============================================================================
