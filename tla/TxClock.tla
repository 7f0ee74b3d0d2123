------------------------------ MODULE TxClock -------------------------------
(***************************************************************************)
(* The transmit side of rgmii_phy_if.sv: the clock for the PHY, divided    *)
(* from 125 MHz, and the enable that lets the MAC put out its next symbol. *)
(* The two outputs of a cycle are what the DDR cells drive in its first    *)
(* and in its second half.                                                 *)
(*                                                                         *)
(* One step is one clock cycle; the speed, an input, may change in any.    *)
(***************************************************************************)
EXTENDS Integers

CONSTANTS
    Rise,       \* count at which the clock rises, by speed
    Wrap        \* count at which a period ends, by speed

VARIABLES
    speed,      \* input: 0 is 10, 1 is 100, 2 is 1000 Mbit/s
    rgmii_tx_clk_1, rgmii_tx_clk_2, rgmii_tx_clk_fall,
    count_reg,
    levels,     \* history: the clock since the last enable, in half cycles
    periods     \* history: enables since the speed changed, up to 3

Speed == {0, 1, 2}

gmii_clk_en == speed = 2 \/ rgmii_tx_clk_fall

-----------------------------------------------------------------------------
\* Fault: a period ends only at its own count, which a change of speed can jump over.
PeriodEndsExact == count_reg = Wrap[speed]
PeriodEnds == count_reg >= Wrap[speed]

Divide ==
    /\ count_reg' = IF PeriodEnds THEN 0 ELSE (count_reg + 1) % 64
    /\ rgmii_tx_clk_fall' = PeriodEnds

\* Fault: the clock falls in the middle of a cycle at both speeds.
FallMidCycle ==
    /\ rgmii_tx_clk_1' = rgmii_tx_clk_2
    /\ rgmii_tx_clk_2' = FALSE
\* At 10M the clock falls at the start of the cycle, at 100M half a cycle later.
Fall ==
    /\ rgmii_tx_clk_1' = IF speed = 0 THEN FALSE ELSE rgmii_tx_clk_2
    /\ rgmii_tx_clk_2' = FALSE

TenOrHundred ==
    /\ speed # 2
    /\ Divide
    /\ IF count_reg = Rise[speed]
       THEN rgmii_tx_clk_1' = TRUE /\ rgmii_tx_clk_2' = TRUE
       ELSE IF PeriodEnds THEN Fall
       ELSE rgmii_tx_clk_1' = rgmii_tx_clk_2 /\ UNCHANGED rgmii_tx_clk_2

Thousand ==
    /\ speed = 2
    /\ rgmii_tx_clk_1' = TRUE /\ rgmii_tx_clk_2' = FALSE /\ rgmii_tx_clk_fall' = TRUE
    /\ UNCHANGED count_reg

\* Half cycles the clock was high and low, rising edges, and its last level.
NoLevels == [high |-> 0, low |-> 0, rises |-> 0, last |-> TRUE]

Init ==
    /\ rgmii_tx_clk_1 = TRUE /\ rgmii_tx_clk_2 = FALSE /\ rgmii_tx_clk_fall = TRUE
    /\ count_reg = 0
    /\ levels = NoLevels /\ periods = 0

-----------------------------------------------------------------------------
\* Another half cycle, with the clock high or low.
Extend(l, level) ==
    [high  |-> IF level THEN l.high + 1 ELSE l.high,
     low   |-> IF level THEN l.low ELSE l.low + 1,
     rises |-> IF level /\ ~l.last THEN l.rises + 1 ELSE l.rises,
     last  |-> level]

Observe ==
    /\ levels' = Extend(Extend(IF gmii_clk_en THEN NoLevels ELSE levels,
                               rgmii_tx_clk_1), rgmii_tx_clk_2)
    /\ periods' = IF speed' # speed THEN 0
                  ELSE IF gmii_clk_en /\ periods < 3 THEN periods + 1 ELSE periods

Cycle == (TenOrHundred \/ Thousand) /\ Observe

-----------------------------------------------------------------------------
(* Properties. *)

\* What the PHY sees at speed s for one symbol of the MAC: one rising edge, in a period
\* of Wrap + 1 cycles of which the clock is high for half.
WellFormedPeriod(s) ==
    levels.rises = 1 /\ levels.high = Wrap[s] + 1 /\ levels.low = Wrap[s] + 1

\* However the speed changes, the MAC never waits longer for its enable than the
\* longest period: the counter cannot be left running past the end of its period.
EnabledInTime == levels.high + levels.low <= 2 * (Wrap[0] + 1)

-----------------------------------------------------------------------------
(* The inductive invariant. *)

ClockType ==
    /\ speed \in Speed
    /\ rgmii_tx_clk_1 \in BOOLEAN /\ rgmii_tx_clk_2 \in BOOLEAN
    /\ rgmii_tx_clk_fall \in BOOLEAN
    /\ count_reg \in Nat /\ count_reg <= Wrap[0]
    /\ levels \in [high : Nat, low : Nat, rises : Nat, last : BOOLEAN]
    /\ periods \in Nat /\ periods <= 3

\* The counter has counted the cycles the MAC has waited, or more.
WaitInv ==
    levels.high + levels.low <= IF gmii_clk_en THEN 2 * (Wrap[0] + 1) ELSE 2 * count_reg

\* Half cycles the clock is high in the first n cycles of a period; at 100M the first
\* of them belongs to the fall at the end of the period before.
HighIn(s, n) ==
    (IF s = 1 THEN 1 ELSE 0) + (IF n - 1 > Rise[s] THEN 2 * (n - 1 - Rise[s]) ELSE 0)

\* The clock in a cycle of a period, but for the first half of the first cycle.
InStep ==
    /\ count_reg <= Wrap[speed]
    /\ rgmii_tx_clk_fall <=> count_reg = 0
    /\ count_reg = 0 => ~rgmii_tx_clk_2 /\ (rgmii_tx_clk_1 <=> speed = 1)
    /\ count_reg > 0 => /\ rgmii_tx_clk_1 <=> count_reg > Rise[speed]
                        /\ rgmii_tx_clk_2 <=> count_reg > Rise[speed]

\* The clock so far in a period.
InPeriod ==
    /\ levels.high = HighIn(speed, count_reg)
    /\ levels.high + levels.low = 2 * count_reg
    /\ levels.rises = IF count_reg - 1 > Rise[speed] THEN 1 ELSE 0
    /\ levels.last <=> count_reg - 1 > Rise[speed]

\* It takes a change of speed three enables to be forgotten: the period it falls into
\* may be cut or stretched, the next one may lack the half cycle of the fall before it.
Regular ==
    speed # 2 =>
        /\ periods >= 1 /\ rgmii_tx_clk_fall => count_reg = 0 /\ ~rgmii_tx_clk_2
        /\ periods >= 2 => InStep
        /\ periods = 3 /\ count_reg = 0 => WellFormedPeriod(speed)
        /\ periods = 3 /\ count_reg > 0 => InPeriod

ClockInv == ClockType /\ WaitInv /\ Regular
=============================================================================
