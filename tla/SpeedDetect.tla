----------------------------- MODULE SpeedDetect ----------------------------
(***************************************************************************)
(* The speed detection of eth_mac_1g_rgmii.sv.  The PHY's receive clock    *)
(* runs at 125, 25 or 2.5 MHz.  A bit that toggles every 4 periods of it   *)
(* is sampled by the 125 MHz clock, and the time three of its changes take *)
(* tells the speed.                                                        *)
(*                                                                         *)
(* One step is one cycle of gtx_clk.  The receive clock is given by its    *)
(* period in cycles of gtx_clk, and a sample taken while the bit changes   *)
(* may see it in this cycle or in the next.                                *)
(***************************************************************************)
EXTENDS Integers

CONSTANTS
    Bits1,          \* width of rx_speed_count_1 (7)
    Toggle          \* cycles between two changes of rx_prescale[2], by speed

\* The counts at which a measurement may end are apart for the three speeds: it takes
\* three changes, two to three changes' time, give or take a late sample at either end.
\* The first of the three may be a change at the PHY's previous speed that is still on
\* its way through the synchroniser, which holds one at most.
TellsApart(bits, toggle) ==
    /\ bits \in Nat /\ bits >= 3
    /\ toggle \in [{0, 1, 2} -> Nat] /\ toggle[2] >= 4
    /\ 3 * toggle[2] + 2 <= 2^(bits - 2)
    /\ 2^(bits - 2) + 2 <= 2 * toggle[1] - toggle[2]
    /\ 3 * toggle[1] + 2 <= 2^bits - 1
    /\ 2^bits + 2 <= 2 * toggle[0] - toggle[1]

ASSUME SpeedAssumption == TellsApart(Bits1, Toggle)

VARIABLES
    rate,               \* speed of the PHY: 0 is 10, 1 is 100, 2 is 1000 Mbit/s
    phase, bit,         \* cycles since rx_prescale[2] changed, and its value
    sync,               \* rx_prescale_sync_1 .. 3
    rx_speed_count_1, rx_speed_count_2,
    speed_reg,
    windows             \* history: measurements begun since the rate changed, up to 2

vars == <<rate, phase, bit, sync, rx_speed_count_1, rx_speed_count_2, speed_reg, windows>>

Speed == {0, 1, 2}
Full1 == 2^Bits1 - 1
Full2 == 3

-----------------------------------------------------------------------------
\* rx_prescale[2] changes every Toggle[rate] cycles; right after a change the first
\* synchroniser may still see the old value.
Prescale ==
    /\ IF phase + 1 >= Toggle[rate] THEN phase' = 0 /\ bit' = ~bit
       ELSE phase' = phase + 1 /\ UNCHANGED bit
    /\ \E seen \in (IF phase = 0 THEN BOOLEAN ELSE {bit}) : sync' = <<seen, sync[1], sync[2]>>

Edge == sync[2] # sync[3]

\* Fault: the fast speed is told from the middle one at half the reference count.
SpeedOfLate == IF rx_speed_count_1 >= 2^(Bits1 - 1) THEN 1 ELSE 2
\* |rx_speed_count_1[6:5]
SpeedOf == IF rx_speed_count_1 >= 2^(Bits1 - 2) THEN 1 ELSE 2

Full == rx_speed_count_1 = Full1 \/ rx_speed_count_2 = Full2

\* Fault: a full reference count leaves the count of changes as it is.
CountKeepsChanges ==
    /\ rx_speed_count_1' = IF Full THEN 0 ELSE rx_speed_count_1 + 1
    /\ rx_speed_count_2' = IF rx_speed_count_2 = Full2 THEN 0
                           ELSE IF Edge THEN rx_speed_count_2 + 1 ELSE rx_speed_count_2
    /\ speed_reg' = IF rx_speed_count_2 = Full2 THEN SpeedOf
                    ELSE IF rx_speed_count_1 = Full1 THEN 0 ELSE speed_reg
\* The last assignment wins: three changes count before a full reference count.
Count ==
    /\ rx_speed_count_1' = IF Full THEN 0 ELSE rx_speed_count_1 + 1
    /\ rx_speed_count_2' = IF Full THEN 0
                           ELSE IF Edge THEN rx_speed_count_2 + 1 ELSE rx_speed_count_2
    /\ speed_reg' = IF rx_speed_count_2 = Full2 THEN SpeedOf
                    ELSE IF rx_speed_count_1 = Full1 THEN 0 ELSE speed_reg

mii_select == speed_reg # 2

Init ==
    /\ rate \in Speed
    /\ phase = 0 /\ bit = FALSE
    /\ sync = <<FALSE, FALSE, FALSE>>
    /\ rx_speed_count_1 = 0 /\ rx_speed_count_2 = 0
    /\ speed_reg = 2
    /\ windows = 0

\* The link comes up at another speed.
Renegotiate(r) ==
    /\ r # rate
    /\ rate' = r /\ windows' = 0
    /\ UNCHANGED <<phase, bit, sync, rx_speed_count_1, rx_speed_count_2, speed_reg>>

Cycle ==
    /\ Prescale /\ Count
    /\ windows' = IF Full /\ windows < 2 THEN windows + 1 ELSE windows
    /\ UNCHANGED rate

Next == Cycle \/ \E r \in Speed : Renegotiate(r)

Spec == Init /\ [][Next]_vars

-----------------------------------------------------------------------------
\* Once a whole measurement has been made at the PHY's speed, the speed in use is the
\* PHY's and stays so: no phase of the receive clock or of the counters, and no late
\* sample, makes a later measurement wrong.
SpeedIsRight == windows >= 2 => speed_reg = rate

\* If the link stops renegotiating, the speed in use becomes the PHY's for good.
SpeedSettles == \A r \in Speed : <>[](rate = r) => <>[](speed_reg = r)

-----------------------------------------------------------------------------
(* The inductive invariant. *)

SpeedType ==
    /\ rate \in Speed /\ speed_reg \in Speed
    /\ phase \in Nat /\ bit \in BOOLEAN
    /\ sync = <<sync[1], sync[2], sync[3]>>
    /\ sync[1] \in BOOLEAN /\ sync[2] \in BOOLEAN /\ sync[3] \in BOOLEAN
    /\ rx_speed_count_1 \in Nat /\ rx_speed_count_1 <= Full1
    /\ rx_speed_count_2 \in Nat /\ rx_speed_count_2 <= Full2
    /\ windows \in Nat /\ windows <= 2

\* A change of the bit goes through the synchroniser within four cycles, which is
\* before the next one.
Passing ==
    /\ phase <= 0 => sync[1] # bit
    /\ phase <= 1 => sync[2] # bit
    /\ phase <= 2 => sync[3] # bit
    /\ phase >= 2 => sync[1] = bit
    /\ phase >= 3 => sync[2] = bit
    /\ phase >= 4 => sync[3] = bit

\* After reset there was no change, but the sample may be wrong nevertheless.
AfterReset ==
    /\ windows = 0 /\ rx_speed_count_1 = phase /\ phase <= 3
    /\ rx_speed_count_2 = 0 \/ (phase = 3 /\ rx_speed_count_2 = 1)
    /\ phase # 1 => sync[1] = bit
    /\ phase # 2 => sync[2] = bit
    /\ phase # 3 => sync[3] = bit

\* A change that is not counted yet.
Pending == IF sync[3] # bit THEN 1 ELSE 0

\* In a measurement at one speed, the changes on their way or counted take the time
\* of as many periods of the bit, less the part of the first that came before it.
Measured ==
    LET T == Toggle[rate]
        n == rx_speed_count_2 + Pending
    IN  /\ phase < T
        /\ (n - 1) * T + phase - 3 <= rx_speed_count_1
        /\ rx_speed_count_1 <= n * T + phase - 3
        /\ rx_speed_count_2 = Full2 =>
              \/ Pending = 0 /\ phase >= 3 /\ phase <= 4
              \/ Pending = 1 /\ phase = 0 /\ T = 4

SpeedInv ==
    /\ SpeedType
    /\ Passing \/ AfterReset
    /\ windows >= 1 => Measured
    /\ SpeedIsRight
=============================================================================
