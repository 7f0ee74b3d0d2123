---------------------------- MODULE RgmiiProofs -----------------------------
(***************************************************************************)
(* The clocks of the RGMII, for every width of the reference counter and   *)
(* every set of clocks that can be told apart: the measured speed is right *)
(* once a whole measurement was made at it, and the transmit clock is that *)
(* of the speed, one period per symbol of the MAC.                         *)
(***************************************************************************)
EXTENDS Rgmii, TLAPS

-----------------------------------------------------------------------------
(* The measurement. *)

\* The numbers of TellsApart.
LEMMA Numbers ==
    /\ 2^Bits1 \in Int /\ 2^(Bits1 - 2) \in Int /\ Full1 = 2^Bits1 - 1 /\ Full2 = 3
    /\ \A r \in Speed : Toggle[r] \in Nat /\ Toggle[r] >= 4
    /\ 3 * Toggle[2] + 2 <= 2^(Bits1 - 2)
    /\ 2^(Bits1 - 2) + 2 <= 2 * Toggle[1] - Toggle[2]
    /\ 3 * Toggle[1] + 2 <= 2^Bits1 - 1
    /\ 2^Bits1 + 2 <= 2 * Toggle[0] - Toggle[1]
  <1> DEFINE F == 2^Bits1
             Q == 2^(Bits1 - 2)
             a == Toggle[0]
             b == Toggle[1]
             c == Toggle[2]
  <1>1. /\ Bits1 \in Nat /\ Bits1 >= 3 /\ Toggle \in [{0, 1, 2} -> Nat] /\ c >= 4
        /\ 3 * c + 2 <= Q /\ Q + 2 <= 2 * b - c /\ 3 * b + 2 <= F - 1 /\ F + 2 <= 2 * a - b
    BY SpeedAssumption DEF TellsApart
  <1>2. F \in Int /\ Q \in Int
    BY <1>1
  <1>3. a \in Nat /\ b \in Nat /\ c \in Nat
    BY <1>1
  <1> HIDE DEF F, Q, a, b, c
  <1>4. b >= 4 /\ a >= 4
    BY <1>1, <1>2, <1>3
  <1>5. \A r \in Speed : Toggle[r] \in Nat /\ Toggle[r] >= 4
    BY <1>1, <1>3, <1>4 DEF Speed, a, b, c
  <1> QED BY <1>1, <1>2, <1>5 DEF Full1, Full2, F, Q, a, b, c

\* What a cycle does to bit and synchroniser.
LEMMA SyncMoves ==
    ASSUME SpeedType, Cycle
    PROVE  /\ sync'[2] = sync[1] /\ sync'[3] = sync[2] /\ sync'[1] \in BOOLEAN
           /\ sync' = <<sync'[1], sync'[2], sync'[3]>>
           /\ phase # 0 => sync'[1] = bit
           /\ rate' = rate /\ Toggle[rate] \in Nat /\ Toggle[rate] >= 4 /\ phase \in Nat
           /\ phase + 1 >= Toggle[rate] => phase' = 0 /\ bit' = ~bit
           /\ ~(phase + 1 >= Toggle[rate]) => phase' = phase + 1 /\ bit' = bit
  <1>1. Prescale /\ rate' = rate
    BY DEF Cycle
  <1>2. /\ phase + 1 >= Toggle[rate] => phase' = 0 /\ bit' = ~bit
        /\ ~(phase + 1 >= Toggle[rate]) => phase' = phase + 1 /\ bit' = bit
    BY <1>1 DEF Prescale
  <1>3. PICK seen \in (IF phase = 0 THEN BOOLEAN ELSE {bit}) : sync' = <<seen, sync[1], sync[2]>>
    BY <1>1 DEF Prescale
  <1>4. seen \in BOOLEAN /\ (phase # 0 => seen = bit)
    BY <1>3 DEF SpeedType
  <1>5. Toggle[rate] \in Nat /\ Toggle[rate] >= 4 /\ phase \in Nat
    BY Numbers DEF SpeedType
  <1> QED BY <1>1, <1>2, <1>3, <1>4, <1>5

\* A change goes on through the synchroniser and is through before the next one.
LEMMA PassingStep ==
    ASSUME SpeedType, Cycle, Passing
    PROVE  Passing'
  <1> DEFINE T == Toggle[rate]
  <1>1. /\ sync'[2] = sync[1] /\ sync'[3] = sync[2] /\ (phase # 0 => sync'[1] = bit)
        /\ T \in Nat /\ T >= 4 /\ phase \in Nat /\ bit \in BOOLEAN
        /\ phase + 1 >= T => phase' = 0 /\ bit' = ~bit
        /\ ~(phase + 1 >= T) => phase' = phase + 1 /\ bit' = bit
    BY SyncMoves DEF SpeedType
  <1> HIDE DEF T
  <1>2. /\ phase <= 0 => sync[1] # bit
        /\ phase <= 1 => sync[2] # bit
        /\ phase >= 2 => sync[1] = bit
        /\ phase >= 3 => sync[2] = bit
    BY DEF Passing
  <1>3. CASE phase + 1 >= T
    <2>1. phase >= 3 /\ phase >= 2 /\ phase # 0 /\ phase' = 0 /\ bit' = ~bit
      BY <1>1, <1>3
    <2>2. sync'[1] = bit /\ sync'[2] = bit /\ sync'[3] = bit /\ bit' # bit
      BY <1>1, <1>2, <2>1, Zenon
    <2>3. ~(phase' >= 2) /\ ~(phase' >= 3) /\ ~(phase' >= 4)
      BY <2>1
    <2> QED BY <2>2, <2>3, Zenon DEF Passing
  <1>4. CASE ~(phase + 1 >= T)
    <2>1. /\ bit' = bit /\ ~(phase' <= 0)
          /\ phase' <= 1 => phase <= 0
          /\ phase' <= 2 => phase <= 1
          /\ phase' >= 2 => phase # 0
          /\ phase' >= 3 => phase >= 2
          /\ phase' >= 4 => phase >= 3
      BY <1>1, <1>4
    <2> QED BY <1>1, <1>2, <2>1, Zenon DEF Passing
  <1> QED BY <1>3, <1>4

\* What a cycle does to the counters.
LEMMA CountMoves ==
    ASSUME SpeedType, Cycle
    PROVE  /\ Full => /\ rx_speed_count_1' = 0 /\ rx_speed_count_2' = 0
                      /\ windows' = IF windows < 2 THEN windows + 1 ELSE windows
           /\ ~Full => /\ rx_speed_count_1' = rx_speed_count_1 + 1
                       /\ rx_speed_count_2' =
                              IF Edge THEN rx_speed_count_2 + 1 ELSE rx_speed_count_2
                       /\ windows' = windows /\ speed_reg' = speed_reg
                       /\ rx_speed_count_1 < Full1 /\ rx_speed_count_2 < Full2
           /\ rx_speed_count_2 = Full2 => speed_reg' = SpeedOf
           /\ rx_speed_count_2 # Full2 /\ Full => speed_reg' = 0 /\ rx_speed_count_1 = Full1
  <1>1. Count /\ windows' = IF Full /\ windows < 2 THEN windows + 1 ELSE windows
    BY DEF Cycle
  <1>2. CASE Full
    BY <1>1, <1>2 DEF Count, Full
  <1>3. CASE ~Full
    <2>1. rx_speed_count_1 # Full1 /\ rx_speed_count_2 # Full2
      BY <1>3 DEF Full
    <2>2. rx_speed_count_1 < Full1 /\ rx_speed_count_2 < Full2
      <3> DEFINE x == Full1
                 y == Full2
      <3>1. x \in Int /\ y \in Int
        BY Numbers
      <3>2. /\ rx_speed_count_1 \in Nat /\ rx_speed_count_1 <= x
            /\ rx_speed_count_2 \in Nat /\ rx_speed_count_2 <= y
        BY DEF SpeedType
      <3> HIDE DEF x, y
      <3>3. rx_speed_count_1 # x /\ rx_speed_count_2 # y
        BY <2>1 DEF x, y
      <3>4. rx_speed_count_1 < x /\ rx_speed_count_2 < y
        BY <3>1, <3>2, <3>3
      <3> QED BY <3>4 DEF x, y
    <2> QED BY <1>1, <1>3, <2>1, <2>2 DEF Count
  <1> QED BY <1>2, <1>3

\* The registers keep their ranges.
LEMMA SpeedTypeStep ==
    ASSUME SpeedType, Cycle
    PROVE  SpeedType'
  <1>1. /\ phase' \in Nat /\ bit' \in BOOLEAN /\ rate' \in Speed
        /\ sync' = <<sync'[1], sync'[2], sync'[3]>>
        /\ sync'[1] \in BOOLEAN /\ sync'[2] \in BOOLEAN /\ sync'[3] \in BOOLEAN
    <2>1. /\ rate' \in Speed /\ sync' = <<sync'[1], sync'[2], sync'[3]>>
          /\ sync'[1] \in BOOLEAN /\ sync'[2] \in BOOLEAN /\ sync'[3] \in BOOLEAN
      BY SyncMoves DEF SpeedType
    <2>2. phase' \in Nat
      BY SyncMoves
    <2>3. bit' \in BOOLEAN
      BY SyncMoves, Zenon DEF SpeedType
    <2> QED BY <2>1, <2>2, <2>3
  <1>2. speed_reg' \in Speed
    <2>1. SpeedOf \in Speed /\ 0 \in Speed /\ speed_reg \in Speed
      BY DEF SpeedOf, Speed, SpeedType
    <2> QED BY <2>1, CountMoves, Zenon
  <1>3. /\ rx_speed_count_1' \in Nat /\ rx_speed_count_1' <= Full1
        /\ rx_speed_count_2' \in Nat /\ rx_speed_count_2' <= Full2
        /\ windows' \in Nat /\ windows' <= 2
    <2> DEFINE x == Full1
               y == Full2
    <2>1. x \in Int /\ x >= 0 /\ y = 3
      <3> DEFINE F == 2^Bits1
      <3>1. F \in Int /\ x = F - 1 /\ 3 * Toggle[1] + 2 <= F - 1 /\ Toggle[1] \in Nat /\ y = 3
        BY Numbers DEF Speed
      <3> HIDE DEF F, x, y
      <3> QED BY <3>1
    <2>2. /\ rx_speed_count_1 \in Nat /\ rx_speed_count_2 \in Nat
          /\ windows \in Nat /\ windows <= 2
      BY DEF SpeedType
    <2>3. CASE Full
      <3>1. /\ rx_speed_count_1' = 0 /\ rx_speed_count_2' = 0
            /\ windows' = IF windows < 2 THEN windows + 1 ELSE windows
        BY <2>3, CountMoves
      <3> HIDE DEF x, y
      <3>2. /\ rx_speed_count_1' \in Nat /\ rx_speed_count_1' <= x
            /\ rx_speed_count_2' \in Nat /\ rx_speed_count_2' <= y
            /\ windows' \in Nat /\ windows' <= 2
        BY <2>1, <2>2, <3>1
      <3> QED BY <3>2 DEF x, y
    <2>4. CASE ~Full
      <3>1. /\ rx_speed_count_1' = rx_speed_count_1 + 1
            /\ rx_speed_count_2' = IF Edge THEN rx_speed_count_2 + 1 ELSE rx_speed_count_2
            /\ windows' = windows
            /\ rx_speed_count_1 < x /\ rx_speed_count_2 < y
        BY <2>4, CountMoves
      <3> HIDE DEF x, y
      <3>2. /\ rx_speed_count_1' \in Nat /\ rx_speed_count_1' <= x
            /\ rx_speed_count_2' \in Nat /\ rx_speed_count_2' <= y
            /\ windows' \in Nat /\ windows' <= 2
        BY <2>1, <2>2, <3>1
      <3> QED BY <3>2 DEF x, y
    <2> QED BY <2>3, <2>4
  <1> QED BY <1>1, <1>2, <1>3 DEF SpeedType

\* The first cycles after reset end with a synchroniser that is in order, and with
\* less than a whole measurement.
LEMMA AfterResetStep ==
    ASSUME SpeedType, Cycle, AfterReset
    PROVE  (Passing' \/ AfterReset') /\ ~Full /\ windows' = 0
  <1> DEFINE T == Toggle[rate]
  <1>1. /\ sync'[2] = sync[1] /\ sync'[3] = sync[2] /\ (phase # 0 => sync'[1] = bit)
        /\ T \in Nat /\ T >= 4 /\ phase \in Nat /\ bit \in BOOLEAN
        /\ phase + 1 >= T => phase' = 0 /\ bit' = ~bit
        /\ ~(phase + 1 >= T) => phase' = phase + 1 /\ bit' = bit
    BY SyncMoves DEF SpeedType
  <1> HIDE DEF T
  <1>2. /\ windows = 0 /\ rx_speed_count_1 = phase /\ phase <= 3
        /\ rx_speed_count_2 = 0 \/ (phase = 3 /\ rx_speed_count_2 = 1)
        /\ phase # 1 => sync[1] = bit
        /\ phase # 2 => sync[2] = bit
        /\ phase # 3 => sync[3] = bit
    BY DEF AfterReset
  <1>3. ~Full
    <2> DEFINE F == 2^Bits1
    <2>1. F \in Int /\ Full1 = F - 1 /\ 3 * Toggle[1] + 2 <= F - 1 /\ Full2 = 3
          /\ Toggle[1] \in Nat /\ Toggle[1] >= 4
      BY Numbers DEF Speed
    <2> HIDE DEF F
    <2>2. Full1 > 3 /\ Full1 \in Int
      BY <2>1
    <2>3. rx_speed_count_1 # Full1 /\ rx_speed_count_2 # Full2
      BY <1>1, <1>2, <2>1, <2>2
    <2> QED BY <2>3 DEF Full
  <1>4. /\ rx_speed_count_1' = rx_speed_count_1 + 1 /\ windows' = 0
        /\ rx_speed_count_2' = IF Edge THEN rx_speed_count_2 + 1 ELSE rx_speed_count_2
    BY <1>2, <1>3, CountMoves
  <1>5. CASE phase = 3
    <2>1. sync'[1] = bit /\ sync'[2] = bit /\ sync'[3] = bit
      <3>1. phase # 0 /\ phase # 1 /\ phase # 2
        BY <1>5
      <3> QED BY <1>1, <1>2, <3>1, Zenon
    <2>2. CASE phase + 1 >= T
      <3>1. phase' = 0 /\ bit' = ~bit
        BY <1>1, <2>2
      <3>2. bit' # bit
        BY <1>1, <3>1, Zenon
      <3>3. ~(phase' >= 2) /\ ~(phase' >= 3) /\ ~(phase' >= 4)
        BY <3>1
      <3>4. Passing'
        BY <2>1, <3>2, <3>3, Zenon DEF Passing
      <3> QED BY <1>3, <1>4, <3>4
    <2>3. CASE ~(phase + 1 >= T)
      <3>1. phase' = 4 /\ bit' = bit
        BY <1>1, <1>5, <2>3
      <3>2. ~(phase' <= 0) /\ ~(phase' <= 1) /\ ~(phase' <= 2)
        BY <3>1
      <3>3. Passing'
        BY <2>1, <3>1, <3>2, Zenon DEF Passing
      <3> QED BY <1>3, <1>4, <3>3
    <2> QED BY <2>2, <2>3
  <1>6. CASE phase # 3
    <2>1. /\ phase' = phase + 1 /\ bit' = bit /\ phase' <= 3 /\ rx_speed_count_1' = phase'
          /\ phase' # 1 => phase # 0
          /\ phase' # 2 => phase # 1
          /\ phase' # 3 => phase # 2
      BY <1>1, <1>2, <1>4, <1>6
    <2>2. /\ phase' # 1 => sync'[1] = bit'
          /\ phase' # 2 => sync'[2] = bit'
          /\ phase' # 3 => sync'[3] = bit'
      BY <1>1, <1>2, <2>1, Zenon
    <2>3. rx_speed_count_2' = 0 \/ (phase' = 3 /\ rx_speed_count_2' = 1)
      <3>1. CASE phase = 2
        BY <1>2, <1>4, <1>6, <2>1, <3>1
      <3>2. CASE phase # 2
        <4>1. ~Edge
          BY <1>2, <1>6, <3>2, Zenon DEF Edge
        <4>2. rx_speed_count_2 = 0
          BY <1>2, <1>6
        <4> QED BY <1>4, <4>1, <4>2
      <3> QED BY <3>1, <3>2
    <2>4. AfterReset'
      BY <1>4, <2>1, <2>2, <2>3 DEF AfterReset
    <2> QED BY <1>3, <1>4, <2>4
  <1> QED BY <1>5, <1>6

\* When a change is pending and when one is counted.
LEMMA PendingWhen ==
    ASSUME SpeedType, Passing
    PROVE  /\ Pending = 0 \/ Pending = 1
           /\ Pending = 1 <=> sync[3] # bit
           /\ Pending = 1 => phase <= 3
           /\ Pending = 0 => phase >= 3
           /\ Edge => Pending = 1 /\ phase >= 2
  <1>1. (Pending = 0 \/ Pending = 1) /\ (Pending = 1 <=> sync[3] # bit)
    BY DEF Pending
  <1>2. phase \in Nat
    BY DEF SpeedType
  <1>3. sync[3] # bit => ~(phase >= 4)
    BY Zenon DEF Passing
  <1>4. sync[3] = bit => ~(phase <= 2)
    BY Zenon DEF Passing
  <1>5. Edge => ~(phase <= 1) /\ sync[3] # bit
    <2>1. SUFFICES ASSUME Edge PROVE ~(phase <= 1) /\ sync[3] # bit
      OBVIOUS
    <2>2. sync[2] # sync[3] /\ sync[2] \in BOOLEAN /\ sync[3] \in BOOLEAN /\ bit \in BOOLEAN
      BY <2>1 DEF Edge, SpeedType
    <2>3. sync[3] # bit
      <3>1. SUFFICES ASSUME sync[3] = bit PROVE FALSE
        OBVIOUS
      <3>2. phase >= 3
        BY <1>2, <1>4, <3>1
      <3>3. sync[2] = bit
        BY <3>2, Zenon DEF Passing
      <3> QED BY <2>2, <3>1, <3>3
    <2>4. sync[2] = bit
      BY <2>2, <2>3
    <2>5. ~(phase <= 1)
      BY <2>4, Zenon DEF Passing
    <2> QED BY <2>3, <2>5
  <1>6. /\ Pending = 1 => phase <= 3
        /\ Pending = 0 => phase >= 3
    BY <1>1, <1>2, <1>3, <1>4
  <1>7. Edge => Pending = 1 /\ phase >= 2
    BY <1>1, <1>2, <1>5
  <1> QED BY <1>1, <1>6, <1>7

\* A cycle counts the pending change or leaves it, and makes another one pending when
\* the bit changes.
LEMMA PendingMoves ==
    ASSUME SpeedType, Cycle, Passing
    PROVE  LET e == IF Edge THEN 1 ELSE 0
           IN  IF phase + 1 >= Toggle[rate] THEN Pending' = 1 /\ Pending = e
               ELSE Pending' = Pending - e
  <1> DEFINE T == Toggle[rate]
  <1>1. /\ sync'[3] = sync[2] /\ T \in Nat /\ T >= 4 /\ phase \in Nat
        /\ sync[2] \in BOOLEAN /\ sync[3] \in BOOLEAN /\ bit \in BOOLEAN
        /\ phase + 1 >= T => phase' = 0 /\ bit' = ~bit
        /\ ~(phase + 1 >= T) => phase' = phase + 1 /\ bit' = bit
    BY SyncMoves DEF SpeedType
  <1> HIDE DEF T
  <1>2. Edge <=> sync[2] # sync[3]
    BY DEF Edge
  <1>3. CASE phase + 1 >= T
    <2>1. phase >= 3
      BY <1>1, <1>3
    <2>2. sync[2] = bit
      BY <2>1, Zenon DEF Passing
    <2>3. sync'[3] # bit'
      BY <1>1, <1>3, <2>2, Zenon
    <2>4. Edge <=> sync[3] # bit
      BY <1>2, <2>2, Zenon
    <2>5. Pending' = 1
      BY <2>3 DEF Pending
    <2>6. Pending = IF Edge THEN 1 ELSE 0
      BY <2>4 DEF Pending
    <2> QED BY <1>3, <2>5, <2>6 DEF T
  <1>4. CASE ~(phase + 1 >= T)
    <2>1. sync'[3] = sync[2] /\ bit' = bit
      BY <1>1, <1>4
    <2>2. CASE Edge
      <3>1. sync[3] # bit
        BY <2>2, PendingWhen
      <3>2. sync[2] = bit
        BY <1>1, <1>2, <2>2, <3>1
      <3>3. Pending = 1 /\ Pending' = 0
        BY <2>1, <3>1, <3>2 DEF Pending
      <3> QED BY <1>4, <2>2, <3>3 DEF T
    <2>3. CASE ~Edge
      <3>1. sync[2] = sync[3]
        BY <1>2, <2>3
      <3>2. Pending' = Pending
        BY <2>1, <3>1 DEF Pending
      <3>3. Pending \in Int
        BY DEF Pending
      <3> QED BY <1>4, <2>3, <3>2, <3>3 DEF T
    <2> QED BY <2>2, <2>3
  <1> QED BY <1>3, <1>4

\* Products of the number of changes.
LEMMA Products ==
    ASSUME NEW n \in Int, NEW T \in Int
    PROVE  n * T \in Int /\ (n - 1) * T = n * T - T /\ (n + 1) * T = n * T + T
  OBVIOUS

\* A cycle of a measurement at one speed: the changes it has seen go on taking the time
\* of as many periods.
LEMMA MeasureStep ==
    ASSUME SpeedType, Cycle, Passing, Measured, ~Full
    PROVE  Measured'
  <1> DEFINE T == Toggle[rate]
             e == IF Edge THEN 1 ELSE 0
             n == rx_speed_count_2 + Pending
             P == n * T
             m == rx_speed_count_2' + Pending'
             Q == m * T
  <1>1. /\ T \in Nat /\ T >= 4 /\ phase \in Nat /\ rate' = rate
        /\ phase + 1 >= T => phase' = 0
        /\ ~(phase + 1 >= T) => phase' = phase + 1
    BY SyncMoves
  <1>2. /\ Pending = 0 \/ Pending = 1
        /\ Pending = 1 => phase <= 3
        /\ Pending = 0 => phase >= 3
        /\ Edge => Pending = 1 /\ phase >= 2
    BY PendingWhen
  <1>3. IF phase + 1 >= T THEN Pending' = 1 /\ Pending = e ELSE Pending' = Pending - e
    BY PendingMoves
  <1>4. /\ rx_speed_count_1' = rx_speed_count_1 + 1
        /\ rx_speed_count_2' = rx_speed_count_2 + e
        /\ rx_speed_count_2 # 3 /\ Full2 = 3
        /\ rx_speed_count_1 \in Nat /\ rx_speed_count_2 \in Nat
    <2>1. /\ rx_speed_count_1' = rx_speed_count_1 + 1
          /\ rx_speed_count_2' = IF Edge THEN rx_speed_count_2 + 1 ELSE rx_speed_count_2
      BY CountMoves
    <2>2. rx_speed_count_1 \in Nat /\ rx_speed_count_2 \in Nat
      BY DEF SpeedType
    <2> QED BY <2>1, <2>2 DEF Full, Full2
  <1>5. /\ phase < T
        /\ (n - 1) * T + phase - 3 <= rx_speed_count_1
        /\ rx_speed_count_1 <= n * T + phase - 3
    BY DEF Measured
  <1>6. (e = 0 \/ e = 1) /\ (e = 1 => Edge)
    OBVIOUS
  <1> HIDE DEF e, T
  <1>7. n \in Int /\ m \in Int /\ m = IF phase + 1 >= T THEN n + 1 ELSE n
    BY <1>1, <1>2, <1>3, <1>4, <1>6
  <1>8. phase' < T
    BY <1>1
  <1> HIDE DEF n, m
  <1>9. /\ P \in Int /\ Q \in Int /\ (n - 1) * T = P - T /\ (m - 1) * T = Q - T
        /\ Q = IF phase + 1 >= T THEN P + T ELSE P
    BY <1>1, <1>7, Products
  <1>10. P - T + phase - 3 <= rx_speed_count_1 /\ rx_speed_count_1 <= P + phase - 3
    BY <1>5, <1>9
  <1> HIDE DEF P, Q
  <1>11. /\ Q - T + phase' - 3 <= rx_speed_count_1'
         /\ rx_speed_count_1' <= Q + phase' - 3
    BY <1>1, <1>4, <1>5, <1>9, <1>10
  <1>12. /\ (m - 1) * T + phase' - 3 <= rx_speed_count_1'
         /\ rx_speed_count_1' <= m * T + phase' - 3
    BY <1>9, <1>11 DEF Q
  <1>13. ASSUME rx_speed_count_2' = 3
         PROVE  \/ Pending' = 0 /\ phase' >= 3 /\ phase' <= 4
                \/ Pending' = 1 /\ phase' = 0 /\ T = 4
    <2>1. e = 1 /\ Pending = 1 /\ phase >= 2 /\ phase <= 3
      BY <1>2, <1>4, <1>6, <1>13
    <2> QED BY <1>1, <1>3, <1>5, <2>1
  <1>14. Toggle[rate'] = T /\ Toggle' = Toggle /\ Full2' = 3
    BY <1>1 DEF T, Full2
  <1> QED BY <1>8, <1>12, <1>13, <1>14 DEF Measured, m

\* A new measurement begins with the change that is on its way, if there is one.
LEMMA NewMeasurement ==
    ASSUME SpeedType, Cycle, Passing, Full
    PROVE  Measured'
  <1> DEFINE T == Toggle[rate]
             n == rx_speed_count_2' + Pending'
             A == (n - 1) * T
             B == n * T
  <1>1. /\ T \in Nat /\ T >= 4 /\ phase \in Nat /\ rate' = rate
        /\ phase + 1 >= T => phase' = 0
        /\ ~(phase + 1 >= T) => phase' = phase + 1
    BY SyncMoves
  <1>2. rx_speed_count_1' = 0 /\ rx_speed_count_2' = 0
    BY CountMoves
  <1>3. phase' \in Nat /\ phase' < T
    <2> HIDE DEF T
    <2> QED BY <1>1
  <1>4. (Pending' = 1 /\ phase' <= 3) \/ (Pending' = 0 /\ phase' >= 3)
    <2>1. Passing'
      BY PassingStep
    <2>2. (phase' >= 4 => sync'[3] = bit') /\ (phase' <= 2 => sync'[3] # bit')
      BY <2>1, Zenon DEF Passing
    <2>3. (phase' >= 4 \/ phase' <= 3) /\ (phase' <= 2 \/ phase' >= 3)
      BY <1>3
    <2> QED BY <2>2, <2>3 DEF Pending
  <1>5. (n = 1 /\ phase' <= 3) \/ (n = 0 /\ phase' >= 3)
    BY <1>2, <1>4
  <1> HIDE DEF n, T
  <1>6. (A = 0 /\ B = T /\ phase' <= 3) \/ (A = -T /\ B = 0 /\ phase' >= 3)
    BY <1>1, <1>5
  <1> HIDE DEF A, B
  <1>7. A + phase' - 3 <= 0 /\ 0 <= B + phase' - 3
    BY <1>1, <1>3, <1>6
  <1>8. (n - 1) * T + phase' - 3 <= 0 /\ 0 <= n * T + phase' - 3
    BY <1>7 DEF A, B
  <1> QED BY <1>1, <1>2, <1>3, <1>8 DEF Measured, Full2, n, T

\* How long a measurement takes that ends: two to three periods of the bit if it saw
\* three changes, and no more if it did not.
LEMMA MeasuredTime ==
    ASSUME SpeedType, Passing, Measured, Full
    PROVE  LET T == Toggle[rate]
           IN  /\ rx_speed_count_2 = 3 => 2 * T <= rx_speed_count_1 /\ rx_speed_count_1 <= 3 * T + 1
               /\ rx_speed_count_2 # 3 => rx_speed_count_1 = Full1 /\ rx_speed_count_1 <= 3 * T
  <1> DEFINE T == Toggle[rate]
             n == rx_speed_count_2 + Pending
             A == (n - 1) * T
             B == n * T
  <1>1. /\ phase < T /\ A + phase - 3 <= rx_speed_count_1 /\ rx_speed_count_1 <= B + phase - 3
        /\ rx_speed_count_2 = 3 => \/ Pending = 0 /\ phase >= 3 /\ phase <= 4
                                   \/ Pending = 1 /\ phase = 0 /\ T = 4
    BY DEF Measured, Full2
  <1>2. T \in Nat /\ T >= 4
    BY Numbers DEF SpeedType
  <1>3. /\ phase \in Nat /\ rx_speed_count_1 \in Nat
        /\ rx_speed_count_2 \in Nat /\ rx_speed_count_2 <= 3
    BY DEF SpeedType, Full2
  <1>4. (Pending = 0 \/ Pending = 1) /\ (Pending = 1 => phase <= 3)
    BY PendingWhen
  <1>5. rx_speed_count_2 # 3 => rx_speed_count_1 = Full1
    BY DEF Full, Full2
  <1> HIDE DEF T
  <1>6. CASE rx_speed_count_2 = 3
    <2>1. CASE Pending = 0
      <3>1. A = 2 * T /\ B = 3 * T
        BY <1>2, <1>6, <2>1
      <3> QED BY <1>1, <1>2, <1>3, <1>6, <2>1, <3>1 DEF T
    <2>2. CASE Pending = 1
      <3>1. A = 12 /\ B = 16 /\ T = 4 /\ phase = 0
        BY <1>1, <1>2, <1>6, <2>2
      <3> QED BY <1>1, <1>2, <1>3, <1>6, <2>2, <3>1 DEF T
    <2> QED BY <1>4, <2>1, <2>2
  <1>7. CASE rx_speed_count_2 # 3
    <2>1. n = 0 \/ n = 1 \/ n = 2 \/ (n = 3 /\ phase <= 3)
      BY <1>3, <1>4, <1>7
    <2> HIDE DEF n
    <2>2. B <= 2 * T \/ (B = 3 * T /\ phase <= 3)
      BY <1>2, <2>1
    <2>3. B \in Int
      BY <1>2, <2>1
    <2> HIDE DEF A, B
    <2>4. rx_speed_count_1 <= 3 * T
      BY <1>1, <1>2, <1>3, <2>2, <2>3
    <2> QED BY <1>5, <1>7, <2>4 DEF T
  <1> QED BY <1>6, <1>7

\* A whole measurement at one speed finds it.
LEMMA MeasurementIsRight ==
    ASSUME SpeedType, Cycle, Passing, Measured, Full
    PROVE  speed_reg' = rate
  <1> DEFINE F == 2^Bits1
             Q == 2^(Bits1 - 2)
             a == Toggle[0]
             b == Toggle[1]
             c == Toggle[2]
             T == Toggle[rate]
             w == rx_speed_count_1
  <1>1. /\ rx_speed_count_2 = 3 => 2 * T <= w /\ w <= 3 * T + 1
        /\ rx_speed_count_2 # 3 => w = Full1 /\ w <= 3 * T
    BY MeasuredTime
  <1>2. /\ F \in Int /\ Q \in Int /\ Full1 = F - 1 /\ a \in Nat /\ b \in Nat /\ c \in Nat
        /\ a >= 4 /\ b >= 4 /\ c >= 4
        /\ 3 * c + 2 <= Q /\ Q + 2 <= 2 * b - c /\ 3 * b + 2 <= F - 1 /\ F + 2 <= 2 * a - b
    BY Numbers DEF Speed
  <1>3. w \in Nat /\ w <= Full1 /\ rate \in {0, 1, 2}
    BY DEF SpeedType, Speed
  <1>4. (rate = 0 => T = a) /\ (rate = 1 => T = b) /\ (rate = 2 => T = c)
    OBVIOUS
  <1>5. /\ rx_speed_count_2 = 3 => speed_reg' = IF w >= Q THEN 1 ELSE 2
        /\ rx_speed_count_2 # 3 => speed_reg' = 0
    BY CountMoves DEF SpeedOf, Full2
  <1> HIDE DEF F, Q, a, b, c, T, w
  <1>6. CASE rx_speed_count_2 = 3
    <2>1. CASE rate = 0
      BY <1>1, <1>2, <1>3, <1>4, <1>6, <2>1
    <2>2. CASE rate = 1
      BY <1>1, <1>2, <1>3, <1>4, <1>5, <1>6, <2>2
    <2>3. CASE rate = 2
      BY <1>1, <1>2, <1>3, <1>4, <1>5, <1>6, <2>3
    <2> QED BY <1>3, <2>1, <2>2, <2>3
  <1>7. CASE rx_speed_count_2 # 3
    <2>1. CASE rate = 0
      BY <1>5, <1>7, <2>1
    <2>2. CASE rate = 1
      BY <1>1, <1>2, <1>3, <1>4, <1>7, <2>2
    <2>3. CASE rate = 2
      BY <1>1, <1>2, <1>3, <1>4, <1>7, <2>3
    <2> QED BY <1>3, <2>1, <2>2, <2>3
  <1> QED BY <1>6, <1>7

\* The reset state has made no measurement and shows no change.
LEMMA SpeedInvInit ==
    ASSUME Init
    PROVE  SpeedInv
  <1>1. /\ rate \in Speed /\ phase = 0 /\ bit = FALSE /\ sync = <<FALSE, FALSE, FALSE>>
        /\ rx_speed_count_1 = 0 /\ rx_speed_count_2 = 0 /\ speed_reg = 2 /\ windows = 0
    BY DEF Init
  <1>2. Full1 >= 0 /\ Full2 = 3
    <2> DEFINE F == 2^Bits1
    <2>1. F \in Int /\ Full1 = F - 1 /\ 3 * Toggle[1] + 2 <= F - 1 /\ Toggle[1] \in Nat /\ Full2 = 3
      BY Numbers DEF Speed
    <2> HIDE DEF F
    <2> QED BY <2>1
  <1>3. sync = <<sync[1], sync[2], sync[3]>> /\ sync[1] = FALSE /\ sync[2] = FALSE /\ sync[3] = FALSE
    BY <1>1
  <1>4. SpeedType
    <2>1. phase \in Nat /\ windows \in Nat /\ windows <= 2 /\ speed_reg \in Speed
      BY <1>1 DEF Speed
    <2>2. /\ rx_speed_count_1 \in Nat /\ rx_speed_count_1 <= Full1
          /\ rx_speed_count_2 \in Nat /\ rx_speed_count_2 <= Full2
      BY <1>1, <1>2
    <2>3. bit \in BOOLEAN /\ sync[1] \in BOOLEAN /\ sync[2] \in BOOLEAN /\ sync[3] \in BOOLEAN
      BY <1>1, <1>3, Zenon
    <2> QED BY <1>1, <1>3, <2>1, <2>2, <2>3, Zenon DEF SpeedType
  <1>5. AfterReset
    <2>1. phase <= 3
      BY <1>1
    <2>2. sync[1] = bit /\ sync[2] = bit /\ sync[3] = bit
      BY <1>1, <1>3, Zenon
    <2> QED BY <1>1, <2>1, <2>2, Zenon DEF AfterReset
  <1>6. ~(windows >= 1) /\ ~(windows >= 2)
    BY <1>1
  <1> QED BY <1>4, <1>6, <1>5 DEF SpeedInv, SpeedIsRight

\* A cycle of the measurement.
LEMMA SpeedInvCycle ==
    ASSUME SpeedInv, Cycle
    PROVE  SpeedInv'
  <1>1. SpeedType /\ (Passing \/ AfterReset) /\ (windows >= 1 => Measured) /\ SpeedIsRight
    BY DEF SpeedInv
  <1>2. SpeedType' /\ rate' = rate /\ windows \in Nat /\ windows <= 2
    BY <1>1, SpeedTypeStep DEF Cycle, SpeedType
  <1>3. CASE AfterReset
    <2>1. (Passing' \/ AfterReset') /\ windows' = 0
      BY <1>1, <1>3, AfterResetStep
    <2>2. ~(windows' >= 1) /\ ~(windows' >= 2)
      BY <2>1
    <2> QED BY <1>2, <2>1, <2>2 DEF SpeedInv, SpeedIsRight
  <1>4. CASE Passing
    <2>1. Passing'
      BY <1>1, <1>4, PassingStep
    <2>2. CASE Full
      <3>1. Measured'
        BY <1>1, <1>4, <2>2, NewMeasurement
      <3>2. ASSUME windows' >= 2 PROVE speed_reg' = rate'
        <4>1. windows >= 1
          BY <1>1, <1>2, <2>2, <3>2, CountMoves
        <4> QED BY <1>1, <1>2, <1>4, <2>2, <4>1, MeasurementIsRight
      <3> QED BY <1>2, <2>1, <3>1, <3>2 DEF SpeedInv, SpeedIsRight
    <2>3. CASE ~Full
      <3>1. windows' = windows /\ speed_reg' = speed_reg
        BY <1>1, <2>3, CountMoves
      <3>2. windows >= 1 => Measured'
        BY <1>1, <1>4, <2>3, MeasureStep
      <3> QED BY <1>1, <1>2, <2>1, <3>1, <3>2 DEF SpeedInv, SpeedIsRight
    <2> QED BY <2>2, <2>3
  <1> QED BY <1>1, <1>3, <1>4

\* Another speed of the PHY: the measurement that is under way no longer counts.
LEMMA SpeedInvRenegotiate ==
    ASSUME SpeedInv, NEW r \in Speed, Renegotiate(r)
    PROVE  SpeedInv'
  <1>1. SpeedType /\ (Passing \/ AfterReset)
    BY DEF SpeedInv
  <1>2. /\ rate' = r /\ windows' = 0 /\ phase' = phase /\ bit' = bit /\ sync' = sync
        /\ rx_speed_count_1' = rx_speed_count_1 /\ rx_speed_count_2' = rx_speed_count_2
        /\ speed_reg' = speed_reg
    BY DEF Renegotiate
  <1>3. SpeedType'
    BY <1>1, <1>2 DEF SpeedType, Full1, Full2
  <1>4. Passing' \/ AfterReset'
    <2>1. CASE Passing
      BY <1>2, <2>1 DEF Passing
    <2>2. CASE AfterReset
      BY <1>2, <2>2 DEF AfterReset
    <2> QED BY <1>1, <2>1, <2>2
  <1>5. ~(windows' >= 1) /\ ~(windows' >= 2)
    BY <1>2
  <1> QED BY <1>3, <1>4, <1>5 DEF SpeedInv, SpeedIsRight

\* Every step of the speed detection preserves the invariant.
LEMMA SpeedInvStep ==
    ASSUME SpeedInv, [Next]_vars
    PROVE  SpeedInv'
  <1>1. CASE Cycle
    BY <1>1, SpeedInvCycle
  <1>2. CASE \E r \in Speed : Renegotiate(r)
    BY <1>2, SpeedInvRenegotiate
  <1>3. CASE UNCHANGED vars
    BY <1>3 DEF vars, SpeedInv, SpeedType, Passing, AfterReset, Measured, Pending, SpeedIsRight,
                Full1, Full2
  <1> QED BY <1>1, <1>2, <1>3 DEF Next

\* For every reference counter and all clocks that can be told apart, however often the
\* PHY changes its speed: once a whole measurement was made at a speed, the speed in use
\* is the PHY's, whatever the phase of its clock and whichever samples come late.
THEOREM MeasuredSpeedIsRight == Spec => []SpeedIsRight
  <1>1. Init => SpeedInv
    BY SpeedInvInit
  <1>2. SpeedInv /\ [Next]_vars => SpeedInv'
    BY SpeedInvStep
  <1>3. SpeedInv => SpeedIsRight
    BY DEF SpeedInv
  <1> QED BY <1>1, <1>2, <1>3, PTL DEF Spec

-----------------------------------------------------------------------------
(* The transmit clock. *)

\* The numbers of the divider.
LEMMA DividerNumbers ==
    ASSUME NEW s \in {0, 1}
    PROVE  /\ Wrap[s] \in Nat /\ Rise[s] \in Nat /\ Rise[s] < Wrap[s]
           /\ Wrap[s] <= Wrap[0] /\ Wrap[0] \in Nat /\ Wrap[0] < 64
           /\ 2 * (Wrap[s] - Rise[s]) = IF s = 1 THEN Wrap[s] ELSE Wrap[s] + 1
  <1>1. /\ Rise \in [{0, 1} -> Nat] /\ Wrap \in [{0, 1} -> Nat]
        /\ Wrap[1] > 0 /\ Wrap[1] <= Wrap[0] /\ Wrap[0] < 64
        /\ 2 * (Wrap[0] - Rise[0]) = Wrap[0] + 1 /\ 2 * (Wrap[1] - Rise[1]) = Wrap[1]
    BY DividerAssumption
  <1>2. Wrap[0] \in Nat /\ Wrap[1] \in Nat /\ Rise[0] \in Nat /\ Rise[1] \in Nat
    BY <1>1
  <1>3. CASE s = 0
    BY <1>1, <1>2, <1>3
  <1>4. CASE s = 1
    BY <1>1, <1>2, <1>4
  <1> QED BY <1>3, <1>4

\* What a cycle does to the counter and to the outputs.
LEMMA DividerMoves ==
    ASSUME Tx!ClockType, Tx!Cycle
    PROVE  /\ speed_reg = 2 => /\ rgmii_tx_clk_1' = TRUE /\ rgmii_tx_clk_2' = FALSE
                               /\ rgmii_tx_clk_fall' = TRUE /\ count_reg' = count_reg
           /\ speed_reg # 2 =>
                 IF count_reg >= Wrap[speed_reg]
                 THEN /\ count_reg' = 0 /\ rgmii_tx_clk_fall' = TRUE
                      /\ rgmii_tx_clk_2' = FALSE
                      /\ rgmii_tx_clk_1' = IF speed_reg = 0 THEN FALSE ELSE rgmii_tx_clk_2
                 ELSE /\ count_reg' = count_reg + 1 /\ rgmii_tx_clk_fall' = FALSE
                      /\ IF count_reg = Rise[speed_reg]
                         THEN rgmii_tx_clk_1' = TRUE /\ rgmii_tx_clk_2' = TRUE
                         ELSE rgmii_tx_clk_1' = rgmii_tx_clk_2 /\ rgmii_tx_clk_2' = rgmii_tx_clk_2
  <1>1. speed_reg \in {0, 1, 2} /\ count_reg \in Nat /\ count_reg <= Wrap[0]
    BY DEF Tx!ClockType, Tx!Speed
  <1>2. CASE speed_reg = 2
    <2>1. Tx!Thousand
      BY <1>2 DEF Tx!Cycle, Tx!TenOrHundred
    <2> QED BY <1>2, <2>1 DEF Tx!Thousand
  <1>3. CASE speed_reg # 2
    <2> DEFINE W == Wrap[speed_reg]
               R == Rise[speed_reg]
    <2>1. W \in Nat /\ R \in Nat /\ R < W /\ W <= Wrap[0] /\ Wrap[0] \in Nat /\ Wrap[0] < 64
      BY <1>1, <1>3, DividerNumbers
    <2>2. Tx!TenOrHundred
      BY <1>3 DEF Tx!Cycle, Tx!Thousand
    <2>3. Tx!PeriodEnds <=> count_reg >= W
      BY DEF Tx!PeriodEnds
    <2>4. CASE count_reg >= W
      <3>1. count_reg # R
        <4> HIDE DEF W, R
        <4> QED BY <1>1, <2>1, <2>4
      <3>2. count_reg' = 0 /\ rgmii_tx_clk_fall' = TRUE
        BY <2>2, <2>3, <2>4 DEF Tx!TenOrHundred, Tx!Divide
      <3>3. Tx!Fall
        BY <2>2, <2>3, <2>4, <3>1 DEF Tx!TenOrHundred
      <3> QED BY <1>3, <2>4, <3>2, <3>3 DEF Tx!Fall
    <2>5. CASE ~(count_reg >= W)
      <3>1. (count_reg + 1) % 64 = count_reg + 1
        <4> HIDE DEF W, R
        <4>1. count_reg + 1 < 64
          BY <1>1, <2>1, <2>5
        <4> QED BY <1>1, <4>1
      <3>2. count_reg' = count_reg + 1 /\ rgmii_tx_clk_fall' = FALSE
        BY <2>2, <2>3, <2>5, <3>1 DEF Tx!TenOrHundred, Tx!Divide
      <3>3. IF count_reg = R THEN rgmii_tx_clk_1' = TRUE /\ rgmii_tx_clk_2' = TRUE
            ELSE rgmii_tx_clk_1' = rgmii_tx_clk_2 /\ rgmii_tx_clk_2' = rgmii_tx_clk_2
        BY <2>2, <2>3, <2>5 DEF Tx!TenOrHundred
      <3> QED BY <1>3, <2>5, <3>2, <3>3
    <2> QED BY <2>4, <2>5
  <1> QED BY <1>2, <1>3

\* What a cycle adds to the record of the clock.
LEMMA LevelsMove ==
    ASSUME Tx!ClockType, Tx!Cycle
    PROVE  LET l == IF Tx!gmii_clk_en THEN Tx!NoLevels ELSE levels
               a == IF rgmii_tx_clk_1 THEN 1 ELSE 0
               b == IF rgmii_tx_clk_2 THEN 1 ELSE 0
           IN  /\ l \in [high : Nat, low : Nat, rises : Nat, last : BOOLEAN]
               /\ levels' \in [high : Nat, low : Nat, rises : Nat, last : BOOLEAN]
               /\ levels'.high = l.high + a + b
               /\ levels'.low = l.low + (1 - a) + (1 - b)
               /\ levels'.rises = l.rises + (IF rgmii_tx_clk_1 /\ ~l.last THEN 1 ELSE 0)
                                          + (IF rgmii_tx_clk_2 /\ ~rgmii_tx_clk_1 THEN 1 ELSE 0)
               /\ levels'.last = rgmii_tx_clk_2
  <1> DEFINE l == IF Tx!gmii_clk_en THEN Tx!NoLevels ELSE levels
             Rec == [high : Nat, low : Nat, rises : Nat, last : BOOLEAN]
             m == Tx!Extend(l, rgmii_tx_clk_1)
             k == Tx!Extend(m, rgmii_tx_clk_2)
  <1>1. rgmii_tx_clk_1 \in BOOLEAN /\ rgmii_tx_clk_2 \in BOOLEAN
    BY DEF Tx!ClockType
  <1>2. l \in Rec
    <2>1. Tx!NoLevels \in Rec
      BY DEF Tx!NoLevels
    <2> QED BY <2>1 DEF Tx!ClockType
  <1>3. levels' = k
    BY DEF Tx!Cycle, Tx!Observe
  <1>4. ASSUME NEW x \in Rec, NEW v \in BOOLEAN
        PROVE  LET y == Tx!Extend(x, v) IN
               /\ y \in Rec /\ y.last = v
               /\ y.high = x.high + (IF v THEN 1 ELSE 0)
               /\ y.low = x.low + (1 - (IF v THEN 1 ELSE 0))
               /\ y.rises = x.rises + (IF v /\ ~x.last THEN 1 ELSE 0)
    <2>1. x.high \in Nat /\ x.low \in Nat /\ x.rises \in Nat
      OBVIOUS
    <2>2. CASE v
      BY <2>1, <2>2 DEF Tx!Extend
    <2>3. CASE ~v
      BY <2>1, <2>3 DEF Tx!Extend
    <2> QED BY <2>2, <2>3
  <1> HIDE DEF l
  <1>5. /\ m \in Rec /\ m.last = rgmii_tx_clk_1
        /\ m.high = l.high + (IF rgmii_tx_clk_1 THEN 1 ELSE 0)
        /\ m.low = l.low + (1 - (IF rgmii_tx_clk_1 THEN 1 ELSE 0))
        /\ m.rises = l.rises + (IF rgmii_tx_clk_1 /\ ~l.last THEN 1 ELSE 0)
    BY <1>1, <1>2, <1>4
  <1> HIDE DEF m
  <1>6. /\ k \in Rec /\ k.last = rgmii_tx_clk_2
        /\ k.high = m.high + (IF rgmii_tx_clk_2 THEN 1 ELSE 0)
        /\ k.low = m.low + (1 - (IF rgmii_tx_clk_2 THEN 1 ELSE 0))
        /\ k.rises = m.rises + (IF rgmii_tx_clk_2 /\ ~m.last THEN 1 ELSE 0)
    BY <1>1, <1>4, <1>5
  <1> HIDE DEF k
  <1> QED BY <1>2, <1>3, <1>5, <1>6 DEF l

\* The counter keeps within the longest period and counts the cycles the MAC waits,
\* whatever the speed becomes.
LEMMA WaitStep ==
    ASSUME Tx!ClockType, Tx!WaitInv, Tx!Cycle, speed_reg' \in Speed
    PROVE  Tx!ClockType' /\ Tx!WaitInv'
  <1> DEFINE W == Wrap[speed_reg]
             W0 == Wrap[0]
             h == levels.high + levels.low
             g == levels'.high + levels'.low
  <1>1. /\ speed_reg \in {0, 1, 2} /\ count_reg \in Nat /\ count_reg <= W0
        /\ periods \in Nat /\ periods <= 3
        /\ levels.high \in Nat /\ levels.low \in Nat
    BY DEF Tx!ClockType, Tx!Speed
  <1>2. W0 \in Nat /\ (speed_reg # 2 => W \in Nat /\ W <= W0)
    BY <1>1, DividerNumbers
  <1>3. g = (IF Tx!gmii_clk_en THEN 0 ELSE h) + 2
    <2> DEFINE l == IF Tx!gmii_clk_en THEN Tx!NoLevels ELSE levels
               a == IF rgmii_tx_clk_1 THEN 1 ELSE 0
               b == IF rgmii_tx_clk_2 THEN 1 ELSE 0
    <2>1. /\ l.high \in Nat /\ l.low \in Nat
          /\ levels'.high = l.high + a + b /\ levels'.low = l.low + (1 - a) + (1 - b)
      BY LevelsMove
    <2>2. a \in Int /\ b \in Int
      OBVIOUS
    <2>3. l.high + l.low = IF Tx!gmii_clk_en THEN 0 ELSE h
      BY <1>1 DEF Tx!NoLevels
    <2> HIDE DEF a, b, l
    <2>4. g = l.high + l.low + 2
      BY <2>1, <2>2
    <2> QED BY <2>3, <2>4
  <1>4. h <= IF Tx!gmii_clk_en THEN 2 * (W0 + 1) ELSE 2 * count_reg
    BY DEF Tx!WaitInv
  <1>5. h \in Int
    BY <1>1
  <1>6. /\ speed_reg = 2 => count_reg' = count_reg
        /\ speed_reg # 2 =>
              IF count_reg >= W THEN count_reg' = 0 ELSE count_reg' = count_reg + 1
    BY DividerMoves
  <1> HIDE DEF W, W0, h, g
  <1>7. count_reg' \in Nat /\ count_reg' <= W0
    BY <1>1, <1>2, <1>6
  <1>8. g <= 2 * (W0 + 1)
    <2>1. CASE Tx!gmii_clk_en
      BY <1>2, <1>3, <2>1
    <2>2. CASE ~Tx!gmii_clk_en
      BY <1>1, <1>2, <1>3, <1>4, <1>5, <2>2
    <2> QED BY <2>1, <2>2
  <1>9. ASSUME ~(Tx!gmii_clk_en)' PROVE g <= 2 * count_reg'
    <2>1. ~rgmii_tx_clk_fall'
      BY <1>9 DEF Tx!gmii_clk_en
    <2>2. speed_reg # 2 /\ ~(count_reg >= W)
      BY <2>1, DividerMoves DEF W
    <2>3. count_reg' = count_reg + 1
      BY <1>6, <2>2
    <2>4. CASE Tx!gmii_clk_en
      BY <1>1, <1>3, <2>3, <2>4
    <2>5. CASE ~Tx!gmii_clk_en
      BY <1>1, <1>3, <1>4, <1>5, <2>3, <2>5
    <2> QED BY <2>4, <2>5
  <1>10. Tx!WaitInv'
    BY <1>8, <1>9 DEF Tx!WaitInv, g, W0
  <1>11. rgmii_tx_clk_1' \in BOOLEAN /\ rgmii_tx_clk_2' \in BOOLEAN /\ rgmii_tx_clk_fall' \in BOOLEAN
    <2>1. rgmii_tx_clk_2 \in BOOLEAN
      BY DEF Tx!ClockType
    <2> QED BY <2>1, DividerMoves
  <1>12. levels' \in [high : Nat, low : Nat, rises : Nat, last : BOOLEAN]
    BY LevelsMove
  <1>13. periods' \in Nat /\ periods' <= 3
    <2>1. periods' = 0 \/ periods' = periods \/ (periods < 3 /\ periods' = periods + 1)
      BY DEF Tx!Cycle, Tx!Observe
    <2> QED BY <1>1, <2>1
  <1>14. speed_reg' \in Tx!Speed
    BY DEF Speed, Tx!Speed
  <1>15. Tx!ClockType'
    BY <1>7, <1>11, <1>12, <1>13, <1>14 DEF Tx!ClockType, W0
  <1> QED BY <1>10, <1>15

\* A cycle at the end of a period, in the first cycle of one, or within it, leaves the
\* clock in step with the counter.
LEMMA InStepStep ==
    ASSUME Tx!ClockType, Tx!Cycle, speed_reg # 2, speed_reg' = speed_reg,
           \/ Tx!InStep
           \/ count_reg = 0 /\ ~rgmii_tx_clk_2
    PROVE  Tx!InStep'
  <1> DEFINE W == Wrap[speed_reg]
             R == Rise[speed_reg]
  <1>1. speed_reg \in {0, 1} /\ count_reg \in Nat /\ rgmii_tx_clk_2 \in BOOLEAN
    BY DEF Tx!ClockType, Tx!Speed
  <1>2. W \in Nat /\ R \in Nat /\ R < W
    BY <1>1, DividerNumbers
  <1>3. /\ count_reg <= W
        /\ count_reg = 0 => ~rgmii_tx_clk_2
        /\ count_reg > 0 => (rgmii_tx_clk_2 <=> count_reg > R)
    <2>1. CASE Tx!InStep
      BY <2>1 DEF Tx!InStep
    <2>2. CASE count_reg = 0 /\ ~rgmii_tx_clk_2
      BY <1>2, <2>2
    <2> QED BY <2>1, <2>2
  <1>4. CASE count_reg >= W
    <2>1. /\ count_reg' = 0 /\ rgmii_tx_clk_fall' = TRUE /\ rgmii_tx_clk_2' = FALSE
          /\ rgmii_tx_clk_1' = IF speed_reg = 0 THEN FALSE ELSE rgmii_tx_clk_2
      BY <1>4, DividerMoves
    <2> HIDE DEF W, R
    <2>2. count_reg > 0 /\ count_reg > R
      BY <1>1, <1>2, <1>4
    <2>3. rgmii_tx_clk_2
      BY <1>3, <2>2, Zenon
    <2>4. rgmii_tx_clk_1' <=> speed_reg = 1
      BY <1>1, <2>1, <2>3
    <2>5. count_reg' <= W /\ ~(count_reg' > 0)
      BY <1>2, <2>1
    <2>6. Wrap[speed_reg'] = W
      BY DEF W
    <2> QED BY <2>1, <2>4, <2>5, <2>6 DEF Tx!InStep
  <1>5. CASE ~(count_reg >= W)
    <2>1. /\ count_reg' = count_reg + 1 /\ rgmii_tx_clk_fall' = FALSE
          /\ IF count_reg = R THEN rgmii_tx_clk_1' = TRUE /\ rgmii_tx_clk_2' = TRUE
             ELSE rgmii_tx_clk_1' = rgmii_tx_clk_2 /\ rgmii_tx_clk_2' = rgmii_tx_clk_2
      BY <1>5, DividerMoves
    <2> HIDE DEF W, R
    <2>2. count_reg' <= W /\ count_reg' > 0 /\ count_reg' # 0
      BY <1>1, <1>2, <1>5, <2>1
    <2>3. (rgmii_tx_clk_1' <=> count_reg' > R) /\ (rgmii_tx_clk_2' <=> count_reg' > R)
      <3>1. CASE count_reg = R
        <4>1. count_reg' > R
          BY <1>1, <1>2, <2>1, <3>1
        <4> QED BY <2>1, <3>1, <4>1
      <3>2. CASE count_reg # R
        <4>1. count_reg' > R <=> count_reg > R
          BY <1>1, <1>2, <2>1, <3>2
        <4>2. rgmii_tx_clk_2 <=> count_reg > R
          <5>1. count_reg = 0 => ~(count_reg > R)
            BY <1>2
          <5>2. count_reg = 0 \/ count_reg > 0
            BY <1>1
          <5> QED BY <1>3, <5>1, <5>2, Zenon
        <4>3. rgmii_tx_clk_1' = rgmii_tx_clk_2 /\ rgmii_tx_clk_2' = rgmii_tx_clk_2
          BY <2>1, <3>2
        <4> QED BY <4>1, <4>2, <4>3
      <3> QED BY <3>1, <3>2
    <2>4. Wrap[speed_reg'] = W /\ Rise[speed_reg'] = R
      BY DEF W, R
    <2> QED BY <2>1, <2>2, <2>3, <2>4 DEF Tx!InStep
  <1> QED BY <1>4, <1>5

\* A cycle adds its two halves to the record of the period, which is whole at the end.
LEMMA PeriodStep ==
    ASSUME Tx!ClockType, Tx!Cycle, Tx!InStep, count_reg > 0 => Tx!InPeriod,
           speed_reg # 2, speed_reg' = speed_reg
    PROVE  /\ count_reg' = 0 => Tx!WellFormedPeriod(speed_reg)'
           /\ count_reg' > 0 => Tx!InPeriod'
  <1> DEFINE W == Wrap[speed_reg]
             R == Rise[speed_reg]
             K == IF speed_reg = 1 THEN 1 ELSE 0
             c == count_reg
             l == IF Tx!gmii_clk_en THEN Tx!NoLevels ELSE levels
             a == IF rgmii_tx_clk_1 THEN 1 ELSE 0
             b == IF rgmii_tx_clk_2 THEN 1 ELSE 0
             r == IF rgmii_tx_clk_1 /\ ~l.last THEN 1 ELSE 0
             q == IF rgmii_tx_clk_2 /\ ~rgmii_tx_clk_1 THEN 1 ELSE 0
  <1>1. speed_reg \in {0, 1} /\ c \in Nat
    BY DEF Tx!ClockType, Tx!Speed
  <1>2. /\ W \in Nat /\ R \in Nat /\ R < W
        /\ 2 * (W - R) = IF speed_reg = 1 THEN W ELSE W + 1
    BY <1>1, DividerNumbers
  <1>3. K \in Int /\ 2 * (W - R) + K = W + 1
    BY <1>1, <1>2
  <1>4. /\ l.high \in Nat /\ l.low \in Nat /\ l.rises \in Nat
        /\ levels'.high \in Nat /\ levels'.low \in Nat /\ levels'.rises \in Nat
        /\ levels'.high = l.high + a + b /\ levels'.low = l.low + (1 - a) + (1 - b)
        /\ levels'.rises = l.rises + r + q
        /\ levels'.last = rgmii_tx_clk_2
    BY LevelsMove
  <1>5. /\ c <= W
        /\ rgmii_tx_clk_fall <=> c = 0
        /\ c = 0 => ~rgmii_tx_clk_2 /\ (rgmii_tx_clk_1 <=> speed_reg = 1)
        /\ c > 0 => (rgmii_tx_clk_1 <=> c > R) /\ (rgmii_tx_clk_2 <=> c > R)
    BY DEF Tx!InStep
  <1>6. IF c >= W THEN count_reg' = 0 ELSE count_reg' = c + 1
    BY DividerMoves
  <1>7. Wrap[speed_reg'] = W /\ Rise[speed_reg'] = R
    OBVIOUS
  <1>8. CASE c = 0
    <2>1. Tx!gmii_clk_en
      BY <1>5, <1>8 DEF Tx!gmii_clk_en
    <2>2. l.high = 0 /\ l.low = 0 /\ l.rises = 0 /\ l.last
      BY <2>1 DEF Tx!NoLevels
    <2>3. a = K /\ b = 0 /\ r = 0 /\ q = 0 /\ ~rgmii_tx_clk_2
      BY <1>5, <1>8, <2>2
    <2> HIDE DEF W, R, K, a, b, r, q, l, c
    <2>4. /\ levels'.high = K /\ levels'.high + levels'.low = 2 /\ levels'.rises = 0
          /\ ~levels'.last
      BY <1>3, <1>4, <2>2, <2>3
    <2>5. count_reg' = 1 /\ ~(1 - 1 > R)
      BY <1>2, <1>6, <1>8
    <2> QED BY <1>7, <2>4, <2>5 DEF Tx!InPeriod, Tx!HighIn, R, K
  <1>9. CASE c > 0
    <2>1. ~Tx!gmii_clk_en
      <3>1. c # 0
        BY <1>1, <1>9
      <3> QED BY <1>5, <3>1 DEF Tx!gmii_clk_en
    <2>2. l = levels
      BY <2>1
    <2>3. /\ l.high = K + (IF c - 1 > R THEN 2 * (c - 1 - R) ELSE 0)
          /\ l.high + l.low = 2 * c
          /\ l.rises = IF c - 1 > R THEN 1 ELSE 0
          /\ l.last <=> c - 1 > R
      BY <1>9, <2>2 DEF Tx!InPeriod, Tx!HighIn
    <2>4. (rgmii_tx_clk_1 <=> c > R) /\ (rgmii_tx_clk_2 <=> c > R)
      BY <1>5, <1>9
    <2>5. /\ a = (IF c > R THEN 1 ELSE 0) /\ b = (IF c > R THEN 1 ELSE 0) /\ q = 0
          /\ r = IF c > R /\ ~(c - 1 > R) THEN 1 ELSE 0
      BY <2>3, <2>4
    <2> HIDE DEF W, R, K, a, b, r, q, l, c
    <2>6. /\ levels'.high = K + (IF c > R THEN 2 * (c - R) ELSE 0)
          /\ levels'.high + levels'.low = 2 * c + 2
          /\ levels'.rises = IF c > R THEN 1 ELSE 0
      <3>1. CASE c - 1 > R
        BY <1>1, <1>2, <1>3, <1>4, <2>3, <2>5, <3>1
      <3>2. CASE ~(c - 1 > R)
        BY <1>1, <1>2, <1>3, <1>4, <2>3, <2>5, <3>2
      <3> QED BY <3>1, <3>2
    <2>7. levels'.last <=> c > R
      BY <1>4, <2>4
    <2>8. CASE c >= W
      <3>1. count_reg' = 0 /\ c = W /\ c > R
        BY <1>1, <1>2, <1>5, <1>6, <2>8
      <3>2. levels'.high = W + 1 /\ levels'.low = W + 1 /\ levels'.rises = 1
        BY <1>1, <1>2, <1>3, <1>4, <2>6, <3>1
      <3>3. Tx!WellFormedPeriod(speed_reg)'
        BY <1>7, <3>2 DEF Tx!WellFormedPeriod, W
      <3> QED BY <3>1, <3>3
    <2>9. CASE ~(c >= W)
      <3>1. count_reg' = c + 1
        BY <1>6, <2>9
      <3>2. /\ count_reg' # 0 /\ 2 * c + 2 = 2 * count_reg'
            /\ count_reg' - 1 = c
        BY <1>1, <3>1
      <3> QED BY <1>7, <2>6, <2>7, <3>2 DEF Tx!InPeriod, Tx!HighIn, R, K
    <2> QED BY <2>8, <2>9
  <1> QED BY <1>1, <1>8, <1>9

\* The clock becomes regular, and stays so as long as the speed does.
LEMMA RegularStep ==
    ASSUME Tx!ClockInv, Tx!Cycle
    PROVE  Tx!Regular'
  <1>1. /\ Tx!ClockType /\ Tx!Regular
        /\ periods \in Nat /\ periods <= 3 /\ count_reg \in Nat /\ speed_reg \in {0, 1, 2}
    BY DEF Tx!ClockInv, Tx!ClockType, Tx!Speed
  <1>2. periods' = IF speed_reg' # speed_reg THEN 0
                   ELSE IF Tx!gmii_clk_en /\ periods < 3 THEN periods + 1 ELSE periods
    BY DEF Tx!Cycle, Tx!Observe
  <1>3. CASE speed_reg' # speed_reg
    <2>1. periods' = 0
      BY <1>2, <1>3
    <2>2. ~(periods' >= 1) /\ ~(periods' >= 2) /\ periods' # 3
      BY <2>1
    <2> QED BY <2>2 DEF Tx!Regular
  <1>4. CASE speed_reg' = speed_reg /\ speed_reg = 2
    BY <1>4 DEF Tx!Regular
  <1>5. CASE speed_reg' = speed_reg /\ speed_reg # 2
    <2>1. /\ periods >= 1 /\ rgmii_tx_clk_fall => count_reg = 0 /\ ~rgmii_tx_clk_2
          /\ periods >= 2 => Tx!InStep
          /\ periods = 3 /\ count_reg > 0 => Tx!InPeriod
      BY <1>1, <1>5 DEF Tx!Regular
    <2>2. rgmii_tx_clk_fall' => count_reg' = 0 /\ ~rgmii_tx_clk_2'
      BY <1>1, <1>5, DividerMoves
    <2>3. Tx!gmii_clk_en <=> rgmii_tx_clk_fall
      BY <1>5 DEF Tx!gmii_clk_en
    <2>4. /\ periods' >= 2 => periods >= 2 \/ (periods >= 1 /\ Tx!gmii_clk_en)
          /\ periods' = 3 => periods = 3 \/ (periods >= 2 /\ Tx!gmii_clk_en)
      <3>1. periods' = IF Tx!gmii_clk_en /\ periods < 3 THEN periods + 1 ELSE periods
        BY <1>2, <1>5
      <3>2. CASE Tx!gmii_clk_en
        BY <1>1, <3>1, <3>2
      <3>3. CASE ~Tx!gmii_clk_en
        BY <1>1, <3>1, <3>3
      <3> QED BY <3>2, <3>3
    <2>5. ASSUME periods' >= 2 PROVE Tx!InStep'
      <3>1. Tx!InStep \/ (count_reg = 0 /\ ~rgmii_tx_clk_2)
        BY <2>1, <2>3, <2>4, <2>5
      <3> QED BY <1>1, <1>5, <3>1, InStepStep
    <2>6. ASSUME periods' = 3
          PROVE  /\ count_reg' = 0 => Tx!WellFormedPeriod(speed_reg)'
                 /\ count_reg' > 0 => Tx!InPeriod'
      <3>1. periods = 3 => periods >= 2
        OBVIOUS
      <3>2. Tx!InStep
        BY <2>1, <2>4, <2>6, <3>1
      <3>3. rgmii_tx_clk_fall <=> count_reg = 0
        BY <3>2 DEF Tx!InStep
      <3>4. count_reg > 0 => count_reg # 0
        OBVIOUS
      <3>5. count_reg > 0 => Tx!InPeriod
        BY <2>1, <2>3, <2>4, <2>6, <3>3, <3>4, Zenon
      <3> QED BY <1>1, <1>5, <3>2, <3>5, PeriodStep
    <2>7. periods' >= 1 /\ rgmii_tx_clk_fall' => count_reg' = 0 /\ ~rgmii_tx_clk_2'
      BY <2>2
    <2> QED BY <2>5, <2>6, <2>7, Zenon DEF Tx!Regular
  <1> QED BY <1>3, <1>4, <1>5

-----------------------------------------------------------------------------
(* The two together. *)

\* The dividers start at the beginning of a period.
LEMMA RgmiiInvInit ==
    ASSUME RgmiiInit
    PROVE  RgmiiInv
  <1>1. /\ Init /\ rgmii_tx_clk_1 = TRUE /\ rgmii_tx_clk_2 = FALSE /\ rgmii_tx_clk_fall = TRUE
        /\ count_reg = 0 /\ levels = [high |-> 0, low |-> 0, rises |-> 0, last |-> TRUE]
        /\ periods = 0
    BY DEF RgmiiInit, Tx!Init, Tx!NoLevels
  <1>2. SpeedInv
    BY <1>1, SpeedInvInit
  <1>3. speed_reg = 2 /\ Wrap[0] \in Nat
    BY <1>1, DividerNumbers DEF Init
  <1>4. Tx!ClockType
    <2>1. speed_reg \in Tx!Speed /\ count_reg \in Nat /\ count_reg <= Wrap[0]
      BY <1>1, <1>3 DEF Tx!Speed
    <2>2. levels \in [high : Nat, low : Nat, rises : Nat, last : BOOLEAN]
      BY <1>1
    <2>3. periods \in Nat /\ periods <= 3
      BY <1>1
    <2> QED BY <1>1, <2>1, <2>2, <2>3 DEF Tx!ClockType
  <1>5. Tx!WaitInv
    <2>1. levels.high = 0 /\ levels.low = 0
      BY <1>1
    <2>2. levels.high + levels.low <= 2 * (Wrap[0] + 1)
      BY <1>3, <2>1
    <2>3. Tx!gmii_clk_en
      BY <1>3 DEF Tx!gmii_clk_en
    <2> QED BY <2>2, <2>3 DEF Tx!WaitInv
  <1>6. Tx!Regular
    BY <1>3 DEF Tx!Regular
  <1> QED BY <1>2, <1>4, <1>5, <1>6 DEF RgmiiInv, Tx!ClockInv

\* A step of the composition is a step of the speed detection.
LEMMA SpeedStep ==
    ASSUME [RgmiiNext]_rgmiiVars
    PROVE  [Next]_vars
  BY DEF RgmiiNext, RgmiiCycle, Next, rgmiiVars

\* Every step preserves the invariants of both.
LEMMA RgmiiInvStep ==
    ASSUME RgmiiInv, [RgmiiNext]_rgmiiVars
    PROVE  RgmiiInv'
  <1>1. SpeedInv /\ Tx!ClockInv
    BY DEF RgmiiInv
  <1>2. SpeedInv'
    BY <1>1, SpeedStep, SpeedInvStep
  <1>3. CASE RgmiiCycle
    <2>1. speed_reg' \in Speed
      BY <1>2 DEF SpeedInv, SpeedType
    <2>2. Tx!Cycle
      BY <1>3 DEF RgmiiCycle
    <2>3. Tx!ClockType' /\ Tx!WaitInv'
      BY <1>1, <2>1, <2>2, WaitStep DEF Tx!ClockInv
    <2>4. Tx!Regular'
      BY <1>1, <2>2, RegularStep
    <2> QED BY <1>2, <2>3, <2>4 DEF RgmiiInv, Tx!ClockInv
  <1>4. CASE speed_reg' = speed_reg /\ UNCHANGED txVars
    <2>1. /\ rgmii_tx_clk_1' = rgmii_tx_clk_1 /\ rgmii_tx_clk_2' = rgmii_tx_clk_2
          /\ rgmii_tx_clk_fall' = rgmii_tx_clk_fall /\ count_reg' = count_reg
          /\ levels' = levels /\ periods' = periods /\ speed_reg' = speed_reg
      BY <1>4 DEF txVars
    <2>2. Tx!ClockType' /\ Tx!WaitInv'
      BY <1>1, <2>1 DEF Tx!ClockInv, Tx!ClockType, Tx!WaitInv, Tx!gmii_clk_en
    <2>3. Tx!Regular'
      BY <1>1, <2>1 DEF Tx!ClockInv, Tx!Regular, Tx!InStep, Tx!InPeriod, Tx!WellFormedPeriod,
                        Tx!HighIn
    <2> QED BY <1>2, <2>2, <2>3 DEF RgmiiInv, Tx!ClockInv
  <1> QED BY <1>3, <1>4 DEF RgmiiNext, Renegotiate, rgmiiVars, vars

\* The two invariants hold whenever the clocks run together.
THEOREM RgmiiInvariant == RgmiiSpec => []RgmiiInv
  <1>1. RgmiiInit => RgmiiInv
    BY RgmiiInvInit
  <1>2. RgmiiInv /\ [RgmiiNext]_rgmiiVars => RgmiiInv'
    BY RgmiiInvStep
  <1> QED BY <1>1, <1>2, PTL DEF RgmiiSpec

\* With the divider behind it, the speed detection still behaves as it does alone.
THEOREM RgmiiImplementsSpeedDetect == RgmiiSpec => Spec
  <1>1. RgmiiInit => Init
    BY DEF RgmiiInit
  <1>2. [RgmiiNext]_rgmiiVars => [Next]_vars
    BY SpeedStep
  <1> QED BY <1>1, <1>2, PTL DEF RgmiiSpec, Spec

\* For all divisions with half the period high: once the speed was measured and held for
\* three enables, each symbol of the MAC at 10 or 100 Mbit/s goes with exactly one
\* period of the clock, of the PHY's speed, whatever happened to the speed before.
THEOREM RgmiiOneEdgePerSymbol == RgmiiSpec => []OneEdgePerSymbol
  <1>1. RgmiiInv => OneEdgePerSymbol
    <2>1. SUFFICES ASSUME RgmiiInv, windows >= 2, periods = 3, Tx!gmii_clk_en, rate # 2
                   PROVE  Tx!WellFormedPeriod(rate)
      BY DEF OneEdgePerSymbol
    <2>2. speed_reg = rate
      BY <2>1 DEF RgmiiInv, SpeedInv, SpeedIsRight
    <2>3. Tx!Regular /\ rgmii_tx_clk_fall
      BY <2>1, <2>2 DEF RgmiiInv, Tx!ClockInv, Tx!gmii_clk_en
    <2>4. periods >= 2
      BY <2>1
    <2>5. Tx!InStep
      BY <2>1, <2>2, <2>3, <2>4 DEF Tx!Regular
    <2>6. count_reg = 0
      BY <2>3, <2>5 DEF Tx!InStep
    <2>7. Tx!WellFormedPeriod(speed_reg)
      BY <2>1, <2>2, <2>3, <2>6, Zenon DEF Tx!Regular
    <2> QED BY <2>2, <2>7
  <1> QED BY <1>1, RgmiiInvariant, PTL

\* However the measured speed changes, and in whatever cycle, the MAC waits for its
\* enable no longer than a period of the slowest speed.
THEOREM RgmiiEnabledInTime == RgmiiSpec => []EnabledInTime
  <1>1. RgmiiInv => EnabledInTime
    <2>1. SUFFICES ASSUME RgmiiInv PROVE levels.high + levels.low <= 2 * (Wrap[0] + 1)
      BY DEF EnabledInTime, Tx!EnabledInTime
    <2>2. Tx!WaitInv
      BY <2>1 DEF RgmiiInv, Tx!ClockInv
    <2>3. /\ count_reg \in Nat /\ count_reg <= Wrap[0]
          /\ levels.high \in Nat /\ levels.low \in Nat
      BY <2>1 DEF RgmiiInv, Tx!ClockInv, Tx!ClockType
    <2>4. Wrap[0] \in Nat
      BY DividerNumbers
    <2>5. levels.high + levels.low <= 2 * (Wrap[0] + 1) \/ levels.high + levels.low <= 2 * count_reg
      BY <2>2 DEF Tx!WaitInv
    <2> QED BY <2>3, <2>4, <2>5
  <1> QED BY <1>1, RgmiiInvariant, PTL
=============================================================================
