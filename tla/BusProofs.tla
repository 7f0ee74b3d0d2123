------------------------------ MODULE BusProofs -----------------------------
(***************************************************************************)
(* What the host meets on the bus.  Requests reach the memory they address *)
(* and answers come from it, for every address.  In the register file, one *)
(* of the memories, the registers keep their widths, no event is lost or   *)
(* made up outside the collisions with a write to INTR_STATE, and a        *)
(* request that is refused had no effect, for any rows and values.  The    *)
(* table of descriptions, another, is a bounded queue, for every depth.    *)
(***************************************************************************)
EXTENDS MemBus, Csr, RandomAccessFifo, SequenceTheorems, TLAPS

-----------------------------------------------------------------------------
(* The bus. *)

\* The masks of bus.sv select the ranges of the memory map.
LEMMA MaskIsRange ==
    ASSUME NEW a \in Nat, NEW d \in Device
    PROVE  a - (a % cfg_device_addr_size[d]) = cfg_device_addr_base[d]
               <=> a \in First[d] .. Last[d]
  <1>1. CASE d = 0
    <2>1. /\ cfg_device_addr_size[d] = 128 /\ cfg_device_addr_base[d] = 2048
          /\ First[d] = 2048 /\ Last[d] = 2175
      BY <1>1 DEF cfg_device_addr_size, cfg_device_addr_base, First, Last, Device
    <2>2. a - (a % 128) = 2048 <=> 2048 <= a /\ a <= 2175
      OBVIOUS
    <2> QED BY <2>1, <2>2
  <1>2. CASE d = 1
    <2>1. /\ cfg_device_addr_size[d] = 2048 /\ cfg_device_addr_base[d] = 4096
          /\ First[d] = 4096 /\ Last[d] = 6143
      BY <1>2 DEF cfg_device_addr_size, cfg_device_addr_base, First, Last, Device
    <2>2. a - (a % 2048) = 4096 <=> 4096 <= a /\ a <= 6143
      OBVIOUS
    <2> QED BY <2>1, <2>2
  <1>3. CASE d = 2
    <2>1. /\ cfg_device_addr_size[d] = 8192 /\ cfg_device_addr_base[d] = 16384
          /\ First[d] = 16384 /\ Last[d] = 24575
      BY <1>3 DEF cfg_device_addr_size, cfg_device_addr_base, First, Last, Device
    <2>2. a - (a % 8192) = 16384 <=> 16384 <= a /\ a <= 24575
      OBVIOUS
    <2> QED BY <2>1, <2>2
  <1>4. CASE d = 3
    <2>1. /\ cfg_device_addr_size[d] = 64 /\ cfg_device_addr_base[d] = 24576
          /\ First[d] = 24576 /\ Last[d] = 24639
      BY <1>4 DEF cfg_device_addr_size, cfg_device_addr_base, First, Last, Device
    <2>2. a - (a % 64) = 24576 <=> 24576 <= a /\ a <= 24639
      OBVIOUS
    <2> QED BY <2>1, <2>2
  <1> QED
    BY <1>1, <1>2, <1>3, <1>4 DEF Device

\* No address lies in two ranges.
LEMMA RangesDisjoint ==
    ASSUME NEW r, NEW d \in Device, NEW e \in Device, Within(r, d), Within(r, e)
    PROVE  d = e
  <1>1. /\ First[0] = 2048  /\ Last[0] = 2175  /\ First[1] = 4096  /\ Last[1] = 6143
        /\ First[2] = 16384 /\ Last[2] = 24575 /\ First[3] = 24576 /\ Last[3] = 24639
    BY DEF First, Last, Device
  <1> QED
    BY <1>1 DEF Within, Device

\* What the address decoder does with the request on the bus.
LEMMA Decoder ==
    ASSUME main_mem_req \in mem_req_t
    PROVE  /\ \A d \in Device : Match(d) <=> Within(main_mem_req, d)
           /\ device_sel_valid <=> \E d \in Device : Within(main_mem_req, d)
           /\ \A d \in Device : Within(main_mem_req, d) => device_sel_req = d
  <1>1. host_addr \in Nat
    <2>1. main_mem_req.addr \in Nat
      BY MemBusAssumption DEF mem_req_t
    <2>2. \A x \in Nat : x % 65536 \in Nat
      OBVIOUS
    <2> QED
      BY <2>1, <2>2 DEF host_addr
  <1>2. \A d \in Device : Match(d) <=> Within(main_mem_req, d)
    <2> TAKE d \in Device
    <2>1. host_addr - (host_addr % cfg_device_addr_size[d]) = cfg_device_addr_base[d]
              <=> host_addr \in First[d] .. Last[d]
      BY <1>1, MaskIsRange
    <2> QED
      BY <2>1 DEF Match, Within, host_addr
  <1>3. device_sel_valid <=> \E d \in Device : Within(main_mem_req, d)
    BY <1>2 DEF device_sel_valid
  <1>4. ASSUME NEW d \in Device, Within(main_mem_req, d)
        PROVE  device_sel_req = d
    <2> DEFINE P(c) == Match(c) /\ \A e \in Device : Match(e) => e <= c
    <2>1. P(d)
      <3>1. \A e \in Device : Match(e) => e = d
        BY <1>2, <1>4, RangesDisjoint
      <3>2. d <= d
        BY DEF Device
      <3> QED
        BY <1>2, <1>4, <3>1, <3>2
    <2>2. \A c \in Device : P(c) => c = d
      BY <1>2, <1>4, RangesDisjoint
    <2>3. device_sel_req = CHOOSE c \in Device : P(c)
      BY <1>3, <1>4 DEF device_sel_req
    <2> HIDE DEF P
    <2> QED
      BY <2>1, <2>2, <2>3
  <1> QED
    BY <1>2, <1>3, <1>4

\* What reaches device d, and what its filter stops.
LEMMA FilteredRequest ==
    ASSUME main_mem_req \in mem_req_t, NEW d \in Device
    PROVE  /\ mem_req_o(d).req <=> For(main_mem_req, d)
           /\ mem_req_o(d).req => mem_req_o(d).addr = main_mem_req.addr % 65536
           /\ Blocked(d) <=> main_mem_req.req /\ Within(main_mem_req, d) /\ ~For(main_mem_req, d)
  <1> DEFINE m == main_mem_req
             r == device_req(d)
  <1>1. m.req \in BOOLEAN /\ m.we \in BOOLEAN
        /\ m = [req |-> m.req, we |-> m.we, addr |-> m.addr]
    BY DEF mem_req_t
  <1>2. CASE Within(m, d)
    <2>1. device_sel_valid /\ d = device_sel_req
      BY <1>2, Decoder
    <2>2. r = [m EXCEPT !.addr = host_addr]
      BY <2>1 DEF device_req
    <2>3. r = [req |-> m.req, we |-> m.we, addr |-> host_addr]
      BY <1>1, <2>2
    <2> HIDE DEF r, m
    <2>4. CASE d \in WriteOnlyMem
      <3>1. mem_req_o(d) = [req |-> m.req /\ m.we, we |-> m.we, addr |-> host_addr]
        BY <2>3, <2>4 DEF mem_req_o, r
      <3>2. d \notin ReadOnlyMem
        BY <2>4 DEF WriteOnlyMem, ReadOnlyMem
      <3> QED
        BY <1>1, <1>2, <2>3, <2>4, <3>1, <3>2 DEF For, Blocked, host_addr, m, r
    <2>5. CASE d \in ReadOnlyMem
      <3>1. d \notin WriteOnlyMem
        BY <2>5 DEF WriteOnlyMem, ReadOnlyMem
      <3>2. mem_req_o(d) = [r EXCEPT !.req = r.req /\ ~r.we, !.we = FALSE]
        BY <2>5, <3>1, Zenon DEF mem_req_o, r
      <3>3. mem_req_o(d).req = (m.req /\ ~m.we) /\ mem_req_o(d).addr = host_addr
        BY <2>3, <3>2
      <3>4. For(m, d) <=> m.req /\ ~m.we
        BY <1>1, <1>2, <2>5, <3>1 DEF For
      <3>5. Blocked(d) <=> m.req /\ m.we
        <4>1. device_req(d).req = m.req
          BY <2>3 DEF r
        <4>2. (mem_req_o(d).req = FALSE) <=> ~(m.req /\ ~m.we)
          BY <3>3, Zenon
        <4> QED
          BY <4>1, <4>2, Zenon DEF Blocked
      <3>6. mem_req_o(d).req <=> For(m, d)
        BY <3>3, <3>4, Zenon
      <3>7. Blocked(d) <=> m.req /\ Within(m, d) /\ ~For(m, d)
        BY <1>2, <3>4, <3>5, Zenon
      <3> QED
        BY <3>3, <3>6, <3>7 DEF host_addr, m
    <2>6. CASE d \notin WriteOnlyMem /\ d \notin ReadOnlyMem
      <3>1. mem_req_o(d) = r
        BY <2>6 DEF mem_req_o, r
      <3> QED
        BY <1>1, <1>2, <2>3, <2>6, <3>1 DEF For, Blocked, host_addr, m, r
    <2> QED BY <2>4, <2>5, <2>6
  <1>3. CASE ~Within(m, d)
    <2>1. ~(device_sel_valid /\ d = device_sel_req)
      <3> SUFFICES ASSUME device_sel_valid PROVE d # device_sel_req
        OBVIOUS
      <3>1. PICK e \in Device : Within(m, e)
        BY Decoder
      <3> QED
        BY <1>3, <3>1, Decoder
    <2>2. r = NoRequest
      BY <2>1 DEF device_req
    <2>3. r.req = FALSE /\ mem_req_o(d).req = FALSE
      <3> HIDE DEF r
      <3>1. CASE d \in WriteOnlyMem
        <4>1. mem_req_o(d) = [r EXCEPT !.req = r.req /\ r.we]
          BY <3>1, Zenon DEF mem_req_o, r
        <4> QED
          BY <2>2, <4>1 DEF NoRequest
      <3>2. CASE d \notin WriteOnlyMem /\ d \in ReadOnlyMem
        <4>1. mem_req_o(d) = [r EXCEPT !.req = r.req /\ ~r.we, !.we = FALSE]
          BY <3>2, Zenon DEF mem_req_o, r
        <4> QED
          BY <2>2, <4>1 DEF NoRequest
      <3>3. CASE d \notin WriteOnlyMem /\ d \notin ReadOnlyMem
        BY <2>2, <3>3 DEF mem_req_o, r, NoRequest
      <3> QED BY <3>1, <3>2, <3>3
    <2> QED
      BY <1>3, <2>3 DEF For, Blocked
  <1> QED BY <1>2, <1>3

\* A memory that is asked answers for the request it was given.
LEMMA MemoryAnswers ==
    ASSUME main_mem_req \in mem_req_t, Memories, NEW d \in Device
    PROVE  /\ device_rsp'[d].err \in BOOLEAN
           /\ mem_req_o(d).req => device_rsp'[d].data = mem_req_o(d)
  <1>1. device_rsp'[d] \in Answers(d)
    <2>1. PICK csr \in Answers(0), tx \in Answers(1), rx \in Answers(2), table \in Answers(3) :
              device_rsp' = [e \in Device |-> CASE e = 0 -> csr [] e = 1 -> tx
                                                [] e = 2 -> rx [] e = 3 -> table]
      BY DEF Memories
    <2> HIDE DEF Answers
    <2> QED
      BY <2>1 DEF Device
  <1>2. CASE mem_req_o(d).req
    BY <1>1, <1>2 DEF Answers
  <1>3. CASE ~mem_req_o(d).req
    BY <1>1, <1>3 DEF Answers
  <1> QED BY <1>2, <1>3

\* The invariant holds after reset.
LEMMA BusInvInit == BusInit => BusInv
  <1> SUFFICES ASSUME BusInit PROVE BusInv
    OBVIOUS
  <1>1. main_mem_req \in mem_req_t /\ decode_err_resp \in BOOLEAN /\ was_err \in [Device -> BOOLEAN]
    BY DEF BusInit
  <1>2. \A d \in Device : device_rsp[d].err = FALSE
    BY DEF BusInit
  <1>3. asked.req = FALSE
    BY DEF BusInit, NoRequest
  <1> QED
    BY <1>1, <1>2, <1>3 DEF BusInv

\* Every cycle preserves it.
LEMMA BusInvNext ==
    ASSUME BusInv, BusNext
    PROVE  BusInv'
  <1> DEFINE m == main_mem_req
  <1>1. /\ main_mem_req' \in mem_req_t /\ BusRegisters /\ Filters /\ Memories
        /\ asked' = m /\ m \in mem_req_t
    BY DEF BusNext, BusInv
  <1>2. \A d \in Device : was_err'[d] = Blocked(d)
    BY <1>1 DEF Filters
  <1>3. \A d \in Device :
            /\ mem_req_o(d).req <=> For(m, d)
            /\ mem_req_o(d).req => mem_req_o(d).addr = m.addr % 65536
            /\ Blocked(d) <=> m.req /\ Within(m, d) /\ ~For(m, d)
    BY <1>1, FilteredRequest
  <1>4. decode_err_resp' = (m.req /\ ~device_sel_valid) /\ device_sel_resp' = device_sel_req
    BY <1>1 DEF BusRegisters
  <1>5. decode_err_resp' \in BOOLEAN
    BY <1>4
  <1>6. was_err' \in [Device -> BOOLEAN]
    <2>1. \A d \in Device : Blocked(d) \in BOOLEAN
      BY DEF Blocked
    <2> QED
      BY <1>1, <2>1 DEF Filters
  <1>7. \A d \in Device : device_rsp'[d].err \in BOOLEAN
                          /\ (mem_req_o(d).req => device_rsp'[d].data = mem_req_o(d))
    BY <1>1, MemoryAnswers
  <1>8. ASSUME m.req PROVE Remembered'
    <2>1. decode_err_resp' <=> \A d \in Device : ~Within(m, d)
      BY <1>1, <1>4, <1>8, Decoder
    <2>2. \A d \in Device : Within(m, d) => device_sel_resp' = d
      BY <1>1, <1>4, Decoder
    <2>3. \A d \in Device : was_err'[d] <=> Within(m, d) /\ ~For(m, d)
      BY <1>2, <1>3, <1>8
    <2>4. \A d \in Device : For(m, d) => device_rsp'[d].data.addr = m.addr % 65536
      BY <1>3, <1>7
    <2>5. \A d \in Device : (Within(asked, d)' <=> Within(m, d)) /\ (For(asked, d)' <=> For(m, d))
      BY <1>1 DEF Within, For
    <2> HIDE DEF m
    <2> QED
      BY <1>1, <2>1, <2>2, <2>3, <2>4, <2>5 DEF Remembered
  <1> QED
    BY <1>1, <1>5, <1>6, <1>7, <1>8 DEF BusInv

\* The inductive invariant holds in every state.
THEOREM MemBusInvariant == BusSpec => []BusInv
  <1>1. BusInv /\ [BusNext]_busVars => BusInv'
    <2> SUFFICES ASSUME BusInv, [BusNext]_busVars PROVE BusInv'
      OBVIOUS
    <2>1. CASE BusNext
      BY <2>1, BusInvNext
    <2>2. CASE UNCHANGED busVars
      <3>1. Remembered' <=> Remembered
        BY <2>2 DEF busVars, Remembered, Within, For
      <3> QED
        BY <2>2, <3>1 DEF busVars, BusInv
    <2> QED BY <2>1, <2>2
  <1> QED
    BY <1>1, BusInvInit, PTL DEF BusSpec

\* For every address: the decoder and the filters of bus.sv give a request to the
\* memory of its range, and to no other, and to none that it may not use.
THEOREM BusReachesItsMemory == BusSpec => []ReachesItsMemory
  <1>1. BusInv => ReachesItsMemory
    BY FilteredRequest DEF BusInv, ReachesItsMemory
  <1> QED
    BY <1>1, MemBusInvariant, PTL

\* What the remembered request says about the answer on the bus.
LEMMA AnswerOfMemory == BusInv => AnswersTheRequest
  <1> SUFFICES ASSUME BusInv, asked.req
               PROVE  IF \E d \in Device : For(asked, d)
                      THEN \A d \in Device : For(asked, d) =>
                              /\ main_mem_rsp.err = device_rsp[d].err
                              /\ ~asked.we => main_mem_rsp.data.addr = asked.addr % 65536
                      ELSE main_mem_rsp.err
    BY DEF AnswersTheRequest
  <1>1. /\ decode_err_resp <=> \A d \in Device : ~Within(asked, d)
        /\ \A d \in Device : Within(asked, d) => device_sel_resp = d
        /\ \A d \in Device : was_err[d] <=> Within(asked, d) /\ ~For(asked, d)
        /\ \A d \in Device : For(asked, d) => device_rsp[d].data.addr = asked.addr % 65536
    BY DEF BusInv, Remembered
  <1>2. \A d \in Device : was_err[d] \in BOOLEAN /\ device_rsp[d].err \in BOOLEAN
    BY DEF BusInv
  <1>3. decode_err_resp \in BOOLEAN
    BY DEF BusInv
  <1>4. main_mem_rsp.err = (was_err[device_sel_resp] \/ device_rsp[device_sel_resp].err
                            \/ decode_err_resp)
    BY DEF main_mem_rsp, mem_rsp_o
  <1>5. main_mem_rsp.data = IF was_err[device_sel_resp] \/ device_sel_resp \in WriteOnlyMem
                            THEN NoRequest ELSE device_rsp[device_sel_resp].data
    BY DEF main_mem_rsp, mem_rsp_o
  <1>6. ASSUME NEW d \in Device, For(asked, d)
        PROVE  /\ main_mem_rsp.err = device_rsp[d].err
               /\ ~asked.we => main_mem_rsp.data.addr = asked.addr % 65536
    <2>1. Within(asked, d)
      BY <1>6 DEF For
    <2>2. device_sel_resp = d /\ was_err[d] = FALSE /\ decode_err_resp = FALSE
      BY <1>1, <1>2, <1>3, <1>6, <2>1
    <2>3. main_mem_rsp.err = device_rsp[d].err
      BY <1>2, <1>4, <2>2
    <2>4. ASSUME ~asked.we PROVE main_mem_rsp.data.addr = asked.addr % 65536
      <3>1. d \notin WriteOnlyMem
        BY <1>6, <2>4 DEF For
      <3> QED
        BY <1>1, <1>5, <1>6, <2>2, <3>1
    <2> QED
      BY <2>3, <2>4
  <1>7. ASSUME \A d \in Device : ~For(asked, d)
        PROVE  main_mem_rsp.err
    <2>1. CASE \E d \in Device : Within(asked, d)
      <3>1. PICK d \in Device : Within(asked, d)
        BY <2>1
      <3>2. device_sel_resp = d /\ was_err[d]
        BY <1>1, <1>7, <3>1
      <3> QED
        BY <1>4, <3>2
    <2>2. CASE \A d \in Device : ~Within(asked, d)
      <3>1. decode_err_resp
        BY <1>1, <2>2
      <3> QED
        BY <1>4, <3>1
    <2> QED BY <2>1, <2>2
  <1> QED BY <1>6, <1>7

\* Although the next request is already on the bus, the host is given the answer
\* of the memory it asked, its error flag included, and an error if it asked none.
THEOREM BusAnswersTheRequest == BusSpec => []AnswersTheRequest
  BY AnswerOfMemory, MemBusInvariant, PTL

-----------------------------------------------------------------------------
(* The register file. *)

\* The registers have their widths and every event outside a collision is sticky;
\* the second part alone is not preserved by a write to INTR_STATE, which may
\* carry bits that are no events.
IInv == TypeOK /\ EventsStick

(* Requests and pulses. *)

\* A request is to one of the nine rows and carries a set of bit numbers.
LEMMA DrivenType ==
    ASSUME NEW r \in Driven
    PROVE  r.row \in 1 .. 9 /\ r.row \in Row /\ r.data \subseteq Nat /\ r.we \in BOOLEAN
  BY CsrAssumption DEF Driven, Request

\* What is pulsed in a cycle is an event, the manual interrupt of INTR_TEST included.
LEMMA PulseType ==
    ASSUME NEW r, NEW ev \in SUBSET {4, 5}
    PROVE  Pulse(r, ev) \subseteq Event
  BY DEF Pulse, Event

\* Of the interrupts shown in INTR_STATE, those that are events are the pulses of
\* this cycle and the sticky bits: the levels share no bit with them.
LEMMA EventInterrupts ==
    ASSUME TypeOK, NEW r, NEW ev \in SUBSET {4, 5}, NEW st
    PROVE  interrupts(r, ev, st) \cap Event = Pulse(r, ev) \cup sticky
<1>1. Level \cap Event = {}
  BY DEF Level, Event
<1>2. Pulse(r, ev) \subseteq Event /\ sticky \subseteq Event
  BY PulseType DEF TypeOK
<1> QED
  BY <1>1, <1>2 DEF interrupts

\* The two registers of a row read as sets of bit numbers.
LEMMA ReadType ==
    ASSUME TypeOK, NEW r \in Driven, NEW ev \in SUBSET {4, 5},
           NEW st \in Levels, NEW mdio_i \in BOOLEAN
    PROVE  /\ read_data(r, ev, st, mdio_i).lo \in SUBSET Nat
           /\ read_data(r, ev, st, mdio_i).hi \in SUBSET Nat
<1>1. /\ interrupts(r, ev, st) \in SUBSET Nat
      /\ st \in SUBSET Nat
      /\ mdio \cup (IF mdio_i THEN {3} ELSE {}) \in SUBSET Nat
  <2>1. Pulse(r, ev) \subseteq Nat /\ sticky \subseteq Nat /\ mdio \subseteq Nat
    BY PulseType DEF TypeOK, Event
  <2>2. st \subseteq Nat
    BY CsrAssumption DEF StatusBit, Level
  <2>3. interrupts(r, ev, st) \subseteq Nat
    BY <2>1, <2>2, Zenon DEF interrupts
  <2> QED
    BY <2>1, <2>2, <2>3
<1>2. /\ intr_mask \in SUBSET Nat /\ ctrl \in SUBSET Nat /\ tx_packet_len \in SUBSET Nat
      /\ mac_addr.lo \in SUBSET Nat /\ mac_addr.hi \in SUBSET Nat
  BY DEF TypeOK, IntrBit, Level, Event
<1>3. VendorId \in SUBSET Nat /\ DeviceId \in SUBSET Nat /\ MagicNum \in SUBSET Nat
  BY CsrAssumption
<1> DEFINE I == interrupts(r, ev, st)
           D == mdio \cup (IF mdio_i THEN {3} ELSE {})
<1> HIDE DEF I, D
<1>r. r.row \in {1, 2, 3, 4, 5, 6, 7, 8, 9}
  BY DrivenType
<1>4. <<I, {}, ctrl, mac_addr.lo, tx_packet_len, {}, VendorId, MagicNum, {}>>[r.row]
        \in SUBSET Nat
  <2>1. I \in SUBSET Nat /\ {} \in SUBSET Nat
    BY <1>1 DEF I
  <2>2. CASE r.row = 1 BY <2>1, <1>2, <1>3, <2>2
  <2>3. CASE r.row = 2 BY <2>1, <1>2, <1>3, <2>3
  <2>4. CASE r.row = 3 BY <2>1, <1>2, <1>3, <2>4
  <2>5. CASE r.row = 4 BY <2>1, <1>2, <1>3, <2>5
  <2>6. CASE r.row = 5 BY <2>1, <1>2, <1>3, <2>6
  <2>7. CASE r.row = 6 BY <2>1, <1>2, <1>3, <2>7
  <2>8. CASE r.row = 7 BY <2>1, <1>2, <1>3, <2>8
  <2>9. CASE r.row = 8 BY <2>1, <1>2, <1>3, <2>9
  <2>10. CASE r.row = 9 BY <2>1, <1>2, <1>3, <2>10
  <2> QED
    BY <1>r, <2>2, <2>3, <2>4, <2>5, <2>6, <2>7, <2>8, <2>9, <2>10
<1>5. <<intr_mask, {}, st, mac_addr.hi, {}, D, DeviceId, {}, {}>>[r.row] \in SUBSET Nat
  <2>1. D \in SUBSET Nat /\ {} \in SUBSET Nat
    BY <1>1 DEF D
  <2>2. CASE r.row = 1 BY <2>1, <1>1, <1>2, <1>3, <2>2
  <2>3. CASE r.row = 2 BY <2>1, <1>1, <1>2, <1>3, <2>3
  <2>4. CASE r.row = 3 BY <2>1, <1>1, <1>2, <1>3, <2>4
  <2>5. CASE r.row = 4 BY <2>1, <1>1, <1>2, <1>3, <2>5
  <2>6. CASE r.row = 5 BY <2>1, <1>1, <1>2, <1>3, <2>6
  <2>7. CASE r.row = 6 BY <2>1, <1>1, <1>2, <1>3, <2>7
  <2>8. CASE r.row = 7 BY <2>1, <1>1, <1>2, <1>3, <2>8
  <2>9. CASE r.row = 8 BY <2>1, <1>1, <1>2, <1>3, <2>9
  <2>10. CASE r.row = 9 BY <2>1, <1>1, <1>2, <1>3, <2>10
  <2> QED
    BY <1>r, <2>2, <2>3, <2>4, <2>5, <2>6, <2>7, <2>8, <2>9, <2>10
<1> QED
  BY <1>4, <1>5 DEF read_data, I, D

(* The invariant. *)

\* The registers have their widths after reset and nothing is owed.
LEMMA InitIInv == Init => IInv
  BY DEF Init, IInv, TypeOK, EventsStick

\* A clock cycle keeps every register within its width.
LEMMA CycleType ==
    ASSUME TypeOK, NEW r \in Driven, NEW ev \in SUBSET {4, 5},
           NEW st \in Levels, NEW mdio_i \in BOOLEAN, Cycle(r, ev, st, mdio_i)
    PROVE  TypeOK'
<1>1. sticky' \subseteq Event
  BY EventInterrupts, PulseType DEF Cycle, Sticky, TypeOK
<1>2. intr_mask' \subseteq IntrBit
  <2>1. IntrBit = 0 .. 6
    BY DEF IntrBit, Level, Event
  <2> QED
    BY <2>1 DEF Cycle, Config, TypeOK
<1>3. ctrl' \subseteq {0, 1} /\ tx_packet_len' \subseteq 0 .. 10 /\ mdio' \subseteq {0, 1, 2}
  BY DEF Cycle, Config, TxPacketLen, TypeOK
<1>4. mac_addr' \in [lo : SUBSET (0 .. 31), hi : SUBSET (0 .. 15)]
  BY DEF Cycle, Config, TypeOK
<1>5. rsp' \in [err : BOOLEAN, lo : SUBSET Nat, hi : SUBSET Nat]
  <2>1. bad_request(r) \in BOOLEAN
    BY DEF bad_request
  <2> QED
    BY <2>1, ReadType DEF Cycle, Response
<1>6. pulses' \subseteq {"kick", "pop"}
  BY DEF Cycle, Observe
<1>7. owed' \subseteq Event /\ collided' \subseteq Event
  BY PulseType DEF Cycle, Observe, TypeOK
<1> QED
  BY <1>1, <1>2, <1>3, <1>4, <1>5, <1>6, <1>7 DEF TypeOK

\* A clock cycle keeps the events that came outside a write to INTR_STATE sticky,
\* and makes up none.
LEMMA CycleSticks ==
    ASSUME IInv, NEW r \in Driven, NEW ev \in SUBSET {4, 5},
           NEW st \in Levels, NEW mdio_i \in BOOLEAN, Cycle(r, ev, st, mdio_i)
    PROVE  EventsStick'
<1>1. CASE write(r, "INTR_STATE")
  <2>1. /\ sticky' = sticky \ r.data
        /\ owed' = (owed \cup Pulse(r, ev)) \ r.data
        /\ collided' = (collided \cup Pulse(r, ev)) \ r.data
    BY <1>1 DEF Cycle, Sticky, Observe
  <2> QED
    BY <2>1 DEF IInv, EventsStick
<1>2. CASE ~write(r, "INTR_STATE")
  <2>1. /\ sticky' = sticky \cup (Pulse(r, ev) \cup sticky)
        /\ owed' = owed \cup Pulse(r, ev)
        /\ collided' = collided
    BY <1>2, EventInterrupts DEF Cycle, Sticky, Observe, IInv
  <2> QED
    BY <2>1 DEF IInv, EventsStick
<1> QED
  BY <1>1, <1>2

\* Every step keeps the invariant.
LEMMA NextIInv == IInv /\ [Next]_vars => IInv'
<1> SUFFICES ASSUME IInv, [Next]_vars PROVE IInv'
  OBVIOUS
<1>1. CASE Next
  BY <1>1, CycleType, CycleSticks DEF Next, IInv
<1>2. CASE UNCHANGED vars
  BY <1>2 DEF vars, config, IInv, TypeOK, EventsStick
<1> QED
  BY <1>1, <1>2

(* The theorems. *)

\* The invariant holds throughout.
THEOREM CsrInvariant == Spec => []IInv
  BY InitIInv, NextIInv, PTL DEF Spec

\* Every register keeps its width and every response is one the bus can carry.
THEOREM CsrType == Spec => []TypeOK
<1>1. IInv => TypeOK
  BY DEF IInv
<1> QED
  BY <1>1, CsrInvariant, PTL

\* An event that comes outside a write to INTR_STATE stays in INTR_STATE until
\* software writes a 1 to its own bit, and no event is reported that did not
\* happen since it was acknowledged last.
THEOREM CsrEventsStick == Spec => []EventsStick
<1>1. IInv => EventsStick
  BY DEF IInv
<1> QED
  BY <1>1, CsrInvariant, PTL

\* No request that is answered with an error changed a register, cleared an
\* event, started a transmission or popped a packet.
THEOREM CsrErrorMeansNoEffect == Spec => ErrorMeansNoEffect
<1> DEFINE A == rsp.err' => /\ UNCHANGED config
                            /\ sticky \subseteq sticky'
                            /\ pulses' = {}
<1>1. IInv /\ [Next]_vars => [A]_vars
  <2> SUFFICES ASSUME IInv, Next, rsp.err'
               PROVE  UNCHANGED config /\ sticky \subseteq sticky' /\ pulses' = {}
    OBVIOUS
  <2>1. PICK r \in Driven, ev \in SUBSET {4, 5}, st \in Levels, mdio_i \in BOOLEAN :
                 Cycle(r, ev, st, mdio_i)
    BY DEF Next
  <2>2. bad_request(r)
    BY <2>1 DEF Cycle, Response
  <2>3. \A reg : ~write(r, reg)
    BY <2>2 DEF write
  <2>4. UNCHANGED config
    <3>1. mac_addr' = mac_addr
      BY <2>1, <2>3 DEF Cycle, Config, IInv, TypeOK
    <3> QED
      BY <3>1, <2>1, <2>3 DEF Cycle, Config, TxPacketLen, config
  <2>5. sticky \subseteq sticky'
    BY <2>1, <2>3 DEF Cycle, Sticky
  <2>6. pulses' = {}
    BY <2>1, <2>3 DEF Cycle, Observe, tx_kick_o, rx_pop_o
  <2> QED
    BY <2>4, <2>5, <2>6
<1>2. Spec => [][A]_vars
  BY <1>1, CsrInvariant, PTL DEF Spec
<1> QED
  BY <1>2 DEF ErrorMeansNoEffect

-----------------------------------------------------------------------------
(* The FIFO: pointers and storage are a queue. *)

\* The slots of consecutive entries: the sum wraps at most once.
LEMMA SlotValue ==
    ASSUME NEW r \in Index, NEW a \in 0 .. Depth
    PROVE  (r + a) % Depth = IF r + a < Depth THEN r + a ELSE r + a - Depth
  BY FifoAssumption DEF Index

\* Every slot is in the storage.
LEMMA SlotInIndex ==
    ASSUME FifoTypeOK, NEW a \in 0 .. Depth
    PROVE  Slot(a) \in Index
  <1>1. fifo_rptr.idx \in Index
    BY DEF FifoTypeOK, Pointer
  <1>2. Slot(a) = IF fifo_rptr.idx + a < Depth THEN fifo_rptr.idx + a
                  ELSE fifo_rptr.idx + a - Depth
    BY <1>1, SlotValue DEF Slot
  <1> QED
    BY <1>1, <1>2, FifoAssumption DEF Index

\* full and empty are what the number of entries says.
LEMMA Flags ==
    ASSUME FifoTypeOK
    PROVE  /\ full <=> n_buffered = Depth
           /\ empty <=> n_buffered = 0
  <1> DEFINE w == fifo_wptr
             r == fifo_rptr
  <1>1. w \in Pointer /\ r \in Pointer
    BY DEF FifoTypeOK
  <1>2. w.idx \in Index /\ r.idx \in Index /\ w.wrap \in BOOLEAN /\ r.wrap \in BOOLEAN
    BY <1>1 DEF Pointer
  <1>3. w = r <=> w.idx = r.idx /\ w.wrap = r.wrap
    BY <1>1 DEF Pointer
  <1>4. n_buffered = IF w.wrap = r.wrap THEN w.idx - r.idx ELSE Depth - r.idx + w.idx
    BY DEF n_buffered
  <1>5. (full <=> w.idx = r.idx /\ w.wrap # r.wrap) /\ (empty <=> w = r)
    BY DEF full, empty
  <1> HIDE DEF w, r
  <1> QED
    BY <1>2, <1>3, <1>4, <1>5, FifoAssumption DEF Index

\* A pointer that moves, moves to the next slot.
LEMMA IncrementValue ==
    ASSUME NEW p \in Pointer
    PROVE  /\ Increment(p) \in Pointer
           /\ Increment(p).idx = IF p.idx = Depth - 1 THEN 0 ELSE p.idx + 1
           /\ Increment(p).wrap = IF p.idx = Depth - 1 THEN ~p.wrap ELSE p.wrap
  <1>1. p.idx \in Index /\ p.wrap \in BOOLEAN
    BY DEF Pointer
  <1>2. CASE p.idx = Depth - 1
    BY <1>1, <1>2, FifoAssumption DEF Increment, Pointer, Index
  <1>3. CASE p.idx # Depth - 1
    BY <1>1, <1>3, FifoAssumption DEF Increment, Pointer, Index
  <1> QED
    BY <1>2, <1>3

\* The write pointer is the slot after the last entry.
LEMMA WritePointer ==
    ASSUME FifoTypeOK
    PROVE  /\ fifo_wptr.idx = Slot(n_buffered)
           /\ fifo_rptr.idx \in Index /\ fifo_wptr.idx \in Index
  <1>1. fifo_wptr.idx \in Index /\ fifo_rptr.idx \in Index
    BY DEF FifoTypeOK, Pointer
  <1>2. n_buffered \in 0 .. Depth
    BY DEF FifoTypeOK
  <1>3. n_buffered = IF fifo_wptr.wrap = fifo_rptr.wrap THEN fifo_wptr.idx - fifo_rptr.idx
                     ELSE Depth - fifo_rptr.idx + fifo_wptr.idx
    BY DEF n_buffered
  <1>4. Slot(n_buffered) = IF fifo_rptr.idx + n_buffered < Depth THEN fifo_rptr.idx + n_buffered
                           ELSE fifo_rptr.idx + n_buffered - Depth
    BY <1>1, <1>2, SlotValue DEF Slot
  <1> QED
    BY <1>1, <1>2, <1>3, <1>4, FifoAssumption DEF Index

\* One cycle moves the pointers by what was pushed and popped.
LEMMA CountAfter ==
    ASSUME FifoTypeOK, FifoNext, ~in.clr
    PROVE  /\ fifo_wptr' \in Pointer /\ fifo_rptr' \in Pointer
           /\ n_buffered' = n_buffered + (IF fifo_incr_wptr THEN 1 ELSE 0)
                                       - (IF fifo_incr_rptr THEN 1 ELSE 0)
           /\ n_buffered' \in 0 .. Depth
           /\ fifo_rptr'.idx = IF fifo_incr_rptr THEN Slot(1) ELSE fifo_rptr.idx
  <1> DEFINE w == fifo_wptr
             r == fifo_rptr
             w1 == fifo_wptr'
             r1 == fifo_rptr'
             n == n_buffered
             n1 == n_buffered'
  <1>1. w \in Pointer /\ r \in Pointer /\ n \in 0 .. Depth
    BY DEF FifoTypeOK
  <1>2. /\ w1 = IF fifo_incr_wptr THEN Increment(w) ELSE w
        /\ r1 = IF fifo_incr_rptr THEN Increment(r) ELSE r
    BY DEF FifoNext, PointerAfter
  <1>3. fifo_incr_wptr => n # Depth
    BY Flags DEF fifo_incr_wptr
  <1>4. fifo_incr_rptr => n # 0
    BY Flags DEF fifo_incr_rptr
  <1>5. n = IF w.wrap = r.wrap THEN w.idx - r.idx ELSE Depth - r.idx + w.idx
    BY DEF n_buffered
  <1>6. n1 = IF w1.wrap = r1.wrap THEN w1.idx - r1.idx ELSE Depth - r1.idx + w1.idx
    BY DEF n_buffered
  <1>7. Slot(1) = IF r.idx + 1 < Depth THEN r.idx + 1 ELSE r.idx + 1 - Depth
    <2>1. r.idx \in Index /\ 1 \in 0 .. Depth
      BY <1>1, FifoAssumption DEF Pointer
    <2> QED
      BY <2>1, SlotValue DEF Slot
  <1> HIDE DEF w, r, w1, r1, n, n1
  <1>8. w1 \in Pointer /\ r1 \in Pointer
    BY <1>1, <1>2, IncrementValue
  <1>9. /\ w1.idx = IF fifo_incr_wptr THEN (IF w.idx = Depth - 1 THEN 0 ELSE w.idx + 1) ELSE w.idx
        /\ w1.wrap = IF fifo_incr_wptr /\ w.idx = Depth - 1 THEN ~w.wrap ELSE w.wrap
    BY <1>1, <1>2, IncrementValue
  <1>10. /\ r1.idx = IF fifo_incr_rptr THEN (IF r.idx = Depth - 1 THEN 0 ELSE r.idx + 1) ELSE r.idx
         /\ r1.wrap = IF fifo_incr_rptr /\ r.idx = Depth - 1 THEN ~r.wrap ELSE r.wrap
    BY <1>1, <1>2, IncrementValue
  <1>11. w.idx \in Index /\ r.idx \in Index /\ w.wrap \in BOOLEAN /\ r.wrap \in BOOLEAN
    BY <1>1 DEF Pointer
  <1>12. /\ n1 = n + (IF fifo_incr_wptr THEN 1 ELSE 0) - (IF fifo_incr_rptr THEN 1 ELSE 0)
         /\ n1 \in 0 .. Depth
    <2>1. CASE fifo_incr_wptr /\ fifo_incr_rptr
      BY <2>1, <1>1, <1>3, <1>4, <1>5, <1>6, <1>9, <1>10, <1>11, FifoAssumption DEF Index
    <2>2. CASE fifo_incr_wptr /\ ~fifo_incr_rptr
      BY <2>2, <1>1, <1>3, <1>4, <1>5, <1>6, <1>9, <1>10, <1>11, FifoAssumption DEF Index
    <2>3. CASE ~fifo_incr_wptr /\ fifo_incr_rptr
      BY <2>3, <1>1, <1>3, <1>4, <1>5, <1>6, <1>9, <1>10, <1>11, FifoAssumption DEF Index
    <2>4. CASE ~fifo_incr_wptr /\ ~fifo_incr_rptr
      BY <2>4, <1>1, <1>3, <1>4, <1>5, <1>6, <1>9, <1>10, <1>11, FifoAssumption DEF Index
    <2> QED
      BY <2>1, <2>2, <2>3, <2>4
  <1>13. r1.idx = IF fifo_incr_rptr THEN Slot(1) ELSE r.idx
    BY <1>7, <1>10, <1>11, FifoAssumption DEF Index
  <1> QED
    BY <1>8, <1>12, <1>13 DEF w, r, w1, r1, n, n1

\* Every cycle preserves the type invariant.
LEMMA TypeStep ==
    ASSUME FifoTypeOK, FifoNext
    PROVE  FifoTypeOK'
  <1>1. fifo_wptr' \in Pointer /\ fifo_rptr' \in Pointer /\ n_buffered' \in 0 .. Depth
    <2>1. CASE in.clr
      <3>1. fifo_wptr' = Start /\ fifo_rptr' = Start
        BY <2>1 DEF FifoNext, PointerAfter
      <3> QED
        BY <3>1, FifoAssumption DEF Start, Pointer, Index, n_buffered
    <2>2. CASE ~in.clr
      BY <2>2, CountAfter
    <2> QED BY <2>1, <2>2
  <1>2. in \in Input /\ in' \in Input /\ under_rst' \in BOOLEAN
    BY DEF FifoTypeOK, FifoNext
  <1>3. fifo_storage' \in [Index -> Item]
    BY DEF FifoTypeOK, FifoNext, Write, Input, Pointer
  <1>4. rd_err' \in BOOLEAN
    <2>1. CASE in.req
      <3>1. rd_err' = (in.addr >= n_buffered)
        BY <2>1 DEF FifoNext, RandomRead
      <3> QED
        BY <3>1
    <2>2. CASE ~in.req
      BY <2>2 DEF FifoTypeOK, FifoNext, RandomRead
    <2> QED BY <2>1, <2>2
  <1>5. rd_data' \in Item
    <2>1. in.addr \in 0 .. Depth
      BY FifoAssumption DEF FifoTypeOK, Input, Index
    <2>2. Slot(in.addr) \in Index
      BY <2>1, SlotInIndex
    <2> QED
      BY <2>2 DEF FifoTypeOK, FifoNext, RandomRead
  <1> QED
    BY <1>1, <1>2, <1>3, <1>4, <1>5 DEF FifoTypeOK

\* The type invariant holds after reset.
LEMMA InitType == FifoInit => FifoTypeOK /\ n_buffered = 0
  <1> SUFFICES ASSUME FifoInit PROVE FifoTypeOK /\ n_buffered = 0
    OBVIOUS
  <1>1. Start \in Pointer
    BY FifoAssumption DEF Start, Pointer, Index
  <1>2. n_buffered = 0
    BY DEF FifoInit, n_buffered, Start
  <1>3. 0 \in 0 .. Depth /\ Zero \in Item
    BY FifoAssumption
  <1> QED
    BY <1>1, <1>2, <1>3 DEF FifoInit, FifoTypeOK

\* Registers stay in their types and the FIFO never holds more than Depth entries.
THEOREM FifoType == FifoSpec => []FifoTypeOK
  <1>1. FifoInit => FifoTypeOK
    BY InitType
  <1>2. FifoTypeOK /\ [FifoNext]_fifoVars => FifoTypeOK'
    <2> SUFFICES ASSUME FifoTypeOK, [FifoNext]_fifoVars PROVE FifoTypeOK'
      OBVIOUS
    <2>1. CASE FifoNext
      BY <2>1, TypeStep
    <2>2. CASE UNCHANGED fifoVars
      <3>1. n_buffered' = n_buffered
        BY <2>2 DEF fifoVars, n_buffered
      <3> QED
        BY <2>2, <3>1 DEF fifoVars, FifoTypeOK
    <2> QED BY <2>1, <2>2
  <1> QED
    BY <1>1, <1>2, PTL DEF FifoSpec

\* The represented queue is a sequence of items.
QueueShape ==
    /\ queue \in Seq(Item)
    /\ Len(queue) = n_buffered
    /\ \A k \in 1 .. n_buffered : queue[k] = fifo_storage[Slot(k - 1)]

\* The queue read off the pointers is a sequence of n_buffered items.
LEMMA QueueSeq == FifoTypeOK => QueueShape
  <1> SUFFICES ASSUME FifoTypeOK PROVE QueueShape
    OBVIOUS
  <1>1. n_buffered \in Nat /\ n_buffered <= Depth /\ fifo_rptr.idx \in Index
    BY FifoAssumption DEF FifoTypeOK, Pointer
  <1>2. \A k \in 1 .. n_buffered : fifo_storage[Slot(k - 1)] \in Item
    <2> TAKE k \in 1 .. n_buffered
    <2>1. k - 1 \in 0 .. Depth
      BY <1>1, FifoAssumption
    <2>2. Slot(k - 1) \in Index
      BY <2>1, SlotInIndex
    <2> QED
      BY <2>2 DEF FifoTypeOK
  <1>3. queue \in Seq(Item) /\ Len(queue) = n_buffered
    BY <1>1, <1>2 DEF queue
  <1> QED
    BY <1>3 DEF queue, QueueShape

\* One cycle pushes and pops the represented queue.
LEMMA QueueStep ==
    ASSUME FifoTypeOK, FifoNext, ~in.clr
    PROVE  queue' = Queue!PushPop(queue, fifo_incr_wptr, in.data, fifo_incr_rptr)
  <1> DEFINE n == n_buffered
             n1 == n_buffered'
             i == IF fifo_incr_wptr THEN 1 ELSE 0
             j == IF fifo_incr_rptr THEN 1 ELSE 0
             pushed == IF fifo_incr_wptr THEN Append(queue, in.data) ELSE queue
             r == fifo_rptr.idx
  <1>1. /\ queue \in Seq(Item) /\ Len(queue) = n
        /\ \A k \in 1 .. n : queue[k] = fifo_storage[Slot(k - 1)]
    BY QueueSeq DEF QueueShape
  <1>2. FifoTypeOK'
    BY TypeStep
  <1>3. /\ queue' \in Seq(Item) /\ Len(queue') = n1
        /\ \A k \in 1 .. n1 : queue'[k] = fifo_storage'[Slot(k - 1)']
    <2>1. QueueShape'
      BY <1>2, QueueSeq, PTL
    <2> QED
      BY <2>1 DEF QueueShape
  <1>4. n1 = n + i - j /\ n1 \in 0 .. Depth /\ n \in 0 .. Depth
    BY CountAfter DEF FifoTypeOK
  <1>5. /\ fifo_rptr'.idx = IF fifo_incr_rptr THEN Slot(1) ELSE r
        /\ r \in Index /\ fifo_wptr.idx = Slot(n)
    BY CountAfter, WritePointer
  <1>6. in.data \in Item
    BY DEF FifoTypeOK, Input
  <1>7. fifo_incr_rptr => queue # <<>> /\ n > 0
    <2>1. fifo_incr_rptr => n # 0
      BY Flags DEF fifo_incr_rptr
    <2>2. Len(<<>>) = 0
      OBVIOUS
    <2> QED
      BY <1>1, <1>4, <2>1, <2>2, FifoAssumption
  <1>8. fifo_incr_wptr => n < Depth
    <2>1. fifo_incr_wptr => n # Depth
      BY Flags DEF fifo_incr_wptr
    <2> QED
      BY <1>4, <2>1, FifoAssumption
  <1>9. fifo_storage' = IF fifo_incr_wptr THEN [fifo_storage EXCEPT ![fifo_wptr.idx] = in.data]
                        ELSE fifo_storage
    BY DEF FifoNext, Write
  <1>10. fifo_storage \in [Index -> Item]
    BY DEF FifoTypeOK
  <1>11. /\ pushed \in Seq(Item) /\ Len(pushed) = n + i
         /\ \A k \in 1 .. n : pushed[k] = fifo_storage[Slot(k - 1)]
         /\ fifo_incr_wptr => pushed[n + 1] = in.data
    <2>1. CASE fifo_incr_wptr
      BY <1>1, <1>4, <1>6, <2>1, FifoAssumption
    <2>2. CASE ~fifo_incr_wptr
      BY <1>1, <1>4, <2>2, FifoAssumption
    <2> QED BY <2>1, <2>2
  <1> HIDE DEF n, n1, pushed
  <1>12. ASSUME NEW k \in 1 .. n1
         PROVE  queue'[k] = pushed[k + j]
    <2>1. k \in Int /\ j \in {0, 1} /\ i \in {0, 1} /\ k + j >= 1 /\ k + j <= n + i
      BY <1>4, FifoAssumption
    <2>2. queue'[k] = fifo_storage'[Slot(k - 1)']
      BY <1>3, <1>12
    <2>3. Slot(k - 1)' = (fifo_rptr'.idx + (k - 1)) % Depth
      BY DEF Slot
    <2>4. (fifo_rptr'.idx + (k - 1)) % Depth = Slot(k + j - 1)
      <3>1. /\ k - 1 \in 0 .. Depth /\ k + j - 1 \in 0 .. Depth /\ 1 \in 0 .. Depth
            /\ k + j - 1 < Depth /\ k \in Int
        BY <1>4, <1>8, <2>1, FifoAssumption
      <3>2. Slot(k + j - 1) = IF r + (k + j - 1) < Depth THEN r + (k + j - 1)
                              ELSE r + (k + j - 1) - Depth
        BY <1>5, <3>1, SlotValue DEF Slot
      <3>3. Slot(1) = IF r + 1 < Depth THEN r + 1 ELSE r + 1 - Depth
        BY <1>5, <3>1, SlotValue DEF Slot
      <3>4. fifo_rptr'.idx \in Index
        BY <1>5, <3>3, FifoAssumption DEF Index
      <3>5. (fifo_rptr'.idx + (k - 1)) % Depth =
               IF fifo_rptr'.idx + (k - 1) < Depth THEN fifo_rptr'.idx + (k - 1)
               ELSE fifo_rptr'.idx + (k - 1) - Depth
        BY <3>1, <3>4, SlotValue
      <3>6. r \in Index
        BY <1>5
      <3> HIDE DEF r
      <3>7. CASE fifo_incr_rptr
        <4>1. j = 1 /\ fifo_rptr'.idx = Slot(1)
          BY <1>5, <3>7
        <4> QED
          BY <4>1, <3>1, <3>2, <3>3, <3>5, <3>6, FifoAssumption DEF Index
      <3>8. CASE ~fifo_incr_rptr
        <4>1. j = 0 /\ fifo_rptr'.idx = r
          BY <1>5, <3>8
        <4> QED
          BY <4>1, <3>1, <3>2, <3>5, <3>6, FifoAssumption DEF Index
      <3> QED BY <3>7, <3>8
    <2>5. queue'[k] = fifo_storage'[Slot(k + j - 1)]
      BY <2>2, <2>3, <2>4
    <2>6. CASE k + j <= n
      <3>1. k + j - 1 \in 0 .. Depth /\ n \in 0 .. Depth /\ k + j - 1 < n
        BY <1>4, <2>1, <2>6, FifoAssumption
      <3>2. /\ Slot(k + j - 1) = IF r + (k + j - 1) < Depth THEN r + (k + j - 1)
                                 ELSE r + (k + j - 1) - Depth
            /\ Slot(n) = IF r + n < Depth THEN r + n ELSE r + n - Depth
        BY <1>5, <3>1, SlotValue DEF Slot
      <3>3. r \in Index
        BY <1>5
      <3> HIDE DEF r, j
      <3>4. Slot(k + j - 1) \in Index
        BY <2>1, <3>1, <3>2, <3>3, FifoAssumption DEF Index
      <3>5. fifo_incr_wptr => Slot(k + j - 1) # Slot(n)
        BY <1>8, <2>1, <3>1, <3>2, <3>3, FifoAssumption DEF Index
      <3>6. fifo_storage'[Slot(k + j - 1)] = fifo_storage[Slot(k + j - 1)]
        BY <1>5, <1>9, <1>10, <3>4, <3>5
      <3>7. pushed[k + j] = fifo_storage[Slot(k + j - 1)]
        BY <1>11, <2>1, <2>6, <3>1
      <3> QED
        BY <2>5, <3>6, <3>7
    <2>7. CASE k + j > n
      <3>1. fifo_incr_wptr /\ k + j = n + 1
        BY <1>4, <2>1, <2>7, FifoAssumption
      <3>2. Slot(k + j - 1) = fifo_wptr.idx
        <4>1. k + j - 1 = n
          BY <1>4, <2>1, <3>1, FifoAssumption
        <4> QED
          BY <1>5, <4>1
      <3>3. fifo_storage'[fifo_wptr.idx] = in.data
        BY <1>9, <1>10, <3>1, WritePointer
      <3> QED
        BY <1>11, <2>5, <3>1, <3>2, <3>3
    <2> QED
      BY <1>4, <2>1, <2>6, <2>7, FifoAssumption
  <1>13. Queue!PushPop(queue, fifo_incr_wptr, in.data, fifo_incr_rptr) =
            IF fifo_incr_rptr THEN Tail(pushed) ELSE pushed
    BY <1>7 DEF Queue!PushPop, pushed
  <1>14. CASE fifo_incr_rptr
    <2>1. j = 1 /\ n + i >= 1 /\ n1 = n + i - 1
      BY <1>4, <1>7, <1>14, FifoAssumption
    <2>2. pushed # <<>>
      <3>1. Len(<<>>) = 0
        OBVIOUS
      <3>2. Len(pushed) >= 1
        BY <1>11, <2>1
      <3> QED
        BY <3>1, <3>2
    <2>3. /\ Tail(pushed) \in Seq(Item) /\ Len(Tail(pushed)) = n + i - 1
          /\ \A k \in 1 .. n + i - 1 : Tail(pushed)[k] = pushed[k + 1]
      <3> HIDE DEF i
      <3>0. Len(pushed) = n + i
        BY <1>11 DEF i
      <3>a. n \in Int /\ i \in Int /\ pushed \in Seq(Item)
        BY <1>4, <1>11, FifoAssumption DEF i
      <3>1. /\ Tail(pushed) \in Seq(Item) /\ Len(Tail(pushed)) = Len(pushed) - 1
            /\ \A k \in 1 .. Len(Tail(pushed)) : Tail(pushed)[k] = pushed[k + 1]
        BY <1>11, <2>2, HeadTailProperties
      <3>2. Len(Tail(pushed)) = n + i - 1
        BY <3>0, <3>a, <3>1
      <3> QED
        BY <3>1, <3>2
    <2>4. \A k \in 1 .. n1 : queue'[k] = Tail(pushed)[k]
      BY <1>12, <2>1, <2>3
    <2>5. queue' = Tail(pushed)
      BY <1>3, <2>1, <2>3, <2>4, SeqEqual
    <2> QED
      BY <1>13, <1>14, <2>5
  <1>15. CASE ~fifo_incr_rptr
    <2>1. j = 0 /\ n1 = n + i
      BY <1>4, <1>15, FifoAssumption
    <2>2. \A k \in 1 .. n1 : queue'[k] = pushed[k]
      BY <1>12, <2>1
    <2>3. queue' = pushed
      BY <1>3, <1>11, <2>1, <2>2, SeqEqual
    <2> QED
      BY <1>13, <1>15, <2>3
  <1> QED BY <1>14, <1>15

\* A random read answers from the represented queue.
LEMMA ReadStep ==
    ASSUME FifoTypeOK, FifoNext, in.req
    PROVE  IF in.addr < n_buffered
           THEN rd_err' = FALSE /\ rd_data' = queue[in.addr + 1]
           ELSE rd_err' = TRUE
  <1>1. in.addr \in 0 .. Depth - 1 /\ n_buffered \in 0 .. Depth
    BY DEF FifoTypeOK, Input, Index
  <1>2. rd_err' = (in.addr >= n_buffered) /\ rd_data' = fifo_storage[Slot(in.addr)]
    BY DEF FifoNext, RandomRead
  <1>3. CASE in.addr < n_buffered
    <2>1. (in.addr >= n_buffered) = FALSE
      BY <1>1, <1>3, FifoAssumption
    <2>2. in.addr + 1 \in 1 .. n_buffered /\ (in.addr + 1) - 1 = in.addr
      BY <1>1, <1>3, FifoAssumption
    <2>3. queue[in.addr + 1] = fifo_storage[Slot((in.addr + 1) - 1)]
      BY <2>2, QueueSeq DEF QueueShape
    <2> QED
      BY <1>2, <1>3, <2>1, <2>2, <2>3
  <1>4. CASE ~(in.addr < n_buffered)
    <2>1. (in.addr >= n_buffered) = TRUE
      BY <1>1, <1>4, FifoAssumption
    <2> QED
      BY <1>2, <1>4, <2>1
  <1> QED BY <1>3, <1>4

\* Every cycle is a cycle of the bounded queue.
LEMMA StepRefines ==
    ASSUME FifoTypeOK, FifoNext
    PROVE  Queue!Next
  <1>1. in \in Input /\ in' \in Queue!Input
    BY DEF FifoTypeOK, FifoNext, Input, Queue!Input, Index
  <1>2. (~under_rst)' = TRUE
    BY DEF FifoNext
  <1>3. queue' = IF in.clr THEN <<>>
                 ELSE Queue!PushPop(queue, ~under_rst /\ in.push /\ Len(queue) < Depth,
                                    in.data, ~under_rst /\ in.pop)
    <2>1. CASE in.clr
      <3>1. n_buffered' = 0
        BY <2>1 DEF FifoNext, PointerAfter, n_buffered, Start
      <3>2. FifoTypeOK'
        BY TypeStep
      <3>3. QueueShape'
        BY <3>2, QueueSeq, PTL
      <3>4. queue' \in Seq(Item) /\ Len(queue') = 0
        BY <3>1, <3>3 DEF QueueShape
      <3> QED
        BY <2>1, <3>4, EmptySeq
    <2>2. CASE ~in.clr
      <3>1. queue' = Queue!PushPop(queue, fifo_incr_wptr, in.data, fifo_incr_rptr)
        BY <2>2, QueueStep
      <3>2. queue \in Seq(Item) /\ Len(queue) = n_buffered /\ n_buffered \in 0 .. Depth
        BY QueueSeq DEF QueueShape, FifoTypeOK
      <3>3. fifo_incr_wptr <=> (~under_rst /\ in.push /\ Len(queue) < Depth)
        <4>1. full <=> n_buffered = Depth
          BY Flags
        <4>2. Len(queue) < Depth <=> n_buffered # Depth
          BY <3>2, FifoAssumption
        <4> QED
          BY <4>1, <4>2 DEF fifo_incr_wptr
      <3>4. (fifo_incr_rptr /\ queue # <<>>) <=> (~under_rst /\ in.pop /\ queue # <<>>)
        <4>1. empty <=> n_buffered = 0
          BY Flags
        <4>2. queue = <<>> <=> n_buffered = 0
          BY <3>2, EmptySeq
        <4> QED
          BY <4>1, <4>2 DEF fifo_incr_rptr
      <3> QED
        BY <2>2, <3>1, <3>3, <3>4 DEF Queue!PushPop
    <2> QED BY <2>1, <2>2
  <1> DEFINE answer == IF rd_err THEN [err |-> TRUE, data |-> Zero]
                    ELSE [err |-> FALSE, data |-> rd_data]
  <1>4. answer' = IF in.req THEN Queue!Answer(in.addr) ELSE answer
    <2>1. CASE in.req
      <3>1. Len(queue) = n_buffered
        BY QueueSeq DEF QueueShape
      <3>2. Queue!Answer(in.addr) = IF in.addr < n_buffered
                                    THEN [err |-> FALSE, data |-> queue[in.addr + 1]]
                                    ELSE [err |-> TRUE, data |-> Zero]
        BY <3>1 DEF Queue!Answer, Queue!Refused
      <3>3. CASE in.addr < n_buffered
        <4>1. rd_err' = FALSE /\ rd_data' = queue[in.addr + 1]
          BY <2>1, <3>3, ReadStep
        <4> QED
          BY <2>1, <3>2, <3>3, <4>1
      <3>4. CASE ~(in.addr < n_buffered)
        <4>1. rd_err' = TRUE
          BY <2>1, <3>4, ReadStep
        <4> QED
          BY <2>1, <3>2, <3>4, <4>1
      <3> QED BY <3>3, <3>4
    <2>2. CASE ~in.req
      BY <2>2 DEF FifoNext, RandomRead
    <2> QED BY <2>1, <2>2
  <1> QED
    BY <1>1, <1>2, <1>3, <1>4 DEF Queue!Next

\* random_access_fifo.sv implements the bounded queue, for every depth: no entry
\* is lost, duplicated or reordered, and reads see the queue of their cycle.
THEOREM FifoImplementsQueue == FifoSpec => ImplementsQueue
  <1>1. FifoInit => Queue!Init
    <2> SUFFICES ASSUME FifoInit PROVE Queue!Init
      OBVIOUS
    <2>1. FifoTypeOK
      BY InitType
    <2>2. n_buffered = 0
      BY InitType
    <2>3. queue = <<>>
      BY <2>1, <2>2, QueueSeq, EmptySeq DEF QueueShape
    <2> QED
      BY <2>3 DEF FifoInit, Queue!Init, Input, Queue!Input, Index
  <1>2. FifoTypeOK /\ [FifoNext]_fifoVars => [Queue!Next]_(Queue!vars)
    <2> SUFFICES ASSUME FifoTypeOK, [FifoNext]_fifoVars PROVE [Queue!Next]_(Queue!vars)
      OBVIOUS
    <2>1. CASE FifoNext
      BY <2>1, StepRefines
    <2>2. CASE UNCHANGED fifoVars
      BY <2>2 DEF fifoVars, Queue!vars, queue, n_buffered, Slot
    <2> QED BY <2>1, <2>2
  <1> QED
    BY <1>1, <1>2, FifoType, PTL DEF FifoSpec, ImplementsQueue, Queue!Spec
=============================================================================
