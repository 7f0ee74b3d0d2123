------------------------------- MODULE MemBus -------------------------------
(***************************************************************************)
(* The host's way to the four memories of the peripheral: bus.sv with the  *)
(* memory map of ethernet_mem_map.sv, and the filters in front of the      *)
(* buffers (mem_to_wo_mem.sv for the TX buffer, mem_to_ro_mem.sv for the   *)
(* RX buffer and the descriptor table).  A request is granted in the cycle *)
(* it is made and answered in the next one, so a new request is on the bus *)
(* while the answer to the last one comes back.                            *)
(*                                                                         *)
(* One step is one clock cycle; main_mem_req is the host's request during  *)
(* the cycle.  The memories themselves are modelled elsewhere: here one    *)
(* that is asked answers for the request it was given, with or without an  *)
(* error, and one that is not asked may show anything.                     *)
(***************************************************************************)
EXTENDS Integers

CONSTANT Addr       \* addresses the host uses

ASSUME MemBusAssumption == Addr \subseteq Nat

VARIABLES
    main_mem_req,       \* req, we, addr
    device_sel_resp, decode_err_resp,
    was_err,            \* the register of each filter
    device_rsp,         \* what each memory shows: the request it answers, and err
    asked               \* history: the host's request in the cycle before

busVars == <<main_mem_req, device_sel_resp, decode_err_resp, was_err, device_rsp, asked>>

Device == 0 .. 3        \* CSR, TX buffer, RX buffer, RX descriptor table
ReadOnlyMem == {2, 3}
WriteOnlyMem == {1}

mem_req_t == [req : BOOLEAN, we : BOOLEAN, addr : Addr]
NoRequest == [req |-> FALSE, we |-> FALSE, addr |-> 0]

-----------------------------------------------------------------------------
(* bus.sv *)

cfg_device_addr_base == [d \in Device |-> CASE d = 0 -> 2048 [] d = 1 -> 4096
                                            [] d = 2 -> 16384 [] d = 3 -> 24576]
\* The masks are the complement of one less than these sizes.
cfg_device_addr_size == [d \in Device |-> CASE d = 0 -> 128 [] d = 1 -> 2048
                                            [] d = 2 -> 8192 [] d = 3 -> 64]

\* ethernet_mem_map.sv drops the upper bits of the address.
host_addr == main_mem_req.addr % 65536

Match(d) == host_addr - (host_addr % cfg_device_addr_size[d]) = cfg_device_addr_base[d]

device_sel_valid == \E d \in Device : Match(d)
\* The last device that matches, 0 if none does.
device_sel_req ==
    IF device_sel_valid
    THEN CHOOSE d \in Device : Match(d) /\ \A e \in Device : Match(e) => e <= d
    ELSE 0

device_req(d) ==
    IF device_sel_valid /\ d = device_sel_req
    THEN [main_mem_req EXCEPT !.addr = host_addr] ELSE NoRequest

BusRegisters ==
    /\ device_sel_resp' = device_sel_req
    /\ decode_err_resp' = (main_mem_req.req /\ ~device_sel_valid)

-----------------------------------------------------------------------------
(* The filters. *)

\* Fault: the read-only filter blocks the data of a write but not its request.
mem_req_o_passes_write(d) ==
    LET r == device_req(d)
    IN  IF d \in WriteOnlyMem THEN [r EXCEPT !.req = r.req /\ r.we] ELSE r
\* What passes the filter of device d.
mem_req_o(d) ==
    LET r == device_req(d)
    IN  IF d \in WriteOnlyMem THEN [r EXCEPT !.req = r.req /\ r.we]
        ELSE IF d \in ReadOnlyMem THEN [r EXCEPT !.req = r.req /\ ~r.we, !.we = FALSE]
        ELSE r

Blocked(d) == device_req(d).req /\ mem_req_o(d).req = FALSE

Filters == was_err' = [d \in Device |-> Blocked(d)]

\* What comes back through the filter of device d.
mem_rsp_o(d) ==
    [data |-> IF was_err[d] \/ d \in WriteOnlyMem THEN NoRequest ELSE device_rsp[d].data,
     err  |-> was_err[d] \/ device_rsp[d].err]

\* Fault: the answer is taken from the device selected in the same cycle.
main_mem_rsp_unregistered ==
    [data |-> mem_rsp_o(device_sel_req).data,
     err  |-> mem_rsp_o(device_sel_req).err \/ decode_err_resp]
main_mem_rsp ==
    [data |-> mem_rsp_o(device_sel_resp).data,
     err  |-> mem_rsp_o(device_sel_resp).err \/ decode_err_resp]

-----------------------------------------------------------------------------
(* The memories. *)

Answers(d) ==
    IF mem_req_o(d).req THEN [data : {mem_req_o(d)}, err : BOOLEAN]
    ELSE [data : {NoRequest}, err : BOOLEAN]

Memories ==
    \E csr \in Answers(0), tx \in Answers(1), rx \in Answers(2), table \in Answers(3) :
        device_rsp' = [d \in Device |-> CASE d = 0 -> csr [] d = 1 -> tx
                                          [] d = 2 -> rx [] d = 3 -> table]

BusInit ==
    /\ main_mem_req \in mem_req_t
    /\ device_sel_resp = 0 /\ decode_err_resp = FALSE
    /\ was_err = [d \in Device |-> FALSE]
    /\ device_rsp = [d \in Device |-> [data |-> NoRequest, err |-> FALSE]]
    /\ asked = NoRequest

BusNext ==
    /\ main_mem_req' \in mem_req_t
    /\ BusRegisters /\ Filters /\ Memories
    /\ asked' = main_mem_req

BusSpec == BusInit /\ [][BusNext]_busVars

-----------------------------------------------------------------------------
(* Properties. *)

\* The address ranges of ethernet.rdl, as the driver's header lays them out.
First == [d \in Device |-> CASE d = 0 -> 2048 [] d = 1 -> 4096 [] d = 2 -> 16384 [] d = 3 -> 24576]
Last  == [d \in Device |-> CASE d = 0 -> 2175 [] d = 1 -> 6143 [] d = 2 -> 24575 [] d = 3 -> 24639]

Within(r, d) == r.addr % 65536 \in First[d] .. Last[d]

\* The memory a request is meant for and may use: no reads from the TX buffer, no
\* writes to what the receiver fills.
For(r, d) ==
    /\ r.req
    /\ Within(r, d)
    /\ IF r.we THEN d \notin ReadOnlyMem ELSE d \notin WriteOnlyMem

\* A request reaches the memory in whose range it lies, and no other; a read of the TX
\* buffer, a write to a receive memory or an address outside the map reaches none.
ReachesItsMemory == \A d \in Device : mem_req_o(d).req <=> For(main_mem_req, d)

\* The answer that comes back while the next request is already on the bus is the
\* answer of the memory that was asked, error included, whatever the others show; a
\* request that reached none is answered with an error.
AnswersTheRequest ==
    asked.req =>
        IF \E d \in Device : For(asked, d)
        THEN \A d \in Device : For(asked, d) =>
                /\ main_mem_rsp.err = device_rsp[d].err
                /\ ~asked.we => main_mem_rsp.data.addr = asked.addr % 65536
        ELSE main_mem_rsp.err

-----------------------------------------------------------------------------
(* The inductive invariant. *)

\* The registers of bus and filters, and the memory that was asked, remember of the
\* last request exactly what its answer needs.
Remembered ==
    /\ decode_err_resp <=> \A d \in Device : ~Within(asked, d)
    /\ \A d \in Device : Within(asked, d) => device_sel_resp = d
    /\ \A d \in Device : was_err[d] <=> Within(asked, d) /\ ~For(asked, d)
    /\ \A d \in Device : For(asked, d) => device_rsp[d].data.addr = asked.addr % 65536

BusInv ==
    /\ main_mem_req \in mem_req_t
    /\ decode_err_resp \in BOOLEAN
    /\ was_err \in [Device -> BOOLEAN]
    /\ \A d \in Device : device_rsp[d].err \in BOOLEAN
    /\ asked.req => Remembered
=============================================================================
