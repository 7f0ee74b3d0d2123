----------------------------- MODULE MacFilter ------------------------------
(***************************************************************************)
(* mac_address_filter.sv and the drop decision of ethernet_rx_framing.sv.  *)
(* The filter compares the bytes of a packet's destination address one by  *)
(* one as they arrive; the packet is captured for one of three reasons or  *)
(* in promiscuous mode.                                                    *)
(*                                                                         *)
(* One step is one clock cycle with one beat b of the stream.  Software    *)
(* may write the configuration in any cycle, also in the middle of a       *)
(* packet, and half a MAC address at a time.                               *)
(***************************************************************************)
EXTENDS Naturals, Sequences

CONSTANTS
    AddrLen,            \* 6
    PrefixLen,          \* 3
    Byte, FF,           \* values of a byte, and 8'hFF
    multicast_address,  \* 01:00:5E
    MacAddress          \* values of the MAC address registers

ASSUME FilterAssumption ==
    /\ AddrLen \in Nat \ {0} /\ PrefixLen \in 1 .. AddrLen
    /\ FF \in Byte
    /\ multicast_address \in [1 .. PrefixLen -> Byte]
    /\ MacAddress \subseteq [1 .. AddrLen -> Byte]

VARIABLES
    rx_config,          \* mac_addr and promiscuous_mode
    n_mac_bytes_checked,
    could_be,           \* the three registers could_be_..._q
    seen,               \* history: the first AddrLen bytes of this packet so far
    steady              \* history: the configuration has not changed since it began

filterRegs == <<n_mac_bytes_checked, could_be>>
vars == <<rx_config, filterRegs, seen, steady>>

Reason == {"MAC_MATCHES", "MAC_BROADCAST", "MAC_MULTICAST", "NON_MAC_MATCH"}
Config == [mac_addr : MacAddress, promiscuous : BOOLEAN]
Beat == [valid : BOOLEAN, last : BOOLEAN, data : Byte, user : BOOLEAN]

Undecided == [broadcast |-> TRUE, mac_match |-> TRUE, multicast |-> TRUE]

-----------------------------------------------------------------------------
\* Fault: the prefix is not compared at its first byte.
could_be_multicast_next_late(data) ==
    IF n_mac_bytes_checked > 0 /\ n_mac_bytes_checked < PrefixLen
    THEN could_be.multicast /\ data = multicast_address[n_mac_bytes_checked + 1]
    ELSE could_be.multicast
could_be_multicast_next(data) ==
    IF n_mac_bytes_checked < PrefixLen
    THEN could_be.multicast /\ data = multicast_address[n_mac_bytes_checked + 1]
    ELSE could_be.multicast

could_be_next(data) ==
    [broadcast |-> could_be.broadcast /\ data = FF,
     mac_match |-> could_be.mac_match /\ data = rx_config.mac_addr[n_mac_bytes_checked + 1],
     multicast |-> could_be_multicast_next(data)]

capture_reason ==
    IF could_be.mac_match THEN "MAC_MATCHES"
    ELSE IF could_be.multicast THEN "MAC_MULTICAST"
    ELSE IF could_be.broadcast THEN "MAC_BROADCAST"
    ELSE "NON_MAC_MATCH"

abandon_packet(b) ==
    \/ capture_reason = "NON_MAC_MATCH" /\ ~rx_config.promiscuous
    \/ b.user /\ b.valid        \* bad CRC

-----------------------------------------------------------------------------
Init ==
    /\ rx_config \in Config
    /\ n_mac_bytes_checked = 0
    /\ could_be = Undecided
    /\ seen = <<>>
    /\ steady = TRUE

\* Fault: the comparison is not restarted for the next packet.
FilterNoRestart(b) ==
    IF b.valid /\ b.last
    THEN n_mac_bytes_checked' = 0 /\ UNCHANGED could_be
    ELSE IF b.valid /\ n_mac_bytes_checked < AddrLen
    THEN n_mac_bytes_checked' = n_mac_bytes_checked + 1 /\ could_be' = could_be_next(b.data)
    ELSE UNCHANGED filterRegs

Filter(b) ==
    IF b.valid /\ b.last
    THEN n_mac_bytes_checked' = 0 /\ could_be' = Undecided
    ELSE IF b.valid /\ n_mac_bytes_checked < AddrLen
    THEN n_mac_bytes_checked' = n_mac_bytes_checked + 1 /\ could_be' = could_be_next(b.data)
    ELSE UNCHANGED filterRegs

SeenAfter(b) == IF Len(seen) < AddrLen THEN Append(seen, b.data) ELSE seen

\* A change of the configuration is seen from the next cycle on.
Observe(b, cfg) ==
    /\ seen' = IF ~b.valid THEN seen ELSE IF b.last THEN <<>> ELSE SeenAfter(b)
    /\ steady' = \/ b.valid /\ b.last
                 \/ seen = <<>> /\ ~b.valid
                 \/ steady /\ cfg = rx_config

Cycle(b, cfg) ==
    /\ Filter(b)
    /\ rx_config' = cfg
    /\ Observe(b, cfg)

Next == \E b \in Beat, cfg \in Config : Cycle(b, cfg)

Spec == Init /\ [][Next]_vars

-----------------------------------------------------------------------------
(* Properties. *)

\* The counter counts the address bytes compared.
TypeOK ==
    /\ rx_config \in Config
    /\ n_mac_bytes_checked \in 0 .. AddrLen
    /\ could_be \in [broadcast : BOOLEAN, mac_match : BOOLEAN, multicast : BOOLEAN]
    /\ seen \in Seq(Byte) /\ Len(seen) <= AddrLen
    /\ steady \in BOOLEAN

\* What the README says of a destination address, with the priority of the
\* capture reasons when several apply.
Multicast(a) == \A k \in 1 .. PrefixLen : a[k] = multicast_address[k]
Broadcast(a) == \A k \in 1 .. AddrLen : a[k] = FF
ReasonOf(a, mac) ==
    IF \A k \in 1 .. AddrLen : a[k] = mac[k] THEN "MAC_MATCHES"
    ELSE IF Multicast(a) THEN "MAC_MULTICAST"
    ELSE IF Broadcast(a) THEN "MAC_BROADCAST"
    ELSE "NON_MAC_MATCH"

\* Once the address has arrived, the capture reason is that of the address and of
\* the configured MAC address, up to the end of the packet.
ReasonDecided ==
    steady /\ Len(seen) = AddrLen => capture_reason = ReasonOf(seen, rx_config.mac_addr)

\* Before that the filter rejects nothing it may have to keep: an abandon cannot be
\* taken back, so as long as some address that begins with the bytes seen would be
\* kept, the reason is not NON_MAC_MATCH.
NoEarlyReject ==
    steady /\ capture_reason = "NON_MAC_MATCH" =>
        \A a \in [1 .. AddrLen -> Byte] :
            (\A k \in 1 .. Len(seen) : a[k] = seen[k])
                => ReasonOf(a, rx_config.mac_addr) = "NON_MAC_MATCH"

-----------------------------------------------------------------------------
(* The inductive invariant. *)

\* Each register compares the bytes seen so far with its pattern.
Compared ==
    /\ could_be.mac_match <=> \A k \in 1 .. Len(seen) : seen[k] = rx_config.mac_addr[k]
    /\ could_be.broadcast <=> \A k \in 1 .. Len(seen) : seen[k] = FF
    /\ could_be.multicast <=> \A k \in 1 .. Len(seen) :
                                  k <= PrefixLen => seen[k] = multicast_address[k]

IInv ==
    /\ TypeOK
    /\ n_mac_bytes_checked = Len(seen)
    /\ steady => Compared
    /\ seen = <<>> => steady
=============================================================================
