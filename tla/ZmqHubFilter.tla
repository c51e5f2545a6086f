---------------------------- MODULE ZmqHubFilter ----------------------------
(***************************************************************************)
(* Bringing up a ZMQ hub interface (csp_if_zmqhub.c) and the first         *)
(* routing decision on the frames it then receives.                        *)
(*  - csp_zmqhub_init (through csp_zmqhub_init_w_endpoints and             *)
(*    csp_zmqhub_init_w_name_endpoints_rxfilter) registers the interface   *)
(*    with its address and subscribes to every frame;                      *)
(*  - csp_zmqhub_init_filter2 subscribes, for each of the 4 priorities, to *)
(*    the 2-byte prefixes of the interface address, its subnet broadcast   *)
(*    and the global broadcast address, unless promiscuous.                *)
(* A frame passes the subscription when it starts with a subscribed       *)
(* prefix: the empty one (everything) or two bytes compared with the       *)
(* priority and destination of the CSPv2 header, big-endian;               *)
(* the router then decides is_to_me (csp_route.c:142).                     *)
(***************************************************************************)
EXTENDS Naturals, Bitwise

CONSTANTS
    HOST_BITS,   \* csp_id_get_host_bits(): 14 for CSPv2
    Addrs,       \* the addresses init is called with
    Netmasks,    \* the netmasks csp_zmqhub_init_filter2 is called with
    Dsts,        \* destination addresses of the frames that arrive
    Lens,        \* sizes of the ZMQ messages that arrive
    HEADER_SIZE, \* the CSP header in front of the data: 6 for CSPv2
    DATA_SIZE,   \* sizeof(packet->data), CSP_BUFFER_SIZE
    NoIface, NoRx

VARIABLES
    iface,   \* the registered interface: [addr, netmask], or NoIface
    subs,    \* the subscribed prefixes (byte sequences)
    rx       \* the last frame the RX thread copied into a packet: its
             \* priority, destination, length and is_to_me verdict

vars == <<iface, subs, rx>>

Prios == 0..3
U16(x) == x % 2^16

\* Mutant: a hostmask one bit too wide.
HostmaskWide(netmask) == {U16(2^(HOST_BITS - netmask + 1) - 1)}

\* hostmask = (1 << (host_bits - netmask)) - 1, truncated to uint16_t.  A
\* netmask above host_bits shifts by a negative count (undefined): the build
\* either shifts by the count modulo 32, as x86 does, or folds it to 0.
\* (1 << k) - 1 kept to 16 bits: k ones, or all 16 once k reaches 16 (for
\* k = 31 the int subtraction wraps on x86 and the low bits are ones too).
Ones16(k) == IF k >= 16 THEN 2^16 - 1 ELSE 2^k - 1

Hostmask(netmask) ==
    IF netmask <= HOST_BITS THEN {Ones16(HOST_BITS - netmask)}
    ELSE {Ones16((HOST_BITS - netmask) % 32), 0}

\* Mutant: a byte swap written as (v << 8) | (v >> 8) in int, unmasked.
Bswap16Unmasked(v) == v * 256 + v \div 256

\* __builtin_bswap16.
Bswap16(v) == (v % 256) * 256 + v \div 256

\* filt[i][0..2] for priority i.
Filters(addr, hm) ==
    UNION {{U16((i * 2^14) | addr),
            U16((i * 2^14) | addr | hm),
            U16((i * 2^14) | 16383)} : i \in Prios}

\* The two bytes ZMQ_SUBSCRIBE gets: the uint16_t as laid out in memory on a
\* little-endian host.
FilterPrefix(v) == <<Bswap16(v) % 256, Bswap16(v) \div 256>>

\* The first two bytes of a CSPv2 frame: priority (2 bits) and destination
\* (14 bits), big-endian.
FramePrefix(prio, dst) == <<prio * 64 + dst \div 256, dst % 256>>

\* ZMQ's prefix match; the frames here are longer than two bytes.
Admitted(prio, dst) == <<>> \in subs \/ FramePrefix(prio, dst) \in subs

\* csp_id_is_broadcast: all host bits set, network bits those of the
\* interface.
IsBroadcast(dst, ifc) ==
    LET k == HOST_BITS - ifc.netmask
    IN  dst % 2^k = 2^k - 1 /\ dst \div 2^k = ifc.addr \div 2^k

\* is_to_me (csp_route.c:142) with this as the only interface.
IsToMe(dst) == dst = iface.addr \/ IsBroadcast(dst, iface)

Init ==
    /\ iface = NoIface
    /\ subs = {}
    /\ rx = NoRx

\* csp_zmqhub_init(addr, host, 0, NULL) as pycsp's zmqhub_init calls it:
\* the address is registered, the netmask is left 0 by calloc, and the
\* subscriber takes every frame (ZMQ_SUBSCRIBE with an empty prefix).
ZmqhubInit(addr) ==
    /\ iface = NoIface
    /\ iface' = [addr |-> addr, netmask |-> 0]
    /\ subs' = {<<>>}
    /\ UNCHANGED rx

\* csp_zmqhub_init_filter2: neither addr nor netmask is stored in the
\* calloc'ed interface; the filters are built from the arguments.
ZmqhubInitFilter2(addr, netmask, promisc) ==
    /\ iface = NoIface
    /\ iface' = [addr |-> 0, netmask |-> 0]
    /\ \E hm \in Hostmask(netmask) :
         subs' = IF promisc THEN {<<>>}
                 ELSE {FilterPrefix(v) : v \in Filters(addr, hm)}
    /\ UNCHANGED rx

\* One iteration of csp_zmqhub_task for a message that passed the
\* subscription: a message shorter than HEADER_SIZE is dropped, any other
\* is copied whole (datalen bytes) to frame_begin and handed to the
\* router, which decides is_to_me.
Receive(prio, dst, len) ==
    /\ iface # NoIface
    /\ Admitted(prio, dst)
    /\ len >= HEADER_SIZE
    /\ rx' = [prio |-> prio, dst |-> dst, len |-> len, toMe |-> IsToMe(dst)]
    /\ UNCHANGED <<iface, subs>>

Next ==
    \/ \E a \in Addrs : ZmqhubInit(a)
    \/ \E a \in Addrs, n \in Netmasks, p \in BOOLEAN : ZmqhubInitFilter2(a, n, p)
    \/ \E p \in Prios, d \in Dsts, l \in Lens : Receive(p, d, l)

Spec == Init /\ [][Next]_vars

-----------------------------------------------------------------------------
(* Properties *)

TypeOK ==
    /\ iface \in {NoIface} \cup [addr : 0..2^16 - 1, netmask : 0..2^16 - 1]
    /\ subs \subseteq {<<>>} \cup (0..255) \X (0..255)
    /\ rx \in {NoRx} \cup [prio : Prios, dst : Dsts, len : Lens, toMe : BOOLEAN]

\* The reference: a frame is meant for an interface with address addr and
\* netmask netmask when it goes to addr, to the subnet's broadcast address,
\* or to the global broadcast address 2^HOST_BITS - 1.
IntendedFor(addr, netmask, dst) ==
    LET k == HOST_BITS - netmask
    IN  \/ dst = addr
        \/ dst % 2^k = 2^k - 1 /\ dst \div 2^k = addr \div 2^k
        \/ dst = 2^HOST_BITS - 1

\* The subscriptions csp_zmqhub_init_filter2 installs, for a valid address
\* and not promiscuous, let through a frame of any priority exactly when it
\* is meant for the interface, for every netmask up to host_bits: the
\* priority shift, the hostmask arithmetic, the byte swap and ZMQ's prefix
\* match agree.  For a netmask past host_bits, where the shift at line 336
\* is undefined, whatever the build makes of it the filter lets through no
\* frame meant for another node (the netmask counts as host_bits).
FilterExact ==
    [][\A a \in Addrs, n \in Netmasks :
         ZmqhubInitFilter2(a, n, FALSE) /\ a < 2^HOST_BITS =>
           \A p \in Prios, d \in 0..2^HOST_BITS - 1 :
             LET admitted == FramePrefix(p, d) \in subs'
                 meant == IntendedFor(a, IF n <= HOST_BITS THEN n ELSE HOST_BITS, d)
             IN  /\ admitted => meant
                 /\ n <= HOST_BITS => (meant => admitted)]_vars

\* Every frame a filtering (non-promiscuous) subscription lets through is
\* one the router then treats as addressed to this node: the interface the
\* init registers carries the address the filters were built for.
FilteredFramesToMe == rx # NoRx /\ <<>> \notin subs => rx.toMe

\* The RX thread never copies more into a packet than the frame it sets
\* up holds: the header in front of the data and the data itself, the
\* size zmq_msg_init_size prepares the message for.  Any publisher on the
\* hub decides the message size.
RxCopyFits == rx # NoRx => rx.len <= HEADER_SIZE + DATA_SIZE
=============================================================================
