# TLA+ models of libcsp's receive path

This directory models the parts of libcsp in this repository that share state
at run time:

- the buffer pool;
- the connection table (`src/src/csp_conn.c`);
- the router (`csp_route_work`, `src/src/csp_route.c`);
- the ZMQ hub driver (`src/src/interfaces/csp_if_zmqhub.c`);
- the Python binding's calls and its capsule layer (`src/src/bindings/python/pycsp.c`).

They are checked with TLC.

## The system

### Parts (inventory)

| Part | Source | State | Operations | Modelled in |
|---|---|---|---|---|
| Buffer pool | `include/csp/csp_buffer.h` (implementation not in the repo) | per slot: a reference count and the packet header it holds | get (fails at the reserve), free, remaining | `CspBuffer` |
| Connection table | `csp_conn.c` | `arr_conn[]`: state, idin, idout, rx queue (length 20), dest_socket, opts | `csp_conn_init`, `csp_conn_find`, `csp_conn_new`, `csp_close`, `csp_connect` | `CspConn` |
| Port table | `csp_port.h` | `ports[]`: callback, socket | fixed before traffic (`csp_bind` and `csp_listen` are not in src) | the constant `PortTable` |
| Security gate | `csp_route.c:24-103` | none: pure | `csp_route_check_options`, `csp_route_security_check` | `CspSecurity` |
| Router | `csp_route.c:112-296` | its locals between steps | one `csp_route_work` per packet | `CspRoute` (`Route*` actions) |
| Router input queue | `csp_qfifo.c` (not in the repo) | a bounded FIFO of buffers | write (full: count rx_error and free), read | `CspRoute.qfifo` |
| ZMQ hub driver | `csp_if_zmqhub.c` | one RX thread, one publisher lock, the registered interface, the subscriptions | `csp_zmqhub_task` loop, `csp_zmqhub_tx`, `csp_zmqhub_init`, `csp_zmqhub_init_filter2` | `ZmqRx`, `ZmqTx` (`CspRoute`); `ZmqHubFilter` |
| Python binding | `pycsp.c` | capsules: the connections and buffers a task holds | connect, accept, read, recvfrom, send, buffer_get/free, close | `App*` actions |
| Python capsule layer | `pycsp.c:17-103`, send/sendto/sendto_reply, connect, close, buffer_get/free | per capsule: a pointer or the freed marker; per thread: the call in progress with the GIL released | the calls above, service_handler, the two capsule destructors | `PycspCapsule`, refining `PycspCalls` |
| Dedup filter | `csp_route.c:144-153`; `csp_dedup.c` not in the repo | the last `DEDUP_WINDOW` headers seen | dispatch by `csp_conf.dedup`, drop and count | `CspRoute` (`DedupApplies`, `RouteDuplicate`) |
| RDP, SFP, hooks | not in src or API only | | | not modelled (see "Not modelled") |

### How the parts interact

The ZMQ RX thread takes a buffer and writes it to the router's input queue.

The router task pops one packet per `csp_route_work` and does one of the following:

- forwards it to the ZMQ nexthop, which frees it;
- frees it, if it is a drop;
- hands it to a callback;
- queues it on a connection-less socket;
- finds or creates a connection, appends the packet to the connection's queue, and posts the connection once to the socket's accept queue.

Application tasks connect, accept, read, send and close concurrently with the router.

`csp_conn.c` takes **no lock**: `csp_conn_new` tests and claims a slot in two steps, and `csp_close` drains the queue and then marks the slot closed. The model splits both operations at those points, so another task may run between the two steps.

### Hard behaviours

- The interleaving of the router with application tasks on the connection table.
- Pool exhaustion and the reserve.
- Full input, connection and accept queues.
- Slot reuse after close, with state that `csp_conn_new` does not reset.
- The fixed source port of `csp_connect` (modelled in `ConnectIds`; a known limitation, see the `csp_conn.c:136` hazard).
- Python threads sharing packet and connection capsules across the GIL release in send, sendto and sendto_reply.
- ZMQ message sizes chosen by any publisher.

The version mismatch noted under "Source versions" compounds these.

### Source versions

`csp_route.c` and `pycsp.c` are written against a newer connection API than the `csp_conn.c` in this tree. They call:

- `csp_conn_new(id, idout, type)`;
- `csp_conn_find_existing`;
- `csp_conn_enqueue_packet`;
- a 5-argument `csp_connect`.

The model translates each file as it is:

- `csp_conn_find_existing` is `csp_conn_find` with the mask `CONN_MASK`;
- `csp_conn_enqueue_packet` is an enqueue on the 20-slot rx queue;
- connections are created by this `csp_conn_new`, which resets neither `dest_socket` nor `opts`.

## Modules

- **`CspBuffer`**
  - State: `refc` and `hdr`.
  - `Get` / `Release` model `csp_buffer_get` / `csp_buffer_free`.
  - `CanGet` is the reserve rule: get succeeds while more than `CSP_BUFFER_RESERVE` slots are free.
  - A slot's header is cleared when its count reaches 0.
- **`CspConn`**
  - State: `conns`.
  - `Find` is `csp_conn_find`: the first slot that is not closed and whose masked idin matches.
  - `FirstFree` and `Claim` are the two steps of `csp_conn_new`.
  - `Drain` and `SetClosed` are the two steps of `csp_close`.
  - `CloseWith` is a close by the router itself, which runs both steps back to back.
  - `ConnectIds` gives the identifiers of `csp_connect` (sport 31).
- **`CspSecurity`**
  - The two gates as pure operators: the result is `"none"` or the counter to increment.
  - The checks are in the code's order: CRC32, then HMAC, then RDP.
- **`CspRoute`** composes the above through `INSTANCE` with shared variables.
  - The router task has a program counter `rt.pc` with these steps:
    - `input` runs lines 124-240;
    - `new_check` and `claim` are the two steps of `csp_conn_new` at line 243, plus lines 245-253;
    - `deliver` runs lines 276-293.
  - `RouteInput` is split by the branches of the code into `RouteForward`, `RouteUnsupported`, `RouteCallback`, `RouteConnLess` and `RouteToConn`.
  - `ZmqRx` is one iteration of the RX thread's loop. The frame is short, unparsable or good, and the pool may be exhausted.
  - The `App*` actions are the binding's calls. Connect and close take two steps each, as their `csp_conn.c` bodies do.
- **`MC_CspRoute`** gives the model's values and the constraint `NoConcurrentConnNew`. It also maps the state onto `DatagramChannel` for the connection-less socket `s_cl`:
  - the abstract `chan` is `sockq["s_cl"]` followed by the packets for `s_cl` still in the input queue;
  - the abstract `got` is the set of `s_cl` packets the tasks hold.
- **`DatagramChannel`** is the abstract specification of a connection-less socket (spec 4.6 step 11): a lossy FIFO. Datagrams may be lost, but are never duplicated, reordered or invented.
- **`ZmqHubFilter`** models bringing up a ZMQ hub interface, and the router's first decision on the frames it then receives.
  - `ZmqhubInit` is `csp_zmqhub_init`, through `_w_endpoints` and `_w_name_endpoints_rxfilter`: it registers the address and subscribes to every frame (the empty prefix).
  - `ZmqhubInitFilter2` is `csp_zmqhub_init_filter2`. It builds the 12 filters from `(i << 14) | addr`, the hostmask and 16383, swaps their bytes, and subscribes to them.
  - `Hostmask` models the undefined shift for a netmask past 14 as the outcomes the build can produce: the count modulo 32, as on x86, or 0.
  - `Receive` is a frame passing ZMQ's prefix match. It is followed by `is_to_me` (`csp_route.c:142`) against the registered interface.
  - `FramePrefix` (the CSPv2 header layout), `Admitted` (ZMQ's prefix match) and `IsBroadcast` (`csp_id_is_broadcast`) model code that is not in the repository, so they follow the spec.
  - `Receive` also takes the message length. It drops a message shorter than `HEADER_SIZE`, as line 122 does, and otherwise copies it whole (line 142).
- **`PycspCapsule`** models the binding's capsule layer, shared by Python threads.
  - `pcap[k]` is a packet capsule's content: a buffer, `"FREED"` (the marker `CSP_POINTER_HAS_BEEN_FREED`) or `"none"` (no such object). `ccap` is the same for connection capsules. `Pointer` is `get_capsule_pointer`.
  - Calls that keep the GIL are single steps: `BufferGet`, `BufferFree`, `ServiceHandler` and `Close`. `Connect` is one step too, although `pycsp_connect` releases the GIL around `csp_connect` (lines 372-374): it reads no capsule in that window, and the capsule is made only after it, so no other thread can observe the difference.
  - `Consume` (the `*End` steps) folds the libcsp free inside the GIL-released window and `PyCapsule_SetPointer` after it into one step. Between the two, the capsule points at a freed slot another thread could reuse; with private capsules no other thread can reach that capsule, and with shared ones `InFlightOwned` already fails earlier.
  - `send`, `sendto` and `sendto_reply` release the GIL around the libcsp call. Each is two steps: `*Begin` reads the pointer, and `*End` has the libcsp call free the packet and then marks the capsule freed.
  - `FreeCspBuffer` and `FreeCspConn` are the destructors. They run once no call in progress holds the capsule (`InUse`).
  - `CapsOf[t]` and `ConnsOf[t]` are the capsules thread `t` passes to calls.
- **`PycspCalls`** is the abstract specification of the binding: every call is one step, as if the GIL were held throughout, and there are no threads. `PycspCapsule` maps onto it through `Calls == INSTANCE PycspCalls WITH ...`. A call that releases the GIL takes effect at its `*Begin` step: from there its capsule maps to `"FREED"` and its packet's count to one less (`InFlight`, `Flying`). The `*End` step then changes nothing visible.
- **`SecurityGate`** instantiates `CspSecurity` for all four builds (`CSP_USE_HMAC` and `CSP_USE_RDP` on or off), through a parameterised `INSTANCE`. Each step puts one packet and policy through both gates, in the order of `csp_route_work`.
- **Dedup in `CspRoute`.**
  - `DedupApplies` is the dispatch on `csp_conf.dedup` (route 144-147).
  - `RouteDuplicate` is the drop and its counter (148-153).
  - The filter itself (`IsDuplicate`, `DedupRecord`) follows spec 4.4, because `csp_dedup.c` is not in the repository. It is a FIFO of the last `DEDUP_WINDOW` headers.
  - The constant `DEDUP` is `"incoming"` in `route_buffers` and `route_datagram` and `"off"` in the violation runs. No property compares the dispatch with spec 4.4: in a run with one mode it would only restate the three lines of `DedupApplies`.
- **`MC_ZmqHubFilter`** uses:
  - addresses 5, 300 and 8191;
  - netmasks 0, 6, 8, 14 and 15;
  - six frame destinations;
  - message lengths `HEADER_SIZE - 1`, `HEADER_SIZE`, `HEADER_SIZE + DATA_SIZE` and one more, with `HEADER_SIZE = 6` and `DATA_SIZE = 256`.
- **`MC_PycspCapsule`** uses two threads and 4 buffers with a reserve of 2, so a third `buffer_get` fails.
  - The private run has three packet capsules and two connections, each thread with its own (`MCPrivateCaps`, `MCPrivateConns`).
  - The shared run has two packet capsules and one connection, which both threads use (`MCSharedCaps`, `MCSharedConns`).

## Runs

Unless a cfg says otherwise, every run uses:

- 4 buffers, with a reserve of 2;
- 2 connection slots, each with an rx queue of length 1;
- an input queue of 1 and socket queues of 1;
- one application task;
- at most 2 received frames (`MAX_RX`);
- dedup off (`DEDUP = "off"`), except in `route_buffers` and `route_datagram`, which use `"incoming"` with a window of 1.

`route_datagram` (`MC_CspRoute_Datagram.cfg`) differs: 5 buffers with a reserve of 1 (so up to four are in use), an input queue of 2, socket queues of 2, at most 4 frames, no connect targets, and four headers to the connection-less port 2 (good CRC32 from source ports 4 and 5, CRC32 missing, CRC32 bad). Two different datagrams can therefore wait in the socket queue behind each other, a third overflows it, and dedup drops only a back-to-back repeat.

The 9 headers cover every branch of `csp_route_work`:

- forwarded;
- a callback port;
- a connection-less socket with and without CRC32;
- a server port from two source ports;
- a bad CRC;
- a reply to `csp_connect`;
- HMAC on a build without HMAC.

| Run | Expect | Checks | Result |
|---|---|---|---|
| `route_buffers` (`MC_CspRoute.cfg`) | pass | `TypeOK`, `BufferConservation`, `RouterDrains` | 180,556 distinct states in about 40 s; every action and disjunct fires except the connection-less overflow drop, which `route_datagram` takes |
| `route_datagram` (`MC_CspRoute_Datagram.cfg`) | pass | `BufferConservation`, `DatagramRefinement` | 93,220 distinct states in about 40 s: datagrams queue behind each other on `s_cl` and overflow it |
| `conn_new_race` | violation | `ExclusiveConn` | 10 states: the router and the task claim the same slot |
| `stale_dest_socket` (`MAX_RX=3`, constraint `NoConcurrentConnNew`) | violation | `ExclusiveConn` | 18 states: a client connection is posted to a server's accept queue |
| `close_deliver_race` (constraint `NoConcurrentConnNew`) | violation | `QueuedPacketsMatchConn` | 13 states: a reply survives a close into the slot's next connection |
| `drops_counted` | violation | `DropsCounted` | 3 states: a reply with no connection (port 31, no socket) is freed with no counter |
| `zmq_filter` (`MC_ZmqHubFilter.cfg`) | pass | `TypeOK`, `FilterExact` | 480 distinct states in about 12 s |
| `zmq_filter2_iface_addr` | violation | `FilteredFramesToMe` | 3 states: `init_filter2(5, ...)` admits a frame to 5, which the router sees as not to me |
| `zmq_rx_overrun` | violation | `RxCopyFits` | 3 states: a message of 263 bytes is copied into a 262-byte frame |
| `security_truth_table` (`SecurityGate.cfg`) | pass | `GateMatchesSpec` | 1,025 distinct states: every build, policy and flag combination |
| `capsule_private` (`MC_PycspCapsule.cfg`) | pass | `TypeOK`, `CapsuleConservation`, `CallsAtomic` | 1,868 distinct states in about 2 s; every action fires |
| `capsule_shared_gil` (`MC_PycspCapsule_Shared.cfg`) | violation | `InFlightOwned` | 4 states: t1 starts sendto, and t2 calls buffer_free on the same capsule while csp_sendto still uses the packet |

The properties:

- **`BufferConservation`**: each slot's reference count equals the number of places holding it. The places are the input queue, the connection queues, the connection-less socket queues, the tasks and the router. This catches leaks and double frees on every drop, overflow and close path. A packet left in the rx queue of a closed slot (the close race of `csp_conn.c:110-121`) still counts as held, because the slot's next close or reuse frees it; that race is `QueuedPacketsMatchConn`'s.
- **`RouterDrains`**: the router infinitely often has an empty input and sits between packets. It catches a router that waits on a full table.
- **`ExclusiveConn`**: an open connection has at most one user, where a user is a task holding it or an accept-queue entry.
- **`QueuedPacketsMatchConn`**: every packet queued on an open connection carries that connection's identifier.
- **`DatagramRefinement`**: `Datagram!Spec`, the abstract channel under the mapping above. It covers the ZMQ RX thread, the connection-less branch of the router (security drop, enqueue, overflow drop) and `pycsp_recvfrom`. Together they implement a lossy FIFO: the reader gets each datagram at most once and in arrival order, and gets only datagrams that were received.
- **`DropsCounted`**: an action property. A router step that frees a packet addressed to this node, other than by giving it to a callback, increments an error counter (spec 7).
- **`FilterExact`**: for each modelled address (5, 300 and 8191) and every modelled netmask up to 14, the subscriptions installed by `csp_zmqhub_init_filter2` admit a frame of any priority exactly when its destination is one of the following:
  - the address;
  - the subnet broadcast;
  - 16383.

  All 16384 destinations are checked against an arithmetic reference definition. For netmask 15, where the shift at line 336 is undefined, the property asks only that no foreign frame is admitted (the netmask counts as 14). It asks this for both outcomes the build can produce.
- **`FilteredFramesToMe`**: every frame a filtering subscription admits is `is_to_me` for the router.
- **`RxCopyFits`**: the RX thread never copies more bytes into a packet than its frame holds, which is the header plus `CSP_BUFFER_SIZE`. It fails: line 142 has no upper bound, and the sender picks the size.
- **`GateMatchesSpec`**: for every build, policy and packet, the two gates accept exactly the packets that spec 4.5's rules accept. An `autherr` is counted only when HMAC is involved.
- **`CapsuleConservation`**: every buffer's reference count equals the number of capsules that still point at it. With private capsules, the binding's freed marker makes every path free each packet exactly once, destructors included.
- **`InFlightOwned`** (checked in `capsule_shared_gil` only; with private capsules the `*Begin` guards and `InUse` make it hold by construction): while a call runs with the GIL released, its capsules still hold what it gave libcsp:
  - the packet being sent;
  - the request of `sendto_reply`;
  - the connection of `send`, which must still be open.

  It fails. Another thread's `buffer_free` frees the packet `csp_sendto` is sending; later the same call frees it again. Another thread's `close` would likewise close the connection under `csp_send`.
- **`CallsAtomic`**: `Calls!Spec`. Seen from Python, every call of the binding is atomic, and the pool's reserve is kept.

Why the violation runs are set up as they are:

- The constraint `NoConcurrentConnNew` forbids two claims in flight at once. It lets `stale_dest_socket` and `close_deliver_race` show bugs that remain even if `csp_conn_new` were made atomic.
- `stale_dest_socket` needs three frames: two server connections that fill the accept queue, then the reply.

Each property of the passing run has a mutant in `PROJECT.json`:

| Property | Mutated definition | Mutation |
|---|---|---|
| `TypeOK` | `CanEnqueue` | off-by-one |
| `BufferConservation` | `CloseWith` | the closing router's packet is leaked |
| `RouterDrains` | `RouteNewCheck` | waits for a free slot |
| `DatagramRefinement` | `AppRecvFrom` | peeks without dequeuing |
| `BufferConservation` (datagram) | `RouteConnLess` | the overflowing datagram is counted but not freed |
| `TypeOK` (filter) | `Bswap16` | unmasked byte swap in `int` |
| `FilterExact` | `Hostmask` | one bit too wide |
| `BufferConservation` (dedup) | `RouteDuplicate` | the duplicate's buffer is not freed |
| `GateMatchesSpec` | `SecurityCheck` | HMAC rules applied when HMAC is compiled out |
| `CapsuleConservation` | `BufferFree` | the pointer is left in the capsule |
| `TypeOK` (capsules) | `Consume` | the pointer is left in the capsule after send |
| `CallsAtomic` | `BufferGet` | the get also hands out the reserved slots |

**Fairness.** The spec has `WF_vars(Router)` only. The router is a dedicated thread that loops on `csp_route_work` (`csp_task_router`, pycsp.c:464-472). The RX thread and the application tasks are driven by outside input and need not progress.

**Bounds.** With 2 slots, two connects, or two server connections, exhaust the table. With a queue length of 1, a second packet overflows it. With 4 buffers and a reserve of 2, two held buffers starve the driver. Every drop and overflow branch of the connection path therefore happens within 2 to 3 frames. The connection-less overflow needs a socket queue of 2 with two datagrams waiting, which only `route_datagram` has; between them the two runs take every disjunct.

## Not modelled, and why

- **RDP hand-off and `csp_conn_check_timeouts`**: `CSP_USE_RDP` is off, and `csp_rdp.c` is not in the repository.
- **Dedup expiry**: `csp_dedup.c` is not present. Its window is modelled as the last `DEDUP_WINDOW` headers, not as time. Whether a copy dropped after the filter recorded it should still count as seen is a hazard with no property, because spec 4.4 does not say.
- **The socket capsule destructor and `transaction`**: they call `csp_socket_close` and `csp_transaction`, which are not in src.
- **RDP (`csp_rdp.c`)**: not in the repository. Spec 4.7 describes it only in prose, so a module built from that would check the spec against itself, not against this code.
- **CSPv1 framing**: the v1 header layout is defined in `csp_id.c`, which is not in the repository. `ZmqHubFilter` uses the CSPv2 layout. The hazard that `init_filter2` builds v2 prefixes under CSPv1 (zmqhub:359) is recorded without a property.
- **An atomic connection table for `CspConn` to refine**: it would fail for the reasons the `conn_new_race`, `stale_dest_socket` and `close_deliver_race` runs already show.
- **`packet_set_data`, `packet_get_data` and `packet_get_length`**: they change only payload bytes and the length, which the model abstracts.
- **SFP and the platform hooks**: there is only a header, and the hooks are no-ops.
- **Promiscuous mode**: compiled out.
- **CMP, ping, the routing table and the other drivers**: the binding calls them, but their code is not in src.
- **ZMQ endpoint strings, CURVE keys and keep-alive options**: configuration with no effect on routing. The filter setup is modelled in `ZmqHubFilter`.
- **Payload bytes**: abstracted away. Only the message length is kept, for `RxCopyFits`.

## Plan

1. Done: `CspBuffer`, `CspConn`, `CspSecurity` and `CspRoute`, with the runs above.
2. Done in the second sitting:
   - `DropsCounted`;
   - `ZmqHubFilter` with its two runs;
   - `DatagramChannel` and its refinement.
3. Done in the third sitting:
   - the security truth table (`SecurityGate`);
   - dedup in `CspRoute`;
   - the RX length (`RxCopyFits`);
   - the capsule layer (`PycspCapsule`).
4. Done in the fourth sitting:
   - `PycspCalls` and the refinement `CallsAtomic`;
   - `InFlightOwned`, for the packets and the connection a GIL-releasing call uses (now checked where it can fail, with shared capsules);
   - `FilterExact` extended past the host bits;
   - the private and shared runs split by connection as well as by packet.
5. Done in the fifth sitting: `route_datagram`, with bounds at which datagrams queue and overflow; `DedupPerMode`, `UniqueConnIdentity` and the private-run `InFlightOwned` dropped as restating single guards.
6. The remaining parts depend on code that is not in the repository (see "Not modelled").
