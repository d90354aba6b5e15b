# Verification of swift-netbot-corelibs

TLA+ models of the concurrent and stateful parts of swift-netbot-corelibs and of the
TCP/IP stack it carries (CNELwIP, a changed lwIP in C), the TLC runs that check them on
small instances, and TLAPS proofs of the properties that matter most. Every definition
that stands for code is listed in `PROJECT.json` ("map") with the lines it models. Paths
are relative to `src/Sources`; C files are named without their directory.

## The system

Netbot is a rule-based proxy and VPN. A packet or a proxy request becomes a `Connection`;
`AnalyzeBot` decides how to forward it and glues two channels together; names are resolved
by `LocalDNSProxy`, which can hand out *disguised* addresses (addresses of a private pool
that stand for a name); forwarding rules are evaluated by the rules engine; user-space
TCP/IP is lwIP, wrapped in NIO channels.

* The packet tunnel (`NetbotLwIP/LwIP.swift`) reads batches of IP packets. DNS packets go
  to `LocalDNSProxy.handlePacket`; TCP packets are input to lwIP on an event loop, and the
  loop reads the next batch when both are through.
* An `A` query is answered with a disguised address: a record of `disguisedARecords`, an
  `LRUCache`, or a fresh address of `AvailableIPPool`.
* When lwIP accepts a connection, `handleNewFlow` looks the address up in the same cache
  to find the name, connects to the local SOCKS proxy and copies in both directions.
* The proxy's connections resolve the name (`LocalDNSProxy`), evaluate the rules
  (`RulesEngine`, with an `LRUCache` of results), and connect. The profile, and with it the
  rules, may be replaced meanwhile.
* lwIP is a stack of its own: links (ethernet, bridge, PPP over serial lines, PPPoE and
  L2TP, SLIP, 6LoWPAN), address resolution, IP, transport, and three interfaces to
  applications (callbacks, netconns, sockets) around one tcpip thread.

### The C sources and their build options

`CNELwIP/include/lwipopts.h` compiles a part of lwIP: TCP, UDP, IPv4 and IPv6, ICMP,
neighbour discovery, MLD, ethernet with ARP, the tcpip thread with core locking, netconns
and sockets with `select` and `poll`. RAW, IGMP, DHCP, AutoIP, DNS, PPP, SLIP, the bridge,
6LoWPAN, forwarding and `LWIP_NETCONN_FULLDUPLEX` are sources of the repository that this
configuration leaves out. They are modelled as they are when their option is on; the
heap and the pools of `mem.c` and `memp.c` likewise (the Apple build uses `malloc`).
CNELwIP is only linked on macOS with the trait `ExperimentalLwIP`.

Where CNELwIP differs from lwIP the models follow CNELwIP: a listener accepts every
address and port (`tcp_in.c:319`, `:681`), `ip4_route` always takes the default interface
(`ip4.c:216`), and `ip4_input_accept` accepts every packet (`ip4.c:443`).

## Modules

Every module keeps the names of the source. Operators that no specification uses
(`FinishKeepsEntry`, `TimeBelow`, `RekeyOnce` ...) are variants with one plausible mistake
that the properties are tried against.

| module | models | state | one action per |
|---|---|---|---|
| `Recency`, `RecencyCache` | what an LRU cache promises | a bounded map, the order of use, the last answer | operation |
| `LRUCache` | `LRUCache.swift` | dictionary, `head`, `tail`, `next`, `prev`, the Mutex; the order of use as a history | operation; a walk is one action per entry |
| `AvailableIPPool` | `AvailableIPPool.swift`, `AvailableIPv6Pool.swift` | bounds, the atomic word, each caller's place; addresses given in this pass | atomic operation |
| `RulesEngine` | `RulesEngine.swift` | rules, result cache (`RecencyCache`), lookups, tasks | lock region or task step |
| `LocalDNSProxy` | `query(msg:)`, `startDNSq`, the channel tasks | streams and promises, channels, the wire, calls | lock region, await, network event |
| `LwIPConnection` | listener, channel, `handleNewFlow`'s task | the loop's queue, callbacks, pending writes, lwIP's buffer, the task | turn of the loop, step of the task, act of the peer |
| `PacketTunnel` | read loop, disguised addresses, the way back to a name | the pool, the records (`RecencyCache`), the batch, flows | await or loop turn |
| `Tcp`, `TcpConnection` | `tcp.c`, `tcp_out.c`, `tcp_in.c` | two control blocks, their queues and applications, the segments in flight | call, timer tick, segment |
| `Pcbs`, `Transport` | `tcp.c` (tables), `udp.c`, `raw.c`, `netif.c` | lists of blocks, ports, interfaces, addresses, loopback queue | call |
| `Heap`, `Pbuf` | `mem.c`, `memp.c`, `pbuf.c` | headers of the heap, pools; buffers with references | call; `mem_malloc`'s search is several |
| `Tcpip` | `tcpip.c`, `sys_arch.c`, `timeouts.c` | mailbox, semaphores, core lock, threads; the list of timeouts and the clock | semaphore or lock operation; tick |
| `Sockets` | `api_lib.c`, `api_msg.c`, `sockets.c` | netconns and their threads; socket table, `select` list; options | lock region, callback |
| `IpLayer` | `ip4.c`, `ip6.c`, `icmp.c`, `icmp6.c`, `ip4_frag.c`, `ip6_frag.c` | packets on their way, reassembly queues | packet, tick |
| `Etharp` | `etharp.c`, `ethernet.c` | table, queues, hosts | packet, tick |
| `Nd6` | `nd6.c` | neighbours, destinations, routers, prefixes, addresses | message, tick |
| `Multicast` | `igmp.c`, `mld6.c` | groups of several hosts, the router's view | message, tick |
| `Dhcp` | `dhcp.c`, `autoip.c`, `acd.c` | the client, the server's leases | message, timer |
| `Dns` | `dns.c` | table, requests, sockets | message, tick |
| `PppFsm` | `fsm.c` | state and counters of an automaton | event |
| `PppNegotiation` | `lcp.c`, `ipcp.c`, `ipv6cp.c`, `ccp.c` (options) | two ends and the packets between them | packet, timeout, fault |
| `PppAuth`, `PppLink` | `auth.c`, `ppp.c`, `upap.c`, `chap-new.c`, `eap.c` | phase, automata, authentication, timers | event |
| `Mppe` | `mppe.c`, `ccp.c` (reset) | keys of both ends, packets | packet |
| `SerialLine` | `pppos.c`, `slipif.c` | encoder, line, decoder | byte |
| `PppSessions` | `pppoe.c`, `pppol2tp.c` | clients, servers, packets | packet, timeout, call |
| `Vj` | `vj.c` | slots of both ends | segment |
| `Bridge` | `bridgeif.c`, `bridgeif_fdb.c` | ports, both tables, hosts | frame, tick |
| `Lowpan6` | `lowpan6.c`, `lowpan6_common.c` | fragments, reassembly list | datagram, frame, tick |

In most C modules a function that changes a structure is an operator from the structure to
its new value, as the code passes a pointer, and an action applies the whole call with
everything it calls. What interrupts a function in the code (another thread, a callback
into the caller, a free from another context) splits it into several actions.

Composition: `RulesEngine` and `PacketTunnel` instantiate `RecencyCache`, which `LRUCache`
is proved to implement; `PacketTunnel` instantiates `AvailableIPPool` and takes from
`LocalDNSProxy` that a query which is sent on ends (`QueriesEnd`). `TcpConnection` puts two
blocks of `Tcp` on a network; `Transport` moves the blocks of `Pcbs` with the interfaces;
`PppLink` composes `PppFsm` and `PppAuth`, `PppNegotiation` composes `PppFsm` with the options.

`MC...` modules give the constants values for TLC. A module like `MCStack` holds several
small instances: the variable `part` names the component that takes the steps of a
behaviour, the others stay as they were initialised, and `RunX` is component X's
next-state relation. `...Proofs` modules hold the theorems.

### Abstractions

* Names, hosts, addresses and payloads are model values. A byte of a stream is its
  position, so that order, loss and repetition are visible. A checksum that matters
  carries what it was computed from.
* Integers that wrap have their width as a constant (`SEQ`, `TIME`, `Modulus`, `U16`,
  `MPPE_CCOUNT_SPACE` ...).
* A rule's predicate, a digest or an option's acceptance is a table of outcomes.
* Where only the order matters a timer may fire at any moment while it is set; where the
  length matters (ARP ages, leases, memberships, timeouts) ticks are counted.
* An allocation may fail where that can be told from a message lost on the way: blocks,
  pools and the heap, `tcp_write` and `tcp_enqueue_flags`, netconn writes, queue entries of
  neighbour discovery, joins of groups, requests of the PPP automata, the DNS resolver's
  sockets, the DHCP client's control block and messages, SLIP's and HDLC's buffers. Elsewhere
  (an ARP request, a DHCPDECLINE, an ICMP answer, a PPPoE packet) a message that was not
  allocated is a message that was lost, and the network may lose it.
* Peers, servers, routers and the network are external: they may lose, repeat, delay and,
  where stated, reorder.

## Runs

`tlc -config X.cfg M`. "Violation" runs state what a comment or a declaration in the
repository says, and TLC shows a behaviour of the code that does otherwise; "findings" in
`PROJECT.json` quotes the lines.

| run | module, configuration | shows |
|---|---|---|
| `collections` | `MCCollections` | The LRU cache implements `RecencyCache` (`ImplementsRecencyCache`); an overrun pool is about to be reset (`OvershootIsPending`) and comes back (`PoolRecovers`); an address is reused after all others (`ReusedLast`). |
| `tunnel` | `MCTunnel` | Rules: a stale cached result was saved by a lookup that the change overtook (`OnlyLateIsStale`), concurrent calls for a host share one lookup, and a call returns the first rule that matches under rules that were in force while it ran (`SharedLookups`). Flow: replies reach lwIP in order, once and whole (`StreamIsReplies`), no input is dropped but what came with the acknowledgement that completes the handshake (`NoInputLost`), a waiting write waits for an acknowledgement (`WaitsForRoom`), flows end (`FlowEnds`). Tunnel: a flow reaches the name it was opened for (`FlowGetsItsName`), queries are answered in order (`QueriesAnswered`). |
| `dns_queries` | `MCLocalDNSProxy` | Answers match questions (`AnswerMatchesQuestion`), entries lead to a channel (`EntryIsServed`), promises are lost only in one named race (`NoPromiseLost`). |
| `dns_queries_end` | `MCLocalDNSProxy`, `MCLocalDNSProxyEnds` | Every call ends (`QueriesEnd`). |
| `stack` | `MCStack` | lwIP's core and API, see below. |
| `links` | `MCLinks` | lwIP's links, see below. |
| `internet` | `MCInternet` | lwIP's internet layer, see below. |
| `ip_pool_overlap` (violation) | `MCCollections`, `MCPoolOverlap` | Two overlapping calls: one returns an address past the broadcast address. |
| `rules_engine_stale_cache` (violation) | `MCTunnel`, `MCRulesStale` | A stale result outlives `setForwardingRules`, which is meant to reset the cache. |
| `dns_transaction_reuse` (violation) | `MCLocalDNSProxy`, `MCLocalDNSProxyCollision` | Two names under one transaction ID: the second call gets the first one's answer. |
| `tunnel_forgotten_name` (violation) | `MCTunnel`, `MCForgottenName` | As many other names as the cache holds, and the flow to an address that was handed out is closed. |
| `tcp_split_fin` (violation) | `MCStack`, `MCSplitFin` | `tcp_split_unsent_seg` leaves the FIN on the first half: the receiver is told the end of the stream before its last bytes. |

The properties of the three lwIP runs gather, for the component at work, what its module
states with a comment of its own:

* **stack.** `TcpStreamIsKept`: what is received is a prefix of what was written, bytes are
  given up only when the peer has them, the send buffer agrees with the queues, and the
  retransmission timer runs while something is unacknowledged. `PromisesAreKept`: no step
  takes back an announced window, ends a connection for one of lower priority, leaves one
  on an address that is gone, refuses memory there is room for, or reports a partial write
  as whole. `TransportIsConsistent`, `WorkIsScheduled` (loopback polls, timeouts in order
  across the wrap of the clock, cyclic timers pending once), `MemoryIsAccounted` (heap,
  pools, buffers, messages), `NobodySleepsOnWork` and `HolderIsRunner` (mailbox and core
  lock), `NetconnTellsItsThreads`, `SocketsServeTheirThreads`.
* **links.** `NegotiationAgrees`: two open ends agree on every option, one timer while
  waiting. `LinkPhasesAgree`: network protocols run only after every agreed authentication,
  nothing outlives LCP; CCP under MPPE and a repeated EAP Success are exceptions, named at the
  properties. `FramesAreRestored` (HDLC, SLIP with and without a queue, 6LoWPAN), `DecryptsRight`,
  `HeadersRestored` (Van Jacobson), `PppoeSessions`, `L2tpTunnels`, `BridgeForwards`.
* **internet.** `ArpDelivers`, `DatagramsReassembled`, `DnsAnswersFit`, `NeighborsAgree`,
  `MembershipsAreKnown`, `LeasesAreTimed`, `IpAnswersAreWarranted`.

### Bounds, and why they are enough

* LRU cache: capacity 2 and three keys: insertion, relinking at head, middle and tail, and
  eviction all occur; the proofs cover every capacity.
* Pool: 4-bit addresses, three callers, a call overtaken at most twice (`MaxOvertaken`).
  With more overtaking than the pool has addresses the properties do not hold; the theorems
  state it as `Roomy`.
* Rules: four connections (two to one host, one to another, one without), two lists of
  rules, a cache of capacity 1, one setter. The predicates decide by the host, which is
  what the cache's key assumes (`HostOnly`). A call that finds its host in the cache, or has
  none, returns in the step that asks, so only lookups leave a state.
* DNS proxy: two calls, two attempts, one fault and a cancellation at any time reach the
  race between lookup and insert, the replaced entry, the shared promise and the late
  answer. `dns_queries_end` uses four calls, one attempt (the code has three, each the same
  loop again).
* Flow: replies of 4, 1 and 2 bytes against a send buffer of 3 with low-water mark 1; two
  segments and a FIN or reset, also with the handshake's last acknowledgement; two failures
  anywhere.
* Tunnel: three names, two addresses, a cache of two, batches of two: the least that evict
  a record and wrap the pool.
* TCP: sequence numbers modulo 8 that start at 6 and 3, so that data cross the wrap; a
  window of 2 with segments of 1, so that segments queue, overtake each other and meet a
  closed window; two segments in flight; `Budget` bounds losses, repetitions and probes.
  With segments of 1 none is split; `MCSplitFin` has segments of 2 and writes more than the
  window takes.
* Transport: two blocks of each kind, two ports, two interfaces, two addresses: the pool is
  exhausted, ports run out, interface numbers wrap. `Focuses` splits the exploration: the
  calls of one transport with IPv4 addresses that change, the interfaces alone, and one block
  of each kind on an address of either family while interfaces and IPv6 addresses go. There are
  several interfaces although `lwipopts.h:38` sets `LWIP_SINGLE_NETIF`; with it there is no list.
* Heap of 8 units with blocks of 1 and 3; three buffers and six calls on them; mailbox of
  two slots (one usable) with two callers besides the tcpip thread, so that one posts and one
  waits; a clock of 12 ticks that wraps once; netconns and sockets with two threads and
  mailboxes of one; two calls in a behaviour about socket options. The threads and the
  connections of `MCStack` are interchangeable, and it explores them up to symmetry.
* PPP: lists of configurations (`MCNegCases`, `MCLinkCases`) that differ in what each end
  asks, refuses or does not know; one fault; counters of one or two retries; `ppp_connect`
  once or twice, as the case says (`sessions`).
* MPPE: 16 packets instead of 4096 with two losses and two damaged ones; two HDLC frames or
  SLIP packets over all byte classes with one fault; two PPPoE clients and two sessions, each
  packet retried once (the theorem covers any number);
  Van Jacobson with any changes in one conversation where slot numbers are always sent, and
  three conversations over two slots where they are left out; a bridge with two hosts, ports and
  a dynamic table of one entry, so that it is full; 6LoWPAN with two senders.
* Internet: three ARP hosts over a table of two; three datagrams cut for two MTUs, in chains
  of one and two buffers of which three may be held; two names over two entries with three
  kinds of callers (`MCUses`); two routers and four other nodes over tables of two; two hosts
  and one group; one lease in five situations (`MCScenarios`: with and without AutoIP and
  conflict detection, several kinds of lease, the link replugged, the client restarted, memory
  short; a DHCP transaction id is its age in transactions); two hosts and a router for IP, with
  one interface changing, the router's interfaces down, or an interface whose addresses are
  in any states (`MCWorlds`).

### Fairness

* A call in the pool goes on once it has started: nothing in it waits.
* DNS: the calls' own steps and their timers. Nothing is assumed of the network, of
  channels or of other callers. `query(msg:)` schedules the timer before it awaits.
* Flow: the event loop runs its queue, the task's steps end, and the peer acknowledges what
  it is sent. The peer need not send or close.

All of it is weak fairness. The lwIP runs state safety only: what must eventually happen is
stated as "whoever waits has a timer or a signal on its way" (`NobodySleepsOnWork`,
`WorkIsScheduled`, `DiscoveryTimed`, `TunnelTimed`, `FsmTimed`, `MembershipTimed`,
`AddressTimed`), which a lost wake-up or a timer that is not armed breaks in one state.

Deadlock is checked in every run but `tcp_split_fin`, which stops when its bounds are used
up; where a system rests (`Idle`, `Wait`), its specification says when.

## Proofs

`tlapm M.tla` checks each. The theorems hold for every value of the constants that
satisfies the assumptions named here.

**`CollectionsProofs`, the cache.** Any finite set of keys, any capacity. The links alone are not
inductive to reason about, so the specification with the order of use as a history is
used, and `ListIsRecency` says the links are that order: head is the newest key, tail the
oldest, `next` and `prev` join neighbours. `RemoveRepresents`, `PrependRepresents` and
`MoveToHeadRepresents` show that each relinking yields the list of the changed order.
With the capacity (`CapacityRespected`) and the walk's invariant this is inductive, which
gives `ListCorrect` and `WalkCorrect`. The same step lemmas show that each operation is the
corresponding one of `RecencyCache`, whence `Refinement`.

**`CollectionsProofs`, the pool.** Any number of callers. Assumption `Roomy`: a call is overtaken
fewer times than the pool has usable addresses, and the word cannot wrap around the whole
address space meanwhile. The invariant `Reach` bounds the word from each caller's place.
Two callers about to reset would put the first one's reset before the second one's
increment by more than that distance, which gives `ResetExclusive`, `NoRunaway` and
`BoundsNeverGiven`.

**`RulesEngineProofs`.** Any connections, hosts, rules, setters and capacity. A task runs
exactly as long as its entry is in the table, under its own host (`EntriesAreTasks`), and
an awaited task runs (`CallsAreServed`), which gives `NoLostAnswer`. `LookupsShared` states
`SharedLookups`: besides, what a task found is what rules in force during the call of each of
its callers say (`Told`), but for the callers that joined after it had read the rules. That a lookup finds the first match needs a least index, which is taken
from the well-foundedness of the naturals (`LeastIndex`).
`StaleOnlyIfOvertaken` assumes `HostOnly` and adds that a task which was not overtaken
holds a result of the present rules.

**`LocalDNSProxyProofs`.** Any calls, servers, mappings, attempts and faults. A promise is
stored under its own transaction ID (`TableByTransaction`), a call waits for a promise of
its transaction (`WaitsByTransaction`), and a promise is only fulfilled with an error or an
answer to what was asked under it (`ValuesMatch`). `NamesAreFresh` says that nothing exists
under a name before its attempt, so making a promise overwrites none.

* `AnswersBelong` assumes `TransactionsIdentify`: calls under one transaction ID ask the
  same questions; the run `dns_transaction_reuse` shows that it is needed. `EntriesServed`
  and `PromisesKept` need no such assumption.
* `PromisesKept` states `NoPromiseLost`. `PInv` adds that a pending promise that was made
  with a channel is in the table or another channel was made for its server
  (`HeldOrReplaced`), that a call waits for its own promise or has made none in this attempt
  (`OwnOrShared`), and that a call which has read a stream and not yet inserted its promise
  displaces none that was not replaced already (`InsertDisplaces`). So a call goes on with
  its promise pending only when its connect failed and the catch clause found another
  task's entry, which is the exception the property names.

**`LwIPConnectionProofs`.** Any replies, buffer sizes, numbers of segments and failures
(`ConnectionAssumption`: replies are not empty, the low-water mark is below the buffer's
size). `InputIsKept` states `NoInputLost` and rests on `Order`: the packet loop hands over one
packet at a time, so a packet is queued behind the registration its predecessor caused. The
first bytes are the exception: lwIP calls `accept` and hands over the segment that completed
the handshake in one call, before the channel has set `recv`, and lwIP's default drops them
(`peer.first`). `WritesWaitForRoom`
rests on `Flushed`: whenever no flush is under way, what waits found the buffer low, and
low means unacknowledged bytes. `ClosedChannelIsEmpty` rests on `Waiting`: a write without
an outcome is in the queue, and closing fails the queue. `RepliesInOrder` states
`StreamIsReplies`. `StreamInv` follows the replies from the task to lwIP: those whose
writes are still in the event loop are there in order (`InTurn`), those that wait are
consecutive and only the first was begun (`Consecutive`), and the stream goes on with the
next byte of that first one (`Handed`). `writeToSocket` moves a piece of the first write to
the stream, and a failure or a close ends the stream where it is.

**`TcpipProofs`.** Any finite set of calling threads, any mailbox of at least two slots, any
pools, both locking modes (`TcpipAssumption`).

* `NoWakeupIsLost` states `NobodySleepsOnWork`. The property is not inductive: a poster that
  found the ring full sleeps later, after it has given up the mutex. `MboxInv` adds that one
  thread at a time is inside the mailbox (`MboxExclusive`), that `wait_send` counts the
  posters between their increment and decrement (`WaitersCounted`, by cardinality), and
  that a poster which has just found the ring full still has mail in it (`FullHasMail`).
  A fetch then signals `not_full` whenever somebody is counted, and a poster that found the
  ring empty signals `not_empty`; one signal is enough because the woken poster leaves
  mail behind whose fetch signals the next.
* `RunnerIsRecorded` states `HolderIsRunner`, from `CoreExclusive`: whoever is between lock
  and unlock owns the lock, and is recorded from after the one until before the other.
* `MessagesAreAccounted` states `MessagesAccounted`, a conjunct of `MemoryIsAccounted`: for
  each pool, the free elements, those carried by threads and those in the ring add up to
  the pool, and a call that waits has exactly one message on its way. `CallInv` says which
  thread carries whose message at which step; the sums are cardinalities, and four lemmas
  (`TakePool`, `StorePool`, `FetchPool`, `GiveBackPool`) move one element each.

**`PppSessionsProofs`.**

* `PppoeIsRight` states `PppoeSessions` for any clients, concentrators, cookies and session
  numbers (`PppoeAssumption`). `PppoeInv` couples a client's state with what `ppp.c` was
  told and with its timer (`InStep`), says of every packet that was ever sent that a PADS
  names a session granted to its host-unique tag (`Welcome`), and that a session number is
  granted to one client (`SessionsOnce`); packets may therefore arrive late and twice.
  `ChangeStep` says once what a handler must respect, and each handler is shown to.
* `L2tpIsRight` states `L2tpTunnels` for any retries and any loss, repetition and order of
  control messages. `L2tpInv` ties the client's phase to sequence numbers: in each phase
  the client has sent that many messages, the server acknowledges no more than it has taken
  (`FromLns`), so `nr >= 4` in an answer means that ICCN was taken.

**`PppPayloadProofs`.** What PPP does to the packets it carries.

* `VjRestores` states `HeadersRestored` for any conversations, any number of slots a frame
  can name and any largest difference (`VjAssumption`), whether or not slot numbers are
  left out and whichever frames are damaged. `VjInv` says that in a slot in sync the
  receiver has the sender's header, before or after the frame on the line, and that while
  nothing is tossed the slot last received is the slot last sent, so that a frame without a
  number is for it. `Apply` undoes `Changes`: differences modulo the sequence space add up
  to the new value, and each of the two special codes stands for one set of changes.
* `MppeDecrypts` states `DecryptsRight` with the numbers of `mppe.c` (4096 counts, a new key
  every 256 packets in stateful mode) and any number of packets. `MppeHypothesis`: the line
  does not reorder, and what is lost and damaged in a behaviour is at most 2047 packets
  (half of the counts), and at most 14 (the blocks the receiver can step over) where
  stateful mode may be negotiated. The packets on the line are the last ones sent, so
  `MppeInv` knows each by its place; the receiver is behind by a gap, the gap is what was
  lost since it was in step, and the key it has to reach is as many steps away as the
  sender took in the gap. `CountReach` and `BlockReach` keep the gap below what the
  coherency count tells apart; the run's smaller numbers are covered by TLC alone.

**`EthernetProofs`.**

* `ArpIsRight` states `ArpDelivers` for any hosts, gateway, table size, queue length
  and ages (`EtharpAssumption`: ages are not zero). `EtharpInv` says of each entry (`EntryOK`) that a resolved entry holds the host's present hardware address or is at least
  as old as the host's last change of it; since an entry in use is younger than `ARP_MAXAGE`,
  frames go to an old address for less than that. `FindEntry` shows that every way
  `etharp_find_entry` chooses a slot (known, empty, the oldest stable or pending one) keeps
  one entry per address.
* `BridgeIsRight` states `BridgeForwards` for any ports, hosts, table sizes and timeout
  (`BridgeAssumption`). `BridgeInv` keeps, besides `FdbIsRecent`, that a frame in the
  mailbox came from a port that was added and that whoever was heard was heard on one.
  `UpdateFacts` is the core: `bridgeif_fdb_update_src` rewrites the entry of the address or
  the first free one and leaves no second. `FramesFollowTheTable` derives delivery from it.

### Only model-checked

* Liveness (`PoolRecovers`, `QueriesEnd`, `FlowEnds`): the prover handles neither fairness
  nor ENABLED.
* `TcpStreamIsKept`, `DatagramsReassembled`, `NegotiationAgrees`, `LinkPhasesAgree`,
  `MembershipsAreKnown`, `IpAnswersAreWarranted` and the buffers of `MemoryIsAccounted`:
  their modules use recursive operators (lists of segments, fragments and buffers,
  callbacks that call back), about which nothing can be proved by induction with the
  provers at hand.
* `WorkIsScheduled`: its clock wraps at a constant that is not a number, and the SMT solver
  does no arithmetic modulo such a constant.
* The remaining ones (`ReusedLast`, `FlowGetsItsName`, `QueriesAnswered`,
  `TransportIsConsistent`, `PromisesAreKept`, `NetconnTellsItsThreads`,
  `SocketsServeTheirThreads`, `FramesAreRestored`, `DnsAnswersFit`, `NeighborsAgree`,
  `LeasesAreTimed`) are within reach and not proved.

## Observations without a run

Met while reading and modelling. The models do what the code does, unless it says
"not modelled" below. Where a property is about one of these, it names the case as an exception
and covers the rest; the property follows in parentheses. The others are about something that
no property states.

Swift:

* `BaseSocketChannel.swift:241` asserts that a channel is open when it is registered. The
  flow's task can close it first. A release build goes on and sets `isActive`.
* Bytes and a FIN in the segment that completes the handshake reach lwIP's own `recv` callback
  before the channel has set its own: the bytes are dropped, and after a FIN lwIP closes the
  connection under the channel, whose writes then fail (`NoInputLost`, `CopiesEverything`,
  `FlowEnds`). The block may serve another flow while the channel still refers to it; that
  is not modelled.
* `tcp_write` may return `ERR_MEM` while the send buffer has room, and lwIP asks callers to
  try again (`tcp_out.c:379`); the channel closes the connection.
* `handleNewFlow` awaits only the direction from the application to the SOCKS proxy. A
  close from the other side does not reach the application's connection.
* Results of the rules are cached by host also for rules that look at the process.
* `LocalDNSProxy+Resolvers.swift` returns cached records past their expiry, marked as such,
  and nothing refreshes them until they are evicted.
* `PacketTunnelFlow.swift:39` labels IPv6 packets as IPv4.
* `WebSocket.swift:71` does not pass the promise whose completion closes the channel.
* `Session.swift:140` and `Certbot.swift:227` keep a failed task, so every later call fails.

lwIP, in code the package compiles:

* The persist timer can run with nothing unsent, against the assertion at `tcp.c:1241`.
* A change of a UDP block's local address can make two blocks share address and port.
* `netif_create_ip6_linklocal_address` overwrites address 0 without telling the blocks bound
  to it (`NobodyOnALostAddress`).
* A wakeup of `not_empty` can be lost when two threads fetch from one mailbox (not modelled:
  `NobodySleepsOnWork` is about a mailbox with one), and a timed
  fetch that is woken for nothing waits its whole timeout again. Posting with
  `tcpip_callback` to a full mailbox while holding the core lock waits for a thread that
  waits for the lock.
* The entry that `dns_call_found` frees may be taken by a query its callback makes
  (`dns.c:981`; `AnswersFit`, `RequestsArePending`).
* `nd6_new_destination_cache_entry` looks for the oldest entry and never updates the age it
  compares with (`nd6.c:1622`). A solicitation or redirect that moves an INCOMPLETE entry to
  DELAY leaves its queue unsent. A queue entry that could not be allocated is counted
  (`nd6.c:2132`; `NdTablesAgree`), and an attempt of duplicate address detection that could not be
  sent counts as made (`UsedAddressesAreUnique`).
* A fragment in a chain longer than `IP_REASS_MAX_PBUFS` leaves an IPv6 datagram without a
  fragment (`ip6_frag.c:354`); packets from `LwIP.swift:211` are one buffer, longer
  chains are not modelled (`ReassemblyBounded`).
* `ip4_forward` refuses link-local destinations, not sources as its comment says
  (`ip4.c:293`).

lwIP, in code its options leave out:

* `dhcp_supplied_address` is false in REBOOTING, so `dhcp_release_and_stop` leaves the
  address (`dhcp.c:1987`; `LeaseWithinServers`). Timers t1 and t2 of an earlier lease survive a
  lease without them. AutoIP stays BOUND after DHCP has bound. `dhcp_start` on a client that
  runs cuts AutoIP's check off the list (`dhcp.c:849`; `AddressTimed`).
* `igmp_joingroup` that fails on one interface keeps the groups joined on the others (not
  modelled: a host has one interface). `IP_ADD_MEMBERSHIP` registers a join that failed
  (`JoinedIsRegistered`).
* `np_down` cancels the connect-time limit with another argument than it was set with
  (`auth.c:1229`, `1258`), so it stays. `ccp_ackci` compares `p` with `p0` after
  `p` has moved. A failed allocation in `fsm_sconfreq` leaves REQSENT without a timer
  (`OneTimerWhileWaiting`).
* When MPPE is refused, `lcp_close` runs inside the automaton's own callback: two timers
  may be armed, and CCP may stay in REQSENT above a link that is down
  (`OneTimerWhileWaiting`, `DownWithLcp`, `FsmTimed`).
* `chap_handle_response` sets AUTH_DONE after a failure has reset the flags. A repeated EAP
  Success starts the network phase again (`RunningIsUp`).
* A lost packet that carried FLUSHED leaves stateful MPPE out of step. In stateless mode a
  late packet is not discarded (`mppe.c:327`) and the key is stepped nearly a full cycle
  (`DecryptsRight` is about a line that does not reorder).
* `vj_uncompress_tcp` leaves URG set on the two special-case headers (`HeadersRestored`).
* `slipif_rxbyte_enqueue` with a queue links the new packet to itself and loses it
  (`slipif.c:500`; `OnlyDamagedPacketsSuffer`).
* `lowpan6_input` leaves `reass` of the link's record uninitialised for a datagram's first
  fragment (`lowpan6.c:719`) with an unknown dispatch byte (not modelled: nobody sends
  one). The ECN bits are not rotated when the traffic class is elided.
* `bridgeif_fdb_add` accepts an address twice and `bridgeif_fdb_remove` removes one.
* With `LWIP_NETCONN_FULLDUPLEX`, `lwip_poll` on a descriptor that is being closed releases
  sockets it never marked (`sockets.c:2344`) and leaves `select_waiting` wrong
  (`RcvEventCounts`, `NoLostWakeup`, `SocketOutlivesItsUsers`, `FreshSlotHasNoWaiters`). A reader
  that blocks just after the close is not woken (not modelled: the netconns of `Sockets` are
  those without the option).

## Not modelled

`PROJECT.json` lists every part with the reason. In Swift: parsing and formatting of
profiles, the data records and their database schema, compile-time macros, views, wrappers
of operating-system services, the forward protocols' handshakes (packages outside the
repository), the glue handlers, the dashboard and the connection's life cycle reports. In
the modelled parts: parsing of CIDR strings, dates and durations of reports, the layout of
packets and DNS records, the listener's bind and shutdown, channel options,
`close(mode: .output)` of the lwIP channel (nothing calls it), and the background query that
`queryDisguisedA` starts.

In lwIP: checksums and ciphers as algorithms, header layout, statistics, stateless DHCPv6,
the applications, `altcp`, `pppapi` and `netifapi` (they forward calls), BLE and ZEP
interfaces, congestion control and the round-trip estimate of TCP, SACK, compression other
than MPPE and VJ, SRP, ECP, multilink and dial on demand.
