-------------------------------- MODULE Nd6 --------------------------------
(***************************************************************************)
(* Neighbor discovery of lwIP (src/core/ipv6/nd6.c) on one interface: the  *)
(* neighbor cache and its packet queues, the destination cache, the        *)
(* default routers, the on-link prefixes, and the interface's own          *)
(* addresses with duplicate address detection, autoconfiguration and       *)
(* lifetimes.  N is the state of all of them; every function of the code   *)
(* that changes state maps N to a new N.                                   *)
(***************************************************************************)
EXTENDS Integers, Sequences, FiniteSets, SequencesExt

CONSTANTS
  HOSTS,            \* the addresses of other nodes
  PrefixOf,         \* the prefix of each; "fe80" is the link-local one
  ROUTERS,          \* the link-local addresses that advertise themselves
  PREFIXES,         \* the prefixes they advertise
  NUM_NEIGHBORS, NUM_DESTINATIONS, NUM_ROUTERS, NUM_PREFIXES, NUM_ADDRESSES,
  ND6_QUEUE,        \* MEMP_NUM_ND6_QUEUE
  REACHABLE, DELAY_FIRST_PROBE, MAX_SOLICIT, DUP_DETECT_ATTEMPTS,
  LIFETIMES,        \* of routers, prefixes and addresses, in ticks of nd6_tmr
  TWO_HOURS,        \* ND6_2HRS, in ticks
  MaxAge,           \* of a destination, after which it is not counted on
  NdFocuses         \* which inputs a behaviour has: "neighbors", "routers", "prefixes", "addresses"

VARIABLES
  nd,               \* N, below
  ndFrames,         \* the frames put on the link in the last step
  ndFocus

ndVars == <<nd, ndFrames, ndFocus>>

ANY == "any"
Neighbors == 1 .. NUM_NEIGHBORS
Destinations == 1 .. NUM_DESTINATIONS
RouterSlots == 1 .. NUM_ROUTERS
PrefixSlots == 1 .. NUM_PREFIXES
Addresses == 0 .. NUM_ADDRESSES - 1
FirstOf(S) == CHOOSE i \in S : \A j \in S : i <= j
LastOf(S) == CHOOSE i \in S : \A j \in S : i >= j

NoNeighbor == [state |-> "none", addr |-> ANY, ll |-> ANY, counter |-> 0, isrouter |-> FALSE, q |-> <<>>]
NoDestination == [addr |-> ANY, hop |-> ANY, cached |-> 1, age |-> 0, redirected |-> FALSE]
NoRouter == [entry |-> 0, timer |-> 0]
NoPrefix == [prefix |-> ANY, timer |-> 0]
NoAddress == [state |-> "invalid", count |-> 0, prefix |-> ANY, valid |-> 0, pref |-> 0,
              probes |-> 0, unsent |-> FALSE, conflict |-> FALSE]
Static(e) == e.valid = 0                              \* IP6_ADDR_LIFE_STATIC

(***************************************************************************)
(* The neighbor cache.                                                     *)
(***************************************************************************)
nd6_find_neighbor_cache_entry(N, a) == {i \in Neighbors : N.nc[i].addr = a}
nd6_free_neighbor_cache_entry(N, i) ==
  IF N.nc[i].isrouter THEN N
  ELSE [N EXCEPT !.nc[i] = NoNeighbor, !.queued = @ - Len(N.nc[i].q)]

\* Faulty variant: entries of routers are recycled like the others.
InStateAny(N, state) == {i \in Neighbors : N.nc[i].state = state}

InState(N, state) == {i \in Neighbors : N.nc[i].state = state /\ ~N.nc[i].isrouter}

\* The entry to recycle when none is free: the candidates in the order the code tries them.
Recycled(N) ==
  LET reachable == InState(N, "reachable")
      incomplete == InState(N, "incomplete")
      unqueued == {i \in incomplete : N.nc[i].q = <<>>}
      Probed(S) == LastOf({i \in S : \A j \in S : N.nc[j].counter <= N.nc[i].counter})
  IN CASE InState(N, "stale") # {} -> {FirstOf(InState(N, "stale"))}
       [] InState(N, "probe") # {} -> {FirstOf(InState(N, "probe"))}
       [] InState(N, "delay") # {} -> {FirstOf(InState(N, "delay"))}
       [] reachable # {} -> {FirstOf({i \in reachable : \A j \in reachable :
                                      N.nc[i].counter <= N.nc[j].counter})}
       [] unqueued # {} -> {Probed(unqueued)}
       [] incomplete # {} -> {Probed(incomplete)}
       [] OTHER -> {}

nd6_new_neighbor_cache_entry(N) ==
  LET free == {i \in Neighbors : N.nc[i].state = "none"}
  IN IF free # {} THEN {FirstOf(free)} ELSE Recycled(N)

\* A new entry for address a in a given state.
NewNeighbor(N, i, a, state, ll, counter) ==
  [nd6_free_neighbor_cache_entry(N, i)
   EXCEPT !.nc[i] = [NoNeighbor EXCEPT !.state = state, !.addr = a, !.ll = ll, !.counter = counter]]

(***************************************************************************)
(* Packets.  A packet is its destination; N.out collects the frames.       *)
(***************************************************************************)
Transmit(N, i, dest) ==
  [N EXCEPT !.out = @ \cup {[dest |-> dest, hop |-> N.nc[i].addr, ll |-> N.nc[i].ll]}]

nd6_send_q(N, i) ==
  [N EXCEPT !.out = @ \cup {[dest |-> N.nc[i].q[k], hop |-> N.nc[i].addr, ll |-> N.nc[i].ll] :
                             k \in DOMAIN N.nc[i].q},
            !.queued = @ - Len(N.nc[i].q),
            !.nc[i].q = <<>>]

\* What a call is short of, N.short: the times pbuf_clone and memp_malloc fail
\* in nd6_queue_packet, the addresses whose solicitation nd6_send_ns cannot
\* allocate, whether nd6_send_rs can.
Plentiful == [clones |-> 0, entries |-> 0, ns |-> {}, rs |-> FALSE]

DropOldest(N, i, n) == [N EXCEPT !.nc[i].q = SubSeq(@, n + 1, Len(@)), !.queued = @ - n]

\* The copy is tried again after each packet that is dropped.  An entry is
\* tried while the count allows it and again for a packet that is dropped; the
\* count goes up with each try (lost counts those that failed: no variable of the code).
nd6_queue_packet(N, i, dest) ==
  LET copied == N.short.clones <= Len(N.nc[i].q)
      A == DropOldest(N, i, IF copied THEN N.short.clones ELSE Len(N.nc[i].q))
      first == A.queued < ND6_QUEUE
      B == IF first THEN [A EXCEPT !.queued = @ + 1] ELSE A
      second == ~(first /\ N.short.entries = 0) /\ A.nc[i].q # <<>>
      C == IF second THEN [DropOldest(B, i, 1) EXCEPT !.queued = @ + 1] ELSE B
      tries == Cardinality({x \in {1, 2} : IF x = 1 THEN first ELSE second})
  IN CASE ~copied -> A
       [] copied /\ N.short.entries < tries ->
            [C EXCEPT !.nc[i].q = Append(@, dest), !.lost = @ + N.short.entries]
       [] OTHER -> [C EXCEPT !.lost = @ + tries]

(***************************************************************************)
(* The destination cache and the default routers.                          *)
(***************************************************************************)
nd6_find_destination_cache_entry(N, a) == {i \in Destinations : N.dc[i].addr = a}

\* The loop does not remember the age it found, so any entry that has aged replaces an earlier one.
nd6_new_destination_cache_entry(N) ==
  LET empty == nd6_find_destination_cache_entry(N, ANY)
      aged == {i \in Destinations : N.dc[i].age > 0}
  IN IF empty # {} THEN FirstOf(empty) ELSE IF aged # {} THEN LastOf(aged) ELSE NUM_DESTINATIONS

nd6_clear_destination_cache(N) ==
  [N EXCEPT !.dc = [i \in Destinations |-> [NoDestination EXCEPT !.cached = N.dc[i].cached]]]

RouterList(N) == {r \in RouterSlots : N.routers[r].entry # 0}
RouterAddr(N, r) == N.nc[N.routers[r].entry].addr

nd6_is_prefix_in_netif(N, a) ==
  \/ \E p \in PrefixSlots : N.prefixes[p].prefix = PrefixOf[a] /\ N.prefixes[p].timer > 0
  \/ \E i \in Addresses : /\ N.addrs[i].state \in {"preferred", "deprecated"}
                          /\ Static(N.addrs[i])
                          /\ N.addrs[i].prefix = PrefixOf[a]

\* last_router does not move when an interface is given, and stays at the first router.
nd6_select_router(N) ==
  LET State(r) == N.nc[N.routers[r].entry].state
      reachable == {r \in RouterList(N) : State(r) = "reachable"}
      usable == {r \in RouterList(N) : State(r) # "incomplete"}
  IN CASE reachable # {} -> {FirstOf(reachable)}
       [] usable # {} -> {FirstOf(usable)}
       [] RouterList(N) # {} -> {FirstOf(RouterList(N))}
       [] OTHER -> {}

nd6_get_router(N, a) == {r \in RouterList(N) : RouterAddr(N, r) = a}

AddRouter(N, i) ==
  LET free == RouterSlots \ RouterList(N)
  IN IF free = {} THEN N
     ELSE [N EXCEPT !.nc[i].isrouter = TRUE, !.routers[FirstOf(free)].entry = i]

nd6_new_router(N, a) ==
  LET known == nd6_find_neighbor_cache_entry(N, a)
      fresh == nd6_new_neighbor_cache_entry(N)
  IN CASE known # {} -> AddRouter(N, FirstOf(known))
       [] fresh # {} -> AddRouter(NewNeighbor(N, FirstOf(fresh), a, "incomplete", ANY, 1), FirstOf(fresh))
       [] OTHER -> N

nd6_get_onlink_prefix(N, p) == {i \in PrefixSlots : N.prefixes[i].prefix = p}

nd6_new_onlink_prefix(N, p, life) ==
  LET free == {i \in PrefixSlots : N.prefixes[i].prefix = ANY \/ N.prefixes[i].timer = 0}
  IN IF free = {} THEN N
     ELSE [N EXCEPT !.prefixes[FirstOf(free)] = [prefix |-> p, timer |-> life]]

\* The destination entry for a, its next hop chosen; 0 when there is no route.
Destination(N, a) ==
  LET known == nd6_find_destination_cache_entry(N, a)
      i == nd6_new_destination_cache_entry(N)
      Made(hop) == [N EXCEPT !.dc[i] = [@ EXCEPT !.addr = a, !.hop = hop, !.redirected = FALSE]]
  IN CASE known # {} -> [n |-> N, i |-> FirstOf(known)]
       [] PrefixOf[a] = "fe80" \/ nd6_is_prefix_in_netif(N, a) -> [n |-> Made(a), i |-> i]
       [] nd6_select_router(N) # {} ->
            [n |-> Made(RouterAddr(N, FirstOf(nd6_select_router(N)))), i |-> i]
       [] OTHER -> [n |-> [N EXCEPT !.dc[i] = [NoDestination EXCEPT !.cached = N.dc[i].cached]], i |-> 0]

\* The neighbor for the next hop of destination d: the one d names, one found, or one made.
NextHopOf(N, d) ==
  LET hop == N.dc[d].hop
      known == nd6_find_neighbor_cache_entry(N, hop)
      fresh == nd6_new_neighbor_cache_entry(N)
      Uses(M, j) == [n |-> [M EXCEPT !.dc[d].cached = j, !.dc[d].age = 0], i |-> j]
      Makes(j) == Uses(NewNeighbor(N, j, hop, "incomplete", ANY, 1), j)
  IN CASE d = 0 -> [n |-> N, i |-> 0]
       [] N.nc[N.dc[d].cached].addr = hop -> Uses(N, N.dc[d].cached)
       [] known # {} -> Uses(N, FirstOf(known))
       [] fresh # {} -> Makes(FirstOf(fresh))
       [] OTHER -> [n |-> N, i |-> 0]

nd6_get_next_hop_entry(N, a) ==
  LET Via(D) == NextHopOf(D.n, D.i)
  IN Via(Destination(N, a))

\* The packet to a is queued at neighbor i or sent; a stale neighbor will be probed.
SendOrQueue(N, i, a) ==
  CASE i = 0 -> N
    [] N.nc[i].state = "incomplete" -> nd6_queue_packet(N, i, a)
    [] N.nc[i].state = "stale" ->
         Transmit([N EXCEPT !.nc[i].state = "delay", !.nc[i].counter = DELAY_FIRST_PROBE], i, a)
    [] OTHER -> Transmit(N, i, a)

nd6_get_next_hop_addr_or_queue(N, a) ==
  LET Through(H) == SendOrQueue(H.n, H.i, a)
  IN Through(nd6_get_next_hop_entry(N, a))

nd6_reachability_hint(N, a) ==
  LET d == nd6_find_destination_cache_entry(N, a)
      e == N.dc[FirstOf(d)]
      i == IF N.nc[e.cached].addr = e.hop THEN {e.cached} ELSE nd6_find_neighbor_cache_entry(N, e.hop)
  IN IF d = {} \/ i = {} \/ N.nc[FirstOf(i)].state = "incomplete"
       THEN N
       ELSE [N EXCEPT !.nc[FirstOf(i)].state = "reachable", !.nc[FirstOf(i)].counter = REACHABLE]

(***************************************************************************)
(* The interface's own addresses.  netif_ip6_addr_set_state brings the     *)
(* solicited-node group in line (nd6_adjust_mld_membership): the address   *)
(* is a member unless it is invalid, a duplicate, or tentative and not yet *)
(* probed.                                                                 *)
(***************************************************************************)
IsMember(e) == e.state \in {"preferred", "deprecated"} \/ (e.state = "tentative" /\ e.count > 0)

nd6_adjust_mld_membership(N, i, old, new) ==
  [N EXCEPT !.groups = IF IsMember(old) = IsMember(new) THEN @
                       ELSE IF IsMember(new) THEN @ \cup {i} ELSE @ \ {i}]

netif_ip6_addr_set_state(N, i, state, count) ==
  LET new == [N.addrs[i] EXCEPT !.state = state, !.count = count]
  IN nd6_adjust_mld_membership([N EXCEPT !.addrs[i] = new], i, N.addrs[i], new)

nd6_duplicate_addr_detected(N, idx) ==
  LET hit == {idx} \cup {i \in Addresses \ {0} : /\ idx = 0
                                                 /\ N.addrs[i].state # "invalid"
                                                 /\ ~Static(N.addrs[i])}
  IN FoldLeft(LAMBDA M, i : IF i \in hit THEN netif_ip6_addr_set_state(M, i, "duplicated", 0) ELSE M,
              N, [i \in 1 .. NUM_ADDRESSES |-> i - 1])

\* Another node has shown that it uses address i (no variable of the code).
Conflict(N, i) == [N EXCEPT !.addrs[i].conflict = TRUE]

ExtendLife(e, valid, pref) ==
  [e EXCEPT !.valid = IF valid > TWO_HOURS \/ valid > @ THEN valid
                      ELSE IF @ > TWO_HOURS THEN TWO_HOURS ELSE @,
            !.state = IF pref > 0 /\ @ = "deprecated" THEN "preferred" ELSE @,
            !.pref = pref]

nd6_process_autoconfig_prefix(N, p, valid, pref) ==
  LET same == {i \in Addresses \ {0} : /\ N.addrs[i].state # "invalid"
                                       /\ ~Static(N.addrs[i])
                                       /\ N.addrs[i].prefix = p}
      taken == {i \in Addresses \ {0} : N.addrs[i].state # "invalid" /\ N.addrs[i].prefix = p}
      free == {i \in Addresses \ {0} : N.addrs[i].state = "invalid"}
      new == [NoAddress EXCEPT !.state = "tentative", !.prefix = p, !.valid = valid, !.pref = pref]
  IN CASE pref > valid -> N
       [] same # {} -> [N EXCEPT !.addrs[FirstOf(same)] = ExtendLife(@, valid, pref)]
       [] \/ valid = 0
          \/ N.addrs[0].state \in {"invalid", "duplicated"}
          \/ taken # {}
          \/ free = {} -> N
       [] OTHER -> [N EXCEPT !.addrs[FirstOf(free)] = new]

(***************************************************************************)
(* Messages.  nd6_input, one operator per message type.  A message about a *)
(* node carries that node's link-layer address, which is written like the  *)
(* node's address; option says whether it carries one at all.              *)
(***************************************************************************)
OwnAddresses(N, states, p) == {i \in Addresses : N.addrs[i].state \in states /\ N.addrs[i].prefix = p}

\* A neighbor advertisement sent to all nodes: for one of our addresses, or for another's.
NaMulticastOwn(N, p) ==
  LET own == OwnAddresses(N, {"tentative", "preferred", "deprecated"}, p)
  IN IF own = {} THEN N ELSE nd6_duplicate_addr_detected(Conflict(N, FirstOf(own)), FirstOf(own))

NaMulticast(N, h, override) ==
  LET i == nd6_find_neighbor_cache_entry(N, h)
  IN IF i = {} \/ ~override THEN N ELSE [N EXCEPT !.nc[FirstOf(i)].ll = h]

NaUnicast(N, h, override, option) ==
  LET known == nd6_find_neighbor_cache_entry(N, h)
      i == FirstOf(known)
      takes == override \/ N.nc[i].state = "incomplete"
  IN IF known = {} \/ (takes /\ ~option)
       THEN N
       ELSE nd6_send_q([N EXCEPT !.nc[i] = [@ EXCEPT !.ll = IF takes THEN h ELSE @,
                                                     !.state = "reachable", !.counter = REACHABLE]], i)

\* A neighbor solicitation for one of our addresses: from the unspecified address (another
\* node's duplicate address detection), or from node h.
NsFromAny(N, p) ==
  LET own == OwnAddresses(N, {"tentative", "preferred", "deprecated"}, p)
      hit == {i \in own : N.addrs[i].state = "tentative"}
  IN IF hit = {} THEN N ELSE nd6_duplicate_addr_detected(Conflict(N, FirstOf(hit)), FirstOf(hit))

Delayed(N, i, h) ==
  [N EXCEPT !.nc[i] = [@ EXCEPT !.ll = h, !.state = "delay", !.counter = DELAY_FIRST_PROBE]]

NsFromHost(N, h, p, option) ==
  LET known == nd6_find_neighbor_cache_entry(N, h)
      fresh == nd6_new_neighbor_cache_entry(N)
  IN CASE OwnAddresses(N, {"preferred", "deprecated"}, p) = {} \/ ~option -> N
       [] known # {} -> IF N.nc[FirstOf(known)].state = "incomplete" THEN Delayed(N, FirstOf(known), h) ELSE N
       [] fresh # {} -> NewNeighbor(N, FirstOf(fresh), h, "delay", h, DELAY_FIRST_PROBE)
       [] OTHER -> N

\* A router advertisement, its options in the order link-layer address, prefix.
RaLinkLayer(N, r) ==
  LET i == N.routers[FirstOf(nd6_get_router(N, r))].entry
  IN IF N.nc[i].state = "incomplete"
       THEN [N EXCEPT !.nc[i] = [@ EXCEPT !.ll = r, !.state = "reachable", !.counter = REACHABLE]]
       ELSE N

RaOnLink(N, p, valid) ==
  LET known == nd6_get_onlink_prefix(N, p)
  IN CASE known # {} -> [N EXCEPT !.prefixes[FirstOf(known)].timer = valid]
       [] valid > 0 -> nd6_new_onlink_prefix(N, p, valid)
       [] OTHER -> N

RouterAdvertisement(N, r, life, option, prefix) ==
  LET Timed(A) == [A EXCEPT !.routers[FirstOf(nd6_get_router(A, r))].timer = life]
      LinkLayer(B) == IF option THEN RaLinkLayer(B, r) ELSE B
      OnLink(C) == IF prefix.onlink THEN RaOnLink(C, prefix.p, prefix.valid) ELSE C
      Auto(D) == IF prefix.auto
                   THEN nd6_process_autoconfig_prefix(D, prefix.p, prefix.valid, prefix.pref) ELSE D
      Taken(A) == IF nd6_get_router(A, r) = {} THEN A ELSE Auto(OnLink(LinkLayer(Timed(A))))
  IN Taken([(IF nd6_get_router(N, r) = {} THEN nd6_new_router(N, r) ELSE N) EXCEPT !.rs = 0])

\* A redirect: destination d is better reached through t.
Redirect(N, d, t, option) ==
  LET entry == nd6_find_destination_cache_entry(N, d)
      known == nd6_find_neighbor_cache_entry(N, t)
      fresh == nd6_new_neighbor_cache_entry(N)
      Target(M) == CASE ~option -> M
                     [] known # {} -> IF M.nc[FirstOf(known)].state = "incomplete"
                                        THEN Delayed(M, FirstOf(known), t) ELSE M
                     [] fresh # {} -> NewNeighbor(M, FirstOf(fresh), t, "delay", t, DELAY_FIRST_PROBE)
                     [] OTHER -> M
  IN IF entry = {} THEN N
     ELSE Target([N EXCEPT !.dc[FirstOf(entry)] = [@ EXCEPT !.hop = t, !.redirected = TRUE]])

(***************************************************************************)
(* nd6_tmr: one tick, in the order of the code.                            *)
(***************************************************************************)
AgeNeighbor(N, i) ==
  LET e == N.nc[i]
      exhausted == e.counter >= MAX_SOLICIT /\ ~e.isrouter
      Probe == [N EXCEPT !.nc[i].counter = IF e.isrouter /\ @ >= MAX_SOLICIT THEN @ ELSE @ + 1]
  IN CASE e.state \in {"incomplete", "probe"} ->
            IF exhausted THEN nd6_free_neighbor_cache_entry(N, i) ELSE Probe
       [] e.state = "reachable" ->
            LET M == nd6_send_q(N, i)
            IN IF e.counter <= 1 THEN [M EXCEPT !.nc[i].state = "stale", !.nc[i].counter = 0]
               ELSE [M EXCEPT !.nc[i].counter = @ - 1]
       [] e.state = "delay" ->
            IF e.counter <= 1 THEN [N EXCEPT !.nc[i].state = "probe", !.nc[i].counter = 0]
            ELSE [N EXCEPT !.nc[i].counter = @ - 1]
       [] OTHER -> N

AgeDestinations(N) ==
  [N EXCEPT !.dc = [i \in Destinations |->
                      [@[i] EXCEPT !.age = IF N.dc[i].addr = ANY \/ @ = MaxAge THEN @ ELSE @ + 1]]]

AgeRouter(N, r) ==
  LET i == N.routers[r].entry
  IN CASE i = 0 -> N
       [] N.routers[r].timer > 1 -> [N EXCEPT !.routers[r].timer = @ - 1]
       [] OTHER -> [N EXCEPT !.dc = [d \in Destinations |-> IF @[d].hop = N.nc[i].addr
                                                             THEN [NoDestination EXCEPT !.cached = N.dc[d].cached]
                                                             ELSE @[d]],
                             !.nc[i].isrouter = FALSE,
                             !.routers[r] = NoRouter]

AgePrefixes(N) ==
  [N EXCEPT !.prefixes = [p \in PrefixSlots |-> IF @[p].timer <= 1 THEN NoPrefix
                                                ELSE [@[p] EXCEPT !.timer = @ - 1]]]

ExpireLife(N, i) ==
  LET e == N.addrs[i]
  IN CASE e.state = "invalid" \/ Static(e) -> N
       [] e.valid <= 1 -> LET M == netif_ip6_addr_set_state(N, i, "invalid", 0)
                          IN [M EXCEPT !.addrs[i] = NoAddress]
       [] OTHER -> [N EXCEPT !.addrs[i] =
                      [@ EXCEPT !.valid = @ - 1,
                                !.pref = IF @ <= 1 THEN 0 ELSE @ - 1,
                                !.state = IF e.pref <= 1 /\ @ = "preferred" THEN "deprecated" ELSE @]]

DetectDuplicates(N, i) ==
  LET e == N.addrs[i]
      done == IF ~Static(e) /\ e.pref = 0 THEN "deprecated" ELSE "preferred"
  IN CASE e.state # "tentative" -> N
       [] e.count >= DUP_DETECT_ATTEMPTS -> netif_ip6_addr_set_state(N, i, done, 0)
       [] N.up /\ i \notin N.short.ns ->
            netif_ip6_addr_set_state([N EXCEPT !.addrs[i].probes = @ + 1], i, "tentative", e.count + 1)
       [] N.up /\ i \in N.short.ns ->
            netif_ip6_addr_set_state([N EXCEPT !.addrs[i].unsent = TRUE], i, "tentative", e.count + 1)
       [] OTHER -> N

SolicitRouters(N) ==
  IF N.rs > 0 /\ N.up /\ N.addrs[0].state \notin {"invalid", "duplicated"}
    THEN [N EXCEPT !.rs = IF N.short.rs THEN @ ELSE @ - 1] ELSE N

Upto(n) == [i \in 1 .. n |-> i]

nd6_tmr(N) ==
  LET A == FoldLeft(AgeNeighbor, N, Upto(NUM_NEIGHBORS))
      B == FoldLeft(AgeRouter, AgeDestinations(A), Upto(NUM_ROUTERS))
  IN SolicitRouters(FoldLeft(LAMBDA M, i : DetectDuplicates(ExpireLife(M, i - 1), i - 1),
                             AgePrefixes(B), Upto(NUM_ADDRESSES)))

Queued(N) == FoldLeft(LAMBDA n, i : n + Len(N.nc[i].q), 0, Upto(NUM_NEIGHBORS))

nd6_cleanup_netif(N) ==
  nd6_clear_destination_cache(
    [N EXCEPT !.prefixes = [p \in PrefixSlots |-> NoPrefix],
              !.routers = [r \in RouterSlots |-> IF @[r].entry = 0 THEN @[r] ELSE NoRouter],
              !.nc = [i \in Neighbors |-> NoNeighbor],
              !.queued = @ - Queued(N)])

nd6_restart_netif(N) == [N EXCEPT !.rs = MAX_SOLICIT]

(***************************************************************************)
(* The steps.                                                              *)
(***************************************************************************)
NdCommit(N) == nd' = [N EXCEPT !.out = {}, !.short = Plentiful] /\ ndFrames' = N.out /\ UNCHANGED ndFocus

\* The nodes that matter to a focus: without routers only those on the link.
Talking == {h \in HOSTS : (ndFocus = "neighbors") = (h \notin ROUTERS /\ PrefixOf[h] = "fe80")}

SendPacket ==
  \E a \in Talking \ ROUTERS :
    \E clones \in 0 .. 1, entries \in 0 .. 2 :
      /\ ndFocus # "neighbors" => clones + entries = 0
      /\ NdCommit(nd6_get_next_hop_addr_or_queue(
                    [nd EXCEPT !.short.clones = clones, !.short.entries = entries], a))

ReachabilityHint == \E a \in Talking : NdCommit(nd6_reachability_hint(nd, a))

\* The flag or option of a neighbor message varies where neighbors are the focus.
Flags == IF ndFocus = "neighbors" THEN BOOLEAN ELSE {TRUE}

NeighborMessage ==
  \E h \in Talking :
    \/ \E override \in Flags :
         \/ NdCommit(NaMulticast(nd, h, override))
         \/ \E option \in Flags : NdCommit(NaUnicast(nd, h, override, option))
    \/ \E option \in Flags : NdCommit(NsFromHost(nd, h, "fe80", option))

ConflictMessage ==
  /\ ndFocus = "addresses"
  /\ \E i \in Addresses : /\ nd.addrs[i].state # "invalid"
                           /\ \/ NdCommit(NaMulticastOwn(nd, nd.addrs[i].prefix))
                              \/ NdCommit(NsFromAny(nd, nd.addrs[i].prefix))

\* The prefix information that a focus is about, and that says nothing.
PrefixInfo == [onlink : BOOLEAN, auto : BOOLEAN, p : PREFIXES, valid : LIFETIMES, pref : LIFETIMES]
OnLinkInfo == {i \in PrefixInfo : ~i.auto /\ i.pref = 0 /\ (i.onlink \/ i.valid = 0)}
AutoInfo == {i \in PrefixInfo : i.auto /\ ~i.onlink}

RouterMessage ==
  \E r \in ROUTERS :
    \/ /\ ndFocus = "routers"
       /\ \E life \in LIFETIMES, option \in BOOLEAN, info \in {i \in OnLinkInfo : ~i.onlink} :
            NdCommit(RouterAdvertisement(nd, r, life, option, info))
    \/ /\ ndFocus = "prefixes"
       /\ RouterList(nd) = {} \/ nd6_get_router(nd, r) # {}
       /\ \E life \in LIFETIMES, info \in OnLinkInfo : NdCommit(RouterAdvertisement(nd, r, life, TRUE, info))
    \/ /\ ndFocus = "addresses"
       /\ \E info \in AutoInfo : NdCommit(RouterAdvertisement(nd, r, 0, FALSE, info))

RedirectMessage ==
  /\ ndFocus = "routers"
  /\ \E d \in Talking \ ROUTERS, option \in BOOLEAN :
       \E t \in ROUTERS \cup {d} : NdCommit(Redirect(nd, d, t, option))

NdTimer ==
  \E ns \in SUBSET Addresses, rs \in BOOLEAN :
    /\ ndFocus # "addresses" => ns = {} /\ ~rs
    /\ NdCommit(nd6_tmr([nd EXCEPT !.short.ns = ns, !.short.rs = rs]))

RemoveNetif == NdCommit(nd6_cleanup_netif(nd))

\* netif_set_up and netif_set_link_up restart router solicitation.
LinkChanges == NdCommit(IF nd.up THEN [nd EXCEPT !.up = FALSE] ELSE nd6_restart_netif([nd EXCEPT !.up = TRUE]))

\* netif_create_ip6_linklocal_address and netif_add_ip6_address: a static address, to be probed.
AddAddress ==
  /\ ndFocus = "addresses"
  /\ \E i \in Addresses, p \in PREFIXES \cup {"fe80"} :
       /\ i = 0 <=> p = "fe80"
       /\ nd.addrs[i].state = "invalid"
       /\ \A j \in Addresses : nd.addrs[j].prefix # p
       /\ NdCommit([nd EXCEPT !.addrs[i] = [NoAddress EXCEPT !.state = "tentative", !.prefix = p]])

NdInit ==
  /\ ndFocus \in NdFocuses
  /\ ndFrames = {}
  /\ nd = [nc |-> [i \in Neighbors |-> NoNeighbor],
           dc |-> [i \in Destinations |-> NoDestination],
           routers |-> [i \in RouterSlots |-> NoRouter],
           prefixes |-> [i \in PrefixSlots |-> NoPrefix],
           addrs |-> [i \in Addresses |->
                        IF i = 0 THEN [NoAddress EXCEPT !.state = "preferred", !.prefix = "fe80",
                                                        !.probes = DUP_DETECT_ATTEMPTS]
                        ELSE NoAddress],
           groups |-> {0}, queued |-> 0, lost |-> 0, short |-> Plentiful, rs |-> 0, up |-> TRUE, out |-> {}]

NdNext ==
  \/ ndFocus # "addresses" /\ SendPacket
  \/ ndFocus # "addresses" /\ NeighborMessage
  \/ ndFocus = "neighbors" /\ ReachabilityHint
  \/ RouterMessage
  \/ RedirectMessage
  \/ ConflictMessage
  \/ NdTimer
  \/ RemoveNetif
  \/ ndFocus = "addresses" /\ LinkChanges
  \/ AddAddress

NdSpec == NdInit /\ [][NdNext]_ndVars

-----------------------------------------------------------------------------
\* The four tables fit together whatever entries nd6_tmr drops and
\* nd6_new_neighbor_cache_entry recycles: no address has two neighbor entries;
\* the default routers are the neighbors marked as routers, each listed once;
\* a destination that goes through a router goes through one still listed;
\* nd6_queue_size counts the queued packets and, because it goes up before
\* the result is looked at (nd6.c:2132-2143), every queue entry for which
\* memp_malloc had no memory.
NdTablesAgree ==
  /\ \A i, j \in Neighbors : /\ i # j /\ nd.nc[i].state # "none" => nd.nc[i].addr # nd.nc[j].addr
                             /\ nd.nc[i].state = "none" <=> nd.nc[i].addr = ANY
  /\ {i \in Neighbors : nd.nc[i].isrouter} = {nd.routers[r].entry : r \in RouterList(nd)}
  /\ \A r, s \in RouterList(nd) : r # s => nd.routers[r].entry # nd.routers[s].entry
  /\ \A d \in Destinations :
       nd.dc[d].addr # ANY /\ ~nd.dc[d].redirected =>
         \/ nd.dc[d].hop = nd.dc[d].addr
         \/ \E r \in RouterList(nd) : RouterAddr(nd, r) = nd.dc[d].hop
  /\ nd.queued = Queued(nd) + nd.lost
  /\ nd.queued <= ND6_QUEUE

\* A packet leaves for its destination or for a router, with the link-layer
\* address of that next hop: also after the neighbor entry that the
\* destination entry had cached was recycled for another address.
FramesReachTheNextHop ==
  \A f \in ndFrames : f.ll = f.hop /\ (f.hop = f.dest \/ f.hop \in ROUTERS)

\* An address of the interface is used only after it was probed for the full
\* number of attempts and no other node answered for it; its solicited-node
\* group is joined exactly while it is probed or used.  An attempt for which
\* nd6_send_ns had no memory counts like the others (nd6.c:1145, 1229-1234).
UsedAddressesAreUnique ==
  \A i \in Addresses :
    /\ nd.addrs[i].state \in {"preferred", "deprecated"} =>
         /\ nd.addrs[i].probes >= DUP_DETECT_ATTEMPTS \/ nd.addrs[i].unsent
         /\ ~nd.addrs[i].conflict
    /\ i \in nd.groups <=> IsMember(nd.addrs[i])
=============================================================================
