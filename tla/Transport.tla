------------------------------ MODULE Transport ------------------------------
(***************************************************************************)
(* Network interfaces (src/core/netif.c) and the transport blocks that     *)
(* follow their addresses.  W is [T, U, R, N]: the tables of Pcbs, and     *)
(* N = [list, default, num, netif, ext, once, heard, sent]: the            *)
(* interfaces and the registered status callbacks.  heard is the last      *)
(* notification of each callback, sent the announcements an operation      *)
(* makes: they have left when it returns.                                  *)
(***************************************************************************)
EXTENDS Pcbs

CONSTANTS
  NETIFS,                   \* numbers of the interface structures
  NETIF_NUMS,               \* how many interface numbers there are (255 in the code)
  LWIP_SINGLE_NETIF,
  LWIP_IPV6_NUM_ADDRESSES,
  EXT_CALLBACKS             \* callback structures of the application

NoNetif == [num |-> 0, flags |-> {}, ip4 |-> "any4", mask |-> "any4", gw |-> "any4",
            ip6 |-> [k \in 1 .. LWIP_IPV6_NUM_ADDRESSES |-> "any6"],
            st6 |-> [k \in 1 .. LWIP_IPV6_NUM_ADDRESSES |-> "INVALID"],
            rs |-> FALSE]

netif_start == [list |-> << >>, default |-> 0, num |-> 0, netif |-> [i \in NETIFS |-> NoNetif],
                ext |-> << >>, once |-> {}, heard |-> [c \in EXT_CALLBACKS |-> {}], sent |-> {}]

ip6_addr_isvalid(s) == s \in {"PREFERRED", "DEPRECATED"}

netif_is_up(N, i) == "UP" \in N.netif[i].flags

\* Every callback of the list hears the notification; the successor is read before
\* a callback runs, so a callback may take itself off the list.
netif_invoke_ext_callback(N, reasons) ==
  [N EXCEPT !.heard = [c \in EXT_CALLBACKS |-> IF c \in Range(N.ext) THEN reasons ELSE @[c]],
            !.ext = SelectSeq(@, LAMBDA c: c \notin N.once)]

netif_add_ext_callback(N, c) == [N EXCEPT !.ext = <<c>> \o @]

netif_remove_ext_callback(N, c) == [N EXCEPT !.ext = SelectSeq(@, LAMBDA d: d # c)]

\* Announcements, when the interface is up and has link.
netif_issue_reports(N, i, families) ==
  LET n == N.netif[i]
      v4 == "ip4" \in families /\ n.ip4 # "any4"
  IN  IF ~({"LINK_UP", "UP"} \subseteq n.flags) THEN N
      ELSE [N EXCEPT !.sent = @ \cup
              (IF v4 /\ "ETHARP" \in n.flags THEN {<<"garp", i>>} ELSE {}) \cup
              (IF v4 /\ "IGMP" \in n.flags THEN {<<"igmp", i>>} ELSE {}) \cup
              (IF "ip6" \in families THEN {<<"mld", i>>} ELSE {})]

nd6_restart_netif(N, i) == [N EXCEPT !.netif[i].rs = TRUE]

TcpIp(a) == IF ip_addr_isany(a) THEN "any" ELSE a

\* NULL, the new address of an interface that loses one, counts as "any".
netif_do_ip_addr_changed(W, old, new) ==
  [W EXCEPT !.T = tcp_netif_ip_addr_changed(@, TcpIp(old), TcpIp(new)),
            !.U = udp_netif_ip_addr_changed(@, old, new),
            !.R = raw_netif_ip_addr_changed(@, old, new)]

\* A change in progress: the new state, and what will be reported.
Unreported(W) == [W |-> W, reasons |-> {}]

netif_do_set_ipaddr(r, i, a) ==
  LET old == r.W.N.netif[i].ip4
  IN  IF a = old THEN r
      ELSE [W |-> [netif_do_ip_addr_changed(r.W, old, a) EXCEPT
                     !.N = netif_issue_reports([@ EXCEPT !.netif[i].ip4 = a], i, {"ip4"})],
            reasons |-> r.reasons \cup {"IPV4_ADDRESS_CHANGED"}]

netif_do_set_netmask(r, i, a) ==
  IF r.W.N.netif[i].mask = a THEN r
  ELSE [W |-> [r.W EXCEPT !.N.netif[i].mask = a],
        reasons |-> r.reasons \cup {"IPV4_NETMASK_CHANGED"}]

netif_do_set_gw(r, i, a) ==
  IF r.W.N.netif[i].gw = a THEN r
  ELSE [W |-> [r.W EXCEPT !.N.netif[i].gw = a],
        reasons |-> r.reasons \cup {"IPV4_GATEWAY_CHANGED"}]

Notify(W, reasons) ==
  IF reasons = {} THEN W ELSE [W EXCEPT !.N = netif_invoke_ext_callback(@, reasons)]

NotifyAll(r) == Notify(r.W, r.reasons)

netif_set_ipaddr(W, i, a) == NotifyAll(netif_do_set_ipaddr(Unreported(W), i, a))

netif_set_netmask(W, i, a) == NotifyAll(netif_do_set_netmask(Unreported(W), i, a))

netif_set_gw(W, i, a) == NotifyAll(netif_do_set_gw(Unreported(W), i, a))

NotifySettings(r, valid) ==
  Notify(r.W, r.reasons \cup (IF r.reasons # {} THEN {"IPV4_SETTINGS_CHANGED"} ELSE {}) \cup valid)

\* The address goes first when it is removed and last when it is set; one
\* notification tells everything that changed.
netif_set_addr(W, i, ip, mask, gw) ==
  LET MaskAndGw(r) == netif_do_set_gw(netif_do_set_netmask(r, i, mask), i, gw)
  IN  IF ip = "any4"
      THEN NotifySettings(MaskAndGw(netif_do_set_ipaddr(Unreported(W), i, ip)), {})
      ELSE NotifySettings(netif_do_set_ipaddr(MaskAndGw(Unreported(W)), i, ip), {"IPV4_ADDR_VALID"})

\* Faulty variant: the next number is taken without looking for an interface that has it.
NextNum(N, num) == num % NETIF_NUMS

\* The first number from num on that no interface of the list has.
FreeNum(N, num) ==
  LET Step(k) == (num + k) % NETIF_NUMS
      free == {k \in 0 .. NETIF_NUMS - 1 : \A j \in Range(N.list) : N.netif[j].num # Step(k)}
  IN  Step(CHOOSE k \in free : \A j \in free : k <= j)

\* The interface gets a number and its place in the list; with a single one there is
\* neither.
Enlist(N, i, num) ==
  IF LWIP_SINGLE_NETIF THEN N
  ELSE [N EXCEPT !.netif[i].num = num, !.list = <<i>> \o @, !.num = (num + 1) % NETIF_NUMS]

\* init is the driver's netif_init_fn: the flags it sets, and whether it succeeds.
Initialised(W, i, init, num) ==
  IF ~init.ok THEN W
  ELSE [W EXCEPT !.N = netif_invoke_ext_callback(
                         Enlist([@ EXCEPT !.netif[i].flags = init.flags], i, num), {"NETIF_ADDED"})]

netif_add(W, i, ip, mask, gw, init) ==
  LET clean == [NoNetif EXCEPT !.rs = TRUE, !.num = W.N.num]
  IN  IF LWIP_SINGLE_NETIF /\ W.N.default # 0 THEN W
      ELSE Initialised(netif_set_addr([W EXCEPT !.N.netif[i] = clean], i, ip, mask, gw),
                       i, init, FreeNum(W.N, W.N.num))

netif_set_default(N, i) == [N EXCEPT !.default = i]

netif_set_up(N, i) ==
  IF netif_is_up(N, i) THEN N
  ELSE LET M == netif_invoke_ext_callback([N EXCEPT !.netif[i].flags = @ \cup {"UP"}],
                                          {"STATUS_CHANGED"})
       IN  nd6_restart_netif(netif_issue_reports(M, i, {"ip4", "ip6"}), i)

\* The callbacks run while the interface is still marked up.
netif_set_down(N, i) ==
  IF ~netif_is_up(N, i) THEN N
  ELSE [netif_invoke_ext_callback(N, {"STATUS_CHANGED"}) EXCEPT
          !.netif[i].flags = @ \ {"UP"},
          !.sent = @ \cup {<<"nd6 cleanup", i>>} \cup
                     (IF "ETHARP" \in N.netif[i].flags THEN {<<"arp cleanup", i>>} ELSE {})]

netif_set_link_up(N, i) ==
  IF "LINK_UP" \in N.netif[i].flags THEN N
  ELSE LET M == [N EXCEPT !.netif[i].flags = @ \cup {"LINK_UP"}]
       IN  netif_invoke_ext_callback(
             nd6_restart_netif(netif_issue_reports(M, i, {"ip4", "ip6"}), i), {"LINK_CHANGED"})

netif_set_link_down(N, i) ==
  IF "LINK_UP" \notin N.netif[i].flags THEN N
  ELSE netif_invoke_ext_callback([N EXCEPT !.netif[i].flags = @ \ {"LINK_UP"}], {"LINK_CHANGED"})

\* The slots of an interface that hold a valid IPv6 address, in order.
ValidSlots(n) == SelectSeq([k \in 1 .. LWIP_IPV6_NUM_ADDRESSES |-> k],
                           LAMBDA k: ip6_addr_isvalid(n.st6[k]))

\* The blocks on its addresses go first, then the interface itself.
LoseAddresses(W, n) ==
  FoldLeft(LAMBDA V, change: netif_do_ip_addr_changed(V, change[1], change[2]), W,
           (IF n.ip4 = "any4" THEN << >> ELSE << <<n.ip4, "any4">> >>) \o
           [j \in 1 .. Len(ValidSlots(n)) |-> <<n.ip6[ValidSlots(n)[j]], "any6">>])

Delist(N, i) == [N EXCEPT !.default = IF @ = i THEN 0 ELSE @,
                          !.list = SelectSeq(@, LAMBDA j: j # i),
                          !.sent = @ \cup {<<"igmp stop", i>>, <<"mld stop", i>>}]

netif_remove(W, i) ==
  [LoseAddresses([W EXCEPT !.N = netif_invoke_ext_callback(@, {"NETIF_REMOVED"})], W.N.netif[i])
     EXCEPT !.N = Delist(netif_set_down(@, i), i)]

MoveBlocks(W, usable, old, new) == IF usable THEN netif_do_ip_addr_changed(W, old, new) ELSE W

ReportIf(usable, N, i) == IF usable THEN netif_issue_reports(N, i, {"ip6"}) ELSE N

netif_ip6_addr_set_parts(W, i, k, a) ==
  LET old == W.N.netif[i].ip6[k]
      valid == ip6_addr_isvalid(W.N.netif[i].st6[k])
  IN  IF a = old THEN W
      ELSE [MoveBlocks(W, valid, old, a) EXCEPT
              !.N = netif_invoke_ext_callback(
                      ReportIf(valid, [@ EXCEPT !.netif[i].ip6[k] = a], i), {"IPV6_SET"})]

netif_ip6_addr_set_state(W, i, k, state) ==
  LET old == W.N.netif[i].st6[k]
      was == ip6_addr_isvalid(old)
      is == ip6_addr_isvalid(state)
  IN  IF state = old THEN W
      ELSE [MoveBlocks(W, was /\ ~is, W.N.netif[i].ip6[k], "any6") EXCEPT
              !.N = netif_invoke_ext_callback(
                      ReportIf(~was /\ is, [@ EXCEPT !.netif[i].st6[k] = state], i),
                      {"IPV6_ADDR_STATE_CHANGED"})]

\* The index of an address the interface has, valid or still tentative; 0 for none.
netif_get_ip6_addr_match(N, i, a) ==
  LET hits == {k \in 1 .. LWIP_IPV6_NUM_ADDRESSES :
                 N.netif[i].st6[k] # "INVALID" /\ N.netif[i].ip6[k] = a}
  IN  IF hits = {} THEN 0 ELSE CHOOSE k \in hits : \A j \in hits : k <= j

ip6_addr_islinklocal(a) == a = "other6"

\* The link-local address is written over slot 1 without telling the blocks
\* bound to what was there.
netif_create_ip6_linklocal_address(W, i) ==
  netif_ip6_addr_set_state([W EXCEPT !.N.netif[i].ip6[1] = "other6"], i, 1, "TENTATIVE")

netif_add_ip6_address(W, i, a) ==
  LET first == IF ip6_addr_islinklocal(a) THEN 1 ELSE 2
      free == {k \in first .. LWIP_IPV6_NUM_ADDRESSES : W.N.netif[i].st6[k] = "INVALID"}
      k == CHOOSE k \in free : \A j \in free : k <= j
  IN  IF netif_get_ip6_addr_match(W.N, i, a) # 0 \/ free = {} THEN W
      ELSE netif_ip6_addr_set_state([W EXCEPT !.N.netif[i].ip6[k] = a], i, k, "TENTATIVE")

NETIF_FOREACH(N) == IF LWIP_SINGLE_NETIF THEN (IF N.default = 0 THEN << >> ELSE <<N.default>>)
                    ELSE N.list

\* Indices start at 1: netif_get_index is the number plus one, 0 is no interface.
netif_get_by_index(N, idx) ==
  LET hits == SelectSeq(NETIF_FOREACH(N), LAMBDA i: N.netif[i].num + 1 = idx)
  IN  IF hits = << >> THEN 0 ELSE Head(hits)

\* Every interface of the model has the same two letters.
netif_find(N, num) == netif_get_by_index(N, num + 1)

-----------------------------------------------------------------------------

(***************************************************************************)
(* The interfaces and the transport tables of lwIP as one state machine:   *)
(* every operation of the interfaces and of Pcbs, called in any order by   *)
(* the thread that holds the core lock.  focus is the protocol whose       *)
(* blocks the application uses in a behaviour.                             *)
(***************************************************************************)

CONSTANTS
  BindPorts,        \* ports the application binds to (0: any)
  RemotePorts,
  UserIps,          \* addresses the application binds to or an interface gets
  TcpIps,           \* addresses TCP blocks are bound to, or segments sent to
  TcpPrios,         \* priorities tcp_setprio sets
  Focuses

VARIABLES tcb, ucb, rcb, nif, focus

transportVars == <<tcb, ucb, rcb, nif, focus>>

World == [T |-> tcb, U |-> ucb, R |-> rcb, N |-> nif]

Becomes(W) == tcb' = W.T /\ ucb' = W.U /\ rcb' = W.R /\ nif' = [W.N EXCEPT !.sent = {}]

\* A behaviour about a transport starts with an interface that is up.
StartNetif ==
  [netif_set_link_up(netif_set_up(
     netif_add([T |-> tcp_init, U |-> udp_init, R |-> raw_init, N |-> netif_start], 1,
               "host4", "subnet4", "peer4", [flags |-> {"ETHARP"}, ok |-> TRUE]).N, 1), 1)
     EXCEPT !.sent = {}]

TransportInit ==
  /\ tcb = tcp_init /\ ucb = udp_init /\ rcb = raw_init
  /\ focus \in Focuses
  /\ nif = IF focus \in {"netif", "netif6", "move"} THEN netif_start ELSE StartNetif
-----------------------------------------------------------------------------
TcpStep(T) == tcb' = T /\ UNCHANGED <<ucb, rcb, nif, focus>>

NewTcp == \E prio \in TcpPrios : TcpStep(tcp_new(tcb, prio))

\* A block the application holds: allocated, not on the passive side of a listener.
BindTcp ==
  \E i \in TCP_PCBS, ip \in TcpIps \cup {"any"}, p \in BindPorts :
    tcb.pcb[i].state = "CLOSED" /\ tcb.pcb[i].port = 0 /\ TcpStep(tcp_bind(tcb, i, ip, p))

Listen ==
  \E i \in TCP_PCBS : tcb.pcb[i].state = "CLOSED" /\ i \in Range(tcb.bound)
                      /\ TcpStep(tcp_listen_with_backlog_and_err(tcb, i))

ConnectTcp ==
  \E i \in TCP_PCBS, ip \in TcpIps, rp \in RemotePorts, mem \in BOOLEAN :
    /\ tcb.pcb[i].state = "CLOSED"
    /\ i \in Range(tcb.bound) \/ tcb.pcb[i].port = 0
    /\ TcpStep(ConnectPcb(tcb, i, ip, rp, mem))

SetPrio == \E i \in TCP_PCBS, p \in TcpPrios :
             tcb.pcb[i].state = "CLOSED" /\ TcpStep(tcp_setprio(tcb, i, p))

Syn == \E ip \in TcpIps, p \in BindPorts \ {0}, rp \in RemotePorts :
         TcpStep(PassiveOpen(tcb, ip, p, rp))

Advance ==
  \E i \in Range(tcb.active) : \E s \in Advances[tcb.pcb[i].state] :
    TcpStep(AdvancePcb(tcb, i, s))

CloseLater ==
  \E i \in Range(tcb.active) :
    /\ tcb.pcb[i].state \in {"ESTABLISHED", "CLOSE_WAIT"} /\ ~tcb.pcb[i].closepend
    /\ TcpStep(DelayClose(tcb, i))

DropTcp == \E i \in TCP_PCBS : tcb.pcb[i].state # "FREE" /\ TcpStep(PcbGone(tcb, i))

CloseListenTcp == \E l \in Range(tcb.listen) : TcpStep(CloseListenPcb(tcb, l))

Age == TcpStep(Older(tcb))

TcpTables == NewTcp \/ BindTcp \/ Listen \/ ConnectTcp \/ SetPrio \/ Syn \/ Advance \/ CloseLater
             \/ DropTcp \/ CloseListenTcp \/ Age
-----------------------------------------------------------------------------
UdpStep(U) == ucb' = U /\ UNCHANGED <<tcb, rcb, nif, focus>>

\* The interface as the transports see it.
Iface(i) == Interface(netif_is_up(nif, i), nif.netif[i].ip4,
                      {nif.netif[i].ip6[k] : k \in {k \in 1 .. LWIP_IPV6_NUM_ADDRESSES :
                                                      ip6_addr_isvalid(nif.netif[i].st6[k])}})

Wildcards == {"any4", IP_ANY_TYPE}

NewUdp == \E t \in {"v4", "any"} : UdpStep(udp_new_ip_type(ucb, t))

BindUdp ==
  \E i \in UDP_PCBS, ip \in UserIps \cup Wildcards, p \in BindPorts :
    ucb.pcb[i].used /\ UdpStep(udp_bind(ucb, i, ip, p).U)

ConnectUdp ==
  \E i \in UDP_PCBS, rp \in RemotePorts :
    ucb.pcb[i].used /\ UdpStep(udp_connect(ucb, i, "peer4", rp))

DisconnectUdp ==
  \E i \in UDP_PCBS : ucb.pcb[i].connected /\ UdpStep(udp_disconnect(ucb, i))

RecvUdp == \E i \in UDP_PCBS : ucb.pcb[i].used /\ UdpStep(udp_recv(ucb, i))

RemoveUdp == \E i \in UDP_PCBS : ucb.pcb[i].used /\ UdpStep(udp_remove(ucb, i))

SendUdp ==
  \E i \in UDP_PCBS, n \in Range(nif.list), to \in {"peer4", "bcast4"} :
    /\ ucb.pcb[i].used
    /\ UdpStep(IF ucb.pcb[i].connected THEN udp_send(ucb, i, Iface(n)).U
               ELSE udp_sendto(ucb, i, Iface(n), to).U)

Datagrams == [src : {"peer4"}, dest : UserIps \cup {"bcast4"}, sport : RemotePorts,
              dport : BindPorts \ {0}, chksum : BOOLEAN]

InputUdp ==
  \E d \in Datagrams, n \in Range(nif.list) :
    UdpStep(udp_input(ucb, Iface(n), d).U)

UdpTables == NewUdp \/ BindUdp \/ ConnectUdp \/ DisconnectUdp \/ RecvUdp \/ RemoveUdp \/ SendUdp
             \/ InputUdp
-----------------------------------------------------------------------------
RawStep(R) == rcb' = R /\ UNCHANGED <<tcb, ucb, nif, focus>>

NewRaw == RawStep(raw_new(rcb, 1))

BindRaw == \E i \in RAW_PCBS, ip \in UserIps \cup Wildcards :
             rcb.pcb[i].used /\ RawStep(raw_bind(rcb, i, ip))

ConnectRaw == \E i \in RAW_PCBS :
                rcb.pcb[i].used /\ RawStep(raw_connect(rcb, i, "peer4"))

DisconnectRaw == \E i \in RAW_PCBS :
                   rcb.pcb[i].connected /\ RawStep(raw_disconnect(rcb, i))

RecvRaw == \E i \in RAW_PCBS, f \in {"passes", "eats"} :
             rcb.pcb[i].used /\ RawStep(raw_recv(rcb, i, f))

RemoveRaw == \E i \in RAW_PCBS : rcb.pcb[i].used /\ RawStep(raw_remove(rcb, i))

InputRaw ==
  \E dest \in UserIps \cup {"bcast4"}, src \in {"peer4", "other4"} :
    RawStep(raw_input(rcb, [src |-> src, dest |-> dest, proto |-> 1]).R)

RawTables == NewRaw \/ BindRaw \/ ConnectRaw \/ DisconnectRaw \/ RecvRaw \/ RemoveRaw \/ InputRaw
-----------------------------------------------------------------------------
NetifStep(W) == Becomes(W) /\ UNCHANGED focus

NetifOnly(N) == NetifStep([World EXCEPT !.N = N])

N0 == World.N

AddNetif ==
  \E i \in (IF focus = "netif" THEN NETIFS ELSE {1}) \ Range(nif.list),
     ip \in (IF focus \in {"netif6", "move"} THEN {"host4"} ELSE UserIps \cup {"any4"}), ok \in BOOLEAN :
    NetifStep(netif_add(World, i, ip, "any4", "any4", [flags |-> {"ETHARP"}, ok |-> ok]))

\* With a single interface there is no list: the interface is the default one.
Present == Range(NETIF_FOREACH(nif))

RemoveNetif == \E i \in Present : NetifStep(netif_remove(World, i))

SetDefault == \E i \in NETIFS : NetifOnly(netif_set_default(N0, i))

SetAddr == \E i \in Present, ip \in UserIps \cup {"any4"} :
             NetifStep(netif_set_addr(World, i, ip, "subnet4", "peer4"))

SetOne == \E i \in Present :
            \/ \E ip \in UserIps : NetifStep(netif_set_ipaddr(World, i, ip))
            \/ NetifStep(netif_set_netmask(World, i, "any4"))
            \/ NetifStep(netif_set_gw(World, i, "any4"))

UpDown == \E i \in Present : \/ NetifOnly(netif_set_up(N0, i))
                             \/ NetifOnly(netif_set_down(N0, i))
                             \/ NetifOnly(netif_set_link_up(N0, i))
                             \/ NetifOnly(netif_set_link_down(N0, i))

Callbacks == \E c \in EXT_CALLBACKS :
               IF c \in Range(nif.ext) THEN NetifOnly(netif_remove_ext_callback(N0, c))
               ELSE \E once \in BOOLEAN :
                      NetifOnly([netif_add_ext_callback(N0, c) EXCEPT
                                   !.once = IF once THEN @ \cup {c} ELSE @ \ {c}])

Ip6Addr ==
  \E i \in Present :
    \/ NetifStep(netif_create_ip6_linklocal_address(World, i))
    \/ NetifStep(netif_add_ip6_address(World, i, "host6"))
    \/ \E k \in 1 .. LWIP_IPV6_NUM_ADDRESSES :
         \/ nif.netif[i].st6[k] # "INVALID" /\
            \E s \in {"INVALID", "PREFERRED", "DEPRECATED"} :
              NetifStep(netif_ip6_addr_set_state(World, i, k, s))
         \/ \E a \in {"host6", "any6"} : NetifStep(netif_ip6_addr_set_parts(World, i, k, a))

Interfaces == AddNetif \/ RemoveNetif \/ SetDefault \/ SetAddr \/ SetOne
Interfaces6 == AddNetif \/ RemoveNetif \/ Ip6Addr \/ UpDown \/ Callbacks

\* One block of each kind, on an address of either family, while the interface
\* loses its addresses.
Hosts == {"host4", "host6"}
HoldTcp ==
  \/ tcb.pcb[1].state = "FREE" /\ tcb.listen = << >> /\ TcpStep(tcp_new(tcb, 1))
  \/ tcb.pcb[1].state = "CLOSED" /\ tcb.pcb[1].port = 0 /\
     \E ip \in Hosts : TcpStep(tcp_bind(tcb, 1, ip, 10))
  \/ Listen \/ ConnectTcp \/ DropTcp \/ CloseListenTcp
HoldUdp ==
  \/ ~ucb.pcb[1].used /\ UdpStep(udp_new_ip_type(ucb, "any"))
  \/ ucb.pcb[1].used /\ \E ip \in Hosts : UdpStep(udp_bind(ucb, 1, ip, 10).U)
HoldRaw ==
  \/ ~rcb.pcb[1].used /\ NewRaw
  \/ rcb.pcb[1].used /\ \E ip \in Hosts : RawStep(raw_bind(rcb, 1, ip))
Moves == HoldTcp \/ HoldUdp \/ HoldRaw \/ AddNetif \/ RemoveNetif \/ Ip6Addr

TransportNext ==
  \/ focus = "tcp" /\ (TcpTables \/ SetAddr)
  \/ focus = "udp" /\ (UdpTables \/ SetAddr)
  \/ focus = "raw" /\ (RawTables \/ SetAddr)
  \/ focus = "netif" /\ Interfaces
  \/ focus = "netif6" /\ Interfaces6
  \/ focus = "move" /\ Moves

TransportSpec == TransportInit /\ [][TransportNext]_transportVars
-----------------------------------------------------------------------------
\* The list every state of a block belongs to.
ListOf(T, state) ==
  CASE state = "LISTEN" -> T.listen
    [] state = "CLOSED" -> T.bound
    [] state = "TIME_WAIT" -> T.tw
    [] OTHER -> T.active

Once(list) == \A j, k \in 1 .. Len(list) : j # k => list[j] # list[k]

\* tcp.h, udp.c: a block is on the list its state names and on no other, once, and
\* a freed one is on none, whatever binds, connects, passive opens, kills for
\* memory and address changes came before.  A CLOSED block is on a list only when
\* it was bound: a tcp_connect that finds no memory leaves the block it gave a
\* port to on none.
TablesConsistent ==
  /\ \A i \in TCP_PCBS \cup LISTEN_PCBS :
       LET s == tcb.pcb[i].state
       IN  \A k \in 1 .. 4 : LET l == TcpLists(tcb)[k]
                             IN  i \in Range(l) => s # "FREE" /\ l = ListOf(tcb, s)
  /\ \A k \in 1 .. 4 : Once(TcpLists(tcb)[k])
  /\ \A i \in TCP_PCBS : tcb.pcb[i].state \notin {"FREE", "CLOSED"}
                           => i \in Range(tcb.active) \cup Range(tcb.tw)
  /\ Once(ucb.list)
  /\ \A i \in UDP_PCBS : i \in Range(ucb.list) <=> ucb.pcb[i].lport # 0
  /\ Once(rcb.list) /\ \A i \in RAW_PCBS : i \in Range(rcb.list) <=> rcb.pcb[i].used

\* tcp_alloc: an active connection that nobody has closed is only ever
\* sacrificed for a new one of higher priority.
KillsLowerPriority ==
  \A i \in TCP_PCBS :
    LET b == tcb.pcb[i]
        c == tcb'.pcb[i]
    IN  b.state \in {"SYN_SENT", "ESTABLISHED", "CLOSE_WAIT", "FIN_WAIT_1", "FIN_WAIT_2"}
        /\ c.state \in {"CLOSED", "SYN_RCVD"} /\ ~b.closepend => b.prio < c.prio

\* The addresses the interfaces of a state have: the IPv6 ones that are valid.
Usable(n, i) == {n.netif[i].ip4} \cup
                {n.netif[i].ip6[k] : k \in Range(ValidSlots(n.netif[i]))}
Addresses(n) == UNION {Usable(n, i) : i \in Range(n.list)}

\* netif_create_ip6_linklocal_address put the link-local address in the place of a.
Overwritten(a) ==
  \E i \in Range(nif.list) : a = nif.netif[i].ip6[1] /\ nif'.netif[i].ip6[1] = "other6"
                             /\ nif'.netif[i].st6[1] = "TENTATIVE"

\* Another address took the place of a.
Replaced(a) ==
  \E i \in Range(nif.list) \cap Range(nif'.list) :
    \/ nif.netif[i].ip4 = a /\ nif'.netif[i].ip4 # "any4"
    \/ \E k \in Range(ValidSlots(nif.netif[i])) \cap Range(ValidSlots(nif'.netif[i])) :
         nif.netif[i].ip6[k] = a /\ nif'.netif[i].ip6[k] # "any6"

\* netif_set_addr, netif_ip6_addr_set_state, netif_remove: once no interface has
\* an address, no connection or bound block is left on it, and a listener, a
\* datagram or a raw block has moved to the address that replaced it, if there is
\* one.  The exception is netif_create_ip6_linklocal_address, which writes over
\* address 0 without telling the blocks on it (netif.c:1561-1586).
NobodyOnALostAddress ==
  \A a \in Addresses(nif) \ Addresses(nif') :
    ~ip_addr_isany(a) /\ ~Overwritten(a) =>
      /\ \A i \in Range(tcb'.active) \cup Range(tcb'.bound) : tcb'.pcb[i].ip # a
      /\ Replaced(a) => /\ \A l \in Range(tcb'.listen) : tcb'.pcb[l].ip # a
                        /\ \A i \in Range(ucb'.list) : ucb'.pcb[i].local # a
                        /\ \A i \in Range(rcb'.list) : rcb'.pcb[i].local # a

\* netif_add: the number of a listed interface is its own, also after the counter
\* wrapped over numbers still in use, so that netif_get_by_index and netif_find
\* give back the interface they were asked for.  This is about several interfaces;
\* with LWIP_SINGLE_NETIF, as in lwipopts.h:38, there is no list to number.
NetifNumbersUnique ==
  \A i \in Range(nif.list) :
    netif_get_by_index(nif, nif.netif[i].num + 1) = i /\ netif_find(nif, nif.netif[i].num) = i

\* udp_sendto, raw_sendto: what leaves has the family of its block on both ends; a
\* datagram carries an address its interface has now, also when the block was
\* bound to an earlier one, and the port of a registered block.
SourceFitsTheInterface ==
  \A n \in Range(nif.list), dst \in {"peer4", "peer6"} :
    /\ \A i \in UDP_PCBS : ucb.pcb[i].used =>
         LET r == IF ucb.pcb[i].connected THEN udp_send(ucb, i, Iface(n))
                  ELSE udp_sendto(ucb, i, Iface(n), dst)
         IN  \A m \in Range(r.sent) : /\ m.src \in Usable(nif, n) /\ SameType(m.src, m.dest)
                                      /\ m.sport = r.U.pcb[i].lport /\ m.sport # 0
                                      /\ i \in Range(r.U.list)
    /\ \A i \in RAW_PCBS : rcb.pcb[i].used =>
         \A m \in Range(IF rcb.pcb[i].connected THEN raw_send(rcb, i, Iface(n))
                        ELSE raw_sendto(rcb, i, Iface(n), dst, FALSE, TRUE)) :
           SameType(m.src, m.dest)

-----------------------------------------------------------------------------

(***************************************************************************)
(* Loopback of an interface (src/core/netif.c): netif_loop_output queues a *)
(* copy of a packet and asks the tcpip thread, through its mailbox, to run *)
(* netif_poll, which hands the queued packets to ip_input.  Output happens *)
(* in the tcpip thread too, from inside ip_input included.                 *)
(***************************************************************************)

CONSTANTS
  LOOP_MAX_PBUFS,   \* LWIP_LOOPBACK_MAX_PBUFS
  ChainLengths,     \* pbufs in a copied packet
  LOOP_MBOX         \* room for callbacks in the mailbox

VARIABLES loop, loop_cnt_current, reschedule_poll, loopMbox, polling

loopVars == <<loop, loop_cnt_current, reschedule_poll, loopMbox, polling>>

LoopbackInit ==
  /\ loop = << >> /\ loop_cnt_current = 0 /\ reschedule_poll = FALSE
  /\ loopMbox = << >> /\ polling = FALSE

\* A packet of clen pbufs; with too many queued it is refused.  A poll is asked for
\* when the queue was empty, or when the last request found the mailbox full.
netif_loop_output(clen) ==
  /\ loop_cnt_current + clen <= LOOP_MAX_PBUFS
  /\ loop_cnt_current' = loop_cnt_current + clen
  /\ loop' = Append(loop, clen)
  /\ LET schedule_poll == loop = << >> \/ reschedule_poll
     IN  IF ~schedule_poll THEN UNCHANGED <<loopMbox, reschedule_poll>>
         ELSE IF Len(loopMbox) < LOOP_MBOX
         THEN /\ loopMbox' = Append(loopMbox, "netif_poll")
              /\ reschedule_poll' = IF loop = << >> THEN reschedule_poll ELSE FALSE
         ELSE /\ reschedule_poll' = TRUE
              /\ UNCHANGED loopMbox
  /\ UNCHANGED polling

\* Other work for the tcpip thread.
OtherMessage ==
  /\ Len(loopMbox) < LOOP_MBOX
  /\ loopMbox' = Append(loopMbox, "other")
  /\ UNCHANGED <<loop, loop_cnt_current, reschedule_poll, polling>>

\* tcpip_thread fetches the next message.
FetchLoopMessage ==
  /\ ~polling /\ loopMbox # << >>
  /\ polling' = (Head(loopMbox) = "netif_poll")
  /\ loopMbox' = Tail(loopMbox)
  /\ UNCHANGED <<loop, loop_cnt_current, reschedule_poll>>

\* One round of netif_poll: the first packet leaves the queue, then goes to ip_input.
netif_poll ==
  /\ polling
  /\ IF loop = << >> THEN polling' = FALSE /\ UNCHANGED <<loop, loop_cnt_current>>
     ELSE /\ loop' = Tail(loop)
          /\ loop_cnt_current' = loop_cnt_current - Head(loop)
          /\ UNCHANGED polling
  /\ UNCHANGED <<reschedule_poll, loopMbox>>

LoopbackNext ==
  \/ \E clen \in ChainLengths : netif_loop_output(clen)
  \/ OtherMessage \/ FetchLoopMessage \/ netif_poll

LoopbackSpec == LoopbackInit /\ [][LoopbackNext]_loopVars
-----------------------------------------------------------------------------
\* netif_loop_output, netif_poll: while packets are queued a poll is running, is in
\* the mailbox, or the next output will ask for one; the count is that of the queue.
QueuedIsPolled ==
  /\ loop # << >> => polling \/ reschedule_poll \/ "netif_poll" \in ToSet(loopMbox)
  /\ loop_cnt_current = FoldSeq(+, 0, loop)
==============================================================================
