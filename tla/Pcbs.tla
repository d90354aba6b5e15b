-------------------------------- MODULE Pcbs ---------------------------------
(***************************************************************************)
(* The tables of lwIP's TCP (src/core/tcp.c): the four lists of control    *)
(* blocks, the ports in use, and what tcp_alloc does when the pool of      *)
(* blocks is empty.  T is [pcb, listen, bound, active, tw, port]: the      *)
(* blocks by number and the lists, first element first.  A block's tmr is  *)
(* its age in slow ticks, 0 when a segment just arrived.  SO_REUSE is off  *)
(* in this build.  What the protocol does to an active block               *)
(* (TcpConnection) appears here as the state changes it allows.  The       *)
(* second part holds the UDP and raw blocks.                               *)
(***************************************************************************)
EXTENDS Integers, SequencesExt

CONSTANTS
  TCP_PCBS,       \* numbers of the blocks of the pool MEMP_TCP_PCB
  LISTEN_PCBS,    \* numbers of the blocks of the pool MEMP_TCP_PCB_LISTEN
  IPS,            \* local addresses, without "any"
  TCP_LOCAL_PORT_RANGE_START,
  TCP_LOCAL_PORT_RANGE_END,
  TCP_PRIO_MAX,
  MaxAge          \* bound on a block's age

NoBlock == [state |-> "FREE", prio |-> 0, tmr |-> 0, ip |-> "any", port |-> 0,
            rport |-> 0, closepend |-> FALSE, listener |-> 0]

tcp_init ==
  [pcb |-> [i \in TCP_PCBS \cup LISTEN_PCBS |-> NoBlock],
   listen |-> << >>, bound |-> << >>, active |-> << >>, tw |-> << >>,
   port |-> TCP_LOCAL_PORT_RANGE_START]

TcpLists(T) == <<T.listen, T.bound, T.active, T.tw>>

Listed(T) == Range(T.listen) \cup Range(T.bound) \cup Range(T.active) \cup Range(T.tw)

TCP_REG(list, i) == <<i>> \o list

TCP_RMV(list, i) == SelectSeq(list, LAMBDA j: j # i)

Unlist(T, i) ==
  [T EXCEPT !.bound = TCP_RMV(@, i), !.active = TCP_RMV(@, i), !.tw = TCP_RMV(@, i),
            !.listen = TCP_RMV(@, i)]

PcbGone(T, i) == [Unlist(T, i) EXCEPT !.pcb[i] = NoBlock]

\* tcp_close on a listener: the blocks it opened forget it, whatever their list.
tcp_remove_listener(T, l) ==
  [T EXCEPT !.pcb = [i \in DOMAIN @ |-> IF @[i].listener = l THEN [@[i] EXCEPT !.listener = 0]
                                        ELSE @[i]]]

CloseListenPcb(T, l) == PcbGone(tcp_remove_listener(T, l), l)

\* The range is walked from the port after the last one given; 0 when every port
\* of it is taken.
FirstPort(ports, last) ==
  IF ports = << >> THEN [port |-> 0, last |-> last] ELSE [port |-> Head(ports), last |-> Head(ports)]

tcp_new_port(T) ==
  LET size == TCP_LOCAL_PORT_RANGE_END - TCP_LOCAL_PORT_RANGE_START
      Step(k) == TCP_LOCAL_PORT_RANGE_START
                   + ((T.port - TCP_LOCAL_PORT_RANGE_START + k) % size)
  IN  FirstPort(SelectSeq([k \in 1 .. size |-> Step(k)],
                          LAMBDA q: \A i \in Listed(T) : T.pcb[i].port # q), Step(size + 1))

BindClash(T, ip, port) ==
  \E i \in Listed(T) :
    /\ T.pcb[i].port = port
    /\ T.pcb[i].ip = "any" \/ ip = "any" \/ T.pcb[i].ip = ip

\* The code checks that the block is CLOSED, not that it is unbound.
TakePort(T, i, ip, port) ==
  IF port = 0 THEN T
  ELSE [T EXCEPT !.pcb[i].ip = IF ip # "any" THEN ip ELSE @, !.pcb[i].port = port,
                 !.bound = TCP_REG(@, i)]

BindNew(T, i, ip, new) == TakePort([T EXCEPT !.port = new.last], i, ip, new.port)

tcp_bind(T, i, ip, port) ==
  IF T.pcb[i].state # "CLOSED" THEN T
  ELSE IF port = 0 THEN BindNew(T, i, ip, tcp_new_port(T))
  ELSE IF BindClash(T, ip, port) THEN T
  ELSE TakePort(T, i, ip, port)

\* The block becomes a smaller one of the listeners' pool.
tcp_listen_with_backlog_and_err(T, i) ==
  LET free == {l \in LISTEN_PCBS : T.pcb[l].state = "FREE"}
      l == CHOOSE l \in free : TRUE
      b == T.pcb[i]
  IN  IF b.state # "CLOSED" \/ free = {} THEN T
      ELSE LET U == PcbGone(T, i)
           IN  [U EXCEPT !.listen = TCP_REG(@, l),
                         !.pcb[l] = [NoBlock EXCEPT !.state = "LISTEN", !.prio = b.prio,
                                                    !.ip = b.ip, !.port = b.port]]

\* The addressing half of tcp_connect; its protocol half is Tcp's tcp_connect.
PortFor(T, i, new) == [T EXCEPT !.port = new.last, !.pcb[i].port = new.port]

Connecting(T, i, ip, rport, mem) ==
  LET U == [T EXCEPT !.pcb[i].ip = IF @ = "any" THEN ip ELSE @, !.pcb[i].rport = rport]
  IN  IF T.pcb[i].port = 0 \/ ~mem THEN U
      ELSE [U EXCEPT !.pcb[i].state = "SYN_SENT", !.bound = TCP_RMV(@, i),
                     !.active = TCP_REG(@, i)]

ConnectPcb(T, i, ip, rport, mem) ==
  IF T.pcb[i].state # "CLOSED" THEN T
  ELSE Connecting(IF T.pcb[i].port = 0 THEN PortFor(T, i, tcp_new_port(T)) ELSE T,
                  i, ip, rport, mem)

tcp_setprio(T, i, prio) == [T EXCEPT !.pcb[i].prio = prio]

\* The last of the oldest blocks of a list that are in S, or 0.
LastOldest(T, list, S) ==
  LET idx == {k \in 1 .. Len(list) : list[k] \in S}
      old == {k \in idx : \A j \in idx : T.pcb[list[j]].tmr <= T.pcb[list[k]].tmr}
  IN  IF idx = {} THEN 0 ELSE list[CHOOSE k \in old : \A j \in old : j <= k]

Kill(T, i) == IF i = 0 THEN T ELSE PcbGone(T, i)

\* Among the active blocks of lower priority: the lowest one, then the oldest.
tcp_kill_prio(T, prio) ==
  LET limit == (IF prio < TCP_PRIO_MAX THEN prio ELSE TCP_PRIO_MAX) - 1
      prios == {T.pcb[i].prio : i \in Range(T.active)}
      low == CHOOSE p \in prios : \A q \in prios : p <= q
  IN  IF prio = 0 \/ T.active = << >> \/ low > limit THEN T
      ELSE Kill(T, LastOldest(T, T.active, {i \in TCP_PCBS : T.pcb[i].prio = low}))

tcp_kill_state(T, state) == Kill(T, LastOldest(T, T.active, {i \in TCP_PCBS : T.pcb[i].state = state}))

tcp_kill_timewait(T) == Kill(T, LastOldest(T, T.tw, TCP_PCBS))

\* The closes that waited for memory are tried again.
tcp_handle_closepend(T) ==
  [T EXCEPT !.pcb = [i \in DOMAIN @ |->
     IF i \in Range(T.active) /\ @[i].closepend
     THEN [@[i] EXCEPT !.closepend = FALSE,
                       !.state = IF @ = "CLOSE_WAIT" THEN "LAST_ACK" ELSE "FIN_WAIT_1"]
     ELSE @[i]]]

FreePcbs(T) == {i \in TCP_PCBS : T.pcb[i].state = "FREE"}

\* The sacrifices of tcp_alloc, in order, until the pool has a block.
MakeRoom(T, prio) ==
  LET Or(U, V) == IF FreePcbs(U) # {} THEN U ELSE V
      Prio(U) == Or(U, tcp_kill_prio(U, prio))
      Closing(U) == Or(U, Prio(tcp_kill_state(U, "CLOSING")))
      LastAck(U) == Or(U, Closing(tcp_kill_state(U, "LAST_ACK")))
  IN  Or(T, LastAck(tcp_kill_timewait(tcp_handle_closepend(T))))

\* tcp_alloc: the block b, unless nothing could be freed for it.
TakePcb(T, b) ==
  LET i == CHOOSE i \in FreePcbs(T) : TRUE
  IN  IF FreePcbs(T) = {} THEN T
      ELSE [T EXCEPT !.pcb[i] = b,
                     !.active = IF b.state = "SYN_RCVD" THEN TCP_REG(@, i) ELSE @]

AllocPcb(T, b) == TakePcb(MakeRoom(T, b.prio), b)

tcp_new(T, prio) == AllocPcb(T, [NoBlock EXCEPT !.state = "CLOSED", !.prio = prio])

\* tcp_listen_input as far as the tables go: a passive open with the priority of
\* the first listener, at the address and port the segment was sent to, when no
\* block is connected to its sender.
PassiveOpen(T, ip, port, rport) ==
  LET l == Head(T.listen)
      known == \E i \in Range(T.active) \cup Range(T.tw) :
                 T.pcb[i].ip = ip /\ T.pcb[i].port = port /\ T.pcb[i].rport = rport
  IN  IF T.listen = << >> \/ known THEN T
      ELSE AllocPcb(T, [NoBlock EXCEPT !.state = "SYN_RCVD", !.prio = T.pcb[l].prio,
                                       !.listener = l, !.ip = ip, !.port = port, !.rport = rport])

\* The state changes of an active block.
Advances ==
  [SYN_SENT |-> {"ESTABLISHED"}, SYN_RCVD |-> {"ESTABLISHED", "FIN_WAIT_1"},
   ESTABLISHED |-> {"CLOSE_WAIT", "FIN_WAIT_1"}, CLOSE_WAIT |-> {"LAST_ACK"},
   FIN_WAIT_1 |-> {"FIN_WAIT_2", "CLOSING", "TIME_WAIT"}, FIN_WAIT_2 |-> {"TIME_WAIT"},
   CLOSING |-> {"TIME_WAIT"}, LAST_ACK |-> {}]

\* A segment moves its block to the front of the active list; a block that
\* enters TIME_WAIT changes lists.  A pending close is over once its FIN is sent.
AdvancePcb(T, i, state) ==
  LET U == [T EXCEPT !.pcb[i].state = state, !.pcb[i].tmr = 0, !.active = TCP_RMV(@, i),
                     !.pcb[i].closepend = @ /\ state \notin {"FIN_WAIT_1", "LAST_ACK"}]
  IN  IF state = "TIME_WAIT" THEN [U EXCEPT !.tw = TCP_REG(@, i)]
      ELSE [U EXCEPT !.active = TCP_REG(@, i)]

DelayClose(T, i) == [T EXCEPT !.pcb[i].closepend = TRUE]

Older(T) ==
  [T EXCEPT !.pcb = [i \in DOMAIN @ |-> IF i \in Range(T.active) \cup Range(T.tw) /\ @[i].tmr < MaxAge
                                        THEN [@[i] EXCEPT !.tmr = @ + 1] ELSE @[i]]]

\* An address of the interface changes: what is bound to the old one is aborted,
\* listeners move to the new one.
tcp_netif_ip_addr_changed_pcblist(T, list, old) ==
  FoldLeft(LAMBDA U, i: IF T.pcb[i].ip = old THEN PcbGone(U, i) ELSE U, T, T[list])

MoveListeners(T, old, new) ==
  [T EXCEPT !.pcb = [i \in DOMAIN @ |->
     IF i \in Range(T.listen) /\ @[i].ip = old THEN [@[i] EXCEPT !.ip = new] ELSE @[i]]]

tcp_netif_ip_addr_changed(T, old, new) ==
  IF old = "any" THEN T
  ELSE MoveListeners(tcp_netif_ip_addr_changed_pcblist(
                       tcp_netif_ip_addr_changed_pcblist(T, "active", old), "bound", old),
                     old, IF new = "any" THEN old ELSE new)

-----------------------------------------------------------------------------

(***************************************************************************)
(* The kinds of IP address lwIP's code tells apart.  An address is a model *)
(* value that stands for every address of its kind.                        *)
(***************************************************************************)

IP4 == {"any4", "host4", "other4", "peer4", "bcast4", "subnet4", "mcast4"}
IP6 == {"any6", "host6", "other6", "peer6", "mcast6"}
IP_ANY_TYPE == "anytype"

IP_IS_V4(a) == a \in IP4
IP_IS_V6(a) == a \in IP6
IP_IS_ANY_TYPE(a) == a = IP_ANY_TYPE

ip_addr_isany(a) == a \in {"any4", "any6", IP_ANY_TYPE}
ip_addr_ismulticast(a) == a \in {"mcast4", "mcast6"}

\* The limited broadcast address and the one of the interface's subnet.
ip_addr_isbroadcast(a) == a \in {"bcast4", "subnet4"}

SameType(a, b) == \/ IP_IS_V4(a) /\ IP_IS_V4(b)
                  \/ IP_IS_V6(a) /\ IP_IS_V6(b)
                  \/ IP_IS_ANY_TYPE(a) /\ IP_IS_ANY_TYPE(b)

\* IP_ADDR_PCB_VERSION_MATCH: a block of type "any" talks to both families.
VersionMatch(local, a) == IP_IS_ANY_TYPE(local) \/ SameType(local, a)

ip_addr_set_any(v6) == IF v6 THEN "any6" ELSE "any4"

\* The single network interface: whether it is up, its IPv4 address and the set
\* of its valid IPv6 addresses.
Interface(up, ip4, ip6) == [up |-> up, ip4 |-> ip4, ip6 |-> ip6]

\* The source address an interface offers for a destination, or "none".
ip_netif_get_local_ip(n, dest) ==
  IF ~IP_IS_V6(dest) THEN n.ip4
  ELSE IF n.ip6 = {} THEN "none" ELSE CHOOSE a \in n.ip6 : TRUE

-----------------------------------------------------------------------------

(***************************************************************************)
(* UDP and raw blocks (src/core/udp.c, src/core/raw.c).  U is the list of  *)
(* registered UDP blocks, the blocks by number and the last port given; R  *)
(* the list of raw blocks and the blocks.  Checksums are either right or   *)
(* not; UDP-Lite, multicast options and address zones are off.             *)
(***************************************************************************)

CONSTANTS
  UDP_PCBS,       \* numbers of the pool MEMP_UDP_PCB
  RAW_PCBS,       \* numbers of the pool MEMP_RAW_PCB
  UDP_LOCAL_PORT_RANGE_START,
  UDP_LOCAL_PORT_RANGE_END

NoUdp == [used |-> FALSE, local |-> "any4", remote |-> "any4", lport |-> 0, rport |-> 0,
          connected |-> FALSE, recv |-> FALSE]

udp_init == [list |-> << >>, pcb |-> [i \in UDP_PCBS |-> NoUdp],
             port |-> UDP_LOCAL_PORT_RANGE_START]

\* Every port of the range is tried once, from the one after the last given.
udp_new_port(U) ==
  LET size == UDP_LOCAL_PORT_RANGE_END - UDP_LOCAL_PORT_RANGE_START + 1
      Step(k) == UDP_LOCAL_PORT_RANGE_START + ((U.port - UDP_LOCAL_PORT_RANGE_START + k) % size)
  IN  FirstPort(SelectSeq([k \in 1 .. size |-> Step(k)],
                          LAMBDA q: \A i \in Range(U.list) : U.pcb[i].lport # q), Step(size))

\* IP_SOF_BROADCAST_RECV is off.
udp_input_local_match(n, b, dest) ==
  \/ IP_IS_ANY_TYPE(b.local)
  \/ /\ SameType(b.local, dest)
     /\ IF ip_addr_isbroadcast(dest)
        THEN b.local = "any4" \/ dest = "bcast4" \/ b.local = n.ip4
        ELSE ip_addr_isany(b.local) \/ b.local = dest

IsPerfect(b, d) == b.rport = d.sport /\ (ip_addr_isany(b.remote) \/ b.remote = d.src)

\* The first element of the least rank below 4, or 0.
FirstOf(list, Rank(_)) ==
  IF \A i \in Range(list) : Rank(i) = 4 THEN 0
  ELSE list[CHOOSE k \in 1 .. Len(list) :
              \A j \in 1 .. Len(list) : Rank(list[k]) < Rank(list[j])
                                       \/ (Rank(list[k]) = Rank(list[j]) /\ k <= j)]

\* The first block connected to the sender, else the first unconnected one; for
\* the limited broadcast, rather one bound to the address of the interface.
udp_input_pcb(U, n, d) ==
  LET hits == SelectSeq(U.list, LAMBDA i: /\ U.pcb[i].lport = d.dport
                                          /\ udp_input_local_match(n, U.pcb[i], d.dest))
      Rank(i) == IF IsPerfect(U.pcb[i], d) THEN 1
                 ELSE IF U.pcb[i].connected THEN 4
                 ELSE IF d.dest = "bcast4" /\ U.pcb[i].local = n.ip4 THEN 2 ELSE 3
  IN  FirstOf(hits, Rank)

ToFront(list, i) == <<i>> \o SelectSeq(list, LAMBDA j: j # i)

\* What becomes of a datagram for block i: delivered, answered with an ICMP port
\* unreachable, or dropped; the block of a perfect match moves to the front.
UdpHandle(U, n, d, i) ==
  LET forUs == IF IP_IS_V6(d.dest) THEN d.dest \in n.ip6 ELSE d.dest = n.ip4
      unreach == ~ip_addr_isbroadcast(d.dest) /\ ~ip_addr_ismulticast(d.dest)
  IN  IF i = 0
      THEN [U |-> U, to |-> 0, does |-> IF forUs /\ d.chksum /\ unreach THEN "unreach" ELSE "drop"]
      ELSE [U |-> IF IsPerfect(U.pcb[i], d) THEN [U EXCEPT !.list = ToFront(@, i)] ELSE U,
            to |-> IF d.chksum THEN i ELSE 0,
            does |-> IF d.chksum /\ U.pcb[i].recv THEN "deliver" ELSE "drop"]

udp_input(U, n, d) == UdpHandle(U, n, d, udp_input_pcb(U, n, d))

UdpRegister(U, i) == [U EXCEPT !.list = IF i \in Range(@) THEN @ ELSE <<i>> \o @]

UdpClash(U, i, ip, port) ==
  \E j \in Range(U.list) \ {i} :
    /\ U.pcb[j].lport = port
    /\ \/ SameType(U.pcb[j].local, ip)
          /\ (U.pcb[j].local = ip \/ ip_addr_isany(ip) \/ ip_addr_isany(U.pcb[j].local))
       \/ IP_IS_ANY_TYPE(U.pcb[j].local) \/ IP_IS_ANY_TYPE(ip)

UdpTakePort(U, i, ip, port) ==
  [U |-> UdpRegister([U EXCEPT !.pcb[i].local = ip, !.pcb[i].lport = port], i), ok |-> TRUE]

UdpBindNew(U, i, ip, new) ==
  IF new.port = 0 THEN [U |-> [U EXCEPT !.port = new.last], ok |-> FALSE]
  ELSE UdpTakePort([U EXCEPT !.port = new.last], i, ip, new.port)

udp_bind(U, i, ip, port) ==
  IF port = 0 THEN UdpBindNew(U, i, ip, udp_new_port(U))
  ELSE IF UdpClash(U, i, ip, port) THEN [U |-> U, ok |-> FALSE]
  ELSE UdpTakePort(U, i, ip, port)

BoundFirst(U, i) ==
  IF U.pcb[i].lport = 0 THEN udp_bind(U, i, U.pcb[i].local, 0) ELSE [U |-> U, ok |-> TRUE]

UdpConnected(b, i, ip, port) ==
  IF ~b.ok THEN b.U
  ELSE UdpRegister([b.U EXCEPT !.pcb[i].remote = ip, !.pcb[i].rport = port,
                               !.pcb[i].connected = TRUE], i)

udp_connect(U, i, ip, port) == UdpConnected(BoundFirst(U, i), i, ip, port)

udp_disconnect(U, i) ==
  [U EXCEPT !.pcb[i].remote = IF IP_IS_ANY_TYPE(U.pcb[i].local) THEN IP_ANY_TYPE
                              ELSE ip_addr_set_any(IP_IS_V6(@)),
            !.pcb[i].rport = 0, !.pcb[i].connected = FALSE]

udp_recv(U, i) == [U EXCEPT !.pcb[i].recv = TRUE]

udp_remove(U, i) ==
  [U EXCEPT !.list = SelectSeq(@, LAMBDA j: j # i), !.pcb[i] = NoUdp]

udp_new_ip_type(U, type) ==
  LET free == {i \in UDP_PCBS : ~U.pcb[i].used}
      any == CASE type = "v4" -> "any4" [] type = "v6" -> "any6" [] type = "any" -> IP_ANY_TYPE
  IN  IF free = {} THEN U
      ELSE [U EXCEPT !.pcb[CHOOSE i \in free : TRUE] =
              [NoUdp EXCEPT !.used = TRUE, !.local = any, !.remote = any]]

udp_netif_ip_addr_changed(U, old, new) ==
  IF ip_addr_isany(old) \/ ip_addr_isany(new) THEN U
  ELSE [U EXCEPT !.pcb = [i \in UDP_PCBS |->
          IF i \in Range(U.list) /\ @[i].local = old THEN [@[i] EXCEPT !.local = new] ELSE @[i]]]

\* udp_sendto_if_src: the checks before a datagram leaves, and the port an unbound
\* block gets; the interface takes it or fails.
UdpSent(b, i, src, dst) ==
  [U |-> b.U, sent |-> IF b.ok THEN <<[src |-> src, dest |-> dst, sport |-> b.U.pcb[i].lport]>>
                       ELSE << >>]

udp_sendto_if_src(U, i, src, dst) ==
  IF VersionMatch(U.pcb[i].local, src) /\ VersionMatch(U.pcb[i].local, dst)
  THEN UdpSent(BoundFirst(U, i), i, src, dst)
  ELSE [U |-> U, sent |-> << >>]

\* udp_sendto_if: a source address of the interface.
UdpSource(U, i, n, dst) ==
  LET a == U.pcb[i].local
  IN  IF IP_IS_V6(dst)
      THEN IF a = "any6" \/ a = IP_ANY_TYPE \/ a = "mcast6" THEN ip_netif_get_local_ip(n, dst)
           ELSE IF a \in n.ip6 THEN a ELSE "none"
      ELSE IF a = "any4" \/ a = IP_ANY_TYPE \/ a = "mcast4" THEN n.ip4
           ELSE IF a = n.ip4 THEN a ELSE "none"

\* udp_sendto: the route, then the source, then the datagram.
udp_sendto(U, i, n, dst) ==
  LET src == UdpSource(U, i, n, dst)
  IN  IF ~VersionMatch(U.pcb[i].local, dst) \/ ~n.up \/ src = "none"
      THEN [U |-> U, sent |-> << >>]
      ELSE udp_sendto_if_src(U, i, src, dst)

udp_send(U, i, n) ==
  IF IP_IS_ANY_TYPE(U.pcb[i].remote) THEN [U |-> U, sent |-> << >>]
  ELSE udp_sendto(U, i, n, U.pcb[i].remote)
-----------------------------------------------------------------------------
NoRaw == [used |-> FALSE, proto |-> 0, local |-> "any4", remote |-> "any4",
          connected |-> FALSE, recv |-> "none"]

raw_init == [list |-> << >>, pcb |-> [i \in RAW_PCBS |-> NoRaw]]

raw_input_local_match(b, dest) ==
  \/ IP_IS_ANY_TYPE(b.local)
  \/ /\ SameType(b.local, dest)
     /\ IF ip_addr_isbroadcast(dest) THEN b.local = "any4"
        ELSE ip_addr_isany(b.local) \/ b.local = dest

\* Every matching block sees the packet until one of them eats it.
raw_input(R, d) ==
  LET Hit(k) == LET b == R.pcb[R.list[k]]
                IN  /\ b.proto = d.proto /\ raw_input_local_match(b, d.dest) /\ b.recv # "none"
                    /\ ~b.connected \/ b.remote = d.src
      hits == {k \in 1 .. Len(R.list) : Hit(k)}
      eaters == {k \in hits : R.pcb[R.list[k]].recv = "eats"}
      e == CHOOSE k \in eaters : \A j \in eaters : k <= j
  IN  IF eaters # {}
      THEN [R |-> [R EXCEPT !.list = ToFront(@, R.list[e])], eaten |-> TRUE,
            seen |-> {R.list[k] : k \in {k \in hits : k <= e}}]
      ELSE [R |-> R, eaten |-> FALSE, seen |-> {R.list[k] : k \in hits}]

raw_bind(R, i, ip) == [R EXCEPT !.pcb[i].local = ip]

raw_connect(R, i, ip) == [R EXCEPT !.pcb[i].remote = ip, !.pcb[i].connected = TRUE]

raw_disconnect(R, i) ==
  [R EXCEPT !.pcb[i].remote = IF IP_IS_ANY_TYPE(R.pcb[i].local) THEN IP_ANY_TYPE
                              ELSE ip_addr_set_any(IP_IS_V6(@)),
            !.pcb[i].connected = FALSE]

raw_recv(R, i, recv) == [R EXCEPT !.pcb[i].recv = recv]

raw_remove(R, i) == [R EXCEPT !.list = SelectSeq(@, LAMBDA j: j # i), !.pcb[i] = NoRaw]

raw_new(R, proto) ==
  LET free == {i \in RAW_PCBS : ~R.pcb[i].used}
      i == CHOOSE i \in free : TRUE
  IN  IF free = {} THEN R
      ELSE [R EXCEPT !.list = <<i>> \o @,
                     !.pcb[i] = [NoRaw EXCEPT !.used = TRUE, !.proto = proto]]

raw_netif_ip_addr_changed(R, old, new) ==
  IF ip_addr_isany(old) \/ ip_addr_isany(new) THEN R
  ELSE [R EXCEPT !.pcb = [i \in RAW_PCBS |->
          IF @[i].used /\ @[i].local = old THEN [@[i] EXCEPT !.local = new] ELSE @[i]]]

\* A packet needs both addresses of the block's family; hdrincl packets bring a
\* header of their own, which must be complete.
raw_sendto_if_src(R, i, src, dst, hdrincl, complete) ==
  IF ~VersionMatch(R.pcb[i].local, src) \/ ~VersionMatch(R.pcb[i].local, dst)
     \/ (hdrincl /\ ~complete)
  THEN << >>
  ELSE <<[src |-> src, dest |-> dst, proto |-> R.pcb[i].proto]>>

raw_sendto(R, i, n, dst, hdrincl, complete) ==
  LET a == R.pcb[i].local
      src == IF ip_addr_isany(a) \/ ip_addr_ismulticast(a) THEN ip_netif_get_local_ip(n, dst)
             ELSE a
  IN  IF ~VersionMatch(a, dst) \/ ~n.up \/ src = "none" THEN << >>
      ELSE raw_sendto_if_src(R, i, src, dst, hdrincl, complete)

raw_send(R, i, n) == raw_sendto(R, i, n, R.pcb[i].remote, FALSE, TRUE)
==============================================================================
