------------------------------- MODULE Bridge -------------------------------
(***************************************************************************)
(* The Ethernet bridge of netif/bridgeif.c, its learning table of          *)
(* netif/bridgeif_fdb.c, and the dispatch of netif/ethernet.c.  Hosts hang *)
(* on the bridge's ports and move between them.  The ports hand their      *)
(* frames to the tcpip thread's mailbox (bridgeif_tcpip_input); there they *)
(* are learned from, forwarded or handed to the bridge's own interface.    *)
(***************************************************************************)
EXTENDS Naturals, Sequences, FiniteSets

CONSTANTS
  HOSTS,                \* the stations
  PORTS,                \* the netifs that may become ports, in the order they are added
  MAX_PORTS,            \* max_ports of bridgeif_initdata_t
  FDBD,                 \* max_fdb_dynamic_entries
  FDBS,                 \* max_fdb_static_entries
  BR_FDB_TIMEOUT_SEC,
  BridgeMbox,           \* the frames the mailbox takes
  STATICS,              \* the addresses the application adds to the static table
  ETHTYPES              \* the types of the frames for the bridge itself

ASSUME BridgeAssumption ==
  /\ PORTS \in Seq({PORTS[k] : k \in DOMAIN PORTS}) /\ PORTS # <<>>
  /\ {MAX_PORTS, FDBD, FDBS, BR_FDB_TIMEOUT_SEC} \subseteq Nat
  /\ "group" \notin HOSTS /\ STATICS \subseteq HOSTS

VARIABLES
  ports,                \* the ports added so far, ports[k] is port number k
  portUp,               \* netif -> is its link up
  fdbs,                 \* the static entries
  fdbd,                 \* the dynamic entries
  inbox,                \* frames on their way to bridgeif_input
  at,                   \* host -> the netif it is plugged into
  heard,                \* host -> where the bridge last heard it and how long ago
  sentOn                \* where the frame handled last went: netifs, handlers of the stack

bridgeVars == <<ports, portUp, fdbs, fdbd, inbox, at, heard, sentOn>>

BRIDGE == "bridge"
GROUP == "group"
NOPORT == "none"
Unused == [used |-> FALSE, ts |-> 0, port |-> 0, addr |-> NOPORT]
UnusedStatic == [used |-> FALSE, dst_ports |-> {}, addr |-> NOPORT]

Silent == [port |-> 0, since |-> BR_FDB_TIMEOUT_SEC]

PortSet == {PORTS[k] : k \in DOMAIN PORTS}
Live(e) == e.used /\ e.ts > 0
CPU == MAX_PORTS + 1
BR_FLOOD == 1 .. CPU

SetAt(s, P(_)) == {k \in DOMAIN s : P(s[k])}
Lowest(S) == CHOOSE k \in S : \A m \in S : k <= m

(***************************************************************************)
(* The learning table.                                                     *)
(***************************************************************************)
bridgeif_fdb_init == [k \in 1 .. FDBD |-> Unused]
\* Faulty variant: a known station keeps its port until its entry expires.
UpdateKeepsPort(fdb, addr, port) ==
  LET known == SetAt(fdb, LAMBDA e : Live(e) /\ e.addr = addr)
      free == SetAt(fdb, LAMBDA e : ~Live(e))
      entry == [used |-> TRUE, ts |-> BR_FDB_TIMEOUT_SEC, port |-> port, addr |-> addr]
  IN IF known # {} THEN [fdb EXCEPT ![Lowest(known)].ts = BR_FDB_TIMEOUT_SEC]
     ELSE IF free # {} THEN [fdb EXCEPT ![Lowest(free)] = entry]
     ELSE fdb

\* Refreshes the address's entry, else takes the first free one, if any.
bridgeif_fdb_update_src(fdb, addr, port) ==
  LET known == SetAt(fdb, LAMBDA e : Live(e) /\ e.addr = addr)
      free == SetAt(fdb, LAMBDA e : ~Live(e))
      entry == [used |-> TRUE, ts |-> BR_FDB_TIMEOUT_SEC, port |-> port, addr |-> addr]
  IN IF known # {} THEN [fdb EXCEPT ![Lowest(known)] = entry]
     ELSE IF free # {} THEN [fdb EXCEPT ![Lowest(free)] = entry]
     ELSE fdb

bridgeif_fdb_get_dst_ports(fdb, addr) ==
  LET known == SetAt(fdb, LAMBDA e : Live(e) /\ e.addr = addr)
  IN IF known # {} THEN {fdb[Lowest(known)].port} ELSE BR_FLOOD

bridgeif_fdb_age_one_second(fdb) ==
  [k \in DOMAIN fdb |-> IF ~Live(fdb[k]) THEN fdb[k]
                        ELSE IF fdb[k].ts > 1 THEN [fdb[k] EXCEPT !.ts = @ - 1]
                        ELSE [fdb[k] EXCEPT !.ts = 0, !.used = FALSE]]

\* Re-armed for the next second at its end, so it always runs again.
bridgeif_age_tmr ==
  /\ fdbd' = bridgeif_fdb_age_one_second(fdbd)
  /\ heard' = [h \in HOSTS |-> IF heard[h].since + 1 >= BR_FDB_TIMEOUT_SEC THEN Silent
                               ELSE [heard[h] EXCEPT !.since = @ + 1]]
  /\ sentOn' = {}
  /\ UNCHANGED <<ports, portUp, fdbs, inbox, at>>

(***************************************************************************)
(* The static table.  An address may be added twice.                       *)
(***************************************************************************)
bridgeif_fdb_add(addr, mask) ==
  LET free == SetAt(fdbs, LAMBDA e : ~e.used)
  IN /\ free # {}
     /\ fdbs' = [fdbs EXCEPT ![Lowest(free)] = [used |-> TRUE, dst_ports |-> mask, addr |-> addr]]
     /\ sentOn' = {}
     /\ UNCHANGED <<ports, portUp, fdbd, inbox, at, heard>>

bridgeif_fdb_remove(addr) ==
  LET known == SetAt(fdbs, LAMBDA e : e.used /\ e.addr = addr)
  IN /\ known # {}
     /\ fdbs' = [fdbs EXCEPT ![Lowest(known)] = UnusedStatic]
     /\ sentOn' = {}
     /\ UNCHANGED <<ports, portUp, fdbd, inbox, at, heard>>

bridgeif_find_dst_ports(fdb, dst) ==
  LET static == SetAt(fdbs, LAMBDA e : e.used /\ e.addr = dst)
  IN IF static # {} THEN fdbs[Lowest(static)].dst_ports
     ELSE IF dst = GROUP THEN BR_FLOOD
     ELSE bridgeif_fdb_get_dst_ports(fdb, dst)

\* The MAC of the bridge or of one of its ports.
bridgeif_is_local_mac(dst) == dst = BRIDGE \/ \E k \in DOMAIN ports : ports[k] = dst

(***************************************************************************)
(* Sending.  in: the netif the frame came in on, NOPORT for an own frame.  *)
(***************************************************************************)
\* The netif the frame leaves on, if any: not where it came from, not a dead link.
bridgeif_send_to_port(in, k) ==
  IF k <= MAX_PORTS /\ k \in DOMAIN ports /\ ports[k] # in /\ portUp[ports[k]] THEN {ports[k]} ELSE {}

bridgeif_send_to_ports(in, mask) == UNION {bridgeif_send_to_port(in, k) : k \in mask \ {CPU}}

Route(in, fdb, dst) == bridgeif_send_to_ports(in, bridgeif_find_dst_ports(fdb, dst))

\* What the bridge's own interface makes of a frame: ETHARP is set on it, so
\* IP and ARP are taken; a tag is skipped; an unknown type is dropped.
ethernet_input(t) ==
  LET type == IF t[1] = "vlan" THEN t[2] ELSE t[1]
  IN CASE type = "ip" -> {"ip4_input"}
       [] type = "arp" -> {"etharp_input"}
       [] type = "ip6" -> {"ip6_input"}
       [] type = "pppoedisc" -> {"pppoe_disc_input"}
       [] type = "pppoe" -> {"pppoe_data_input"}
       [] OTHER -> {}

\* The bridge's own interface sends: ethernet_output adds the header, linkoutput
\* is bridgeif_output.
bridgeif_output(dst) ==
  /\ UNCHANGED <<ports, portUp, fdbs, fdbd, inbox, at, heard>>
  /\ sentOn' = Route(NOPORT, fdbd, dst)

\* Learn from the source, then flood, forward or take the frame.
bridgeif_input(type) ==
  LET f == Head(inbox)
      port == CHOOSE k \in DOMAIN ports : ports[k] = f.in
      fdb == bridgeif_fdb_update_src(fdbd, f.src, port)
  IN /\ inbox # <<>>
     /\ inbox' = Tail(inbox)
     /\ fdbd' = fdb
     /\ heard' = [heard EXCEPT ![f.src] = [port |-> port, since |-> 0]]
     /\ \/ /\ f.dst = GROUP
           /\ sentOn' = Route(f.in, fdb, f.dst) \cup
                           IF CPU \in bridgeif_find_dst_ports(fdb, f.dst) THEN ethernet_input(type) ELSE {}
        \/ f.dst # GROUP /\ bridgeif_is_local_mac(f.dst) /\ sentOn' = ethernet_input(type)
        \/ f.dst # GROUP /\ ~bridgeif_is_local_mac(f.dst) /\ sentOn' = Route(f.in, fdb, f.dst)
     /\ UNCHANGED <<ports, portUp, fdbs, at>>

(***************************************************************************)
(* Set-up and the world.                                                   *)
(***************************************************************************)
\* Takes the next port number; from now on the netif's input is the bridge's.
bridgeif_add_port(n) ==
  /\ Len(ports) < MAX_PORTS
  /\ n = PORTS[Len(ports) + 1]
  /\ ports' = Append(ports, n)
  /\ sentOn' = {}
  /\ UNCHANGED <<portUp, fdbs, fdbd, inbox, at, heard>>

\* A host sends a frame; the port's driver hands it to the tcpip thread, or
\* drops it when the mailbox is full.
bridgeif_tcpip_input(h, dst) ==
  /\ portUp[at[h]] /\ \E k \in DOMAIN ports : ports[k] = at[h]
  /\ Len(inbox) < BridgeMbox
  /\ inbox' = Append(inbox, [src |-> h, dst |-> dst, in |-> at[h]])
  /\ sentOn' = {}
  /\ UNCHANGED <<ports, portUp, fdbs, fdbd, at, heard>>

\* A host is unplugged and plugged in elsewhere.
Move(h, n) ==
  /\ at[h] # n
  /\ at' = [at EXCEPT ![h] = n]
  /\ sentOn' = {}
  /\ UNCHANGED <<ports, portUp, fdbs, fdbd, inbox, heard>>

LinkChanges(n) ==
  /\ portUp' = [portUp EXCEPT ![n] = ~@]
  /\ sentOn' = {}
  /\ UNCHANGED <<ports, fdbs, fdbd, inbox, at, heard>>

bridgeif_init ==
  /\ ports = <<>>
  /\ portUp = [n \in PortSet |-> TRUE]
  /\ fdbs = [k \in 1 .. FDBS |-> UnusedStatic]
  /\ fdbd = bridgeif_fdb_init
  /\ inbox = <<>>
  /\ at = [h \in HOSTS |-> PORTS[1]]
  /\ heard = [h \in HOSTS |-> Silent]
  /\ sentOn = {}

BridgeNext ==
  \/ bridgeif_age_tmr
  \/ \E t \in ETHTYPES : bridgeif_input(<<t>>) \/ bridgeif_input(<<"vlan", t>>)
  \/ \E n \in PortSet : bridgeif_add_port(n) \/ LinkChanges(n)
  \/ \E h \in HOSTS, n \in PortSet : Move(h, n)
  \/ \E dst \in HOSTS \cup {GROUP} : bridgeif_output(dst)
  \/ \E h \in HOSTS : \E dst \in (HOSTS \ {h}) \cup {GROUP, BRIDGE} :
       bridgeif_tcpip_input(h, dst)
  \/ \E h \in STATICS : bridgeif_fdb_remove(h) \/ \E k \in 1 .. MAX_PORTS : bridgeif_fdb_add(h, {k})

BridgeSpec == bridgeif_init /\ [][BridgeNext]_bridgeVars

(***************************************************************************)
(* Properties.                                                             *)
(***************************************************************************)
\* The learning table holds an address at most once, at the port it was last
\* heard on and for no longer than BR_FDB_TIMEOUT_SEC after that, whatever
\* the order in which frames, moves and ageing happened and however often
\* the table was full.
FdbIsRecent ==
  \A k \in DOMAIN fdbd :
    Live(fdbd[k]) =>
      LET h == fdbd[k].addr
      IN /\ fdbd[k].port = heard[h].port
         /\ heard[h].since + fdbd[k].ts = BR_FDB_TIMEOUT_SEC
         /\ \A m \in DOMAIN fdbd : Live(fdbd[m]) /\ fdbd[m].addr = h => m = k

\* A unicast frame reaches the host it is for, unless the host moved and the
\* bridge has heard nothing from it since (for up to BR_FDB_TIMEOUT_SEC), a
\* static entry sends it elsewhere, its link is down, or it is on the link the
\* frame came from; and no frame is sent back to where it came from.
FramesReachTheirHost ==
  \A in \in PortSet \cup {NOPORT} :
    /\ in \notin UNION {Route(in, fdbd, dst) : dst \in HOSTS \cup {GROUP}}
    /\ \A h \in HOSTS :
         /\ heard[h] = Silent \/ ports[heard[h].port] = at[h]
         /\ SetAt(fdbs, LAMBDA e : e.used /\ e.addr = h) = {}
         /\ in # at[h] /\ portUp[at[h]] /\ (\E k \in DOMAIN ports : ports[k] = at[h])
         => at[h] \in Route(in, fdbd, h)

\* What the table says of the hosts, and where frames go because of it
\* (bridgeif_fdb_update_src, bridgeif_fdb_age_one_second, bridgeif_send_to_ports);
\* without ports they go nowhere.
BridgeForwards == FdbIsRecent /\ (ports # <<>> => FramesReachTheirHost)
=============================================================================
