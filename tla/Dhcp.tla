-------------------------------- MODULE Dhcp --------------------------------
(***************************************************************************)
(* How an lwIP interface gets its IPv4 address: the DHCP client            *)
(* (src/core/ipv4/dhcp.c), link-local addresses (autoip.c) and the address *)
(* conflict detection both rest on (acd.c).  C is the state of the         *)
(* interface; an operator maps it to the state after the call.  Timers of  *)
(* less than a minute fire at any time while they are armed; the minutes   *)
(* (dhcp_coarse_tmr) are counted.  A message is delivered or lost within   *)
(* the minute it is sent in.                                               *)
(***************************************************************************)
EXTENDS Integers, Sequences, FiniteSets

CONSTANTS
  LEASABLE,          \* the addresses of the DHCP server
  LINKLOCAL,         \* the link-local addresses in the order they are tried
  COARSE,            \* DHCP_COARSE_TIMER_SECS
  WORD, MAX_TIMEOUT, \* 2^32 and 0xffff: the widths of an offered time and of a count of minutes
  DHCP_TRIES,        \* 5: requests before the client starts over
  REBOOT_TRIES, COOP_TRIES, TRIES_CAP,    \* 2, LWIP_DHCP_AUTOIP_COOP_TRIES, 255
  PROBE_NUM, ANNOUNCE_NUM, MAX_CONFLICTS,
  SCENARIOS          \* what differs between behaviours: the options LWIP_DHCP_AUTOIP_COOP (coop)
                     \* and LWIP_DHCP_DOES_ACD_CHECK (acdcheck); the times in the server's
                     \* acknowledgements (acks: records of lease, t1 and t2); the transaction ids
                     \* of the messages under way (xids: a bound); and which of "replug", "restart"
                     \* and "scarce" happen (events): the link goes down and up, dhcp_start is
                     \* called while the client runs, memory is short

VARIABLES
  client,            \* C
  leases,            \* the server's: seconds left of each address
  checkedMinutes     \* minutes the running check has taken

dhcpVars == <<client, leases, checkedMinutes>>

ANYADDR == "any"
INFINITE == WORD - 1
ABSENT == -1         \* an option that is not in the message
LL == {LINKLOCAL[i] : i \in DOMAIN LINKLOCAL}
AcdOff == [state |-> "OFF", ip |-> ANYADDR, sent |-> 0, conflicts |-> 0, recent |-> FALSE]

Smaller(a, b) == IF a < b THEN a ELSE b
Larger(a, b) == IF a > b THEN a ELSE b

(***************************************************************************)
(* dhcp.c: states and messages.                                            *)
(***************************************************************************)
dhcp_set_state(C, s) ==
  IF C.state = s THEN C ELSE [C EXCEPT !.state = s, !.tries = 0, !.request_timeout = FALSE]

dhcp_supplied_address(C) == C.state \in {"BOUND", "RENEWING", "REBINDING"}

Message(type, xid, ip, times) == [type |-> type, xid |-> xid, ip |-> ip, times |-> times]
NoTimes == [lease |-> ABSENT, t1 |-> ABSENT, t2 |-> ABSENT]

\* A transaction id is random: no message under way has a fresh one.  The xid
\* of a message is the number of ids the client has taken since.  Without
\* memory for the message nothing changes: its callers go on as if it were sent.
dhcp_create_msg(C, type, ip) ==
  LET own == type # "REQUEST" \/ C.state = "REBOOTING"
      rest == IF own /\ C.tries = 0
                THEN {[m EXCEPT !.xid = @ + 1] : m \in {x \in C.net : x.xid + 1 < C.xids}} ELSE C.net
  IN IF "msg" \notin C.mem THEN C
     ELSE [C EXCEPT !.net = rest \cup {Message(type, 0, ip, NoTimes)}, !.blank = @ /\ ~own]

Tried(C) == [C EXCEPT !.tries = Smaller(@ + 1, TRIES_CAP), !.request_timeout = TRUE]

(***************************************************************************)
(* acd.c and the part of netif.c that tells it of a new address.           *)
(***************************************************************************)
acd_add(C, who) ==
  IF \E i \in DOMAIN C.acds : C.acds[i] = who THEN C
  ELSE [C EXCEPT !.acds = <<who>> \o @, !.cut = @ /\ who # "autoip"]

acd_remove(C, who) == [C EXCEPT !.acds = SelectSeq(@, LAMBDA x : x # who)]

acd_start(C, who, ip) ==
  [C EXCEPT !.acd[who] = [@ EXCEPT !.state = "PROBE_WAIT", !.ip = ip, !.sent = 0, !.recent = FALSE]]

acd_stop(C, who) == [C EXCEPT !.acd[who].state = "OFF"]

acd_network_changed_link_down(C) ==
  [C EXCEPT !.acd = [who \in DOMAIN @ |->
     IF \E i \in DOMAIN C.acds : C.acds[i] = who THEN [@[who] EXCEPT !.state = "OFF"] ELSE @[who]]]

\* The owner of the link-local address is told to give it up (ACD_DECLINE), or listens on.
acd_put_in_passive_mode(C) ==
  CASE C.acd["autoip"].state \in {"PROBE_WAIT", "PROBING", "ANNOUNCE_WAIT", "RATE_LIMIT"} ->
         [acd_stop(C, "autoip") EXCEPT !.autoip = "OFF", !.llipaddr = ANYADDR]
    [] C.acd["autoip"].state \in {"ANNOUNCING", "ONGOING"} ->
         [C EXCEPT !.acd["autoip"].state = "PASSIVE_ONGOING"]
    [] OTHER -> C

acd_netif_ip_addr_changed(C, new) ==
  IF /\ C.addr \in LL /\ new \notin LL \cup {ANYADDR}
     /\ \E i \in DOMAIN C.acds : C.acds[i] = "autoip"
     /\ C.acd["autoip"].ip = C.addr
    THEN acd_put_in_passive_mode(C) ELSE C

netif_set_addr(C, a) ==
  IF a = C.addr THEN C ELSE [acd_netif_ip_addr_changed(C, a) EXCEPT !.addr = a]

(***************************************************************************)
(* autoip.c.                                                               *)
(***************************************************************************)
autoip_create_addr(C) == LINKLOCAL[(C.tried % Len(LINKLOCAL)) + 1]

autoip_start(C) ==
  LET A == acd_add(C, "autoip")
      B == IF A.llipaddr \in LL THEN A ELSE [A EXCEPT !.llipaddr = autoip_create_addr(A)]
  IN IF C.autoip # "OFF" THEN C
     ELSE acd_start([B EXCEPT !.autoip = "CHECKING"], "autoip", B.llipaddr)

autoip_restart(C) == autoip_start([C EXCEPT !.tried = (@ + 1) % Len(LINKLOCAL)])

autoip_bind(C) == netif_set_addr([C EXCEPT !.autoip = "BOUND"], C.llipaddr)

autoip_stop(C) ==
  LET A == [C EXCEPT !.autoip = "OFF"] IN IF C.addr \in LL THEN netif_set_addr(A, ANYADDR) ELSE A

autoip_conflict_callback(C, event) ==
  CASE event = "ACD_IP_OK" -> autoip_bind(C)
    [] event = "ACD_RESTART_CLIENT" -> autoip_restart(C)
    [] event = "ACD_DECLINE" -> autoip_stop([C EXCEPT !.llipaddr = ANYADDR])

autoip_network_changed_link_up(C) ==
  IF C.autoip # "OFF" /\ ~C.coop
    THEN acd_start([C EXCEPT !.autoip = "CHECKING"], "autoip", C.llipaddr) ELSE C

autoip_network_changed_link_down(C) == IF C.autoip # "OFF" /\ C.coop THEN autoip_stop(C) ELSE C

(***************************************************************************)
(* dhcp.c: the requests the client makes.                                  *)
(***************************************************************************)
dhcp_discover(C) ==
  LET A == IF C.coop /\ C.tries >= COOP_TRIES THEN autoip_start(C) ELSE C
      B == dhcp_set_state([A EXCEPT !.offered = ANYADDR], "SELECTING")
  IN Tried(dhcp_create_msg(B, "DISCOVER", ANYADDR))

dhcp_select(C) == LET A == dhcp_set_state(C, "REQUESTING") IN Tried(dhcp_create_msg(A, "REQUEST", A.offered))

\* A renewal names the address the interface has (ciaddr), a reboot the one it was offered.
dhcp_renew(C) == LET A == dhcp_set_state(C, "RENEWING") IN Tried(dhcp_create_msg(A, "REQUEST", A.addr))

dhcp_rebind(C) == LET A == dhcp_set_state(C, "REBINDING") IN Tried(dhcp_create_msg(A, "REQUEST", A.addr))

dhcp_reboot(C) == LET A == dhcp_set_state(C, "REBOOTING") IN Tried(dhcp_create_msg(A, "REQUEST", A.offered))

dhcp_decline(C) == dhcp_create_msg(dhcp_set_state(C, "BACKING_OFF"), "DECLINE", C.offered)

ForgetLease(C) == [C EXCEPT !.t0 = 0, !.t1 = 0, !.t2 = 0, !.lease_used = 0, !.lease = 0, !.offered = ANYADDR]

dhcp_release_and_stop(C) ==
  LET A == dhcp_set_state(ForgetLease(C), "OFF")
      B == IF dhcp_supplied_address(C)
             THEN netif_set_addr(dhcp_create_msg(A, "RELEASE", A.addr), ANYADDR) ELSE A
  IN IF C.state = "OFF" THEN C
     ELSE IF C.acdcheck THEN acd_remove(B, "dhcp") ELSE B

\* memset clears the list link in dhcp->acd: what follows it on the list is
\* cut off (cut: that was the check of AutoIP).  No message has the cleared xid (blank).
Wiped(C) ==
  LET at == {j \in DOMAIN C.acds : C.acds[j] = "dhcp"}
      kept == {k \in DOMAIN C.acds : \A j \in at : k <= j}
  IN [ForgetLease(C) EXCEPT !.state = "OFF", !.tries = 0, !.request_timeout = FALSE, !.t2_timeout = 0, !.forever = FALSE,
                       !.acd["dhcp"] = AcdOff, !.blank = TRUE,
                       !.acds = SubSeq(@, 1, Cardinality(kept)),
                       !.cut = @ \/ \E k \in DOMAIN C.acds \ kept : C.acds[k] = "autoip"]

\* dhcp_discover never reports an error; the control block of UDP may not be had.
dhcp_start(C) ==
  LET A == Wiped(C)
      B == IF C.acdcheck THEN acd_add(A, "dhcp") ELSE A
  IN IF "pcb" \notin C.mem THEN B
     ELSE IF ~C.link THEN dhcp_set_state(B, "INIT") ELSE dhcp_discover(B)

dhcp_stop(C) == dhcp_release_and_stop(C)
\* Faulty variant: the client backs off without asking anew.
NakOnlyBacksOff(C) == netif_set_addr(dhcp_set_state(C, "BACKING_OFF"), ANYADDR)

(***************************************************************************)
(* Answers and conflicts.                                                  *)
(***************************************************************************)
dhcp_handle_nak(C) == dhcp_discover(netif_set_addr(dhcp_set_state(C, "BACKING_OFF"), ANYADDR))

dhcp_check(C) == acd_start(dhcp_set_state(C, "CHECKING"), "dhcp", C.offered)

dhcp_handle_offer(C, m) == dhcp_select([C EXCEPT !.request_timeout = FALSE, !.offered = m.ip])

\* A lease time that is not in the message is the one offered before; the
\* others are then half and seven eighths of it, in 32 bits.
dhcp_handle_ack(C, m) ==
  LET t0 == IF m.times.lease = ABSENT THEN C.lease ELSE m.times.lease
  IN [C EXCEPT !.offered = m.ip, !.lease = t0,
               !.offered_t1 = IF m.times.t1 = ABSENT THEN t0 \div 2 ELSE m.times.t1,
               !.offered_t2 = IF m.times.t2 = ABSENT THEN ((t0 * 7) % WORD) \div 8 ELSE m.times.t2]

\* SET_TIMEOUT_FROM_OFFERED: seconds to the nearest minute, at most 0xffff, zero taken for one.
MinutesOf(offered) ==
  LET minutes == Smaller((offered + COARSE \div 2) \div COARSE, MAX_TIMEOUT)
  IN IF minutes = 0 THEN 1 ELSE minutes

\* A time that is infinite leaves the timer as an earlier lease set it.
dhcp_bind(C) ==
  LET Timer(offered, was) == IF offered = INFINITE THEN was ELSE MinutesOf(offered)
      A == [C EXCEPT !.lease_used = 0, !.t0 = Timer(C.lease, @),
                     !.t1 = Timer(C.offered_t1, @), !.t2 = Timer(C.offered_t2, @),
                     !.t2_timeout = Timer(C.offered_t2, @), !.forever = C.lease = INFINITE]
  IN netif_set_addr(dhcp_set_state(A, "BOUND"), C.offered)

dhcp_conflict_callback(C, event) ==
  CASE event = "ACD_IP_OK" -> dhcp_bind(C)
    [] event = "ACD_RESTART_CLIENT" -> [dhcp_set_state(C, "BACKING_OFF") EXCEPT !.request_timeout = TRUE]
    [] event = "ACD_DECLINE" -> dhcp_decline(netif_set_addr(C, ANYADDR))

dhcp_recv(C, m) ==
  CASE m.xid # 0 \/ C.blank -> C
    [] m.xid = 0 /\ m.type = "ACK" /\ C.state \in {"REQUESTING", "REBOOTING"} ->
         IF C.acdcheck THEN dhcp_check(dhcp_handle_ack(C, m)) ELSE dhcp_bind(dhcp_handle_ack(C, m))
    [] m.xid = 0 /\ m.type = "ACK" /\ C.state \in {"REBINDING", "RENEWING"} ->
         dhcp_bind(dhcp_handle_ack(C, m))
    [] m.xid = 0 /\ m.type = "NAK" /\ C.state \in {"REBOOTING", "REQUESTING", "REBINDING", "RENEWING"} ->
         dhcp_handle_nak(C)
    [] m.xid = 0 /\ m.type = "OFFER" /\ C.state = "SELECTING" -> dhcp_handle_offer(C, m)
    [] OTHER -> C

acd_conflict_callback(C, who, event) ==
  IF who = "dhcp" THEN dhcp_conflict_callback(C, event) ELSE autoip_conflict_callback(C, event)

acd_restart(C, who) ==
  LET A == acd_conflict_callback([C EXCEPT !.acd[who].conflicts = Smaller(@ + 1, MAX_CONFLICTS)],
                                 who, "ACD_DECLINE")
  IN IF A.acd[who].conflicts >= MAX_CONFLICTS
       THEN [A EXCEPT !.acd[who].state = "RATE_LIMIT"]
       ELSE acd_conflict_callback(acd_stop(A, who), who, "ACD_RESTART_CLIENT")

acd_handle_arp_conflict(C, who) ==
  IF C.acd[who].state = "PASSIVE_ONGOING"
    THEN acd_conflict_callback(acd_stop(C, who), who, "ACD_DECLINE")
  ELSE IF C.acd[who].recent THEN acd_restart(C, who)
  ELSE [C EXCEPT !.acd[who].recent = TRUE]

acd_arp_reply(C, who) ==
  CASE C.acd[who].state \in {"PROBE_WAIT", "PROBING", "ANNOUNCE_WAIT"} -> acd_restart(C, who)
    [] C.acd[who].state \in {"ANNOUNCING", "ONGOING", "PASSIVE_ONGOING"} -> acd_handle_arp_conflict(C, who)
    [] OTHER -> C

(***************************************************************************)
(* Timers.  AcdFires is one acd of acd_tmr whose time has come.            *)
(***************************************************************************)
AcdFires(C, who) ==
  LET A == [C EXCEPT !.acd[who].sent = @ + 1]
  IN CASE C.acd[who].state \in {"PROBE_WAIT", "PROBING"} ->
            IF A.acd[who].sent >= PROBE_NUM
              THEN [A EXCEPT !.acd[who] = [@ EXCEPT !.state = "ANNOUNCE_WAIT", !.sent = 0]]
              ELSE [A EXCEPT !.acd[who].state = "PROBING"]
       [] C.acd[who].state \in {"ANNOUNCE_WAIT", "ANNOUNCING"} ->
            LET B == [A EXCEPT !.acd[who] = [@ EXCEPT !.state = "ANNOUNCING",
                                                      !.conflicts = IF C.acd[who].sent = 0 THEN 0 ELSE @]]
            IN IF A.acd[who].sent >= ANNOUNCE_NUM
                 THEN acd_conflict_callback([B EXCEPT !.acd[who] = [@ EXCEPT !.state = "ONGOING", !.sent = 0]],
                                            who, "ACD_IP_OK")
                 ELSE B
       [] C.acd[who].state = "RATE_LIMIT" ->
            acd_conflict_callback(acd_stop(C, who), who, "ACD_RESTART_CLIENT")
       [] OTHER -> C

dhcp_timeout(C) ==
  CASE C.state \in {"BACKING_OFF", "SELECTING"} -> dhcp_discover(C)
    [] C.state = "REQUESTING" ->
         IF C.tries <= DHCP_TRIES THEN dhcp_select(C) ELSE dhcp_start(dhcp_release_and_stop(C))
    [] C.state = "REBOOTING" -> IF C.tries < REBOOT_TRIES THEN dhcp_reboot(C) ELSE dhcp_discover(C)
    [] OTHER -> C

dhcp_t1_timeout(C) ==
  LET A == dhcp_renew(C)
      half == (A.t2_timeout - A.lease_used) \div 2
  IN IF C.state \notin {"REQUESTING", "BOUND", "RENEWING"} THEN C
     ELSE IF half >= 1 THEN [A EXCEPT !.t1 = half] ELSE A

dhcp_t2_timeout(C) ==
  LET A == dhcp_rebind(C)
      half == (A.t0 - A.lease_used) \div 2
  IN IF C.state \notin {"REQUESTING", "BOUND", "RENEWING", "REBINDING"} THEN C
     ELSE IF half >= 1 THEN [A EXCEPT !.t2 = half] ELSE A

Down(t) == IF t = 0 THEN 0 ELSE t - 1

dhcp_coarse_tmr(C) ==
  LET A == IF C.t0 = 0 THEN C ELSE [C EXCEPT !.lease_used = @ + 1]
      B == [A EXCEPT !.t2 = Down(@)]
      D == [B EXCEPT !.t1 = Down(@)]
  IN IF C.state = "OFF" THEN C
     ELSE IF C.t0 > 0 /\ A.lease_used = C.t0 THEN dhcp_start(dhcp_release_and_stop(A))
     ELSE IF C.t2 = 1 THEN dhcp_t2_timeout(B)
     ELSE IF C.t1 = 1 THEN dhcp_t1_timeout(D)
     ELSE D

dhcp_network_changed_link_up(C) ==
  CASE C.state \in {"REBINDING", "RENEWING", "BOUND", "REBOOTING"} -> dhcp_reboot([C EXCEPT !.tries = 0])
    [] C.state = "OFF" -> C
    [] OTHER -> dhcp_discover([C EXCEPT !.tries = 0])

(***************************************************************************)
(* The steps.  What the client sends reaches the network while the link is *)
(* up.  A release or a decline arrives at once or is lost.                 *)
(***************************************************************************)
Given(m) == m.type \in {"RELEASE", "DECLINE"}

\* What a call may allocate: messages, and the control block dhcp_start needs.
Plenty == {"msg", "pcb"}
Memory(wanted) == IF "scarce" \in client.events THEN SUBSET wanted ELSE {wanted}
With(mem) == [client EXCEPT !.mem = mem]

\* What no later step reads is forgotten: it would only multiply the states.
Settled(C) ==
  [C EXCEPT !.net = IF C.link THEN {m \in @ : ~Given(m)} ELSE {},
            !.mem = Plenty,
            !.offered_t1 = IF C.state = "CHECKING" THEN @ ELSE 0,
            !.offered_t2 = IF C.state = "CHECKING" THEN @ ELSE 0,
            !.tries = IF dhcp_supplied_address(C) THEN 0 ELSE @,
            !.request_timeout = @ /\ ~dhcp_supplied_address(C),
            !.t2_timeout = IF C.state = "OFF" THEN 0 ELSE @,
            !.acd = [who \in DOMAIN @ |->
              IF @[who].state = "OFF" THEN [AcdOff EXCEPT !.conflicts = C.acd[who].conflicts] ELSE @[who]]]

Commit(C) ==
  /\ client' = Settled(C)
  /\ \E back \in SUBSET {m.ip : m \in {x \in C.net : Given(x)}} :
       leases' = [ip \in LEASABLE |-> IF ip \in back /\ C.link THEN 0 ELSE leases[ip]]
  /\ checkedMinutes' = IF C.state = "CHECKING" THEN checkedMinutes ELSE 0

\* Without LWIP_DHCP_AUTOIP_COOP the two are not enabled on one interface together.
StartDhcp ==
  /\ "restart" \in client.events \/ client.state = "OFF"
  /\ client.coop \/ client.autoip = "OFF"
  /\ \E mem \in Memory(Plenty) : Commit(dhcp_start(With(mem)))

StopDhcp == client.state # "OFF" /\ \E mem \in Memory({"msg"}) : Commit(dhcp_stop(With(mem)))
StartAutoip == ~client.coop /\ client.state = "OFF" /\ Commit(autoip_start(client))
StopAutoip == ~client.coop /\ client.autoip # "OFF" /\ Commit(autoip_stop(client))

Running(C, who) == \E i \in DOMAIN C.acds : C.acds[i] = who

dhcp_fine_tmr ==
  /\ client.request_timeout
  /\ \E mem \in Memory(Plenty) : Commit(dhcp_timeout([With(mem) EXCEPT !.request_timeout = FALSE]))

acd_tmr ==
  \E who \in {"dhcp", "autoip"} :
    /\ Running(client, who)
    /\ \/ Commit(AcdFires(client, who))
       \/ client.acd[who].recent /\ Commit([client EXCEPT !.acd[who].recent = FALSE])

\* Another host uses, or probes for, the address of this acd.
AddressConflict ==
  \E who \in {"dhcp", "autoip"}, mem \in Memory({"msg"}) :
    Running(client, who) /\ client.link /\ Commit(acd_arp_reply(With(mem), who))

netif_set_link_up ==
  /\ ~client.link
  /\ \E mem \in Memory({"msg"}) :
       Commit(autoip_network_changed_link_up(dhcp_network_changed_link_up([With(mem) EXCEPT !.link = TRUE])))

netif_set_link_down ==
  /\ "replug" \in client.events /\ client.link
  /\ Commit(acd_network_changed_link_down(autoip_network_changed_link_down([client EXCEPT !.link = FALSE])))

\* A minute passes: what is under way is lost.
Minute ==
  /\ client.state = "CHECKING" => checkedMinutes = 0
  /\ \E mem \in Memory(Plenty) : LET C == dhcp_coarse_tmr([With(mem) EXCEPT !.net = {}])
     IN /\ client' = Settled(C)
        /\ leases' = [ip \in LEASABLE |->
                        IF leases[ip] = INFINITE THEN INFINITE ELSE Larger(leases[ip] - COARSE, 0)]
        /\ checkedMinutes' = IF C.state = "CHECKING" THEN checkedMinutes + 1 ELSE 0

DhcpReceives ==
  \E m \in {x \in client.net : x.type \in {"OFFER", "ACK", "NAK"}} :
    \E mem \in Memory({"msg"}) : Commit(dhcp_recv([With(mem) EXCEPT !.net = @ \ {m}], m))

\* External: the server.  An acknowledgement without a lease time is of a
\* server whose addresses are for good.
ServerHears ==
  \E m \in {x \in client.net : x.type \in {"DISCOVER", "REQUEST"}} :
    \E type \in {"OFFER", "ACK", "NAK"}, ip \in LEASABLE \cup {ANYADDR}, times \in client.acks \cup {NoTimes} :
      LET lease == IF times.lease = ABSENT THEN INFINITE ELSE times.lease
      IN /\ type = "OFFER" => m.type = "DISCOVER" /\ ip \in LEASABLE
         /\ type = "ACK" => m.type = "REQUEST" /\ m.ip = ip /\ ip \in LEASABLE
         /\ type = "NAK" => m.type = "REQUEST" /\ ip = ANYADDR /\ ~(m.ip \in LEASABLE /\ leases[m.ip] > 0)
         /\ IF type = "ACK" THEN times \in client.acks ELSE times = NoTimes
         /\ client' = [client EXCEPT !.net = (@ \ {m}) \cup {Message(type, m.xid, ip, times)}]
         /\ leases' = IF type = "ACK" THEN [leases EXCEPT ![ip] = Larger(@, lease)] ELSE leases
         /\ UNCHANGED checkedMinutes

DhcpInit ==
  /\ \E scenario \in SCENARIOS :
       client = [state |-> "OFF", tries |-> 0, request_timeout |-> FALSE, offered |-> ANYADDR,
                 t0 |-> 0, t1 |-> 0, t2 |-> 0, t2_timeout |-> 0, lease_used |-> 0, lease |-> 0,
                 offered_t1 |-> 0, offered_t2 |-> 0, blank |-> FALSE, cut |-> FALSE, forever |-> FALSE, mem |-> Plenty,
                 addr |-> ANYADDR, link |-> TRUE, net |-> {},
                 coop |-> scenario.coop, acdcheck |-> scenario.acdcheck, acks |-> scenario.acks,
                 xids |-> scenario.xids, events |-> scenario.events,
                 acds |-> <<>>, acd |-> [who \in {"dhcp", "autoip"} |-> AcdOff],
                 autoip |-> "OFF", llipaddr |-> ANYADDR, tried |-> 0]
  /\ leases = [ip \in LEASABLE |-> 0]
  /\ checkedMinutes = 0

DhcpNext ==
  \/ StartDhcp \/ StopDhcp \/ StartAutoip \/ StopAutoip
  \/ dhcp_fine_tmr \/ acd_tmr \/ Minute
  \/ AddressConflict
  \/ netif_set_link_up \/ netif_set_link_down
  \/ DhcpReceives \/ ServerHears

DhcpSpec == DhcpInit /\ [][DhcpNext]_dhcpVars

-----------------------------------------------------------------------------
InProgress(C, who) ==
  Running(C, who) /\ C.acd[who].state \in {"PROBE_WAIT", "PROBING", "ANNOUNCE_WAIT", "ANNOUNCING"}

\* While the link is up neither client gets stuck: DHCP has its request timer
\* armed, or a check of the offered address in progress, or the rate limit
\* running, or a lease that ends; AutoIP in CHECKING has its check in progress.
\* The exceptions: t0 = 0 says that every lease bound since dhcp_start was for
\* ever, and such a client may wait for the server in REBINDING without a
\* timer; the AutoIP whose check dhcp_start cut off the list by clearing the
\* record of a client that was running (dhcp.c:849) stays in CHECKING until it
\* is stopped; a client whose dhcp_start found no control block is OFF, also
\* when one of the timers called it.
AddressTimed ==
  client.link =>
    /\ client.state \in {"SELECTING", "REQUESTING", "REBOOTING"} => client.request_timeout
    /\ client.state = "BACKING_OFF" =>
         client.request_timeout \/ (Running(client, "dhcp") /\ client.acd["dhcp"].state = "RATE_LIMIT")
    /\ client.state = "CHECKING" => InProgress(client, "dhcp")
    /\ dhcp_supplied_address(client) =>
         client.t0 > client.lease_used \/ (client.t0 = 0 /\ client.forever)
    /\ client.autoip = "CHECKING" => InProgress(client, "autoip") \/ client.cut

\* A client in BOUND, RENEWING or REBINDING never counts on more of the lease
\* than the server does, but for the half minute of rounding and the minute
\* the check between the acknowledgement and the binding may take.  It counts
\* on an address for ever only when the server does.  The other states are
\* not covered: REBOOTING and what follows it keep the address on the
\* interface, and a stop in those states does not take it away (dhcp.c:1987).
LeaseWithinServers ==
  dhcp_supplied_address(client) /\ client.addr \in LEASABLE /\ leases[client.addr] # INFINITE =>
    /\ client.t0 > 0
    /\ (client.t0 - client.lease_used) * COARSE
         <= leases[client.addr] + COARSE \div 2 + (IF client.acdcheck THEN COARSE ELSE 0)

=============================================================================
