------------------------------- MODULE Etharp -------------------------------
(***************************************************************************)
(* core/ipv4/etharp.c and netif/ethernet.c: the ARP cache of an ethernet   *)
(* interface.  Hosts of the subnet (external) send requests and replies    *)
(* when they like and may change their hardware address; a packet is its   *)
(* destination.  The configuration has ARP_QUEUEING and static entries.    *)
(***************************************************************************)
EXTENDS Integers, Sequences, FiniteSets

CONSTANTS
    ARPHOSTS,                \* addresses of the subnet but our own
    MOVERS,               \* those of them that may change their hardware address
    GATEWAY,              \* the one of them that netif_ip4_gw names, or "any"
    ARP_TABLE_SIZE, ARP_QUEUE_LEN, ARP_MAXAGE, ARP_MAXPENDING,
    ARP_AGE_REREQUEST     \* the age from which an entry in use is asked for again

VARIABLES
    arp_table,            \* [0..ARP_TABLE_SIZE-1 -> entry]
    etharp_cached_entry,
    ourIp,                \* netif_ip4_addr: "me", or "any" before it is set
    hostMac,              \* the hosts' hardware addresses: <<host, 0>> or <<host, 1>>
    moved,                \* ticks since a host changed it, at most ARP_MAXAGE
    frames                \* what the last step sent: <<next hop, hardware address>>

ASSUME EtharpAssumption ==
    /\ MOVERS \subseteq ARPHOSTS
    /\ GATEWAY \in ARPHOSTS \cup {"any"}
    /\ "any" \notin ARPHOSTS
    /\ {ARP_TABLE_SIZE, ARP_QUEUE_LEN} \subseteq Nat
    /\ {ARP_MAXAGE, ARP_MAXPENDING} \subseteq Nat \ {0}

arpVars == <<arp_table, etharp_cached_entry, ourIp, hostMac, moved, frames>>

FAR == "far"              \* an address outside the subnet

NoMac == <<"none", 0>>

ARP_EMPTY == [state |-> "EMPTY", ip |-> "any", eth |-> NoMac, ctime |-> 0, q |-> <<>>]

IsStable(e) == e.state \notin {"EMPTY", "PENDING"}

Slots == 0..ARP_TABLE_SIZE - 1

-----------------------------------------------------------------------------
(* Of a set of slots, the one with the largest ctime; of equal ones the last. *)
Oldest(T, S) == CHOOSE i \in S : \A j \in S : T[j].ctime < T[i].ctime \/ (T[j].ctime = T[i].ctime /\ j <= i)

Least(S) == CHOOSE i \in S : \A j \in S : i <= j

etharp_free_entry(T, i) == [T EXCEPT ![i] = ARP_EMPTY]

(* what is recycled first when the table is full *)
Recyclable(T) ==
    LET stable == {i \in Slots : IsStable(T[i]) /\ T[i].state # "STATIC"}
        pending == {i \in Slots : T[i].state = "PENDING" /\ T[i].q = <<>>}
        queued == {i \in Slots : T[i].state = "PENDING" /\ T[i].q # <<>>}
    IN IF stable # {} THEN stable ELSE IF pending # {} THEN pending ELSE queued

(* The slot of ip, found or made, and the table then; -1 for ERR_MEM. *)
etharp_find_entry(T, ip, flags) ==
    LET found == {i \in Slots : T[i].state # "EMPTY" /\ T[i].ip = ip}
        empty == {i \in Slots : T[i].state = "EMPTY"}
        old == Recyclable(T)
        i == IF empty # {} THEN Least(empty) ELSE Oldest(T, old)
    IN IF found # {} THEN [i |-> Least(found), T |-> T]
       ELSE IF "FIND_ONLY" \in flags \/ (empty = {} /\ ("TRY_HARD" \notin flags \/ old = {}))
       THEN [i |-> -1, T |-> T]
       ELSE [i |-> i, T |-> [T EXCEPT ![i] = [ARP_EMPTY EXCEPT !.ip = ip]]]
(* Faulty variant: the packets that were sent stay in the queue.           *)
UpdateKeepsQueue(T, ip, eth, flags) ==
    LET r == etharp_find_entry(T, ip, flags)
        e == r.T[r.i]
        static == "STATIC_ENTRY" \in flags
    IN IF ip = "any" \/ r.i < 0 \/ (e.state = "STATIC" /\ ~static)
       THEN [T |-> r.T, sent |-> {}]
       ELSE [T |-> [r.T EXCEPT ![r.i] = [e EXCEPT !.state = IF static THEN "STATIC" ELSE "STABLE",
                                                  !.eth = eth, !.ctime = 0]],
             sent |-> IF e.q = <<>> THEN {} ELSE {<<ip, eth>>}]

(* Sends the packets that waited for the entry. *)
etharp_update_arp_entry(T, ip, eth, flags) ==
    LET r == etharp_find_entry(T, ip, flags)
        e == r.T[r.i]
        static == "STATIC_ENTRY" \in flags
    IN IF ip = "any" \/ r.i < 0 \/ (e.state = "STATIC" /\ ~static)
       THEN [T |-> r.T, sent |-> {}]
       ELSE [T |-> [r.T EXCEPT ![r.i] = [e EXCEPT !.state = IF static THEN "STATIC" ELSE "STABLE",
                                                  !.eth = eth, !.ctime = 0, !.q = <<>>]],
             sent |-> IF e.q = <<>> THEN {} ELSE {<<ip, eth>>}]

-----------------------------------------------------------------------------
(* A tick.  etharp_request for a pending entry changes nothing here.       *)
Aged(e) ==
    LET age == e.ctime + 1
        next == IF e.state = "REREQUESTING_1" THEN "REREQUESTING_2"
                ELSE IF e.state = "REREQUESTING_2" THEN "STABLE" ELSE e.state
    IN IF e.state \in {"EMPTY", "STATIC"} THEN e
       ELSE IF age >= ARP_MAXAGE \/ (e.state = "PENDING" /\ age >= ARP_MAXPENDING) THEN ARP_EMPTY
       ELSE [e EXCEPT !.ctime = age, !.state = next]

etharp_tmr ==
    /\ arp_table' = [i \in Slots |-> Aged(arp_table[i])]
    /\ moved' = [h \in ARPHOSTS |-> IF moved[h] < ARP_MAXAGE THEN moved[h] + 1 ELSE ARP_MAXAGE]
    /\ frames' = {}
    /\ UNCHANGED <<etharp_cached_entry, ourIp, hostMac>>

(* Asks again (to the host, later to all) for an entry that is in use and  *)
(* will soon be too old; mem says whether a request could be allocated.    *)
etharp_output_to_arp_index(i, mem) ==
    LET e == arp_table[i]
        asks == e.state = "STABLE" /\ e.ctime >= ARP_AGE_REREQUEST /\ mem
    IN /\ arp_table' = IF asks THEN [arp_table EXCEPT ![i].state = "REREQUESTING_1"] ELSE arp_table
       /\ frames' = {<<e.ip, e.eth>>}

QueueFor(q, packet) ==
    LET r == Append(q, packet) IN IF Len(q) >= ARP_QUEUE_LEN THEN Tail(r) ELSE r

(* Without a packet only a request is sent.  qmem: the packet could be     *)
(* referenced or copied, and a queue element had.                          *)
etharp_query(ip, packet, mem, qmem) ==
    \E r \in {etharp_find_entry(arp_table, ip, {"TRY_HARD"})} :
    LET new == r.T[r.i].state = "EMPTY"
        e == IF new THEN [r.T[r.i] EXCEPT !.state = "PENDING"] ELSE r.T[r.i]
        restarted == IF packet = "none" /\ mem /\ e.state = "PENDING" /\ ~new THEN [e EXCEPT !.ctime = 0] ELSE e
        queued == IF packet # "none" /\ e.state = "PENDING" /\ qmem
                  THEN [restarted EXCEPT !.q = QueueFor(@, packet)] ELSE restarted
    IN IF r.i < 0
       THEN arp_table' = r.T /\ frames' = {} /\ UNCHANGED etharp_cached_entry
       ELSE /\ arp_table' = [r.T EXCEPT ![r.i] = queued]
            /\ IF packet # "none" /\ IsStable(e)
               THEN frames' = {<<ip, e.eth>>} /\ etharp_cached_entry' = r.i
               ELSE frames' = {} /\ UNCHANGED etharp_cached_entry

NextHop(ip) == IF ip = FAR THEN GATEWAY ELSE ip

(* The cached entry is tried first, then the table, then a query.          *)
etharp_output(ip, mem, qmem) ==
    LET dst == NextHop(ip)
        stable == {i \in Slots : IsStable(arp_table[i]) /\ arp_table[i].ip = dst}
    IN /\ dst # "any"
       /\ IF stable = {} THEN etharp_query(dst, ip, mem, qmem)
          ELSE LET i == IF etharp_cached_entry \in stable THEN etharp_cached_entry ELSE Least(stable)
               IN etharp_cached_entry' = i /\ etharp_output_to_arp_index(i, mem)
       /\ UNCHANGED <<ourIp, hostMac, moved>>

QueryOnly ==
    /\ \E ip \in ARPHOSTS : \E mem \in BOOLEAN : etharp_query(ip, "none", mem, FALSE)
    /\ UNCHANGED <<ourIp, hostMac, moved>>

(* A message from a host to us, or to another: only the first kind makes   *)
(* an entry.  A request for us is answered.                                *)
etharp_input(h, toUs) ==
    LET for_us == toUs /\ ourIp # "any"
        r == etharp_update_arp_entry(arp_table, h, hostMac[h], {IF for_us THEN "TRY_HARD" ELSE "FIND_ONLY"})
    IN /\ arp_table' = r.T
       /\ frames' = r.sent
       /\ UNCHANGED <<etharp_cached_entry, ourIp, hostMac, moved>>

etharp_add_static_entry(h) ==
    LET r == etharp_update_arp_entry(arp_table, h, hostMac[h], {"TRY_HARD", "STATIC_ENTRY"})
    IN /\ arp_table' = r.T
       /\ frames' = r.sent
       /\ UNCHANGED <<etharp_cached_entry, ourIp, hostMac, moved>>

etharp_remove_static_entry(h) ==
    LET r == etharp_find_entry(arp_table, h, {"FIND_ONLY"})
    IN /\ r.i >= 0
       /\ arp_table[r.i].state = "STATIC"
       /\ arp_table' = etharp_free_entry(arp_table, r.i)
       /\ frames' = {}
       /\ UNCHANGED <<etharp_cached_entry, ourIp, hostMac, moved>>

etharp_cleanup_netif ==
    /\ arp_table' = [i \in Slots |-> ARP_EMPTY]
    /\ frames' = {}
    /\ UNCHANGED <<etharp_cached_entry, ourIp, hostMac, moved>>

SetOurIp ==
    /\ ourIp' = IF ourIp = "any" THEN "me" ELSE "any"
    /\ frames' = {}
    /\ UNCHANGED <<arp_table, etharp_cached_entry, hostMac, moved>>

(* A host without a static entry changes its hardware address, one host at *)
(* a time.                                                                 *)
HostMoves(h) ==
    /\ \A g \in ARPHOSTS : moved[g] = ARP_MAXAGE
    /\ \A i \in Slots : arp_table[i].ip = h => arp_table[i].state # "STATIC"
    /\ hostMac' = [hostMac EXCEPT ![h] = <<h, 1 - @[2]>>]
    /\ moved' = [moved EXCEPT ![h] = 0]
    /\ frames' = {}
    /\ UNCHANGED <<arp_table, etharp_cached_entry, ourIp>>

EtharpInit ==
    /\ arp_table = [i \in Slots |-> ARP_EMPTY]
    /\ etharp_cached_entry = 0
    /\ ourIp = "any"
    /\ hostMac = [h \in ARPHOSTS |-> <<h, 0>>]
    /\ moved = [h \in ARPHOSTS |-> ARP_MAXAGE]
    /\ frames = {}

EtharpNext ==
    \/ etharp_tmr
    \/ \E ip \in ARPHOSTS \cup {FAR} : \E mem, qmem \in BOOLEAN : etharp_output(ip, mem, qmem)
    \/ QueryOnly
    \/ \E h \in ARPHOSTS : \/ \E toUs \in BOOLEAN : etharp_input(h, toUs)
                        \/ etharp_add_static_entry(h)
                        \/ etharp_remove_static_entry(h)
    \/ \E h \in MOVERS : HostMoves(h)
    \/ etharp_cleanup_netif
    \/ SetOurIp

EtharpSpec == EtharpInit /\ [][EtharpNext]_arpVars

-----------------------------------------------------------------------------
(* An address has one entry at most, packets wait only at pending entries, *)
(* as the assertion in etharp_find_entry wants before it recycles one, at  *)
(* most ARP_QUEUE_LEN of them, for less than ARP_MAXPENDING ticks, and     *)
(* each at the entry of its next hop.                                      *)
ArpTableSound ==
    /\ \A i, j \in Slots : arp_table[i].state # "EMPTY" /\ arp_table[j].state # "EMPTY"
                           /\ arp_table[i].ip = arp_table[j].ip => i = j
    /\ \A i \in Slots :
          /\ arp_table[i].q # <<>> => /\ arp_table[i].state = "PENDING"
                                      /\ arp_table[i].ctime < ARP_MAXPENDING
          /\ Len(arp_table[i].q) <= ARP_QUEUE_LEN
          /\ \A k \in DOMAIN arp_table[i].q : NextHop(arp_table[i].q[k]) = arp_table[i].ip

(* A packet leaves for the hardware address of its next hop.  After a host *)
(* has changed its address, packets go to the old one for less than        *)
(* ARP_MAXAGE ticks, however much the entry is used and whichever entries  *)
(* are recycled or cached meanwhile.                                       *)
FramesReachTheHop ==
    \A f \in frames : f[2] = hostMac[f[1]] \/ moved[f[1]] < ARP_MAXAGE

(* The table fits together, and frames go where its entries say rightly    *)
(* (etharp_find_entry, etharp_update_arp_entry, etharp_output, etharp_tmr). *)
ArpDelivers == ArpTableSound /\ FramesReachTheHop
=============================================================================
