------------------------------- MODULE IpLayer -------------------------------
(***************************************************************************)
(* lwIP's IP layer: fragmentation and reassembly, then input, output,      *)
(* forwarding and ICMP.                                                    *)
(***************************************************************************)
EXTENDS Integers, Sequences, FiniteSets, SequencesExt, FiniteSetsExt

(***************************************************************************)
(* core/ipv4/ip4_frag.c and core/ipv6/ip6_frag.c: datagrams cut into       *)
(* fragments and put together again.  Senders and, for IPv4, routers cut   *)
(* with ip4_frag or ip6_frag; the network loses, repeats and reorders:     *)
(* inFlight is the set of all fragments sent.  Different datagrams have    *)
(* different identifications.  A fragment is the part [start, end) of its  *)
(* datagram, with the flag more; offsets are multiples of UNIT bytes (8 in *)
(* the code).  What the receiver allocates for one is a chain of clen      *)
(* buffers.                                                                *)
(***************************************************************************)

CONSTANTS
    UNIT,
    DATAGRAMS,             \* identification -> length in bytes
    ROOMS,                 \* what an MTU leaves for data after the headers
    CLENS,
    IP_REASS_MAX_PBUFS, MEMP_NUM_REASSDATA, IP_REASS_MAXAGE,
    VERSIONS               \* of 4 and 6

VARIABLES
    version,
    inFlight,
    reassdatagrams,        \* the list of [id, timer, frags, last, len, head]
    ip_reass_pbufcount,
    given                  \* what the last step returned for delivery: {} or one [id, len, frags, head]

fragVars == <<version, inFlight, reassdatagrams, ip_reass_pbufcount, given>>

RECURSIVE ip4_frag(_, _, _, _), ip6_frag(_, _, _), RemoveOldest4(_, _, _), RemoveOldest6(_, _, _)

Fragment(id, start, end, more) == [id |-> id, start |-> start, end |-> end, more |-> more]

-----------------------------------------------------------------------------
(* ip4_frag of the part [start, end) of a datagram; more is its own flag.  *)
ip4_frag(id, start, left, R) ==
    LET nfb == (R.room \div UNIT) * UNIT
        fragsize == IF left < nfb THEN left ELSE nfb
        last == left <= R.room
    IN IF left = 0 THEN {}
       ELSE {Fragment(id, start, start + fragsize, ~last \/ R.more)}
            \cup ip4_frag(id, start + nfb, left - fragsize, R)

ip6_frag(id, start, R) ==
    LET nfb == (R.room \div UNIT) * UNIT
        left == DATAGRAMS[id] - start
        last == left <= nfb
        cop == IF last THEN left ELSE nfb
    IN IF left = 0 THEN {}
       ELSE {Fragment(id, start, start + cop, ~last)} \cup ip6_frag(id, start + cop, R)

Send ==
    \E id \in DOMAIN DATAGRAMS : \E room \in ROOMS :
        /\ room < DATAGRAMS[id]
        /\ inFlight' = inFlight \cup
              (IF version = 4 THEN ip4_frag(id, 0, DATAGRAMS[id], [room |-> room, more |-> FALSE])
               ELSE ip6_frag(id, 0, [room |-> room]))
        /\ given' = {}
        /\ UNCHANGED <<version, reassdatagrams, ip_reass_pbufcount>>

(* A router with a smaller MTU *)
Forward ==
    \E f \in inFlight : \E room \in ROOMS :
        /\ version = 4
        /\ room < f.end - f.start
        /\ inFlight' = inFlight \cup ip4_frag(f.id, f.start, f.end - f.start, [room |-> room, more |-> f.more])
        /\ given' = {}
        /\ UNCHANGED <<version, reassdatagrams, ip_reass_pbufcount>>

-----------------------------------------------------------------------------
(* A state of reassembly: the list r, the count n, and what was freed of it. *)
Reassembly == [r |-> reassdatagrams, n |-> ip_reass_pbufcount, freed |-> 0]

SumClen(frags) == FoldSeq(LAMBDA f, s : f.clen + s, 0, frags)

NewReass(id) == [id |-> id, timer |-> IP_REASS_MAXAGE, frags |-> <<>>, last |-> FALSE, len |-> 0, head |-> FALSE]

(* ip_reass_free_complete_datagram: the i-th of the list *)
FreeDatagram(Q, i) ==
    LET clen == SumClen(Q.r[i].frags)
    IN [r |-> RemoveAt(Q.r, i), n |-> Q.n - clen, freed |-> Q.freed + clen]

(* ip_reass_tmr, ip6_reass_tmr *)
ip_reass_tmr ==
    LET live(d) == d.timer > 0
        kept == SelectSeq(reassdatagrams, live)
        gone == SelectSeq(reassdatagrams, LAMBDA d : ~live(d))
    IN /\ reassdatagrams # <<>>
       /\ reassdatagrams' = [i \in DOMAIN kept |-> [kept[i] EXCEPT !.timer = @ - 1]]
       /\ ip_reass_pbufcount' = ip_reass_pbufcount - FoldSeq(LAMBDA d, s : SumClen(d.frags) + s, 0, gone)
       /\ given' = {}
       /\ UNCHANGED <<version, inFlight>>

(* the last of the candidates with the smallest timer *)
OldestOf(r, S) == CHOOSE i \in S : \A j \in S : r[i].timer < r[j].timer \/ (r[i].timer = r[j].timer /\ j <= i)

(* ip_reass_remove_oldest_datagram: until as many buffers are free as are  *)
(* needed; Q.freed counts them.                                            *)
RemoveOldest4(Q, id, needed) ==
    LET others == {i \in DOMAIN Q.r : Q.r[i].id # id}
        F == FreeDatagram(Q, OldestOf(Q.r, others))
    IN IF others = {} THEN Q
       ELSE IF F.freed < needed /\ Cardinality(others) > 1 THEN RemoveOldest4(F, id, needed) ELSE F

(* ip6_reass_remove_oldest_datagram: until there is room *)
RemoveOldest6(Q, id, needed) ==
    LET others == {i \in DOMAIN Q.r : i = 1 \/ Q.r[i].id # id}
        i == OldestOf(Q.r, others)
        F == FreeDatagram(Q, i)
    IN IF Q.r = <<>> \/ Q.r[i].id = id THEN Q
       ELSE IF F.n + needed > IP_REASS_MAX_PBUFS /\ F.r # <<>> THEN RemoveOldest6(F, id, needed) ELSE F

IndexOf(r, id) == LET S == {i \in DOMAIN r : r[i].id = id} IN IF S = {} THEN 0 ELSE CHOOSE i \in S : TRUE

-----------------------------------------------------------------------------
(* Where a fragment goes in the chain of its datagram, and whether it      *)
(* overlaps what is there.                                                 *)
Before(frags, f) == SelectSeq(frags, LAMBDA g : g.start <= f.start)

AfterIt(frags, f) == SelectSeq(frags, LAMBDA g : g.start > f.start)

Overlaps(frags, f) ==
    LET b == Before(frags, f)
        a == AfterIt(frags, f)
    IN (b # <<>> /\ f.start < Last(b).end) \/ (b # <<>> /\ f.start = Last(b).start)
       \/ (a # <<>> /\ f.end > Head(a).start)

Contiguous(frags) ==
    /\ frags # <<>>
    /\ frags[1].start = 0
    /\ \A i \in 2..Len(frags) : frags[i - 1].end = frags[i].start

(* ip_reass_chain_frag_into_datagram_and_validate: d with f in its chain   *)
ChainFrag(d, f, clen) ==
    [d EXCEPT !.frags = Before(@, f) \o <<[start |-> f.start, end |-> f.end, clen |-> clen]>> \o AfterIt(@, f),
              !.last = @ \/ ~f.more,
              !.len = IF f.more THEN @ ELSE f.end]
\* Faulty variant: the datagram is finished with its last fragment.
FinishedWithLast(d) == d.last

Finished(d) == d.last /\ Contiguous(d.frags)

(* The datagram of f, at index i of Q.r, takes it; when complete it is     *)
(* returned and leaves the list.                                           *)
TakeFragment(Q, i, f, clen) ==
    LET d == ChainFrag(Q.r[i], f, clen)
    IN /\ inFlight' = inFlight
       /\ IF Finished(d)
          THEN /\ reassdatagrams' = RemoveAt(Q.r, i)
               /\ ip_reass_pbufcount' = Q.n + clen - SumClen(d.frags)
               /\ given' = {[id |-> d.id, len |-> d.len, frags |-> d.frags, head |-> d.head]}
          ELSE /\ reassdatagrams' = [Q.r EXCEPT ![i] = d]
               /\ ip_reass_pbufcount' = Q.n + clen
               /\ given' = {}

DropFragment(Q) ==
    /\ reassdatagrams' = Q.r
    /\ ip_reass_pbufcount' = Q.n
    /\ given' = {}
    /\ UNCHANGED inFlight

(* ip_reass_enqueue_new_datagram: Q with a new head, or without when no    *)
(* MEMP_REASSDATA can be had.                                              *)
Enqueue4(Q, id, clen) ==
    LET E == IF Len(Q.r) < MEMP_NUM_REASSDATA THEN [Q EXCEPT !.freed = clen]
             ELSE RemoveOldest4([Q EXCEPT !.freed = 0], id, clen)
    IN IF E.freed >= clen /\ Len(E.r) < MEMP_NUM_REASSDATA
       THEN [E EXCEPT !.r = <<NewReass(id)>> \o @] ELSE E

Full(Q, clen) == Q.n + clen > IP_REASS_MAX_PBUFS

(* The header kept is the one of the fragment at offset 0 once it has come. *)
Headed(Q, i, f) == IF f.start = 0 THEN [Q EXCEPT !.r[i].head = TRUE] ELSE Q

(* The fragment goes to the i-th datagram of the list, if it got one. *)
Chain4(Q, i, f, clen) ==
    IF i = 0 THEN DropFragment(Q)
    ELSE IF ~Overlaps(Q.r[i].frags, f) THEN TakeFragment(Headed(Q, i, f), i, f, clen)
    ELSE IF Q.r[i].frags = <<>> THEN DropFragment([Q EXCEPT !.r = RemoveAt(@, i)])
    ELSE DropFragment(Headed(Q, i, f))

ip4_reass(f, clen) ==
    \E Q \in {IF Full(Reassembly, clen) THEN RemoveOldest4(Reassembly, f.id, clen) ELSE Reassembly} :
        IF Full(Reassembly, clen) /\ (Q.freed = 0 \/ Full(Q, clen)) THEN DropFragment(Q)
        ELSE \E N \in {IF IndexOf(Q.r, f.id) = 0 THEN Enqueue4(Q, f.id, clen) ELSE Q} :
                Chain4(N, IndexOf(N.r, f.id), f, clen)

(* ip6_reass: with a datagram of its own for the fragment *)
Enqueue6(Q, id) == IF IndexOf(Q.r, id) = 0 THEN [Q EXCEPT !.r = <<NewReass(id)>> \o @] ELSE Q

Chain6(Q, i, f, clen) ==
    IF Overlaps(Q.r[i].frags, f) THEN DropFragment(Q) ELSE TakeFragment(Headed(Q, i, f), i, f, clen)

ip6_reass(f, clen) ==
    \E Q \in {Enqueue6(IF IndexOf(reassdatagrams, f.id) = 0 /\ Len(reassdatagrams) = MEMP_NUM_REASSDATA
                       THEN RemoveOldest6(Reassembly, 0, clen) ELSE Reassembly, f.id)} :
        IF ~Full(Q, clen) THEN Chain6(Q, IndexOf(Q.r, f.id), f, clen)
        ELSE \E N \in {RemoveOldest6(Q, f.id, clen)} :
                IF Full(N, clen) THEN DropFragment(N) ELSE Chain6(N, IndexOf(N.r, f.id), f, clen)

Receive ==
    \E f \in inFlight : \E clen \in CLENS :
        /\ IF version = 4 THEN ip4_reass(f, clen) ELSE ip6_reass(f, clen)
        /\ UNCHANGED version

FragInit ==
    /\ version \in VERSIONS
    /\ inFlight = {}
    /\ reassdatagrams = <<>>
    /\ ip_reass_pbufcount = 0
    /\ given = {}

FragNext == Send \/ Forward \/ Receive \/ ip_reass_tmr

FragSpec == FragInit /\ [][FragNext]_fragVars

-----------------------------------------------------------------------------
(* What reassembly returns is a datagram that was sent: of the right       *)
(* length, each byte once, with the header of its first fragment, whatever *)
(* MTUs it was cut for on its way and whichever fragments were repeated,   *)
(* overlapped or thrown out to make room.                                  *)
DatagramIntact ==
    \A g \in given :
        /\ g.len = DATAGRAMS[g.id]
        /\ Contiguous(g.frags)
        /\ Last(g.frags).end = g.len
        /\ g.head

(* ip_reass_pbufcount counts the buffers that are held, never more than    *)
(* IP_REASS_MAX_PBUFS; no datagram is held twice, without a fragment, or   *)
(* although it is complete.  A fragment is no longer than the limit, as    *)
(* LwIP.swift:211 makes it: one buffer.  For a longer chain ip6_reass      *)
(* would keep the datagram it had just made, with no fragment in it.       *)
ReassemblyBounded ==
    /\ ip_reass_pbufcount = FoldSeq(LAMBDA d, s : SumClen(d.frags) + s, 0, reassdatagrams)
    /\ ip_reass_pbufcount <= IP_REASS_MAX_PBUFS
    /\ Len(reassdatagrams) <= MEMP_NUM_REASSDATA
    /\ \A i \in DOMAIN reassdatagrams :
          /\ reassdatagrams[i].frags # <<>>
          /\ ~Finished(reassdatagrams[i])
          /\ \A j \in DOMAIN reassdatagrams : reassdatagrams[i].id = reassdatagrams[j].id => i = j

-----------------------------------------------------------------------------

(***************************************************************************)
(* The IP layer: ip4.c and icmp.c, ip6.c and icmp6.c.  Nodes that run the  *)
(* stack share two links; a node with an interface on each forwards.  A    *)
(* datagram is routed and given a source, put on a link, accepted,         *)
(* forwarded or refused by whoever receives it, and answered with ICMP.    *)
(*                                                                         *)
(* An address is <<kind, network, node>>.  Fragmentation, neighbour         *)
(* resolution and the transports are modules of their own: here a frame    *)
(* reaches the interface that has the next hop's address, and a UDP port   *)
(* is open, to any address, or closed.                                     *)
(***************************************************************************)

CONSTANTS
  IFS,             \* the interfaces
  NODES,           \* the nodes
  OwnerOf(_),      \* the node of an interface
  LanOf(_),        \* its link
  NetifList,       \* netif_list of every node
  ROUTER,          \* the node others use as their gateway
  FAMILIES,        \* the families in use, a subset of {4, 6}
  ADDRSTATES,      \* the states an IPv6 address may take
  HBHS,            \* what the options of a datagram ask for
  NARROW,          \* the interfaces with a smaller MTU
  WORLDS           \* what the nodes start from: see IpInit

VARIABLES
  inf,             \* interface -> [up, link, ip4, ip6]
  dflt,            \* node -> netif_default
  ipFrames,        \* the frames on the links
  asked,           \* the datagram the application sent, or NoQuestion
  got,             \* what reached a transport or an application: <<node, datagram>>
  world            \* [senders, changing, changes]: who sends, what changes how often

ipVars == <<inf, dflt, ipFrames, asked, got, world>>

NULL == "null"
ANY4 == <<"any4", "", "">>
ANY6 == <<"any6", "", "">>
ALL4 == <<"all4", "", "">>
Directed(l) == <<"bcast4", l, "">>
Kind(a) == a[1]

Lans == {LanOf(i) : i \in IFS}
Own4(i) == <<"host4", LanOf(i), OwnerOf(i)>>
LinkLocal(i) == <<"ll6", "", OwnerOf(i)>>
Global(i) == <<"gl6", LanOf(i), OwnerOf(i)>>
Unique(i) == <<"ul6", LanOf(i), OwnerOf(i)>>
Second(i) == <<"gl6", "far", OwnerOf(i)>>

(***************************************************************************)
(* What the address macros tell apart.  An IPv6 link-local address has the *)
(* zone of the interface it came in on; on the wire it has none.           *)
(***************************************************************************)
ip4_addr_isbroadcast_u32(a, i) ==
  \/ a \in {ALL4, ANY4}
  \/ inf[i].bcast /\ a # inf[i].ip4 /\ Kind(a) = "bcast4" /\ a[2] = inf[i].ip4[2]

ip4_addr_ismulticast(a) == Kind(a) = "mcast4"
ip4_addr_islinklocal(a) == Kind(a) = "ll4"
ip4_addr_net_eq(a, i) == Kind(a) \in {"host4", "bcast4"} /\ a[2] = inf[i].ip4[2]

ip6_addr_ismulticast(a) == Kind(a) \in {"nodes6", "sol6", "group6"}
Scoped(a) == Kind(a) \in {"ll6", "nodes6", "sol6"}
ip6_addr_isvalid(s) == s \in {"deprecated", "preferred"}

Usable(i) == inf[i].up /\ inf[i].link
Slots6(i) == 1 .. Len(inf[i].ip6)
Has6(i, a) == \E k \in Slots6(i) : ip6_addr_isvalid(inf[i].ip6[k].state) /\ inf[i].ip6[k].addr = a

FirstIn(s, S) == LET places == {k \in 1 .. Len(s) : s[k] \in S}
                 IN IF places = {} THEN NULL ELSE s[Min(places)]

(***************************************************************************)
(* Routing and the choice of a source address.                             *)
(***************************************************************************)
\* An interface on the destination's network, or whose point-to-point gateway
\* it is; CNELwIP always falls back on the default interface, up or not.
ip4_route(n, dest) ==
  LET reaching == {i \in Range(NetifList[n]) :
                     /\ Usable(i)
                     /\ inf[i].ip4 # ANY4
                     /\ \/ ip4_addr_net_eq(dest, i)
                        \/ ~inf[i].bcast /\ dest = <<"host4", LanOf(i), ROUTER>>}
  IN IF reaching # {} THEN FirstIn(NetifList[n], reaching) ELSE dflt[n]

\* zone: the interface a scoped destination belongs to, NULL when it has none.
ip6_route(n, src, dest, zone) ==
  LET list == NetifList[n]
      usable == {i \in Range(list) : Usable(i)}
      onLink == {i \in usable : \E k \in Slots6(i) : /\ ip6_addr_isvalid(inf[i].ip6[k].state)
                                                     /\ inf[i].ip6[k].addr[2] = dest[2]
                                                     /\ Kind(inf[i].ip6[k].addr) = Kind(dest)
                                                     /\ \/ inf[i].ip6[k].static
                                                        \/ inf[i].ip6[k].addr = dest}
      withSource == {i \in usable : Has6(i, src)}
      Fallback == IF dflt[n] # NULL /\ Usable(dflt[n]) THEN dflt[n] ELSE NULL
  IN IF Len(list) = 1
       THEN IF Usable(list[1]) /\ (Scoped(dest) /\ zone # NULL => zone = list[1]) THEN list[1] ELSE NULL
     ELSE IF Scoped(dest) /\ zone # NULL
       THEN IF Usable(zone) THEN zone ELSE NULL
     ELSE IF Scoped(dest) \/ Kind(src) = "ll6"
       THEN FirstIn(list, withSource)
     ELSE IF onLink # {} THEN FirstIn(list, onLink)
     ELSE IF src # ANY6 /\ withSource # {} THEN FirstIn(list, withSource)
     ELSE Fallback

\* The scopes, in the order of their values.
ScopeOf(a) == CASE Kind(a) \in {"ll6", "lo6", "nodes6", "sol6"} -> 2
                [] Kind(a) = "ul6" -> 8
                [] OTHER -> 14

\* Walks the address slots, replacing the best so far by a better candidate.
ip6_select_source_address(i, dest) ==
  LET want == ScopeOf(dest)
      Cand(k) == inf[i].ip6[k]
      Scope(k) == ScopeOf(Cand(k).addr)
      Pref(k) == IF Cand(k).state = "preferred" THEN 1 ELSE 0
      Bits(k) == IF Kind(Cand(k).addr) = Kind(dest) /\ Cand(k).addr[2] = dest[2] THEN 1 ELSE 0
      Better(k, b) == \/ Scope(k) < Scope(b) /\ Scope(k) >= want
                      \/ Scope(k) > Scope(b) /\ Scope(b) < want
                      \/ /\ Scope(k) = Scope(b)
                         /\ \/ Pref(k) > Pref(b)
                            \/ Pref(k) = Pref(b) /\ Bits(k) > Bits(b)
      valid == SelectSeq([k \in Slots6(i) |-> k], LAMBDA k : ip6_addr_isvalid(Cand(k).state))
      exact == {k \in Slots6(i) : ip6_addr_isvalid(Cand(k).state) /\ Cand(k).addr = dest}
  IN CASE valid = <<>> -> NULL
       [] exact # {} -> dest
       [] OTHER -> Cand(FoldLeft(LAMBDA b, k : IF Better(k, b) THEN k ELSE b, Head(valid), valid)).addr

(***************************************************************************)
(* Output: a datagram is a record; the frame goes to the next hop.         *)
(***************************************************************************)
Datagram(v, src, dst, ttl, proto, rest) ==
  [v |-> v, src |-> src, dst |-> dst, ttl |-> ttl, proto |-> proto, about |-> rest.about,
   big |-> rest.big, df |-> rest.df, hbh |-> rest.hbh, born |-> rest.born]
Plain == [about |-> <<>>, big |-> FALSE, df |-> FALSE, hbh |-> "none", born |-> ""]

\* The addresses etharp_output and ethip6_output send to everyone on the link.
Everyone(i, dest) == ip4_addr_ismulticast(dest) \/ ip4_addr_isbroadcast_u32(dest, i) \/ ip6_addr_ismulticast(dest)

\* The address to resolve: the destination if it is on the link (every one is
\* for an interface without an IPv4 address, its netmask being zero), or else
\* the gateway, which the router itself has none of.
HopOf(i, p) ==
  LET local == IF p.v = 4 THEN inf[i].ip4 = ANY4 \/ ip4_addr_net_eq(p.dst, i) \/ ip4_addr_islinklocal(p.dst)
               ELSE Kind(p.dst) = "ll6" \/ p.dst[2] = LanOf(i)
  IN IF local THEN p.dst
     ELSE IF OwnerOf(i) = ROUTER THEN NULL
     ELSE IF p.v = 4 THEN <<"host4", LanOf(i), ROUTER>> ELSE <<"ll6", "", ROUTER>>

\* The interfaces a frame reaches: those with the next hop's address, down or
\* not (etharp_input does not ask), or all on the link.
NextHops(i, p) ==
  LET others == {j \in IFS : LanOf(j) = LanOf(i) /\ j # i}
  IN IF Everyone(i, p.dst) THEN others
     ELSE {j \in others : inf[j].ip4 = HopOf(i, p) \/ Has6(j, HopOf(i, p))}

SendFrame(i, p) ==
  {[lan |-> LanOf(i), to |-> j, p |-> [p EXCEPT !.born = IF @ = "" THEN LanOf(i) ELSE @],
    ll |-> Everyone(i, p.dst)] : j \in NextHops(i, p)}
netif_loop_output(i, p) == {[lan |-> "loop", to |-> i, p |-> p, ll |-> FALSE]}

\* To an own address the datagram loops; a larger one is cut up (IpFrag).
ip4_output_if_opt_src(i, p) ==
  IF p.dst = inf[i].ip4 \/ Kind(p.dst) = "lo4" THEN netif_loop_output(i, p) ELSE SendFrame(i, p)

\* Without a source the interface gives its own.
ip4_output_if(i, p) == ip4_output_if_opt_src(i, IF p.src = ANY4 THEN [p EXCEPT !.src = inf[i].ip4] ELSE p)

ip4_output(n, p) == LET i == ip4_route(n, p.dst) IN IF i = NULL THEN {} ELSE ip4_output_if(i, p)

ip6_output_if_src(i, p) ==
  IF Kind(p.dst) = "lo6" \/ Has6(i, p.dst) THEN netif_loop_output(i, p) ELSE SendFrame(i, p)

ip6_output_if(i, p) ==
  IF p.src # ANY6 THEN ip6_output_if_src(i, p)
  ELSE IF ip6_select_source_address(i, p.dst) = NULL THEN {}
  ELSE ip6_output_if_src(i, [p EXCEPT !.src = ip6_select_source_address(i, p.dst)])

ip6_output(n, p) ==
  LET i == ip6_route(n, p.src, p.dst, NULL) IN IF i = NULL THEN {} ELSE ip6_output_if(i, p)

(***************************************************************************)
(* ICMP errors quote the datagram they are about.                          *)
(***************************************************************************)
HOPS == 3
\* The last part, the node that reports the error, is for the properties.
Quote(n, p) == <<p.src, p.dst, p.proto, p.hbh, n>>
Error(n, v, dst, src, p) == Datagram(v, src, dst, HOPS, "error", [Plain EXCEPT !.about = Quote(n, p)])

icmp_send_response(n, p) ==
  LET i == ip4_route(n, p.src) IN IF i = NULL THEN {} ELSE ip4_output_if(i, Error(n, 4, p.src, ANY4, p))
icmp_dest_unreach(n, p) == icmp_send_response(n, p)
icmp_time_exceeded(n, p) == icmp_send_response(n, p)

icmp6_send_response_with_addrs_and_netif(i, p, src) == 
  ip6_output_if(i, Error(OwnerOf(i), 6, p.src, src, p))

\* current: the interface the datagram is being handled for.
icmp6_send_response(current, p) ==
  LET src == ip6_select_source_address(current, p.src)
  IN IF src = NULL THEN {} ELSE icmp6_send_response_with_addrs_and_netif(current, p, src)
icmp6_dest_unreach(current, p) == icmp6_send_response(current, p)
icmp6_packet_too_big(current, p) == icmp6_send_response(current, p)
icmp6_time_exceeded(current, p) == icmp6_send_response(current, p)
icmp6_param_problem(current, p) == icmp6_send_response(current, p)

IsIcmp(p) == p.proto \in {"echo", "reply", "error"}

\* The IPv6 header's own next header, not the one behind its options.
IsIcmp6(p) == IsIcmp(p) /\ p.hbh = "none"

(***************************************************************************)
(* Forwarding.                                                             *)
(***************************************************************************)
\* ll: the frame was a link-layer broadcast.
ip4_canforward(p, ll) == ~ll /\ Kind(p.dst) \notin {"mcast4", "lo4", "any4"}

ip4_forward(n, i, p, ll) ==
  LET o == ip4_route(n, p.dst)
      hop == [p EXCEPT !.ttl = @ - 1]
  IN IF \/ ~ip4_canforward(p, ll) \/ ip4_addr_islinklocal(p.dst)
        \/ o = NULL \/ o = i
       THEN {}
     ELSE IF hop.ttl = 0 THEN (IF IsIcmp(p) THEN {} ELSE icmp_time_exceeded(n, hop))
     ELSE IF p.big /\ inf[o].small /\ p.df THEN icmp_dest_unreach(n, hop)
     ELSE SendFrame(o, hop)

\* The zone of a link-local source is the incoming interface, so it never fits
\* another one; errors are sent for the incoming interface.
ip6_forward(n, i, p) ==
  LET o == ip6_route(n, ANY6, p.dst, i)
      hop == [p EXCEPT !.ttl = @ - 1]
  IN IF Kind(p.dst) \in {"ll6", "lo6"} THEN {}
     ELSE IF o = NULL THEN (IF IsIcmp6(p) THEN {} ELSE icmp6_dest_unreach(i, p))
     ELSE IF (Kind(p.src) = "ll6" /\ o # i) \/ Kind(p.src) = "lo6" \/ o = i THEN {}
     ELSE IF hop.ttl = 0 THEN (IF IsIcmp6(p) THEN {} ELSE icmp6_time_exceeded(i, hop))
     ELSE IF p.big /\ inf[o].small THEN (IF IsIcmp6(p) THEN {} ELSE icmp6_packet_too_big(i, hop))
     ELSE SendFrame(o, hop)

(***************************************************************************)
(* Input.  What handling a datagram sends, and whether it was delivered.   *)
(***************************************************************************)
Outcome(out, up) == [out |-> out, up |-> up]
Nothing == Outcome({}, FALSE)
Delivered == Outcome({}, TRUE)

\* An echo is answered from the address it was sent to, on the interface it
\* came in on; echoes to everyone are not answered.
icmp_input(i, netif, p) ==
  IF p.proto # "echo" THEN Delivered
  ELSE IF ip4_addr_ismulticast(p.dst) \/ ip4_addr_isbroadcast_u32(p.dst, netif) THEN Nothing
  ELSE Outcome(ip4_output_if_opt_src(i, Datagram(4, p.dst, p.src, HOPS, "reply", Plain)), FALSE)

icmp6_input(i, p) ==
  IF p.proto # "echo" THEN Delivered
  ELSE IF ip6_addr_ismulticast(p.dst) THEN Nothing
  ELSE Outcome(ip6_output_if(i, Datagram(6, p.dst, p.src, HOPS, "reply", Plain)), FALSE)

\* i: the interface the datagram came in on.  Where no port is open, only a
\* datagram to an address of that interface is looked at further.
udp_input(i, p, everyone, unreachable) ==
  LET own == p.dst = inf[i].ip4 \/ \E k \in Slots6(i) : inf[i].ip6[k].addr = p.dst
  IN IF p.proto = "udp" THEN Delivered
     ELSE IF ~own \/ everyone THEN Nothing
     ELSE Outcome(unreachable, FALSE)

\* CNELwIP accepts every destination on an interface that is up and configured.
ip4_input_accept(i) == inf[i].up /\ inf[i].ip4 # ANY4

\* The interface a datagram is for.
Accepting4(n, i, p) ==
  IF ip4_addr_ismulticast(p.dst) THEN (IF inf[i].up /\ inf[i].ip4 # ANY4 THEN i ELSE NULL)
  ELSE IF ip4_input_accept(i) THEN i
  ELSE IF Kind(p.dst) = "lo4" THEN NULL
  ELSE FirstIn(NetifList[n], {j \in Range(NetifList[n]) : ip4_input_accept(j)})

\* Faulty variant: the sender of a broadcast is told of the unknown protocol.
DeliverAnswersAll(n, i, netif, p) ==
  LET everyone == ip4_addr_isbroadcast_u32(p.dst, netif) \/ ip4_addr_ismulticast(p.dst)
  IN CASE p.proto \in {"udp", "closed"} -> udp_input(i, p, everyone, icmp_dest_unreach(n, p))
       [] IsIcmp(p) -> icmp_input(i, netif, p)
       [] OTHER -> Outcome(icmp_dest_unreach(n, p), FALSE)

Deliver4(n, i, netif, p) ==
  LET everyone == ip4_addr_isbroadcast_u32(p.dst, netif) \/ ip4_addr_ismulticast(p.dst)
  IN CASE p.proto \in {"udp", "closed"} -> udp_input(i, p, everyone, icmp_dest_unreach(n, p))
       [] IsIcmp(p) -> icmp_input(i, netif, p)
       [] OTHER -> Outcome(IF everyone THEN {} ELSE icmp_dest_unreach(n, p), FALSE)

ip4_input(n, i, p, ll) ==
  LET netif == Accepting4(n, i, p)
  IN IF ip4_addr_isbroadcast_u32(p.src, i) \/ ip4_addr_ismulticast(p.src) THEN Nothing
     ELSE IF netif = NULL
       THEN Outcome(IF ip4_addr_isbroadcast_u32(p.dst, i) THEN {} ELSE ip4_forward(n, i, p, ll), FALSE)
     ELSE Deliver4(n, i, netif, p)

ip6_input_accept(i, dst) == inf[i].up /\ Has6(i, dst)

\* An interface is in the solicited-node group of every address it has, once the
\* address is more than tentative (nd6_adjust_mld_membership).
mld6_lookfor_group(i, g) ==
  Kind(g) = "sol6" /\ \E k \in Slots6(i) : ip6_addr_isvalid(inf[i].ip6[k].state) /\ inf[i].ip6[k].addr[3] = g[3]

Accepting6(n, i, p) ==
  IF Kind(p.dst) = "nodes6" THEN i
  ELSE IF ip6_addr_ismulticast(p.dst) THEN (IF mld6_lookfor_group(i, p.dst) THEN i ELSE NULL)
  ELSE IF ip6_input_accept(i, p.dst) THEN i
  ELSE IF {Kind(p.dst), Kind(p.src)} \cap {"ll6", "lo6"} # {} THEN NULL
  ELSE FirstIn(NetifList[n], {j \in Range(NetifList[n]) : ip6_input_accept(j, p.dst)})

\* The options of the hop-by-hop and destination headers: an unknown one is
\* skipped, or ends the datagram with or without telling its sender.
Options6(netif, p, otherwise) ==
  CASE p.hbh \in {"none", "known", "skip"} -> otherwise
    [] p.hbh = "discard" -> Nothing
    [] p.hbh = "report" -> Outcome(icmp6_param_problem(netif, p), FALSE)
    [] OTHER -> Outcome(IF ip6_addr_ismulticast(p.dst) THEN {} ELSE icmp6_param_problem(netif, p), FALSE)

Deliver6(i, netif, p) ==
  CASE p.proto \in {"udp", "closed"} ->
         udp_input(i, p, ip6_addr_ismulticast(p.dst), icmp6_dest_unreach(netif, p))
    [] IsIcmp(p) -> icmp6_input(i, p)
    [] OTHER -> Outcome(IF ip6_addr_ismulticast(p.dst) THEN {} ELSE icmp6_param_problem(netif, p), FALSE)

ip6_input(n, i, p) ==
  LET netif == Accepting6(n, i, p)
  IN IF ip6_addr_ismulticast(p.src) \/ (p.src = ANY6 /\ Kind(p.dst) # "sol6") THEN Nothing
     ELSE IF netif = NULL
       THEN Outcome(IF ip6_addr_ismulticast(p.dst) THEN {} ELSE ip6_forward(n, i, p), FALSE)
     ELSE Options6(netif, p, Deliver6(i, netif, p))

ip_input(n, i, p, ll) == IF p.v = 6 THEN ip6_input(n, i, p) ELSE ip4_input(n, i, p, ll)

(***************************************************************************)
(* The network: applications ask, frames arrive, interfaces change.        *)
(***************************************************************************)
\* An interface with its addresses; slot 0 holds the link-local one.
Configured(i, up, small) ==
  [up |-> up, link |-> TRUE, bcast |-> TRUE, small |-> small, ip4 |-> Own4(i),
   ip6 |-> <<[addr |-> LinkLocal(i), state |-> "preferred", static |-> FALSE],
             [addr |-> Unique(i), state |-> "tentative", static |-> FALSE],
             [addr |-> Global(i), state |-> "preferred", static |-> TRUE],
             [addr |-> Second(i), state |-> "deprecated", static |-> FALSE]>>]

NoQuestion == [by |-> NULL, dst |-> NULL]

\* A world: the interfaces that are down, the router's default interface (NULL
\* for none), and what may happen (bounds: changes, and one datagram at a time).
IpInit ==
  \E w \in WORLDS :
    /\ inf = [i \in IFS |-> Configured(i, i \notin w.down, i \in NARROW)]
    /\ dflt = [n \in NODES |-> IF n = ROUTER THEN w.dflt ELSE NetifList[n][1]]
    /\ ipFrames = {}
    /\ asked = NoQuestion
    /\ got = {}
    /\ world = [senders |-> w.senders, changing |-> w.changing, changes |-> w.changes]

\* The destinations applications use.
IpDestinations(v) ==
  IF v = 4 THEN {Own4(i) : i \in IFS} \cup {Directed(l) : l \in Lans} \cup {ALL4, <<"mcast4", "", "">>, <<"ll4", "", "x">>}
  ELSE UNION {{LinkLocal(i), Global(i), Unique(i), Second(i), <<"sol6", "", OwnerOf(i)>>} : i \in IFS}
         \cup {<<"nodes6", "", "">>, <<"gl6", "far", "x">>}

\* The datagrams they send: any transport, some with too few hops, some larger
\* than the MTU of a link, some with options of their own.
Shapes(v) ==
  LET Shape(proto, ttl, big, df, hbh) == [proto |-> proto, ttl |-> ttl, big |-> big, df |-> df, hbh |-> hbh]
  IN {Shape(proto, ttl, FALSE, FALSE, "none") : proto \in {"udp", "closed", "other", "echo"}, ttl \in {1, HOPS}}
       \cup {Shape(proto, HOPS, TRUE, df, "none") : proto \in {"udp", "echo"}, df \in {FALSE, v = 4}}
       \cup {Shape(proto, HOPS, FALSE, FALSE, hbh) : proto \in {"udp", "echo"}, hbh \in IF v = 6 THEN HBHS ELSE {}}

\* An application of node n sends one datagram while none is under way, its
\* source left to the stack.
AskQuestion(n, v, dst, s) ==
  LET p == Datagram(v, IF v = 4 THEN ANY4 ELSE ANY6, dst, s.ttl, s.proto,
                    [Plain EXCEPT !.big = s.big, !.df = s.df, !.hbh = s.hbh])
  IN /\ asked' = [by |-> n, dst |-> dst]
     /\ ipFrames' = IF v = 4 THEN ip4_output(n, p) ELSE ip6_output(n, p)
     /\ UNCHANGED <<inf, dflt, got, world>>

\* A frame reaches its interface: netif->input.
Arrive(f) ==
  \E r \in {ip_input(OwnerOf(f.to), f.to, f.p, f.ll)} :
     /\ ipFrames' = (ipFrames \ {f}) \cup r.out
     /\ got' = IF r.up THEN got \cup {<<OwnerOf(f.to), f.p>>} ELSE got
     /\ UNCHANGED <<inf, dflt, asked, world>>

Lose(f) == ipFrames' = ipFrames \ {f} /\ UNCHANGED <<inf, dflt, asked, got, world>>

\* The exchange is over; the next one starts with interfaces as they are.
ForgetQuestion == ipFrames = {} /\ asked # NoQuestion /\ asked' = NoQuestion /\ got' = {} /\ UNCHANGED <<inf, dflt, ipFrames, world>>

\* The interface goes down or up, its IPv4 lease or an IPv6 address changes.
Change(i) ==
  /\ world.changes > 0
  /\ world' = [world EXCEPT !.changes = @ - 1]
  /\ \/ inf' = [inf EXCEPT ![i].up = ~@]
     \/ inf' = [inf EXCEPT ![i].link = ~@]
     \/ 4 \in FAMILIES /\ inf' = [inf EXCEPT ![i].ip4 = IF @ = ANY4 THEN Own4(i) ELSE ANY4]
     \/ 6 \in FAMILIES /\ \E k \in Slots6(i), s \in ADDRSTATES :
                              inf[i].ip6[k].state # s /\ inf' = [inf EXCEPT ![i].ip6[k].state = s]
  /\ UNCHANGED <<dflt, ipFrames, asked, got>>

IpNext ==
  \/ /\ ipFrames = {} /\ asked = NoQuestion
     /\ \E n \in world.senders, v \in FAMILIES : \E dst \in IpDestinations(v), s \in Shapes(v) :
          AskQuestion(n, v, dst, s)
  \/ \E f \in ipFrames : Arrive(f) \/ Lose(f)
  \/ ForgetQuestion
  \/ \E i \in world.changing : Change(i)

IpSpec == IpInit /\ [][IpNext]_ipVars

(***************************************************************************)
(* Properties.                                                             *)
(***************************************************************************)
\* An ICMP error is sent to the source of the datagram it quotes, which is not
\* itself an ICMP error, so errors breed no errors; and what goes to everyone
\* draws no storm of them.  A broadcast to all ones or a multicast draws none but
\* for an IPv6 option that asks to be reported even so (ip6.c:780, :874; errors
\* in routing and fragment headers, which are not modelled, do not look either).  A
\* directed broadcast draws none from the hosts of its network: only from a node
\* with a second interface, which may take it there for a datagram to itself, as
\* CNELwIP does with every destination (ip4.c:443).  For the same reason an IPv4
\* router forwards only with all its interfaces down, and then reports nothing
\* that reaches the sender: IPv4 errors come from receivers, IPv6 ones from both.
ErrorsAreWarranted ==
  \A f \in ipFrames :
    f.p.proto = "error" =>
      /\ f.p.dst = f.p.about[1]
      /\ f.p.about[3] # "error"
      /\ f.p.about[2] # ALL4 /\ ~ip4_addr_ismulticast(f.p.about[2])
      /\ ip6_addr_ismulticast(f.p.about[2]) => f.p.about[4] = "report"
      /\ Kind(f.p.about[2]) = "bcast4" => Len(NetifList[f.p.about[5]]) > 1

\* A datagram with a link-local source or a destination of link scope is only
\* ever on the link it was sent on: ip6_forward checks the zone of both.
LinkScopeKept ==
  \A f \in ipFrames :
    f.lan # "loop" /\ f.p.v = 6 /\ (Kind(f.p.src) = "ll6" \/ Scoped(f.p.dst)) => f.p.born = f.lan

\* What comes back to the application answers what it asked: a reply has the
\* address that was asked as its source, whichever interface it was answered
\* on, and an error quotes the datagram that was sent.
AnswersFitTheQuestion ==
  \A g \in got :
    LET p == g[2]
    IN /\ p.proto = "reply" => p.src = asked.dst /\ p.dst[3] = asked.by
       /\ p.proto = "error" => p.about[2] = asked.dst /\ p.dst[3] = asked.by

\* ip6_select_source_address's single pass finds what the rules ask for: the
\* smallest scope that covers the destination, or else the largest; in it a
\* preferred address before a deprecated one, then one of the same prefix.  An
\* interface has two addresses of global scope, and each of its addresses is
\* tentative, preferred or deprecated.
SourceIsBest ==
  asked = NoQuestion =>
  \A i \in IFS : \A dst \in IpDestinations(6) :
    LET valid == {k \in Slots6(i) : ip6_addr_isvalid(inf[i].ip6[k].state)}
        A(k) == inf[i].ip6[k].addr
        covers == {k \in valid : ScopeOf(A(k)) >= ScopeOf(dst)}
        scope == IF covers # {} THEN Min({ScopeOf(A(k)) : k \in covers}) ELSE Max({ScopeOf(A(k)) : k \in valid})
        inScope == {k \in valid : ScopeOf(A(k)) = scope}
        liked == {k \in inScope : inf[i].ip6[k].state = "preferred"}
        best == IF liked # {} THEN liked ELSE inScope
        near == {k \in best : A(k)[2] = dst[2] /\ Kind(A(k)) = Kind(dst)}
        chosen == ip6_select_source_address(i, dst)
    IN IF valid = {} THEN chosen = NULL
       ELSE \/ chosen = dst /\ \E k \in valid : A(k) = dst
            \/ chosen \in {A(k) : k \in IF near # {} THEN near ELSE best}
==============================================================================
