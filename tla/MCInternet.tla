----------------------------- MODULE MCInternet ------------------------------
(***************************************************************************)
(* Small instances of lwIP's internet layer: IP, fragmentation, address    *)
(* resolution, neighbor discovery, multicast groups, DHCP and DNS.  In a   *)
(* behaviour one of them takes the steps: part names it.  The others stay  *)
(* as they were initialised, or have no state.                             *)
(***************************************************************************)
EXTENDS Etharp, Dns, Nd6, Multicast, Dhcp, IpLayer

CONSTANTS r1, r2, h1, l1, l2, l3, n1, n2

CONSTANT Parts    \* the components a run is about

VARIABLE part     \* the component that takes the steps of this behaviour

MCDatagrams == <<5, 6, 4>>

\* Callers of either family, and of one with the other to fall back on; a host
\* list, servers that come and go and a callback that asks for a name.
MCUses ==
  {[types |-> {"46"}, local |-> {}, changing |-> {}, requery |-> {}],
   [types |-> {"4", "6"}, local |-> {}, changing |-> {}, requery |-> {}],
   [types |-> {"4"}, local |-> {n1}, changing |-> {0, 1}, requery |-> {n2}]}

\* Two routers, a host behind them and three nodes on the link.
MCHosts == {r1, r2, h1, l1, l2, l3}
MCPrefixOf == [h \in MCHosts |-> IF h = h1 THEN "2001" ELSE "fe80"]

\* Times in half minutes.  Some servers give leases for ever, leases without
\* times, and leases that have a renewal and no rebinding.
Finite == [lease |-> 5, t1 |-> ABSENT, t2 |-> ABSENT]
Times == {NoTimes, [lease |-> INFINITE, t1 |-> ABSENT, t2 |-> ABSENT], [lease |-> 3, t1 |-> 2, t2 |-> INFINITE]}
Scenario(coop, acdcheck, acks, xids, events) ==
  [coop |-> coop, acdcheck |-> acdcheck, acks |-> acks, xids |-> xids, events |-> events]
MCScenarios ==
  {Scenario(TRUE, TRUE, {Finite}, 1, {"replug"}), Scenario(TRUE, TRUE, {Finite}, 1, {"restart"}),
   Scenario(FALSE, FALSE, Times, 1, {"replug"}), Scenario(FALSE, FALSE, {Finite}, 2, {}),
   Scenario(FALSE, FALSE, {Finite}, 1, {"scarce"})}
MCLinkLocal == <<"l1">>

\* Two hosts on two links and a router between them.
MCOwnerOf(i) == CASE i = "a0" -> "A" [] i = "b0" -> "B" [] OTHER -> "R"
MCLanOf(i) == IF i \in {"a0", "r0"} THEN "L0" ELSE "L1"
MCNetifList == [n \in NODES |-> CASE n = "A" -> <<"a0">> [] n = "B" -> <<"b0">> [] OTHER -> <<"r0", "r1">>]

\* Everyone sends while one interface changes; a router whose interfaces are down
\* forwards; an interface has its addresses in any states.
World(down, default, senders, changing, changes) ==
  [down |-> down, dflt |-> default, senders |-> senders, changing |-> changing, changes |-> changes]
MCWorlds ==
  {World({}, "r1", NODES, IFS, 1), World({"r0", "r1"}, "r1", NODES, {}, 0),
   World({"r0", "r1"}, "r0", NODES, {}, 0), World({}, NULL, {}, {"a0"}, 4)}

-----------------------------------------------------------------------------
vars == <<part, arpVars, fragVars, dnsVars, ndVars, mcastVars, dhcpVars,
          ipVars>>

Init ==
  /\ part \in Parts
  /\ EtharpInit
  /\ IF part = "frag" THEN FragInit
     ELSE version = 0 /\ inFlight = 0 /\ reassdatagrams = 0 /\
          ip_reass_pbufcount = 0 /\ given = 0
  /\ IF part = "dns" THEN DnsInit
     ELSE resolver = 0 /\ told = 0
  /\ IF part = "nd6" THEN NdInit
     ELSE nd = 0 /\ ndFrames = 0 /\ ndFocus = 0
  /\ IF part = "multicast" THEN McastInit
     ELSE proto = 0 /\ mhost = 0 /\ linkUp = 0 /\ lan = 0 /\ router = 0 /\ missed = 0
  /\ IF part = "dhcp" THEN DhcpInit
     ELSE client = 0 /\ leases = 0 /\ checkedMinutes = 0
  /\ IF part = "ip" THEN IpInit
     ELSE inf = 0 /\ dflt = 0 /\ ipFrames = 0 /\ asked = 0 /\ got = 0 /\
          world = 0

RunEtharp ==
  /\ part = "etharp"
  /\ EtharpNext
  /\ UNCHANGED <<part, fragVars, dnsVars, ndVars, mcastVars, dhcpVars,
                   ipVars>>

RunFrag ==
  /\ part = "frag"
  /\ FragNext
  /\ UNCHANGED <<part, arpVars, dnsVars, ndVars, mcastVars, dhcpVars,
                   ipVars>>

RunDns ==
  /\ part = "dns"
  /\ DnsNext
  /\ UNCHANGED <<part, arpVars, fragVars, ndVars, mcastVars, dhcpVars,
                   ipVars>>

RunNd6 ==
  /\ part = "nd6"
  /\ NdNext
  /\ UNCHANGED <<part, arpVars, fragVars, dnsVars, mcastVars, dhcpVars,
                   ipVars>>

RunMulticast ==
  /\ part = "multicast"
  /\ McastNext
  /\ UNCHANGED <<part, arpVars, fragVars, dnsVars, ndVars, dhcpVars,
                   ipVars>>

RunDhcp ==
  /\ part = "dhcp"
  /\ DhcpNext
  /\ UNCHANGED <<part, arpVars, fragVars, dnsVars, ndVars, mcastVars,
                   ipVars>>

RunIpLayer ==
  /\ part = "ip"
  /\ IpNext
  /\ UNCHANGED <<part, arpVars, fragVars, dnsVars, ndVars, mcastVars,
                   dhcpVars>>

\* The models of the other components end when their bounds are used up.
MayStop == part \notin {"etharp", "frag", "dns"} /\ UNCHANGED vars

Next ==
  \/ RunEtharp
  \/ RunFrag
  \/ RunDns
  \/ RunNd6
  \/ RunMulticast
  \/ RunDhcp
  \/ RunIpLayer
  \/ MayStop

Spec == Init /\ [][Next]_vars

-----------------------------------------------------------------------------
\* What reassembly returns is a datagram that was sent, and the buffers it holds are counted
\* and bounded, whichever fragments were repeated, overlapped or thrown out to make room
\* (ip4_frag.c, ip6_frag.c).
DatagramsReassembled == part = "frag" => DatagramIntact /\ ReassemblyBounded

\* The resolver hands out addresses of the name and the family that were asked for, and every
\* request that waits, waits for a query under way; but for what a callback left at the very
\* entry it was called for (dns.c).
DnsAnswersFit == part = "dns" => AnswersFit /\ RequestsArePending

\* The tables of nd6.c fit together whatever entries are recycled, packets leave for the next
\* hop's link-layer address, and an address is used only after it was checked.
NeighborsAgree ==
  part = "nd6" => NdTablesAgree /\ FramesReachTheNextHop /\ UsedAddressesAreUnique

\* A host that takes its membership for reported is known to the router, or somebody missed a
\* message since the last general query; one that does not has its report timed (igmp.c,
\* mld6.c).
MembershipsAreKnown == part = "multicast" => MembersAreKnown /\ MembershipTimed

\* Neither address client gets stuck while the link is up, and a lease is counted on no longer
\* than the server counts it (dhcp.c, autoip.c, acd.c).
LeasesAreTimed == part = "dhcp" => AddressTimed /\ LeaseWithinServers

\* ICMP errors answer only datagrams that may be answered, link scope is kept, answers fit
\* their questions and the source address is the best there is (ip4.c, ip6.c, icmp.c, icmp6.c).
IpAnswersAreWarranted ==
  part = "ip" => ErrorsAreWarranted /\ LinkScopeKept /\ AnswersFitTheQuestion /\ SourceIsBest
==============================================================================
