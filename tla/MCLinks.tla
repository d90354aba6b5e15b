------------------------------- MODULE MCLinks -------------------------------
(***************************************************************************)
(* Small instances of lwIP's link layers.  In a behaviour one of them      *)
(* takes the steps: part names it.  The others stay as they were           *)
(* initialised, or have no state.                                          *)
(***************************************************************************)
EXTENDS PppNegotiation, Mppe, PppLink, SerialLine, PppSessions, Vj, Bridge,
        Lowpan6

CONSTANT Parts    \* the components a run is about

VARIABLE part     \* the component that takes the steps of this behaviour

\* Configurations of the two ends for each of the four control protocols.
LcpSet(secret, refuse, required) ==
    [secret |-> secret, refuse |-> refuse, auth_required |-> required]

Wo == [mru |-> 14, asyncmap |-> {}, magic |-> 0, pcomp |-> TRUE, accomp |-> TRUE]

Ao == [mru |-> 15, asyncmap |-> {"xon"}, eap |-> TRUE, chap |-> {"MD5", "MSV2"}, upap |-> TRUE,
       magic |-> 0, pcomp |-> TRUE, endpoint |-> TRUE]

End(wo, ao, set, silent, maxnak) ==
    [wo |-> wo, ao |-> ao, set |-> set, silent |-> silent, maxnak |-> maxnak]

Case(proto, a, b) == [proto |-> proto, cfg |-> [a |-> a, b |-> b]]

Server == End(Wo, Ao, LcpSet(TRUE, {}, TRUE), TRUE, 2)

LcpCases ==
    {Case("LCP", End(Wo, Ao, LcpSet(TRUE, refuse, FALSE), FALSE, 2), Server) :
        refuse \in {{}, {"eap", "MD5"}, {"eap", "MD5", "MSV2", "MS"}}}
    \cup {Case("LCP", End(Wo, Ao, LcpSet(FALSE, {}, FALSE), FALSE, 2), Server)}

IpSet(dns, noremote, required) ==
    [usepeerdns |-> dns, ask_for_local |-> TRUE, noremoteip |-> noremote, auth_required |-> required]

Ip(our, his, dns) ==
    [NoIpOptions EXCEPT !.neg = {"addr", "addrs", "vj"}, !.ouraddr = our, !.hisaddr = his,
                        !.maxslotindex = 3, !.cflag = TRUE, !.dns = dns]

IpcpCases ==
    {Case("IPCP", End(Ip(our, 0, <<0, 0>>), Ip(0, 0, <<0, 0>>), IpSet(TRUE, FALSE, FALSE), FALSE, 2),
                  End(Ip(1, 2, <<0, 0>>), [Ip(0, 0, <<5, 0>>) EXCEPT !.maxslotindex = 1],
                      IpSet(FALSE, FALSE, TRUE), FALSE, 2)) : our \in {0, 3}}
    \cup {Case("IPCP", End(Ip(our, 0, <<0, 0>>), [Ip(0, 0, <<0, 0>>) EXCEPT !.neg = {"addrs"}],
                           IpSet(FALSE, FALSE, FALSE), FALSE, 2),
                       End(Ip(0, 0, <<0, 0>>), Ip(0, 0, <<0, 0>>), IpSet(FALSE, FALSE, FALSE), FALSE, 2))
            : our \in {1}}

Id(our, his) ==
    [neg |-> {"ifaceid"}, ourid |-> our, hisid |-> his, accept_local |-> TRUE, req_ifaceid |-> FALSE]

Ipv6cpCases ==
    {Case("IPV6CP", End(Id(our, 0), Id(0, 0), [opt_local |-> our # 0], FALSE, 2),
                    End(Id(0, his), Id(0, 0), [opt_local |-> FALSE], FALSE, 2)) :
        our \in {0, 1}, his \in {0, 3}}

MppeSet(refuse, keys) ==
    [require_mppe |-> TRUE, refuse_mppe |-> refuse, refuse_stateful |-> TRUE,
     mschap |-> {"MS2_PEER"}, keys |-> keys]

\* The last two are refused: the ends have no key length in common, or no keys.
CcpCases ==
    LET Ccp(a, b) == Case("CCP", End([mppe |-> {}], [mppe |-> {}], a, FALSE, 2),
                                 End([mppe |-> {}], [mppe |-> {}], b, FALSE, 2))
    IN {Ccp(MppeSet({}, TRUE), MppeSet(refuse, TRUE)) : refuse \in {{}, {"40"}, {"128"}}}
       \cup {Ccp(MppeSet({"40"}, TRUE), MppeSet({"128"}, TRUE)), Ccp(MppeSet({}, TRUE), MppeSet({}, FALSE))}

MCNegCases == LcpCases \cup IpcpCases \cup Ipv6cpCases \cup CcpCases

\* Configurations of a PPP interface, with the number of times ppp_connect is called.
Plain(asks, with, speaks) ==
    [peer |-> asks, with |-> with, denied |-> FALSE, mppe |-> FALSE, delayed |-> FALSE,
     echo |-> FALSE, limits |-> FALSE, holdoff |-> FALSE, passive |-> FALSE, sessions |-> 2,
     speaks |-> {"LCP"} \cup speaks]

MCLinkCases ==
    {[Plain("none", "none", {"IPCP", "IPV6CP"}) EXCEPT !.sessions = 1],
     Plain("none", "PAP", {"PAP"}),
     Plain("PAP", "none", {"PAP", "IPCP"}),
     Plain("CHAP", "CHAP", {"CHAP"}),
     Plain("EAP", "none", {"EAP"}),
     Plain("none", "EAP", {"EAP"}),
     [Plain("none", "EAP", {"EAP", "IPCP"}) EXCEPT !.sessions = 1],
     [Plain("none", "none", {"IPCP"}) EXCEPT !.echo = TRUE, !.limits = TRUE, !.holdoff = TRUE],
     [Plain("none", "none", {"CCP"}) EXCEPT !.delayed = TRUE, !.passive = TRUE],
     [Plain("PAP", "none", {"PAP"}) EXCEPT !.denied = TRUE],
     [Plain("CHAP", "none", {"CHAP", "CCP"}) EXCEPT !.mppe = TRUE]}

\* "x" is a control character that the peers may have agreed to escape.
MCPayloads == {<<>>, <<"x", "flag">>, <<"escape", "ff">>}
MCProtocols == {<<"zero", "ip">>, <<"lcphigh", "lcplow">>}
MCSerialConfs ==
    {[out |-> {}, in |-> {}, pcomp |-> TRUE, accomp |-> TRUE, fcsEscaped |-> TRUE],
     [out |-> {"x"}, in |-> {}, pcomp |-> TRUE, accomp |-> FALSE, fcsEscaped |-> FALSE],
     [out |-> {"x"}, in |-> {"x"}, pcomp |-> FALSE, accomp |-> FALSE, fcsEscaped |-> FALSE]}

MCPorts == <<"p1", "p2">>

\* The second context is not set.
MCContexts == <<"c0", "zero", "c2">>

-----------------------------------------------------------------------------
vars == <<part, negVars, mppeVars, linkVars, serialVars, slipVars,
          pppoeVars, l2tpVars, vjVars, bridgeVars, lowpanVars>>

Init ==
  /\ part \in Parts
  /\ IF part = "negotiation" THEN NegotiationInit
     ELSE peer = 0 /\ wire = 0 /\ neg = 0 /\ negFaults = 0
  /\ MppeInit /\ (part # "mppe" => stateful)
  /\ IF part = "link" THEN LinkInit
     ELSE ppp = 0
  /\ IF part = "pppos" THEN PpposInit
     ELSE sconf = 0 /\ idle = 0 /\ serial = 0 /\ rcv = 0 /\ framesSent = 0
          /\ framesGot = 0 /\ serialFaults = 0 /\ damage = 0
  /\ IF part = "slip" THEN slipif_init
     ELSE slipMode = 0 /\ priv = 0 /\ rxpackets = 0 /\ slipLine = 0 /\
          slipSent = 0 /\ slipDamaged = 0 /\ slipDisplaced = 0 /\ slipGot = 0
  /\ PppoeInit
  /\ L2tpInit
  /\ VjInit /\ compressSlot = (vjFocus = "slots") /\ (part # "vj" => compressSlot)
  /\ bridgeif_init
  /\ IF part = "lowpan6" THEN lowpan6_if_init
     ELSE lowpanFocus = 0 /\ tx_datagram_tag = 0 /\ reass_list = 0 /\
          lowpanAir = 0 /\ lowpanSent = 0 /\ lowpanUp = 0 /\ repeats = 0

RunNegotiation ==
  /\ part = "negotiation"
  /\ NegotiationNext
  /\ UNCHANGED <<part, mppeVars, linkVars, serialVars, slipVars, pppoeVars,
                   l2tpVars, vjVars, bridgeVars, lowpanVars>>

RunMppe ==
  /\ part = "mppe"
  /\ MppeNext
  /\ UNCHANGED <<part, negVars, linkVars, serialVars, slipVars, pppoeVars,
                   l2tpVars, vjVars, bridgeVars, lowpanVars>>

RunLink ==
  /\ part = "link"
  /\ LinkNext
  /\ UNCHANGED <<part, negVars, mppeVars, serialVars, slipVars, pppoeVars,
                   l2tpVars, vjVars, bridgeVars, lowpanVars>>

RunPppos ==
  /\ part = "pppos"
  /\ PpposNext
  /\ UNCHANGED <<part, negVars, mppeVars, linkVars, slipVars, pppoeVars,
                   l2tpVars, vjVars, bridgeVars, lowpanVars>>

RunSlip ==
  /\ part = "slip"
  /\ SlipNext
  /\ UNCHANGED <<part, negVars, mppeVars, linkVars, serialVars, pppoeVars,
                   l2tpVars, vjVars, bridgeVars, lowpanVars>>

RunPppoe ==
  /\ part = "pppoe"
  /\ PppoeNext
  /\ UNCHANGED <<part, negVars, mppeVars, linkVars, serialVars, slipVars,
                   l2tpVars, vjVars, bridgeVars, lowpanVars>>

RunL2tp ==
  /\ part = "l2tp"
  /\ L2tpNext
  /\ UNCHANGED <<part, negVars, mppeVars, linkVars, serialVars, slipVars,
                   pppoeVars, vjVars, bridgeVars, lowpanVars>>

RunVj ==
  /\ part = "vj"
  /\ VjNext
  /\ UNCHANGED <<part, negVars, mppeVars, linkVars, serialVars, slipVars,
                   pppoeVars, l2tpVars, bridgeVars, lowpanVars>>

RunBridge ==
  /\ part = "bridge"
  /\ BridgeNext
  /\ UNCHANGED <<part, negVars, mppeVars, linkVars, serialVars, slipVars,
                   pppoeVars, l2tpVars, vjVars, lowpanVars>>

RunLowpan6 ==
  /\ part = "lowpan6"
  /\ LowpanNext
  /\ UNCHANGED <<part, negVars, mppeVars, linkVars, serialVars, slipVars,
                   pppoeVars, l2tpVars, vjVars, bridgeVars>>

\* The models of the other components end when their bounds are used up.
MayStop == part \notin {"slip", "vj", "bridge"} /\ UNCHANGED vars

Next ==
  \/ RunNegotiation
  \/ RunMppe
  \/ RunLink
  \/ RunPppos
  \/ RunSlip
  \/ RunPppoe
  \/ RunL2tp
  \/ RunVj
  \/ RunBridge
  \/ RunLowpan6
  \/ MayStop

Spec == Init /\ [][Next]_vars

-----------------------------------------------------------------------------
\* Two open ends agree on every option, and a request that waits for an answer is timed
\* once, through lost and repeated packets, renegotiation and lack of memory (fsm.c, lcp.c,
\* ipcp.c, ipv6cp.c, ccp.c).  OneTimerWhileWaiting names the two exceptions of the timer: a
\* request that could not be sent, and a CCP that refused MPPE.
NegotiationAgrees == part = "negotiation" => OpenEndsAgree /\ OneTimerWhileWaiting

\* Network protocols run only after every authentication that was agreed, nothing above LCP
\* outlives it, automata wait only with a timer, and the phase agrees with the protocols that
\* are up (auth.c, lcp.c, fsm.c, ppp.c).  CCP under MPPE and a second success of EAP are the
\* exceptions, each named where the property is stated.
LinkPhasesAgree ==
  part = "link" => NetworkIsAuthenticated /\ DownWithLcp /\ FsmTimed /\ RunningIsUp

\* What a receiver hands up is what was sent, whole and in its turn, and a lost byte or a
\* missing buffer costs only the frames it touches: HDLC framing (pppos.c), SLIP (slipif.c)
\* and 6LoWPAN's compression and fragments (lowpan6.c).  A SLIP packet that
\* completes while another waits for the thread costs one of the two (slipif.c:500).
FramesAreRestored ==
  /\ part = "pppos" => FramesIntact /\ Resynchronises
  /\ part = "slip" => OnlyDamagedPacketsSuffer
  /\ part = "lowpan6" => DatagramsRestored
==============================================================================
