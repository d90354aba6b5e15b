------------------------------ MODULE PppLink ------------------------------
(***************************************************************************)
(* One PPP interface of lwIP from ppp_connect to the end of its link: the  *)
(* phases of ppp.c, the upper half of lcp.c, auth.c, and how LCP, the      *)
(* authentication protocols, IPCP, IPV6CP and CCP are opened, closed,      *)
(* brought up and down by one another, often from inside a callback.       *)
(* The options are those of PppNegotiation and are reduced here to the     *)
(* verdict on them; the peer is the environment and may send any packet.   *)
(* The link driver (PPPoE, L2TP or serial) is reduced to its connect and   *)
(* disconnect callbacks.                                                   *)
(***************************************************************************)
EXTENDS Integers, Sequences, SequencesExt, FiniteSets

CONSTANTS
    LINK_CASES,          \* [peer, with: authentications agreed, denied, mppe, delayed,
                         \*  echo, limits, holdoff, passive, speaks: protocols the peer uses,
                         \*  sessions: bound on the number of ppp_connect calls]
    LINK_CONF_REQ, LINK_TERM, LINK_NAK,
    LINK_AUTH_MAX, LINK_EAP_ALLOW, LINK_RECHALLENGE,
    ECHO_FAILS,          \* settings.lcp_echo_fails
    MaxNpOpen,           \* bound on num_np_open, which each repeated success of EAP raises
    MaxTimers            \* bound on the timers of one kind when a packet arrives

VARIABLE
    ppp                  \* the interface; ppp.set is its case

linkVars == <<ppp>>

NCPS == {"IPCP", "IPV6CP", "CCP"}

FSMS == {"LCP"} \cup NCPS

(* protocols[] of ppp.c without LCP, in its order. *)
UPPER == <<"PAP", "CHAP", "IPCP", "IPV6CP", "CCP", "EAP">>

TIMERS == FSMS \cup {"pap", "papreq", "chap", "eapc", "eaps", "eapre",
                     "echo", "delayed", "holdoff", "idle", "maxconnect"}

PhaseNo == [DEAD |-> 0, HOLDOFF |-> 2, INITIALIZE |-> 3, ESTABLISH |-> 6, AUTHENTICATE |-> 7,
            NETWORK |-> 9, RUNNING |-> 10, TERMINATE |-> 11, DISCONNECT |-> 12]

(* The functions of ppp.c, auth.c, lcp.c and ccp.c, the automata and the   *)
(* authentication protocols call one another through callbacks, and a call *)
(* may come back to the function it started from: all such calls are made  *)
(* by Call, which is given the function's name and its arguments.          *)
RECURSIVE Call(_, _, _, _)

lcp_close(P) == Call(P, "lcp_close", "LCP", "none")
proto_open(P, x) == Call(P, "open", x, "none")
proto_close(P, x) == Call(P, "fsm_close", x, "none")
proto_lowerup(P, x) == Call(P, "lowerup", x, "none")
proto_lowerdown(P, x) == Call(P, "lowerdown", x, "none")
proto_protrej(P, x) == Call(P, "protrej", x, "none")
fsm_open(P, x) == Call(P, "fsm_open", x, "none")
fsm_lowerup(P, x) == Call(P, "fsm_lowerup", x, "none")
fsm_lowerdown(P, x) == Call(P, "fsm_lowerdown", x, "none")
fsm_input(P, x, m) == Call(P, "fsm_input", x, m)

new_phase(P, phase) == [P EXCEPT !.phase = phase]

LcpIs(P, s) == P.f["LCP"].state = s

(* Every protocol above LCP, in order, is told that LCP is up or down; the *)
(* network protocols are then also closed.                                 *)
Each(P, isup) ==
    FoldLeft(LAMBDA Q, x : CASE isup -> proto_lowerup(Q, x)
                             [] ~isup /\ x \in NCPS -> proto_close(proto_lowerdown(Q, x), x)
                             [] OTHER -> proto_lowerdown(Q, x), P, UPPER)

Arm(P, t) == [P EXCEPT !.timer[t] = @ + 1]

Disarm(P, t) == [P EXCEPT !.timer[t] = IF @ > 0 THEN @ - 1 ELSE 0]

-----------------------------------------------------------------------------
(* auth.c: authentication and the network phase *)

(* The network protocols are opened and counted. *)
continue_networks(P) ==
    LET Q == [proto_open(P, "IPCP") EXCEPT !.num_np_open = @ + 1]
    IN [proto_open(Q, "IPV6CP") EXCEPT !.num_np_open = @ + 1]

(* With MPPE they wait for CCP. *)
start_networks(P) ==
    LET Q == [new_phase(P, "NETWORK") EXCEPT !.setback = P.num_np_up > 0]
        C == proto_open(Q, "CCP")
    IN IF C.mppe THEN C ELSE continue_networks(C)

network_phase(P) == start_networks(P)

auth_peer_fail(P) == lcp_close(P)

auth_withpeer_fail(P) == lcp_close(P)
\* Faulty variant: the first protocol that succeeds starts the networks.
AuthSuccessAtOnce(P, bit) ==
    network_phase([P EXCEPT !.auth_done = @ \cup {bit}, !.auth_pending = @ \ {bit},
                            !.keys = @ \/ bit[2] = "CHAP"])

AuthSuccess(P, bit) ==
    LET Q == [P EXCEPT !.auth_done = @ \cup {bit}, !.auth_pending = @ \ {bit},
                       !.keys = @ \/ bit[2] = "CHAP"]
    IN IF Q.auth_pending = {} THEN network_phase(Q) ELSE Q

auth_peer_success(P, proto) == AuthSuccess(P, <<"peer", proto>>)

auth_withpeer_success(P, proto) == AuthSuccess(P, <<"with", proto>>)

A == INSTANCE PppAuth WITH
        AUTH_MAX <- LINK_AUTH_MAX, EAP_ALLOW <- LINK_EAP_ALLOW, RECHALLENGE <- LINK_RECHALLENGE

AuthPeer(P, proto) ==
    CASE proto = "PAP" -> A!upap_authpeer(P)
      [] proto = "CHAP" -> A!chap_auth_peer(P)
      [] proto = "EAP" -> A!eap_authpeer(P)
      [] OTHER -> P

AuthWithPeer(P, proto) ==
    CASE proto = "PAP" -> A!upap_authwithpeer(P)
      [] proto = "CHAP" -> A!chap_auth_with_peer(P)
      [] proto = "EAP" -> A!eap_authwithpeer(P)
      [] OTHER -> P

(* What is pending is recorded after the exchanges have been started. *)
link_established(P) ==
    LET auth == {<<s, P.set[s]>> : s \in {"peer", "with"}} \ {<<"peer", "none">>, <<"with", "none">>}
        Begun(U) == [AuthWithPeer(AuthPeer(new_phase(U, "AUTHENTICATE"), P.set.peer), P.set.with)
                        EXCEPT !.auth_pending = auth, !.auth_done = {}]
        Started(Q) == IF auth = {} THEN network_phase(Q) ELSE Q
    IN IF P.set.denied THEN lcp_close(Each(P, TRUE))
       ELSE Started(Begun(Each(P, TRUE)))

upper_layers_down(P) == [Each(P, FALSE) EXCEPT !.num_np_open = 0, !.num_np_up = 0]

link_down(P) ==
    LET D == upper_layers_down(P) IN IF D.phase = "DEAD" THEN D ELSE new_phase(D, "ESTABLISH")

(* The first network protocol to come up starts the limits on the session; *)
(* the last to go down stops them: it names another argument when it       *)
(* cancels connect_time_expired, so that timer stays.                      *)
np_up(P) ==
    LET Q == new_phase(P, "RUNNING")
        T == IF P.set.limits THEN Arm(Arm(Q, "idle"), "maxconnect") ELSE Q
    IN [IF P.num_np_up = 0 THEN T ELSE P EXCEPT !.num_np_up = @ + 1]

np_down(P) ==
    LET Q == [P EXCEPT !.num_np_up = @ - 1]
    IN IF Q.num_np_up = 0 THEN [new_phase(Disarm(Q, "idle"), "NETWORK") EXCEPT !.setback = FALSE] ELSE Q

np_finished(P) ==
    LET Q == [P EXCEPT !.num_np_open = @ - 1] IN IF Q.num_np_open <= 0 THEN lcp_close(Q) ELSE Q

(* idle says whether no packet was seen for the time limit. *)
check_idle(P, idle) == IF idle THEN lcp_close(P) ELSE Arm(P, "idle")

connect_time_expired(P) == lcp_close(P)

-----------------------------------------------------------------------------
(* ppp.c: the ends of a session.  The driver's disconnect callback ends in *)
(* ppp_link_end before it returns.                                         *)

ppp_link_end(P) == [new_phase(P, "DEAD") EXCEPT !.told = TRUE]

Disconnect(P) == ppp_link_end([P EXCEPT !.drv = "down"])

ppp_do_connect(P) == [new_phase(P, "INITIALIZE") EXCEPT !.drv = "connecting"]

link_terminated(P) ==
    IF P.phase = "DEAD" THEN P ELSE Disconnect(proto_lowerdown(new_phase(P, "DISCONNECT"), "LCP"))

-----------------------------------------------------------------------------
(* lcp.c: echo requests, and LCP as the bottom of the other protocols *)

LcpLinkFailure(P) == IF LcpIs(P, "OPENED") THEN lcp_close(P) ELSE P

LcpSendEchoRequest(P) ==
    LET Q == IF ECHO_FAILS # 0 /\ P.echos_pending >= ECHO_FAILS
             THEN [LcpLinkFailure(P) EXCEPT !.echos_pending = 0] ELSE P
    IN IF LcpIs(Q, "OPENED") THEN [Q EXCEPT !.echos_pending = @ + 1] ELSE Q

LcpEchoCheck(P) ==
    LET Q == LcpSendEchoRequest(P)
    IN IF LcpIs(Q, "OPENED") THEN [Arm(Q, "echo") EXCEPT !.echo_timer_running = TRUE] ELSE Q

LcpEchoTimeout(P) ==
    IF P.echo_timer_running THEN LcpEchoCheck([P EXCEPT !.echo_timer_running = FALSE]) ELSE P

lcp_echo_lowerup(P) ==
    LET Q == [P EXCEPT !.echos_pending = 0, !.echo_timer_running = FALSE]
    IN IF P.set.echo THEN LcpEchoCheck(Q) ELSE Q

lcp_echo_lowerdown(P) ==
    IF P.echo_timer_running THEN [Disarm(P, "echo") EXCEPT !.echo_timer_running = FALSE] ELSE P

lcp_up(P) == link_established(lcp_echo_lowerup(P))

lcp_down(P) == link_down(lcp_echo_lowerdown(P))

-----------------------------------------------------------------------------
(* The callbacks of the control protocols.  verdict: what is thought of    *)
(* the options in the packet.                                              *)

(* ccp_resetci: MPPE without the keys that MS-CHAP derives ends the link. *)
linkResetci(P, x) ==
    IF x # "CCP" \/ ~P.set.mppe THEN P
    ELSE LET Q == [P EXCEPT !.mppe = TRUE]
             once == Cardinality({b \in P.auth_done : b[2] = "CHAP"}) = 1
         IN IF once /\ P.keys THEN Q ELSE lcp_close(Q)

linkCilen(P, x) == P

linkAddci(P, x) == {}

linkAckci(P, x, d) == TRUE

linkNakci(P, x, d, treat) == [P |-> P, ret |-> 1]

linkRejci(P, x, d) ==
    [P |-> IF x = "CCP" /\ P.mppe THEN lcp_close(P) ELSE P, ret |-> 1]

linkReqci(P, x, verdict, reject) ==
    LET code == IF reject /\ verdict = "CONFNAK" THEN "CONFREJ" ELSE verdict
    IN [P |-> IF x = "CCP" /\ verdict = "CONFREJ" /\ P.set.mppe THEN lcp_close(P) ELSE P,
        code |-> code, data |-> {}]

ipcp_up(P) ==
    IF ~P.ok THEN proto_close(P, "IPCP")
    ELSE [np_up([P EXCEPT !.if4_up = TRUE]) EXCEPT !.ipcp_is_up = TRUE]

ipcp_down(P) ==
    LET Q == IF P.ipcp_is_up THEN np_down([P EXCEPT !.ipcp_is_up = FALSE]) ELSE P
    IN [Q EXCEPT !.if4_up = FALSE]

ipcp_finished(P) ==
    IF P.ipcp_is_open THEN np_finished([P EXCEPT !.ipcp_is_open = FALSE]) ELSE P

ipv6cp_up(P) ==
    IF ~P.ok THEN proto_close(P, "IPV6CP")
    ELSE [np_up([P EXCEPT !.if6_up = TRUE]) EXCEPT !.ipv6cp_is_up = TRUE]

ipv6cp_down(P) ==
    LET Q == IF P.ipv6cp_is_up THEN np_down([P EXCEPT !.ipv6cp_is_up = FALSE]) ELSE P
    IN [Q EXCEPT !.if6_up = FALSE]

ccp_up(P) == IF P.mppe THEN continue_networks(P) ELSE P

ccp_down(P) ==
    LET Q == [P EXCEPT !.mppe = FALSE]
    IN IF P.mppe /\ LcpIs(P, "OPENED") THEN lcp_close(Q) ELSE Q

linkUp(P, x) ==
    CASE x = "LCP" -> lcp_up(P)
      [] x = "IPCP" -> ipcp_up(P)
      [] x = "IPV6CP" -> ipv6cp_up(P)
      [] OTHER -> ccp_up(P)

linkDown(P, x) ==
    CASE x = "LCP" -> lcp_down(P)
      [] x = "IPCP" -> ipcp_down(P)
      [] x = "IPV6CP" -> ipv6cp_down(P)
      [] OTHER -> ccp_down(P)

linkStarting(P, x) == P

linkFinished(P, x) ==
    CASE x = "LCP" -> link_terminated(P)
      [] x = "IPCP" -> ipcp_finished(P)
      [] x = "IPV6CP" -> np_finished(P)
      [] OTHER -> P

(* lcp_extcode; of CCP's own codes Mppe is the model. *)
lcp_extcode(P, x, m) ==
    [known |-> TRUE,
     P |-> CASE x # "LCP" -> P
             [] m.code = "PROTREJ" /\ LcpIs(P, "OPENED") -> proto_protrej(P, m.data)
             [] m.code = "ECHOREP" -> [P EXCEPT !.echos_pending = 0]
             [] OTHER -> P]

F == INSTANCE PppFsm WITH
        ID_MOD <- 1, MAX_CONF_REQ <- LINK_CONF_REQ, MAX_TERM <- LINK_TERM,
        resetci <- linkResetci, cilen <- linkCilen, addci <- linkAddci, ackci <- linkAckci,
        nakci <- linkNakci, rejci <- linkRejci, reqci <- linkReqci, up <- linkUp,
        down <- linkDown, starting <- linkStarting, finished <- linkFinished,
        extcode <- lcp_extcode

SetFlags(P, x, flags) == [P EXCEPT !.f[x].flags = flags]

Delayed(P) == "DELAYED_UP" \in P.f["LCP"].flags

NoDelay(P) == SetFlags(P, "LCP", P.f["LCP"].flags \ {"DELAYED_UP"})

lcp_open(P) ==
    fsm_open(SetFlags(P, "LCP", (P.f["LCP"].flags \ {"PASSIVE", "SILENT"})
                                  \cup IF P.set.passive THEN {"PASSIVE"} ELSE {}), "LCP")

(* From STOPPED there is no timer and no answer to wait for. *)
CloseFsm(P) ==
    IF LcpIs(P, "STOPPED") /\ P.f["LCP"].flags \cap {"PASSIVE", "SILENT", "DELAYED_UP"} # {}
    THEN link_terminated(NoDelay(proto_close(P, "LCP"))) ELSE proto_close(P, "LCP")

LcpClose(P) ==
    LET Q == IF P.phase \in {"DEAD"} THEN P ELSE new_phase(P, "TERMINATE")
    IN CloseFsm(IF Delayed(Q) THEN [Disarm(Q, "delayed") EXCEPT !.f["LCP"].state = "STOPPED"]
                ELSE Q)

lcp_lowerup(P) ==
    IF P.set.delayed
    THEN Arm(SetFlags(P, "LCP", P.f["LCP"].flags \cup {"DELAYED_UP"}), "delayed")
    ELSE fsm_lowerup(P, "LCP")

lcp_lowerdown(P) ==
    IF Delayed(P) THEN Disarm(NoDelay(P), "delayed") ELSE fsm_lowerdown(P, "LCP")

lcp_delayed_up(P) == IF Delayed(P) THEN fsm_lowerup(NoDelay(P), "LCP") ELSE P

lcp_input(P, m) ==
    LET Q == IF Delayed(P) THEN fsm_lowerup(Disarm(NoDelay(P), "delayed"), "LCP") ELSE P
    IN fsm_input(Q, "LCP", m)

ccp_open(P) ==
    LET Quietly(Q) == IF Q.mppe THEN Q ELSE SetFlags(Q, "CCP", Q.f["CCP"].flags \cup {"SILENT"})
    IN fsm_open(Quietly(linkResetci(P, "CCP")), "CCP")

CloseUnderMppe(P) == IF P.mppe THEN lcp_close(P) ELSE P

ccp_protrej(P) == CloseUnderMppe(fsm_lowerdown(P, "CCP"))

CcpInputDone(P, old, code) ==
    CASE old = "OPENED" /\ code = "TERMREQ" /\ P.f["CCP"].state # "OPENED" -> CloseUnderMppe(P)
      [] old = "REQSENT" /\ code = "TERMACK" /\ ~P.mppe -> proto_close(P, "CCP")
      [] OTHER -> P

ccp_input(P, m) == CcpInputDone(fsm_input(P, "CCP", m), P.f["CCP"].state, m.code)

(* The table of struct protent. *)
ProtoOpen(P, x) ==
    CASE x = "IPCP" -> fsm_open([P EXCEPT !.ipcp_is_open = TRUE], x)
      [] x = "CCP" -> ccp_open(P)
      [] OTHER -> fsm_open(P, x)

ProtoLowerup(P, x) ==
    CASE x = "PAP" -> A!upap_lowerup(P)
      [] x = "CHAP" -> A!chap_lowerup(P)
      [] x = "EAP" -> A!eap_lowerup(P)
      [] OTHER -> fsm_lowerup(P, x)

ProtoLowerdown(P, x) ==
    CASE x = "PAP" -> A!upap_lowerdown(P)
      [] x = "CHAP" -> A!chap_lowerdown(P)
      [] x = "EAP" -> A!eap_lowerdown(P)
      [] x = "LCP" -> lcp_lowerdown(P)
      [] OTHER -> fsm_lowerdown(P, x)

ProtoProtrej(P, x) ==
    CASE x = "LCP" -> Call(P, "fsm_protreject", x, "none")
      [] x = "PAP" -> A!upap_protrej(P)
      [] x = "CHAP" -> A!chap_protrej(P)
      [] x = "EAP" -> A!eap_protrej(P)
      [] x = "CCP" -> ccp_protrej(P)
      [] OTHER -> fsm_lowerdown(P, x)

proto_input(P, m) ==
    CASE m.proto = "LCP" -> lcp_input(P, m)
      [] m.proto = "PAP" -> A!upap_input(P, m.code)
      [] m.proto = "CHAP" -> A!chap_input(P, m.code, m.id = 0)
      [] m.proto = "EAP" -> A!eap_input(P, m.code, m.id = 0)
      [] m.proto = "CCP" -> ccp_input(P, m)
      [] OTHER -> fsm_input(P, m.proto, m)

(* A timer fires: it is off the list when its function runs. *)
Fire(P, t, idle) ==
    CASE t \in FSMS -> Call(P, "fsm_timeout", t, "none")
      [] t = "pap" -> A!upap_timeout(P)
      [] t = "papreq" -> A!upap_reqtimeout(P)
      [] t = "chap" -> A!chap_timeout(P)
      [] t = "eapc" -> A!eap_client_timeout(P)
      [] t = "eaps" -> A!eap_server_timeout(P)
      [] t = "eapre" -> A!eap_rechallenge(P)
      [] t = "echo" -> LcpEchoTimeout(P)
      [] t = "delayed" -> lcp_delayed_up(P)
      [] t = "holdoff" -> ppp_do_connect(P)
      [] t = "idle" -> check_idle(P, idle)
      [] OTHER -> connect_time_expired(P)

(* x: the protocol or the timer; y: the packet, or whether the link was idle. *)
Call(P, function, x, y) ==
    CASE function = "lcp_close" -> LcpClose(P)
      [] function = "lcp_open" -> lcp_open(P)
      [] function = "lcp_lowerup" -> lcp_lowerup(P)
      [] function = "open" -> ProtoOpen(P, x)
      [] function = "lowerup" -> ProtoLowerup(P, x)
      [] function = "lowerdown" -> ProtoLowerdown(P, x)
      [] function = "protrej" -> ProtoProtrej(P, x)
      [] function = "input" -> proto_input(P, y)
      [] function = "fire" -> Fire(P, x, y)
      [] OTHER -> F!Fsm(P, x, function, y)

-----------------------------------------------------------------------------
(* ppp.c: the calls of the application, the driver and the timers *)

fsm_init(maxnakloops) ==
    [state |-> "INITIAL", flags |-> {}, id |-> 0, reqid |-> 0, seen_ack |-> FALSE,
     retransmits |-> 0, nakloops |-> 0, rnakloops |-> 0, maxnakloops |-> maxnakloops]

PppInitial(set) ==
    [f |-> [x \in FSMS |-> fsm_init(LINK_NAK)], timer |-> [t \in TIMERS |-> 0],
     pap |-> [c |-> "INITIAL", s |-> "INITIAL", transmits |-> 0],
     chap |-> [c |-> {}, s |-> {}, transmits |-> 0],
     eap |-> [c |-> "Initial", s |-> "Initial", creq |-> 0, sreq |-> 0],
     phase |-> "DEAD", auth_pending |-> {}, auth_done |-> {}, keys |-> FALSE, mppe |-> FALSE,
     num_np_open |-> 0, num_np_up |-> 0, if4_up |-> FALSE, if6_up |-> FALSE,
     ipcp_is_open |-> FALSE, ipcp_is_up |-> FALSE, ipv6cp_is_up |-> FALSE,
     echos_pending |-> 0, echo_timer_running |-> FALSE, drv |-> "down", told |-> FALSE, sessions |-> 0,
     mem |-> TRUE, ok |-> TRUE, out |-> <<>>, set |-> set,
     setback |-> FALSE]      \* whether the networks were started while one was up, for the properties

(* An event: mem, whether buffers can be had; ok, whether what the peer    *)
(* offers (a secret, addresses) is good.                                   *)
Event(P, mem, ok) == [P EXCEPT !.mem = mem, !.ok = ok]

After(P) == ppp' = [P EXCEPT !.out = <<>>, !.mem = TRUE, !.ok = TRUE]

ppp_connect ==
    /\ ppp.phase = "DEAD"
    /\ ppp.sessions < ppp.set.sessions
    /\ LET P == [ppp EXCEPT !.told = FALSE, !.sessions = @ + 1]
       IN After(IF P.set.holdoff THEN Arm(new_phase(P, "HOLDOFF"), "holdoff")
                ELSE ppp_do_connect(P))

ppp_start ==
    /\ ppp.drv = "connecting"
    /\ \E mem \in BOOLEAN :
          LET P == new_phase([Event(ppp, mem, TRUE) EXCEPT !.drv = "up", !.keys = FALSE], "ESTABLISH")
          IN After(Call(Call(P, "lcp_open", "LCP", "none"), "lcp_lowerup", "LCP", "none"))

ppp_link_failed ==
    /\ ppp.drv = "connecting"
    /\ After([new_phase(ppp, "DEAD") EXCEPT !.drv = "down", !.told = TRUE])

ppp_close ==
    /\ ppp.phase # "DEAD"
    /\ PhaseNo[ppp.phase] < PhaseNo["TERMINATE"]
    /\ \E nocarrier \in BOOLEAN :
          After(CASE ppp.phase = "HOLDOFF" ->
                        [new_phase(Disarm(ppp, "holdoff"), "DEAD") EXCEPT !.told = TRUE]
                  [] ppp.phase = "INITIALIZE" -> Disconnect(new_phase(ppp, "DISCONNECT"))
                  [] nocarrier /\ ppp.phase = "RUNNING" -> link_terminated(proto_lowerdown(ppp, "LCP"))
                  [] OTHER -> lcp_close(ppp))

FsmCodes == {"CONFACK", "CONFNAK", "CONFREJ", "TERMREQ", "TERMACK", "CODEREJ"}

Packet(proto, code, id, data) == [proto |-> proto, code |-> code, id |-> id, data |-> data]

Packets(x) ==
    CASE x = "PAP" -> {Packet(x, c, 0, {}) : c \in {"AUTHREQ", "AUTHACK", "AUTHNAK"}}
      [] x = "CHAP" -> {Packet(x, c, i, {}) : c \in {"RESPONSE", "SUCCESS", "FAILURE"}, i \in {0, 1}}
      [] x = "EAP" -> {Packet(x, c, 0, {}) : c \in {"REQUEST", "SUCCESS", "FAILURE", "IDENTITY",
                                                   "NAKMD5", "NAKOTHER", "MD5CHAP"}}
                      \cup {Packet(x, "MD5CHAP", 1, {})}
      [] OTHER -> {Packet(x, c, 0, {}) : c \in FsmCodes} \cup {Packet(x, "CONFACK", 1, {})}
                  \cup {Packet(x, "CONFREQ", 0, v) : v \in {"CONFACK", "CONFNAK", "CONFREJ"}}
                  \cup IF x # "LCP" THEN {}
                       ELSE {Packet(x, "PROTREJ", 0, p) : p \in ppp.set.speaks}
                            \cup {Packet(x, "ECHOREP", 0, {})}

(* Secrets are judged in answers, addresses when a protocol comes up.      *)
Verdicts(m) ==
    IF m.proto # "LCP" /\ m.code \in {"AUTHREQ", "RESPONSE", "MD5CHAP", "CONFACK", "CONFREQ"}
    THEN BOOLEAN ELSE {TRUE}

(* A packet is dropped when it is not yet its protocol's turn. *)
Accepted(P, x) ==
    \/ x = "LCP"
    \/ /\ LcpIs(P, "OPENED")
       /\ PhaseNo[P.phase] > PhaseNo["AUTHENTICATE"] \/ x \in {"PAP", "CHAP", "EAP"}

ppp_input ==
    /\ ppp.drv = "up"
    /\ \A t \in TIMERS : ppp.timer[t] <= MaxTimers
    /\ \E x \in {y \in ppp.set.speaks : Accepted(ppp, y)}  :
       \E m \in Packets(x) : \E ok \in Verdicts(m) :
          /\ m.code \in {"SUCCESS", "MD5CHAP"} => ppp.num_np_open < MaxNpOpen
          /\ m.code = "CONFNAK" => ppp.f[x].rnakloops < LINK_NAK + 1
          /\ After(Call(Event(ppp, TRUE, ok), "input", x, m))

TimerFires ==
    \E t \in {x \in TIMERS : ppp.timer[x] > 0} :
    \E mem \in BOOLEAN, idle \in IF t = "idle" THEN BOOLEAN ELSE {FALSE} :
        After(Call(Event([ppp EXCEPT !.timer[t] = @ - 1], mem, TRUE), "fire", t, idle))

LinkInit == \E set \in LINK_CASES : ppp = PppInitial(set)

LinkNext == ppp_connect \/ ppp_start \/ ppp_link_failed \/ ppp_close \/ ppp_input \/ TimerFires

LinkSpec == LinkInit /\ [][LinkNext]_linkVars

(***************************************************************************)
(* Properties.                                                             *)
(***************************************************************************)

(* Network protocols run only after the peer has passed every              *)
(* authentication that was agreed (auth_pending, link_established,         *)
(* auth_peer_success and auth_withpeer_success of auth.c), whatever the    *)
(* order, the repetition and the failure of the exchanges.                 *)
NetworkIsAuthenticated ==
    ppp.phase \in {"NETWORK", "RUNNING"} =>
        /\ ~ppp.set.denied
        /\ \A s \in {"peer", "with"} :
              ppp.set[s] # "none" => <<s, ppp.set[s]>> \in ppp.auth_done

(* While LCP is not open nothing above it is alive: the interface is down, *)
(* the network protocols are back at their start, and none of their timers,*)
(* of PAP's, of CHAP's or of the echo requests is pending                  *)
(* (upper_layers_down).  CCP under MPPE is left out: a packet that makes   *)
(* it call lcp_close sets its state again when the call returns.           *)
DownWithLcp ==
    ~LcpIs(ppp, "OPENED") =>
        /\ ~ppp.if4_up /\ ~ppp.if6_up
        /\ \A x \in IF ppp.set.mppe THEN NCPS \ {"CCP"} ELSE NCPS :
              ppp.f[x].state \in {"INITIAL", "STARTING"} /\ ppp.timer[x] = 0
        /\ \A t \in {"pap", "papreq", "chap", "echo"} : ppp.timer[t] = 0

(* An automaton has at most one fsm_timeout pending, and only in a state   *)
(* that waits for an answer (fsm.c); again MPPE, under which LCP is closed *)
(* from inside its own closing, is left out.                               *)
FsmTimed ==
    ~ppp.set.mppe =>
        \A x \in FSMS :
            /\ ppp.timer[x] <= 1
            /\ ppp.timer[x] = 1 =>
                  ppp.f[x].state \in {"CLOSING", "STOPPING", "REQSENT", "ACKRCVD", "ACKSENT"}

(* The network phases and the counters agree with the protocols: num_np_up *)
(* says how many are up, and the phase is RUNNING exactly while one is,    *)
(* except after a second success of EAP (a repeated packet, or the answer  *)
(* to a rechallenge: eap.c:1899, auth.c:1111, :1192), which starts the     *)
(* networks again and leaves the phase at NETWORK until all went down.     *)
RunningIsUp ==
    /\ ppp.num_np_up = (IF ppp.ipcp_is_up THEN 1 ELSE 0) + (IF ppp.ipv6cp_is_up THEN 1 ELSE 0)
    /\ ppp.phase = "RUNNING" => ppp.num_np_up > 0
    /\ ppp.num_np_up > 0 => ppp.phase = IF ppp.setback THEN "NETWORK" ELSE "RUNNING"

=============================================================================
