----------------------------- MODULE PppSessions -----------------------------
(***************************************************************************)
(* netif/ppp/pppoe.c, the client: several PPPoE links over one ethernet    *)
(* interface discover access concentrators (external) and open sessions    *)
(* with them.  The network loses, repeats and reorders discovery packets:  *)
(* air is the set of all packets sent, any of which may still arrive.      *)
(***************************************************************************)
EXTENDS Integers, Sequences, FiniteSets, Functions

CONSTANTS
    SOFTCS,                                   \* places in the pool PPPOE_IF
    ACS, SESSION_IDS, COOKIES,                \* concentrators and what they give out
    PPPOE_DISC_MAXPADI, PPPOE_DISC_MAXPADR,
    PERSIST,                                  \* settings.persist
    MaxConnects

ASSUME PppoeAssumption == "none" \notin SOFTCS

VARIABLES
    pppoe_softc_list, softc,
    pppLink,         \* softc -> "dead", "connecting" or "started", what ppp.c was told
    air,             \* discovery packets
    granted,         \* <<concentrator, session, host-unique>>
    arrived,         \* the last data frame: [from: softc it was sent to, to: softc it reached]
    connects

pppoeVars == <<pppoe_softc_list, softc, pppLink, air, granted, arrived, connects>>

NoSoftc == "none"

BROADCAST == "broadcast"

NoCookie == "no cookie"

NewSoftc == [sc_state |-> "INITIAL", sc_session |-> 0, sc_dest |-> BROADCAST, cookie |-> NoCookie,
             padi |-> 0, padr |-> 0, timers |-> 0]

Listed == Range(pppoe_softc_list)

Discovering == {"PADI_SENT", "PADR_SENT"}

-----------------------------------------------------------------------------
(* Frames.  pppoe_output gives them the destination of the softc.          *)

pppoe_send_padi(sc) == [code |-> "PADI", to |-> softc[sc].sc_dest, from |-> NoSoftc, session |-> 0,
                        hunique |-> sc, cookie |-> NoCookie]

PadrOf(sc, S) == [code |-> "PADR", to |-> S.sc_dest, from |-> NoSoftc, session |-> 0,
                  hunique |-> sc, cookie |-> S.cookie]

pppoe_send_padt(S, sc) == [code |-> "PADT", to |-> S.sc_dest, from |-> NoSoftc, session |-> S.sc_session,
                           hunique |-> sc, cookie |-> NoCookie]

Timed(S) == [S EXCEPT !.timers = @ + 1]

Untimed(S) == [S EXCEPT !.timers = IF @ = 0 THEN 0 ELSE @ - 1]

(* The new state of a softc and what it sends with it; a frame that cannot *)
(* be allocated is as good as lost, and the timer repeats it.              *)
Change(sc, S, link, packets) ==
    /\ softc' = [softc EXCEPT ![sc] = S]
    /\ pppLink' = [pppLink EXCEPT ![sc] = link]
    /\ air' = air \cup packets

-----------------------------------------------------------------------------
pppoe_create(sc) ==
    /\ sc \notin Listed
    /\ pppoe_softc_list' = <<sc>> \o pppoe_softc_list
    /\ Change(sc, [NewSoftc EXCEPT !.timers = softc[sc].timers], "dead", {})
    /\ UNCHANGED <<granted, arrived, connects>>

Unlinked(list, i) == SubSeq(list, 1, i - 1) \o SubSeq(list, i + 1, Len(list))

(* ppp_free only calls it in the dead phase *)
pppoe_destroy(sc) ==
    /\ sc \in Listed
    /\ pppLink[sc] = "dead"
    /\ LET i == CHOOSE i \in DOMAIN pppoe_softc_list : pppoe_softc_list[i] = sc
       IN pppoe_softc_list' = Unlinked(pppoe_softc_list, i)
    /\ Change(sc, [NewSoftc EXCEPT !.timers = Untimed(softc[sc]).timers], "dead", {})
    /\ UNCHANGED <<granted, arrived, connects>>

pppoe_connect(sc) ==
    /\ sc \in Listed
    /\ pppLink[sc] = "dead"
    /\ connects < MaxConnects
    /\ connects' = connects + 1
    /\ Change(sc, Timed([softc[sc] EXCEPT !.sc_session = 0, !.cookie = NoCookie, !.padi = 0,
                                          !.padr = 0, !.sc_dest = BROADCAST, !.sc_state = "PADI_SENT"]),
              "connecting", {[pppoe_send_padi(sc) EXCEPT !.to = BROADCAST]})
    /\ UNCHANGED <<pppoe_softc_list, granted, arrived>>

pppoe_disconnect(sc) ==
    /\ sc \in Listed
    /\ pppLink[sc] # "dead"
    /\ Change(sc, [Untimed(softc[sc]) EXCEPT !.sc_state = "INITIAL"], "dead",
              IF softc[sc].sc_state = "SESSION" THEN {pppoe_send_padt(softc[sc], sc)} ELSE {})
    /\ UNCHANGED <<pppoe_softc_list, granted, arrived, connects>>

pppoe_abort_connect(sc, S) == Change(sc, [S EXCEPT !.sc_state = "INITIAL"], "dead", {})

PadiTimeout(sc, S) ==
    LET n == S.padi + 1
        padi == IF PERSIST /\ n > PPPOE_DISC_MAXPADI THEN S.padi ELSE n    \* its limit is 0xff
        T == [S EXCEPT !.padi = padi]
    IN IF ~PERSIST /\ padi >= PPPOE_DISC_MAXPADI THEN pppoe_abort_connect(sc, T)
       ELSE Change(sc, Timed(T), pppLink[sc], {pppoe_send_padi(sc)})

PadrTimeout(sc, S) ==
    LET T == [S EXCEPT !.padr = @ + 1]
    IN IF T.padr >= PPPOE_DISC_MAXPADR
       THEN Change(sc, Timed([T EXCEPT !.sc_dest = BROADCAST, !.sc_state = "PADI_SENT", !.padr = 0]),
                   pppLink[sc], {[pppoe_send_padi(sc) EXCEPT !.to = BROADCAST]})
       ELSE Change(sc, Timed(T), pppLink[sc], {PadrOf(sc, T)})

pppoe_timeout(sc) ==
    LET S == [softc[sc] EXCEPT !.timers = @ - 1]
    IN /\ softc[sc].timers > 0
       /\ CASE S.sc_state = "PADI_SENT" -> PadiTimeout(sc, S)
            [] S.sc_state = "PADR_SENT" -> PadrTimeout(sc, S)
            [] OTHER -> Change(sc, S, pppLink[sc], {})
       /\ UNCHANGED <<pppoe_softc_list, granted, arrived, connects>>

-----------------------------------------------------------------------------
(* pppoe_find_softc_by_hunique: the token is the address of a softc *)
pppoe_find_softc_by_hunique(h) ==
    IF h \in Listed /\ softc[h].sc_state \in Discovering THEN h ELSE NoSoftc

TakePado(sc, m) ==
    LET S == [softc[sc] EXCEPT !.cookie = IF m.cookie = NoCookie THEN @ ELSE m.cookie,
                               !.sc_dest = m.from, !.padr = 0, !.sc_state = "PADR_SENT"]
    IN Change(sc, Timed(Untimed(S)), pppLink[sc], {PadrOf(sc, S)})

TakePads(sc, m) ==
    Change(sc, [Untimed(softc[sc]) EXCEPT !.sc_session = m.session, !.sc_state = "SESSION"], "started", {})

(* Packets without a host-unique tag, of other codes or in another state   *)
(* are dropped: PADT among them.                                           *)
pppoe_disc_input(m) ==
    LET sc == pppoe_find_softc_by_hunique(m.hunique)
    IN /\ m.from \in ACS
       /\ sc # NoSoftc
       /\ \/ m.code = "PADO" /\ softc[sc].sc_state = "PADI_SENT" /\ TakePado(sc, m)
          \/ m.code = "PADS" /\ TakePads(sc, m)
       /\ UNCHANGED <<pppoe_softc_list, granted, arrived, connects>>
(* Faulty variant: the first softc in session takes the frame.             *)
FirstInSession(session) ==
    LET hits == {i \in DOMAIN pppoe_softc_list : softc[pppoe_softc_list[i]].sc_state = "SESSION"}
    IN IF hits = {} THEN NoSoftc ELSE pppoe_softc_list[CHOOSE i \in hits : \A j \in hits : i <= j]

pppoe_find_softc_by_session(session) ==
    LET hits == {i \in DOMAIN pppoe_softc_list :
                   LET S == softc[pppoe_softc_list[i]]
                   IN S.sc_state = "SESSION" /\ S.sc_session = session}
    IN IF hits = {} THEN NoSoftc ELSE pppoe_softc_list[CHOOSE i \in hits : \A j \in hits : i <= j]

(* a data frame of a session that a concentrator granted *)
pppoe_data_input(g) ==
    /\ pppoe_find_softc_by_session(g[2]) # NoSoftc
    /\ arrived' = [from |-> g[3], to |-> pppoe_find_softc_by_session(g[2])]
    /\ UNCHANGED <<pppoe_softc_list, softc, pppLink, air, granted, connects>>

-----------------------------------------------------------------------------
(* The concentrators: an offer for a PADI, a new session for a PADR.       *)
OfferFor(m, ac) ==
    /\ m.code = "PADI"
    /\ \E c \in COOKIES \cup {NoCookie} :
          air' = air \cup {[code |-> "PADO", to |-> NoSoftc, from |-> ac, session |-> 0,
                            hunique |-> m.hunique, cookie |-> c]}
    /\ UNCHANGED granted

SessionFor(m, ac) ==
    /\ m.code = "PADR"
    /\ m.to = ac
    /\ \E s \in SESSION_IDS :
          /\ \A g \in granted : g[2] # s
          /\ granted' = granted \cup {<<ac, s, m.hunique>>}
          /\ air' = air \cup {[code |-> "PADS", to |-> NoSoftc, from |-> ac, session |-> s,
                               hunique |-> m.hunique, cookie |-> m.cookie]}

Concentrator ==
    /\ \E m \in air, ac \in ACS : OfferFor(m, ac) \/ SessionFor(m, ac)
    /\ UNCHANGED <<pppoe_softc_list, softc, pppLink, arrived, connects>>

PppoeInit ==
    /\ pppoe_softc_list = <<>>
    /\ softc = [x \in SOFTCS |-> NewSoftc]
    /\ pppLink = [x \in SOFTCS |-> "dead"]
    /\ air = {}
    /\ granted = {}
    /\ arrived = [from |-> NoSoftc, to |-> NoSoftc]
    /\ connects = 0

PppoeNext ==
    \/ \E sc \in SOFTCS : \/ pppoe_create(sc) \/ pppoe_destroy(sc)
                          \/ pppoe_connect(sc) \/ pppoe_disconnect(sc) \/ pppoe_timeout(sc)
    \/ \E m \in air : pppoe_disc_input(m)
    \/ \E g \in granted : pppoe_data_input(g)
    \/ Concentrator

PppoeSpec == PppoeInit /\ [][PppoeNext]_pppoeVars

-----------------------------------------------------------------------------
(* A softc that is discovering always has exactly one pppoe_timeout to     *)
(* come back to it, and no other has one: whatever is lost, connect,       *)
(* disconnect and late answers leave neither a link that waits for ever    *)
(* nor a timer that fires on a later attempt or on a freed softc.          *)
DiscoveryTimed ==
    \A sc \in SOFTCS :
        softc[sc].timers = IF sc \in Listed /\ softc[sc].sc_state \in Discovering THEN 1 ELSE 0

(* ppp.c is told to start exactly in the sessions, each a session that a   *)
(* concentrator granted to this softc, and with distinct identifiers no    *)
(* data frame reaches another softc.                                       *)
SessionsAreGranted ==
    /\ \A sc \in SOFTCS :
          /\ (pppLink[sc] = "started") = (softc[sc].sc_state = "SESSION")
          /\ softc[sc].sc_state = "SESSION" =>
                \E g \in granted : g[2] = softc[sc].sc_session /\ g[3] = sc
    /\ arrived.from = arrived.to

(* Both: sessions are those granted, and discovery goes on (pppoe.c).      *)
PppoeSessions == SessionsAreGranted /\ DiscoveryTimed

-----------------------------------------------------------------------------

(***************************************************************************)
(* netif/ppp/pppol2tp.c: an L2TP access concentrator that opens a tunnel   *)
(* and one session to a network server (external), over UDP.  datagrams is *)
(* the set of all messages of the attempt, any of which may arrive late,   *)
(* twice or never.  Sequence numbers count from 0 for every attempt; they  *)
(* stay far below 2^15, so that (s16_t) differences are those of integers. *)
(* A message never outlives the attempt it was sent in.                    *)
(***************************************************************************)

CONSTANTS
    PPPOL2TP_MAXSCCRQ, PPPOL2TP_MAXICRQ, PPPOL2TP_MAXICCN,
    L2TP_SECRET,          \* a secret is set
    L2TP_PERSIST,         \* settings.persist
    MaxDials

VARIABLES
    l2tp,                 \* phase, our_ns, peer_nr, peer_ns, tid, sid, retries, timers
    l2tpLink,             \* what ppp.c was told: "dead", "connecting", "started"
    lns,                  \* the server: ns, nr: its counters, last: what it last sent, up
    datagrams, dials

l2tpVars == <<l2tp, l2tpLink, lns, datagrams, dials>>

(* A control message: its sender, kind and numbers, the tunnel and session *)
(* it names, and for SCCRP whether it challenges and answers right.        *)
Control(by, kind, ns, nr) ==
    [by |-> by, kind |-> kind, ns |-> ns, nr |-> nr, challenge |-> FALSE, proof |-> TRUE]

ToServer(kind, ns, nr) == Control("client", kind, ns, nr)

SCCRQ(L) == ToServer("SCCRQ", L.our_ns, L.peer_ns)

SCCCN(L, ns) == ToServer("SCCCN", ns, L.peer_ns)

ICRQ(L, ns) == ToServer("ICRQ", ns, L.peer_ns)

ICCN(L, ns) == ToServer("ICCN", ns, L.peer_ns)

ZLB(ns, nr) == ToServer("ZLB", ns, nr)

STOPCCN(L, ns) == ToServer("STOPCCN", ns, L.peer_ns)

L2tpArm(L) == [L EXCEPT !.timers = @ + 1]

L2tpUntimeout(L) == [L EXCEPT !.timers = IF @ = 0 THEN 0 ELSE @ - 1]

Outcome(L, link, messages) ==
    /\ l2tp' = L
    /\ l2tpLink' = link
    /\ datagrams' = datagrams \cup messages

NewL2tp == [phase |-> "INITIAL", our_ns |-> 0, peer_nr |-> 0, peer_ns |-> 0, sccrq |-> 0, icrq |-> 0,
            iccn |-> 0, timers |-> 0]

NewLns == [ns |-> 0, nr |-> 0, last |-> "none", up |-> FALSE]

-----------------------------------------------------------------------------
pppol2tp_connect ==
    LET L == [NewL2tp EXCEPT !.timers = l2tp.timers, !.phase = "SCCRQ_SENT"]
    IN /\ l2tpLink = "dead"
       /\ dials < MaxDials
       /\ dials' = dials + 1
       /\ lns' = NewLns
       /\ l2tp' = L2tpArm(L)
       /\ l2tpLink' = "connecting"
       /\ datagrams' = {SCCRQ(L)}

pppol2tp_disconnect ==
    LET L == [l2tp EXCEPT !.our_ns = @ + 1]
    IN /\ l2tpLink # "dead"
       /\ Outcome([L2tpUntimeout(L) EXCEPT !.phase = "INITIAL"], "dead", {STOPCCN(L, L.our_ns)})
       /\ UNCHANGED <<lns, dials>>

pppol2tp_abort_connect(L, messages) == Outcome([L EXCEPT !.phase = "INITIAL"], "dead", messages)

SccrqTimeout(L) ==
    LET n == L.sccrq + 1
        T == [L EXCEPT !.sccrq = IF L2TP_PERSIST /\ n > PPPOL2TP_MAXSCCRQ THEN @ ELSE n]   \* at most 0xff
    IN IF ~L2TP_PERSIST /\ n >= PPPOL2TP_MAXSCCRQ THEN pppol2tp_abort_connect(T, {})
       ELSE Outcome(L2tpArm(T), l2tpLink, {SCCRQ(T)})

(* SCCCN and ICRQ went out together: the first is repeated until the       *)
(* server has acknowledged it.                                             *)
IcrqTimeout(L) ==
    LET T == [L EXCEPT !.icrq = @ + 1]
    IN IF T.icrq >= PPPOL2TP_MAXICRQ THEN pppol2tp_abort_connect(T, {})
       ELSE Outcome(L2tpArm(T), l2tpLink,
                    {ICRQ(T, T.our_ns)} \cup
                      (IF T.peer_nr < T.our_ns THEN {SCCCN(T, T.our_ns - 1)} ELSE {}))

IccnTimeout(L) ==
    LET T == [L EXCEPT !.iccn = @ + 1]
    IN IF T.iccn >= PPPOL2TP_MAXICCN THEN pppol2tp_abort_connect(T, {})
       ELSE Outcome(L2tpArm(T), l2tpLink, {ICCN(T, T.our_ns)})

pppol2tp_timeout ==
    LET L == [l2tp EXCEPT !.timers = @ - 1]
    IN /\ l2tp.timers > 0
       /\ CASE L.phase = "SCCRQ_SENT" -> SccrqTimeout(L)
            [] L.phase = "ICRQ_SENT" -> IcrqTimeout(L)
            [] L.phase = "ICCN_SENT" -> IccnTimeout(L)
            [] OTHER -> Outcome(L, l2tpLink, {})
       /\ UNCHANGED <<lns, dials>>

-----------------------------------------------------------------------------
(* pppol2tp_dispatch_control_packet, after the sequence number has been    *)
(* found right: L has peer_ns advanced.                                    *)
TakeSccrp(L, m, link) ==
    LET T == [L EXCEPT !.icrq = 0, !.phase = "ICRQ_SENT", !.our_ns = @ + 2]
    IN IF (m.challenge /\ ~L2TP_SECRET) \/ ~m.proof THEN pppol2tp_abort_connect(L, {})
       ELSE Outcome(L2tpArm(L2tpUntimeout(T)), link, {SCCCN(T, L.our_ns + 1), ICRQ(T, L.our_ns + 2)})

TakeIcrp(L, link) ==
    LET T == [L EXCEPT !.iccn = 0, !.phase = "ICCN_SENT", !.our_ns = @ + 1]
    IN Outcome(L2tpArm(L2tpUntimeout(T)), link, {ICCN(T, T.our_ns)})

TakeMessage(L, m, link) ==
    LET zlb == {ZLB(L.our_ns + 1, L.peer_ns)}
    IN CASE m.kind = "SCCRP" /\ L.phase = "SCCRQ_SENT" -> TakeSccrp(L, m, link)
         [] m.kind = "ICRP" /\ L.phase = "ICRQ_SENT" -> TakeIcrp(L, link)
         [] m.kind = "STOPCCN" /\ L.phase # "DATA" -> pppol2tp_abort_connect(L, zlb)
         [] OTHER -> Outcome(L, link, zlb)
(* Faulty variant: the acknowledgement before that of ICCN opens the       *)
(* session.                                                                *)
OpensEarly(m) ==
    LET A == [l2tp EXCEPT !.peer_nr = m.nr]
        opens == A.phase = "ICCN_SENT" /\ A.peer_nr >= A.our_ns
        B == IF opens THEN [L2tpUntimeout(A) EXCEPT !.phase = "DATA"] ELSE A
        link == IF opens THEN "started" ELSE l2tpLink
    IN IF m.ns # l2tp.peer_ns
       THEN Outcome(l2tp, l2tpLink, IF m.ns < l2tp.peer_ns THEN {ZLB(m.nr, m.ns + 1)} ELSE {})
       ELSE IF m.kind = "ZLB" THEN Outcome(B, link, {})
       ELSE TakeMessage([B EXCEPT !.peer_ns = m.ns + 1], m, link)

(* Every acknowledged number in sequence is taken, and the one of ICCN     *)
(* opens the session.                                                      *)
pppol2tp_dispatch_control_packet(m) ==
    LET A == [l2tp EXCEPT !.peer_nr = m.nr]
        opens == A.phase = "ICCN_SENT" /\ A.peer_nr > A.our_ns
        B == IF opens THEN [L2tpUntimeout(A) EXCEPT !.phase = "DATA"] ELSE A
        link == IF opens THEN "started" ELSE l2tpLink
    IN IF m.ns # l2tp.peer_ns
       THEN Outcome(l2tp, l2tpLink, IF m.ns < l2tp.peer_ns THEN {ZLB(m.nr, m.ns + 1)} ELSE {})
       ELSE IF m.kind = "ZLB" THEN Outcome(B, link, {})
       ELSE TakeMessage([B EXCEPT !.peer_ns = m.ns + 1], m, link)

pppol2tp_input ==
    \E m \in datagrams :
        /\ m.by = "server"
        /\ l2tp.phase # "INITIAL"
        /\ pppol2tp_dispatch_control_packet(m)
        /\ UNCHANGED <<lns, dials>>

-----------------------------------------------------------------------------
(* The server takes messages in sequence and answers each; it may repeat   *)
(* its last message with its present counters, or stop the tunnel.         *)
FromServer(kind, S) == Control("server", kind, S.ns, S.nr)

ServerSends(S, kinds) ==
    /\ lns' = S
    /\ datagrams' = datagrams \cup kinds
    /\ UNCHANGED <<l2tp, l2tpLink, dials>>

Sccrp(S, c, p) == [FromServer("SCCRP", S) EXCEPT !.challenge = c, !.proof = p]

ServerAnswers(m) ==
    LET S == [lns EXCEPT !.nr = m.ns + 1]
    IN /\ m.by = "client"
       /\ m.kind # "ZLB"
       /\ lns.last # "STOPCCN"
       /\ m.ns = lns.nr
       /\ CASE m.kind = "SCCRQ" ->
                 \E c, p \in BOOLEAN : ServerSends([S EXCEPT !.ns = 1, !.last = "SCCRP"], {Sccrp(S, c, p)})
            [] m.kind = "ICRQ" -> ServerSends([S EXCEPT !.ns = 2, !.last = "ICRP"], {FromServer("ICRP", S)})
            [] m.kind = "ICCN" -> ServerSends([S EXCEPT !.up = TRUE], {FromServer("ZLB", S)})
            [] m.kind = "STOPCCN" -> ServerSends([S EXCEPT !.up = FALSE, !.last = "STOPCCN"], {FromServer("ZLB", S)})
            [] OTHER -> ServerSends(S, {FromServer("ZLB", S)})

ServerRepeats ==
    /\ lns.last \in {"SCCRP", "ICRP"}
    /\ ServerSends(lns, {Control("server", lns.last, lns.ns - 1, lns.nr), FromServer("ZLB", lns)})

ServerStops ==
    /\ lns.last \in {"SCCRP", "ICRP"}
    /\ ServerSends([lns EXCEPT !.ns = @ + 1, !.last = "STOPCCN", !.up = FALSE], {FromServer("STOPCCN", lns)})

L2tpInit ==
    /\ l2tp = NewL2tp
    /\ l2tpLink = "dead"
    /\ lns = NewLns
    /\ datagrams = {}
    /\ dials = 0

L2tpNext ==
    \/ pppol2tp_connect
    \/ pppol2tp_disconnect
    \/ pppol2tp_timeout
    \/ pppol2tp_input
    \/ \E m \in datagrams : ServerAnswers(m)
    \/ ServerRepeats
    \/ ServerStops

L2tpSpec == L2tpInit /\ [][L2tpNext]_l2tpVars

-----------------------------------------------------------------------------
(* PPP is started on the tunnel only once the server has taken ICCN, the   *)
(* last message of the call, and so has its own end of the session (or has *)
(* stopped the tunnel since), whatever the network lost or repeated.       *)
DataIsEstablished ==
    /\ (l2tpLink = "started") = (l2tp.phase = "DATA")
    /\ l2tp.phase = "DATA" => lns.up \/ lns.last = "STOPCCN"

(* While the tunnel is being opened a pppol2tp_timeout is always pending,  *)
(* so that a lost message is repeated or the attempt given up.             *)
TunnelTimed == l2tp.phase \in {"SCCRQ_SENT", "ICRQ_SENT", "ICCN_SENT"} => l2tp.timers > 0

(* Both: the tunnel neither opens early nor waits for ever (pppol2tp.c).   *)
L2tpTunnels == DataIsEstablished /\ TunnelTimed
==============================================================================
