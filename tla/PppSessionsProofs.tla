-------------------------- MODULE PppSessionsProofs -------------------------
(***************************************************************************)
(* The PPPoE clients and the L2TP client for every value of their          *)
(* constants: each section states an inductive invariant, shows that every *)
(* action keeps it, and derives the property the runs check.               *)
(***************************************************************************)
EXTENDS PppSessions, WellFoundedInduction, SequenceTheorems, TLAPS

\* Every non-empty set of naturals has a least element: what the first-match loops over the
\* tables and lists of this module return exists.
LEMMA LeastExists ==
  ASSUME NEW S \in SUBSET Nat, S # {}
  PROVE  \E k \in S : \A m \in S : k <= m
<1>1. PICK k \in S : \A m \in S : ~(<<m, k>> \in OpToRel(<, Nat))
  BY Zenon, NatLessThanWellFounded, WFMin
<1>2. \A m \in S : <<m, k>> \in OpToRel(<, Nat) <=> m < k
  BY Zenon DEF OpToRel
<1>3. \A m \in S : ~(m < k)
  BY <1>1, <1>2, Zenon
<1> QED BY <1>3

-----------------------------------------------------------------------------
\* The state of one PPPoE client.
Softc == [sc_state : {"INITIAL", "PADI_SENT", "PADR_SENT", "SESSION"},
          sc_session : SESSION_IDS \cup {0}, sc_dest : ACS \cup {BROADCAST},
          cookie : COOKIES \cup {NoCookie}, padi : Nat, padr : Nat, timers : Nat]

\* The client, the PPP link above it and its timer move together.
InStep(S, link) ==
  \/ S.sc_state = "INITIAL" /\ link = "dead" /\ S.timers = 0
  \/ S.sc_state \in Discovering /\ link = "connecting" /\ S.timers = 1
  \/ S.sc_state = "SESSION" /\ link = "started" /\ S.timers = 0

\* Types of the list of clients, the clients and the links.
PppoeTypeOK ==
  /\ pppoe_softc_list \in Seq(SOFTCS)
  /\ softc \in [SOFTCS -> Softc]
  /\ pppLink \in [SOFTCS -> {"dead", "connecting", "started"}]

\* Every client is in step, and one that is not listed is idle.
SoftcsInStep ==
  \A sc \in SOFTCS : /\ InStep(softc[sc], pppLink[sc])
                     /\ sc \in Listed \/ softc[sc].sc_state = "INITIAL"

\* A concentrator has granted this session to this client.
SessionGranted(session, sc) == \E g \in granted : g[2] = session /\ g[3] = sc

\* What the discovery packets in the air carry: a PADS names a session granted to its client.
Welcome(m) ==
  /\ m.cookie \in COOKIES \cup {NoCookie}
  /\ m.code = "PADS" => m.session \in SESSION_IDS /\ SessionGranted(m.session, m.hunique)

\* No session is granted to two clients.
SessionsOnce == \A g1, g2 \in granted : g1[2] = g2[2] => g1[3] = g2[3]

\* The inductive invariant.
PppoeInv ==
  /\ PppoeTypeOK /\ SoftcsInStep /\ SessionsOnce
  /\ \A m \in air : Welcome(m)
  /\ \A sc \in SOFTCS : softc[sc].sc_state = "SESSION" => SessionGranted(softc[sc].sc_session, sc)
  /\ arrived.from = arrived.to

\* No client, nothing in the air.
LEMMA PppoeStarts == PppoeInit => PppoeInv
<1> SUFFICES ASSUME PppoeInit PROVE PppoeInv
  BY Zenon
<1>1. NewSoftc \in Softc
  BY Zenon DEF NewSoftc, Softc
<1>2. PppoeTypeOK
  BY Zenon, <1>1, EmptySeq DEF PppoeInit, PppoeTypeOK
<1> QED BY Zenon, <1>2 DEF PppoeInit, PppoeInv, SoftcsInStep, InStep, SessionsOnce, NewSoftc

\* The client is in the list after the step, and nobody else has left it.
Listing(sc) ==
  /\ pppoe_softc_list' \in Seq(SOFTCS) /\ sc \in Listed'
  /\ \A x \in SOFTCS \ {sc} : x \in Listed => x \in Listed'

\* What a handler of one client must respect for the invariant to hold after it.
LEMMA ChangeStep ==
  ASSUME PppoeInv, NEW sc \in SOFTCS, NEW S \in Softc, NEW link \in {"dead", "connecting", "started"}, NEW packets,
         Change(sc, S, link, packets), InStep(S, link),
         S.sc_state = "SESSION" => SessionGranted(S.sc_session, sc),
         \A m \in packets : m.cookie \in COOKIES \cup {NoCookie} /\ m.code # "PADS",
         pppoe_softc_list' \in Seq(SOFTCS),
         \A x \in SOFTCS \ {sc} : x \in Listed => x \in Listed',
         sc \in Listed' \/ S.sc_state = "INITIAL",
         UNCHANGED <<granted, arrived>>
  PROVE  PppoeInv'
<1>1. /\ softc' = [softc EXCEPT ![sc] = S] /\ pppLink' = [pppLink EXCEPT ![sc] = link]
      /\ air' = air \cup packets
  BY Zenon DEF Change
<1>2. softc \in [SOFTCS -> Softc] /\ pppLink \in [SOFTCS -> {"dead", "connecting", "started"}]
  BY Zenon DEF PppoeInv, PppoeTypeOK
<1>3. /\ softc'[sc] = S /\ pppLink'[sc] = link
      /\ \A x \in SOFTCS \ {sc} : softc'[x] = softc[x] /\ pppLink'[x] = pppLink[x]
  BY Zenon, <1>1, <1>2
<1>4. PppoeTypeOK'
  BY Zenon, <1>1, <1>2 DEF PppoeTypeOK
<1>5. SoftcsInStep'
  <2> SUFFICES ASSUME NEW x \in SOFTCS
               PROVE  InStep(softc'[x], pppLink'[x]) /\ (x \in Listed' \/ softc'[x].sc_state = "INITIAL")
    BY Zenon DEF SoftcsInStep, InStep
  <2>1. CASE x = sc
    BY Zenon, <2>1, <1>3
  <2>2. CASE x # sc
    BY Zenon, <2>2, <1>3 DEF PppoeInv, SoftcsInStep
  <2> QED BY Zenon, <2>1, <2>2
<1>6. SessionsOnce'
  BY Zenon DEF PppoeInv, SessionsOnce
<1>7. \A m \in air' : /\ m.cookie \in COOKIES \cup {NoCookie}
                      /\ m.code = "PADS" => m.session \in SESSION_IDS /\ SessionGranted(m.session, m.hunique)'
  BY Zenon, <1>1 DEF PppoeInv, Welcome, SessionGranted
<1>8. \A x \in SOFTCS : softc'[x].sc_state = "SESSION" => SessionGranted(softc[x].sc_session, x)'
  BY <1>3 DEF PppoeInv, SessionGranted
<1>9. (\A m \in air : Welcome(m))'
  BY Zenon, <1>7 DEF Welcome
<1> QED BY Zenon, <1>4, <1>5, <1>6, <1>8, <1>9 DEF PppoeInv

\* What the invariant says of one client.
LEMMA SoftcFacts ==
  ASSUME PppoeInv, NEW sc \in SOFTCS
  PROVE  /\ softc[sc] \in Softc /\ softc[sc].timers \in Nat
         /\ pppLink[sc] \in {"dead", "connecting", "started"}
         /\ InStep(softc[sc], pppLink[sc])
         /\ sc \in Listed \/ softc[sc].sc_state = "INITIAL"
         /\ softc[sc].cookie \in COOKIES \cup {NoCookie}
         /\ pppoe_softc_list \in Seq(SOFTCS)
BY Zenon DEF PppoeInv, PppoeTypeOK, SoftcsInStep, Softc

\* sys_timeout(pppoe_timeout) on a client adds a pending timer and nothing else.
LEMMA TimedFacts ==
  ASSUME NEW S \in Softc
  PROVE  /\ Timed(S) \in Softc /\ Timed(S).timers = S.timers + 1
         /\ Timed(S).sc_state = S.sc_state /\ Timed(S).sc_session = S.sc_session
BY DEF Timed, Softc

\* sys_untimeout takes at most one pending timer away and nothing else.
LEMMA UntimedFacts ==
  ASSUME NEW S \in Softc
  PROVE  /\ Untimed(S) \in Softc /\ Untimed(S).timers = IF S.timers = 0 THEN 0 ELSE S.timers - 1
         /\ Untimed(S).sc_state = S.sc_state /\ Untimed(S).sc_session = S.sc_session
BY DEF Untimed, Softc

\* pppoe_create puts an idle client at the head of the list.
LEMMA CreateStep == ASSUME PppoeInv, NEW sc \in SOFTCS, pppoe_create(sc) PROVE PppoeInv'
<1> DEFINE S == [NewSoftc EXCEPT !.timers = softc[sc].timers]
<1>1. softc[sc].timers = 0 /\ pppoe_softc_list \in Seq(SOFTCS)
  BY Zenon, SoftcFacts DEF pppoe_create, InStep, Discovering
<1>2. S \in Softc /\ InStep(S, "dead") /\ S.sc_state = "INITIAL"
  BY <1>1 DEF NewSoftc, Softc, InStep
<1>3. /\ pppoe_softc_list' = <<sc>> \o pppoe_softc_list /\ Change(sc, S, "dead", {})
      /\ UNCHANGED <<granted, arrived>>
  BY Zenon DEF pppoe_create
<1> HIDE DEF S
<1>4. pppoe_softc_list' \in Seq(SOFTCS) /\ Listed' = {sc} \cup Listed
  <2> DEFINE one == <<sc>>
  <2>1. one \in Seq(SOFTCS)
    OBVIOUS
  <2>2. Range(one) = {sc}
    BY DEF Range
  <2>3. pppoe_softc_list' = one \o pppoe_softc_list
    BY Zenon, <1>3
  <2> HIDE DEF one
  <2>4. one \o pppoe_softc_list \in Seq(SOFTCS)
    BY Zenon, <2>1, <1>1, ConcatProperties
  <2>5. Range(one \o pppoe_softc_list) = Range(one) \cup Range(pppoe_softc_list)
    BY <2>1, <1>1, RangeConcatenation
  <2> QED BY Zenon, <2>2, <2>3, <2>4, <2>5 DEF Listed
<1> QED BY <1>2, <1>3, <1>4, ChangeStep

\* Unlinking one element of the list of clients keeps the others on it.
LEMMA RemovedOne ==
  ASSUME NEW list \in Seq(SOFTCS), NEW i \in 1 .. Len(list)
  PROVE  /\ Unlinked(list, i) \in Seq(SOFTCS)
         /\ \A x \in Range(list) : x # list[i] => x \in Range(Unlinked(list, i))
<1> DEFINE a == SubSeq(list, 1, i - 1)
           b == SubSeq(list, i + 1, Len(list))
<1>1. a \in Seq(SOFTCS) /\ b \in Seq(SOFTCS) /\ Unlinked(list, i) = a \o b
  BY SubSeqProperties DEF Unlinked
<1>2. /\ Len(a) = i - 1 /\ Len(b) = Len(list) - i
      /\ \A k \in 1 .. i - 1 : a[k] = list[k]
      /\ \A k \in 1 .. Len(list) - i : b[k] = list[i + k]
  BY SubSeqProperties
<1> HIDE DEF a, b
<1>3. a \o b \in Seq(SOFTCS) /\ Range(a \o b) = Range(a) \cup Range(b)
  BY <1>1, ConcatProperties, RangeConcatenation
<1>4. ASSUME NEW k \in 1 .. Len(list), k # i PROVE list[k] \in Range(a) \cup Range(b)
  <2>1. CASE k < i
    <3>1. k \in 1 .. Len(a) /\ a[k] = list[k]
      BY <2>1, <1>2
    <3> QED BY Zenon, <3>1, <1>1, RangeEquality
  <2>2. CASE k > i
    <3>1. k - i \in 1 .. Len(b) /\ b[k - i] = list[k]
      BY <2>2, <1>2
    <3> QED BY Zenon, <3>1, <1>1, RangeEquality
  <2> QED BY <2>1, <2>2, <1>4
<1>5. \A x \in Range(list) : \E k \in 1 .. Len(list) : x = list[k]
  BY Zenon, RangeEquality
<1> QED BY Zenon, <1>1, <1>3, <1>4, <1>5

\* pppoe_destroy unlinks the client and leaves no timer behind.
LEMMA DestroyStep == ASSUME PppoeInv, NEW sc \in SOFTCS, pppoe_destroy(sc) PROVE PppoeInv'
<1> DEFINE S == [NewSoftc EXCEPT !.timers = Untimed(softc[sc]).timers]
           i == CHOOSE i \in DOMAIN pppoe_softc_list : pppoe_softc_list[i] = sc
<1>1. softc[sc].timers = 0 /\ softc[sc] \in Softc /\ pppoe_softc_list \in Seq(SOFTCS)
  BY Zenon, SoftcFacts DEF pppoe_destroy, InStep
<1>2. S \in Softc /\ InStep(S, "dead") /\ S.sc_state = "INITIAL"
  <2>1. Untimed(softc[sc]).timers = 0
    BY Zenon, <1>1 DEF Untimed, Softc
  <2> QED BY <2>1 DEF NewSoftc, Softc, InStep
<1>3. /\ pppoe_softc_list' = Unlinked(pppoe_softc_list, i) /\ Change(sc, S, "dead", {})
      /\ UNCHANGED <<granted, arrived>> /\ sc \in Listed
  BY Zenon DEF pppoe_destroy
<1>4. i \in 1 .. Len(pppoe_softc_list) /\ pppoe_softc_list[i] = sc
  BY <1>1, <1>3 DEF Listed, Range
<1> HIDE DEF S, i
<1>5. /\ pppoe_softc_list' \in Seq(SOFTCS)
      /\ \A x \in SOFTCS \ {sc} : x \in Listed => x \in Listed'
  BY Zenon, <1>1, <1>3, <1>4, RemovedOne DEF Listed
<1> QED BY <1>2, <1>3, <1>5, ChangeStep

\* pppoe_connect starts the discovery with its first timer.
LEMMA ConnectStep == ASSUME PppoeInv, NEW sc \in SOFTCS, pppoe_connect(sc) PROVE PppoeInv'
<1> DEFINE S == Timed([softc[sc] EXCEPT !.sc_session = 0, !.cookie = NoCookie, !.padi = 0,
                                       !.padr = 0, !.sc_dest = BROADCAST, !.sc_state = "PADI_SENT"])
           m == [pppoe_send_padi(sc) EXCEPT !.to = BROADCAST]
<1>1. softc[sc].timers = 0 /\ softc[sc] \in Softc /\ pppoe_softc_list \in Seq(SOFTCS)
  BY Zenon, SoftcFacts DEF pppoe_connect, InStep
<1>2. S \in Softc /\ S.sc_state = "PADI_SENT" /\ S.timers = 1
  <2> DEFINE R == [softc[sc] EXCEPT !.sc_session = 0, !.cookie = NoCookie, !.padi = 0,
                                    !.padr = 0, !.sc_dest = BROADCAST, !.sc_state = "PADI_SENT"]
  <2>1. R \in Softc /\ R.sc_state = "PADI_SENT" /\ R.timers = 0
    BY Zenon, <1>1 DEF Softc
  <2> HIDE DEF R
  <2>2. S = Timed(R)
    BY Zenon DEF R
  <2> QED BY <2>1, <2>2, TimedFacts
<1>3. m.cookie = NoCookie /\ m.code = "PADI"
  BY Zenon DEF pppoe_send_padi
<1>4. /\ Change(sc, S, "connecting", {m}) /\ sc \in Listed
      /\ UNCHANGED <<pppoe_softc_list, granted, arrived>>
  BY Zenon DEF pppoe_connect
<1> HIDE DEF S, m
<1>5. InStep(S, "connecting") /\ Listed' = Listed
  BY Zenon, <1>2, <1>4 DEF InStep, Discovering, Listed
<1> QED BY Zenon, <1>1, <1>2, <1>3, <1>4, <1>5, ChangeStep

\* pppoe_disconnect ends discovery or session and cancels the timer.
LEMMA DisconnectStep == ASSUME PppoeInv, NEW sc \in SOFTCS, pppoe_disconnect(sc) PROVE PppoeInv'
<1> DEFINE S == [Untimed(softc[sc]) EXCEPT !.sc_state = "INITIAL"]
           packets == IF softc[sc].sc_state = "SESSION" THEN {pppoe_send_padt(softc[sc], sc)} ELSE {}
<1>1. softc[sc].timers \in {0, 1} /\ softc[sc] \in Softc /\ pppoe_softc_list \in Seq(SOFTCS)
  BY Zenon, SoftcFacts DEF pppoe_disconnect, InStep
<1>2. S \in Softc /\ S.sc_state = "INITIAL" /\ S.timers = 0
  <2>1. Untimed(softc[sc]) \in Softc /\ Untimed(softc[sc]).timers = 0
    BY <1>1, UntimedFacts
  <2> QED BY Zenon, <2>1 DEF Softc
<1>3. \A m \in packets : m.cookie = NoCookie /\ m.code = "PADT"
  BY DEF pppoe_send_padt
<1>4. /\ Change(sc, S, "dead", packets) /\ sc \in Listed
      /\ UNCHANGED <<pppoe_softc_list, granted, arrived>>
  BY Zenon DEF pppoe_disconnect
<1> HIDE DEF S, packets
<1>5. InStep(S, "dead") /\ Listed' = Listed
  BY Zenon, <1>2, <1>4 DEF InStep, Discovering, Listed
<1> QED BY Zenon, <1>1, <1>2, <1>3, <1>4, <1>5, ChangeStep

\* pppoe_timeout repeats, falls back to PADI or gives up, and arms exactly one timer if it goes on.
LEMMA TimeoutStep == ASSUME PppoeInv, NEW sc \in SOFTCS, pppoe_timeout(sc) PROVE PppoeInv'
<1> DEFINE S == [softc[sc] EXCEPT !.timers = @ - 1]
<1>1. /\ softc[sc] \in Softc /\ softc[sc].sc_state \in Discovering /\ softc[sc].timers = 1
      /\ pppLink[sc] = "connecting" /\ sc \in Listed /\ pppoe_softc_list \in Seq(SOFTCS)
  BY SoftcFacts DEF pppoe_timeout, InStep, Discovering
<1>2. /\ S \in Softc /\ S.timers = 0 /\ S.sc_state = softc[sc].sc_state
      /\ S.cookie \in COOKIES \cup {NoCookie} /\ S.padi \in Nat /\ S.padr \in Nat
  BY <1>1 DEF Softc
<1>3. /\ \/ S.sc_state = "PADI_SENT" /\ PadiTimeout(sc, S)
         \/ S.sc_state = "PADR_SENT" /\ PadrTimeout(sc, S)
      /\ UNCHANGED <<pppoe_softc_list, granted, arrived>>
  BY Zenon, <1>1, <1>2 DEF pppoe_timeout, Discovering
<1>4. Listed' = Listed
  BY Zenon, <1>3 DEF Listed
<1> HIDE DEF S
<1>5. ASSUME NEW R \in Softc, NEW link, NEW packets, Change(sc, R, link, packets), InStep(R, link),
             R.sc_state # "SESSION", link \in {"dead", "connecting"},
             \A m \in packets : m.cookie \in COOKIES \cup {NoCookie} /\ m.code # "PADS"
      PROVE  PppoeInv'
  BY Zenon, <1>1, <1>3, <1>4, <1>5, ChangeStep
<1>6. /\ pppoe_send_padi(sc).cookie = NoCookie /\ pppoe_send_padi(sc).code = "PADI"
      /\ [pppoe_send_padi(sc) EXCEPT !.to = BROADCAST].cookie = NoCookie
      /\ [pppoe_send_padi(sc) EXCEPT !.to = BROADCAST].code = "PADI"
  BY Zenon DEF pppoe_send_padi
<1>7. CASE S.sc_state = "PADI_SENT" /\ PadiTimeout(sc, S)
  <2> DEFINE n == IF PERSIST /\ S.padi + 1 > PPPOE_DISC_MAXPADI THEN S.padi ELSE S.padi + 1
             T == [S EXCEPT !.padi = n]
  <2>1. n \in Nat
    BY <1>2
  <2> HIDE DEF n
  <2>2. T \in Softc /\ T.sc_state = "PADI_SENT" /\ T.timers = 0
    BY Zenon, <1>2, <1>7, <2>1 DEF Softc
  <2>3. pppoe_abort_connect(sc, T) \/ Change(sc, Timed(T), pppLink[sc], {pppoe_send_padi(sc)})
    BY Zenon, <1>7 DEF PadiTimeout, n
  <2> HIDE DEF T
  <2>4. CASE pppoe_abort_connect(sc, T)
    <3> DEFINE R == [T EXCEPT !.sc_state = "INITIAL"]
    <3>1. R \in Softc /\ R.sc_state = "INITIAL" /\ R.timers = 0
      BY Zenon, <2>2 DEF Softc
    <3>2. Change(sc, R, "dead", {})
      BY Zenon, <2>4 DEF pppoe_abort_connect
    <3> HIDE DEF R
    <3> QED BY <3>1, <3>2, <1>5 DEF InStep
  <2>5. CASE Change(sc, Timed(T), pppLink[sc], {pppoe_send_padi(sc)})
    <3>1. Timed(T) \in Softc /\ Timed(T).sc_state = "PADI_SENT" /\ Timed(T).timers = 1
      BY <2>2, TimedFacts
    <3>2. InStep(Timed(T), "connecting")
      BY Zenon, <3>1 DEF InStep, Discovering
    <3> QED BY <2>5, <3>1, <3>2, <1>1, <1>5, <1>6
  <2> QED BY Zenon, <2>3, <2>4, <2>5
<1>8. CASE S.sc_state = "PADR_SENT" /\ PadrTimeout(sc, S)
  <2> DEFINE T == [S EXCEPT !.padr = @ + 1]
             U == [T EXCEPT !.sc_dest = BROADCAST, !.sc_state = "PADI_SENT", !.padr = 0]
  <2>1. T \in Softc /\ T.sc_state = "PADR_SENT" /\ T.timers = 0 /\ T.cookie \in COOKIES \cup {NoCookie}
    BY <1>2, <1>8 DEF Softc
  <2>2. \/ Change(sc, Timed(U), pppLink[sc], {[pppoe_send_padi(sc) EXCEPT !.to = BROADCAST]})
        \/ Change(sc, Timed(T), pppLink[sc], {PadrOf(sc, T)})
    BY Zenon, <1>8 DEF PadrTimeout
  <2> HIDE DEF T
  <2>3. U \in Softc /\ U.sc_state = "PADI_SENT" /\ U.timers = 0
    BY Zenon, <2>1 DEF Softc
  <2> HIDE DEF U
  <2>4. /\ Timed(T) \in Softc /\ Timed(T).sc_state = "PADR_SENT" /\ Timed(T).timers = 1
        /\ Timed(U) \in Softc /\ Timed(U).sc_state = "PADI_SENT" /\ Timed(U).timers = 1
    BY <2>1, <2>3, TimedFacts
  <2>5. InStep(Timed(T), "connecting") /\ InStep(Timed(U), "connecting")
    BY Zenon, <2>4 DEF InStep, Discovering
  <2>6. PadrOf(sc, T).code = "PADR" /\ PadrOf(sc, T).cookie = T.cookie
    BY Zenon DEF PadrOf
  <2>7. CASE Change(sc, Timed(U), pppLink[sc], {[pppoe_send_padi(sc) EXCEPT !.to = BROADCAST]})
    <3> DEFINE m == [pppoe_send_padi(sc) EXCEPT !.to = BROADCAST]
    <3>1. m.cookie = NoCookie /\ m.code = "PADI" /\ Change(sc, Timed(U), "connecting", {m})
      BY Zenon, <2>7, <1>1, <1>6
    <3> HIDE DEF m
    <3> QED BY <3>1, <2>4, <2>5, <1>5
  <2>8. CASE Change(sc, Timed(T), pppLink[sc], {PadrOf(sc, T)})
    BY <2>8, <2>1, <2>4, <2>5, <2>6, <1>1, <1>5
  <2> QED BY Zenon, <2>2, <2>7, <2>8
<1> QED BY Zenon, <1>3, <1>7, <1>8

\* pppoe_disc_input: a PADO moves the one timer to the PADR, a PADS ends the discovery.
LEMMA AnswerStep == ASSUME PppoeInv, NEW m \in air, pppoe_disc_input(m) PROVE PppoeInv'
<1> DEFINE sc == m.hunique
<1>1. /\ sc \in Listed /\ softc[sc].sc_state \in Discovering /\ m.from \in ACS
      /\ \/ m.code = "PADO" /\ softc[sc].sc_state = "PADI_SENT" /\ TakePado(sc, m)
         \/ m.code = "PADS" /\ TakePads(sc, m)
      /\ UNCHANGED <<pppoe_softc_list, granted, arrived>>
  BY Zenon DEF pppoe_disc_input, pppoe_find_softc_by_hunique
<1>2. sc \in SOFTCS
  BY Zenon, <1>1, RangeOfSeq DEF PppoeInv, PppoeTypeOK, Listed
<1>3. /\ softc[sc] \in Softc /\ softc[sc].timers = 1 /\ pppLink[sc] = "connecting"
      /\ softc[sc].cookie \in COOKIES \cup {NoCookie} /\ pppoe_softc_list \in Seq(SOFTCS)
  BY Zenon, <1>1, <1>2, SoftcFacts DEF InStep, Discovering
<1>4. /\ m.cookie \in COOKIES \cup {NoCookie}
      /\ m.code = "PADS" => m.session \in SESSION_IDS /\ SessionGranted(m.session, m.hunique)
  BY Zenon DEF PppoeInv, Welcome
<1>5. Listed' = Listed
  BY Zenon, <1>1 DEF Listed
<1>6. CASE m.code = "PADO" /\ TakePado(sc, m)
  <2> DEFINE c == IF m.cookie = NoCookie THEN softc[sc].cookie ELSE m.cookie
             S == [softc[sc] EXCEPT !.cookie = c, !.sc_dest = m.from, !.padr = 0, !.sc_state = "PADR_SENT"]
             R == Timed(Untimed(S))
  <2>1. c \in COOKIES \cup {NoCookie}
    BY Zenon, <1>3, <1>4
  <2>2. Change(sc, R, pppLink[sc], {PadrOf(sc, S)})
    BY Zenon, <1>6 DEF TakePado
  <2> HIDE DEF c
  <2>3. S \in Softc /\ S.sc_state = "PADR_SENT" /\ S.timers = 1 /\ S.cookie = c
    BY Zenon, <2>1, <1>1, <1>3 DEF Softc
  <2> HIDE DEF S
  <2>4. R \in Softc /\ R.sc_state = "PADR_SENT" /\ R.timers = 1
    BY <2>3, TimedFacts, UntimedFacts
  <2> HIDE DEF R
  <2>5. InStep(R, "connecting")
    BY Zenon, <2>4 DEF InStep, Discovering
  <2>6. PadrOf(sc, S).code = "PADR" /\ PadrOf(sc, S).cookie \in COOKIES \cup {NoCookie}
    BY Zenon, <2>1, <2>3 DEF PadrOf
  <2>7. Listing(sc)
    BY Zenon, <1>1, <1>3, <1>5 DEF Listing
  <2>8. Change(sc, R, "connecting", {PadrOf(sc, S)})
    BY Zenon, <2>2, <1>3
  <2>9. \A p \in {PadrOf(sc, S)} : p.cookie \in COOKIES \cup {NoCookie} /\ p.code # "PADS"
    BY Zenon, <2>6
  <2> DEFINE packets == {PadrOf(sc, S)}
  <2> HIDE DEF sc, packets
  <2> QED BY Zenon, <2>4, <2>5, <2>7, <2>8, <2>9, <1>1, <1>2, ChangeStep DEF Listing
<1>7. CASE m.code = "PADS" /\ TakePads(sc, m)
  <2> DEFINE S == [Untimed(softc[sc]) EXCEPT !.sc_session = m.session, !.sc_state = "SESSION"]
  <2>1. Untimed(softc[sc]) \in Softc /\ Untimed(softc[sc]).timers = 0
    BY <1>3, UntimedFacts
  <2>2. S \in Softc /\ S.sc_state = "SESSION" /\ S.timers = 0 /\ S.sc_session = m.session
    BY Zenon, <2>1, <1>4, <1>7 DEF Softc
  <2>3. Change(sc, S, "started", {}) /\ SessionGranted(m.session, sc)
    BY Zenon, <1>4, <1>7 DEF TakePads
  <2> HIDE DEF S
  <2>4. InStep(S, "started") /\ SessionGranted(S.sc_session, sc)
    BY Zenon, <2>2, <2>3 DEF InStep
  <2>5. Listing(sc)
    BY Zenon, <1>1, <1>3, <1>5 DEF Listing
  <2> HIDE DEF sc
  <2> QED BY <2>2, <2>3, <2>4, <2>5, <1>1, <1>2, ChangeStep DEF Listing
<1> QED BY Zenon, <1>1, <1>6, <1>7

\* pppoe_data_input: the first client in the session is the one it was granted to.
LEMMA DataStep == ASSUME PppoeInv, NEW g \in granted, pppoe_data_input(g) PROVE PppoeInv'
<1> DEFINE hits == {i \in DOMAIN pppoe_softc_list :
                      LET S == softc[pppoe_softc_list[i]]
                      IN S.sc_state = "SESSION" /\ S.sc_session = g[2]}
           i == CHOOSE i \in hits : \A j \in hits : i <= j
           sc == pppoe_find_softc_by_session(g[2])
<1>1. /\ sc # NoSoftc /\ arrived' = [from |-> g[3], to |-> sc]
      /\ UNCHANGED <<pppoe_softc_list, softc, pppLink, air, granted, connects>>
  BY Zenon DEF pppoe_data_input
<1>2. hits # {} /\ sc = pppoe_softc_list[i]
  BY Zenon, <1>1 DEF pppoe_find_softc_by_session
<1>3. pppoe_softc_list \in Seq(SOFTCS) /\ DOMAIN pppoe_softc_list \subseteq Nat
  BY DEF PppoeInv, PppoeTypeOK
<1>4. i \in hits
  <2>1. hits \in SUBSET Nat
    BY Zenon, <1>3
  <2> HIDE DEF hits
  <2> QED BY Zenon, <1>2, <2>1, LeastExists
<1>5. sc \in SOFTCS /\ softc[sc].sc_state = "SESSION" /\ softc[sc].sc_session = g[2]
  <2>1. /\ i \in DOMAIN pppoe_softc_list
        /\ softc[pppoe_softc_list[i]].sc_state = "SESSION" /\ softc[pppoe_softc_list[i]].sc_session = g[2]
    BY Zenon, <1>4
  <2> HIDE DEF i, sc
  <2> QED BY <2>1, <1>2, <1>3
<1> HIDE DEF i, sc, hits
<1>6. SessionGranted(g[2], sc)
  BY Zenon, <1>5 DEF PppoeInv
<1>7. g[3] = sc
  BY Zenon, <1>6 DEF PppoeInv, SessionGranted, SessionsOnce
<1>8. arrived'.from = arrived'.to
  BY Zenon, <1>1, <1>7
<1>9. PppoeTypeOK' /\ SoftcsInStep' /\ SessionsOnce'
  BY <1>1 DEF PppoeInv, PppoeTypeOK, SoftcsInStep, InStep, SessionsOnce, Listed
<1>10. (\A m \in air : Welcome(m))'
  BY Zenon, <1>1 DEF PppoeInv, Welcome, SessionGranted
<1>11. (\A x \in SOFTCS : softc[x].sc_state = "SESSION" => SessionGranted(softc[x].sc_session, x))'
  BY Zenon, <1>1 DEF PppoeInv, SessionGranted
<1> QED BY Zenon, <1>8, <1>9, <1>10, <1>11 DEF PppoeInv

\* A concentrator offers, or grants a session it has not granted before.
LEMMA ConcentratorStep == ASSUME PppoeInv, Concentrator PROVE PppoeInv'
<1>1. UNCHANGED <<pppoe_softc_list, softc, pppLink, arrived, connects>>
  BY Zenon DEF Concentrator
<1>2. PICK m \in air, ac \in ACS : OfferFor(m, ac) \/ SessionFor(m, ac)
  BY Zenon DEF Concentrator
<1>3. m.cookie \in COOKIES \cup {NoCookie}
  BY Zenon DEF PppoeInv, Welcome
<1>4. PppoeTypeOK' /\ SoftcsInStep'
  BY Zenon, <1>1 DEF PppoeInv, PppoeTypeOK, SoftcsInStep, InStep, Listed
<1>5. CASE OfferFor(m, ac)
  <2>1. granted' = granted
    BY Zenon, <1>5 DEF OfferFor
  <2>2. PICK c \in COOKIES \cup {NoCookie} :
           air' = air \cup {[code |-> "PADO", to |-> NoSoftc, from |-> ac, session |-> 0,
                             hunique |-> m.hunique, cookie |-> c]}
    BY Zenon, <1>5 DEF OfferFor
  <2>3. (\A p \in air : Welcome(p))'
    BY <2>1, <2>2 DEF PppoeInv, Welcome, SessionGranted
  <2> QED BY Zenon, <1>1, <1>4, <2>1, <2>3 DEF PppoeInv, SessionsOnce, SessionGranted
<1>6. CASE SessionFor(m, ac)
  <2>1. PICK s \in SESSION_IDS :
          /\ \A g \in granted : g[2] # s
          /\ granted' = granted \cup {<<ac, s, m.hunique>>}
          /\ air' = air \cup {[code |-> "PADS", to |-> NoSoftc, from |-> ac, session |-> s,
                               hunique |-> m.hunique, cookie |-> m.cookie]}
    BY Zenon, <1>6 DEF SessionFor
  <2> DEFINE g0 == <<ac, s, m.hunique>>
  <2>2. g0[2] = s /\ g0[3] = m.hunique /\ granted' = granted \cup {g0}
    BY Zenon, <2>1
  <2> HIDE DEF g0
  <2>3. SessionsOnce'
    BY Zenon, <2>1, <2>2 DEF PppoeInv, SessionsOnce
  <2>4. (\A p \in air : Welcome(p))'
    <3> SUFFICES ASSUME NEW p \in air'
                 PROVE  /\ p.cookie \in COOKIES \cup {NoCookie}
                        /\ p.code = "PADS" => /\ p.session \in SESSION_IDS
                                              /\ \E g \in granted' : g[2] = p.session /\ g[3] = p.hunique
      BY Zenon DEF Welcome, SessionGranted
    <3>1. CASE p \in air
      BY Zenon, <3>1, <2>2 DEF PppoeInv, Welcome, SessionGranted
    <3>2. CASE p = [code |-> "PADS", to |-> NoSoftc, from |-> ac, session |-> s,
                    hunique |-> m.hunique, cookie |-> m.cookie]
      <4>1. p.cookie = m.cookie /\ p.session = s /\ p.hunique = m.hunique
        BY Zenon, <3>2
      <4> QED BY Zenon, <4>1, <2>2, <1>3
    <3> QED BY Zenon, <3>1, <3>2, <2>1
  <2>5. (\A x \in SOFTCS : softc[x].sc_state = "SESSION" => SessionGranted(softc[x].sc_session, x))'
    BY Zenon, <1>1, <2>2 DEF PppoeInv, SessionGranted
  <2> QED BY Zenon, <1>1, <1>4, <2>3, <2>4, <2>5 DEF PppoeInv
<1> QED BY Zenon, <1>2, <1>5, <1>6

\* Every step of the PPPoE clients keeps their invariant.
LEMMA PppoeKeeps == PppoeInv /\ [PppoeNext]_pppoeVars => PppoeInv'
<1> SUFFICES ASSUME PppoeInv, [PppoeNext]_pppoeVars PROVE PppoeInv'
  BY Zenon
<1>1. ASSUME NEW sc \in SOFTCS,
             \/ pppoe_create(sc) \/ pppoe_destroy(sc)
             \/ pppoe_connect(sc) \/ pppoe_disconnect(sc) \/ pppoe_timeout(sc)
      PROVE  PppoeInv'
  BY Zenon, <1>1, CreateStep, DestroyStep, ConnectStep, DisconnectStep, TimeoutStep
<1>2. ASSUME NEW m \in air, pppoe_disc_input(m) PROVE PppoeInv'
  BY Zenon, <1>2, AnswerStep
<1>3. ASSUME NEW g \in granted, pppoe_data_input(g) PROVE PppoeInv'
  BY Zenon, <1>3, DataStep
<1>4. CASE Concentrator
  BY Zenon, <1>4, ConcentratorStep
<1>5. CASE UNCHANGED pppoeVars
  <2>1. PppoeTypeOK' /\ SoftcsInStep' /\ SessionsOnce'
    BY Zenon, <1>5 DEF pppoeVars, PppoeInv, PppoeTypeOK, SoftcsInStep, InStep, SessionsOnce, Listed
  <2> QED BY Zenon, <1>5, <2>1 DEF pppoeVars, PppoeInv, Welcome, SessionGranted
<1> QED BY Zenon, <1>1, <1>2, <1>3, <1>4, <1>5 DEF PppoeNext

\* For any clients, concentrators and limits: data goes up to the client its session was granted to,
\* a client is in a session only when one was granted to it, and discovery always has one timer.
THEOREM PppoeIsRight == PppoeSpec => []PppoeSessions
<1>1. PppoeInv => PppoeSessions
  BY Zenon DEF PppoeInv, PppoeSessions, SessionsAreGranted, DiscoveryTimed, SoftcsInStep, InStep, Discovering,
         SessionGranted
<1> QED BY <1>1, PppoeStarts, PppoeKeeps, PTL DEF PppoeSpec

-----------------------------------------------------------------------------
\* The phases of the L2TP client, its record and that of the network server.
Phases == {"INITIAL", "SCCRQ_SENT", "ICRQ_SENT", "ICCN_SENT", "DATA"}

Client == [phase : Phases, our_ns : Int, peer_nr : Int, peer_ns : Int, sccrq : Nat, icrq : Nat,
           iccn : Nat, timers : Nat]

Lns == [ns : Int, nr : Int, last : {"none", "SCCRP", "ICRP", "STOPCCN"}, up : BOOLEAN]

\* In each phase: the link above, the number of the last message sent, and a pending timer while an
\* answer is awaited. (Abandoned calls may leave more timers than one behind.)
ClientOK(L, link) ==
  /\ L \in Client
  /\ \/ L.phase = "INITIAL" /\ link = "dead"
     \/ L.phase = "SCCRQ_SENT" /\ link = "connecting" /\ L.our_ns = 0 /\ L.timers > 0
     \/ L.phase = "ICRQ_SENT" /\ link = "connecting" /\ L.our_ns = 2 /\ L.timers > 0
     \/ L.phase = "ICCN_SENT" /\ link = "connecting" /\ L.our_ns = 3 /\ L.timers > 0
     \/ L.phase = "DATA" /\ link = "started" /\ L.our_ns = 3

\* The client's messages from number 3 on are the ICCN or the end of the tunnel.
FromClient(m) ==
  /\ m.by = "client" /\ m.ns \in Int /\ m.nr \in Int
  /\ m.kind # "ZLB" /\ m.ns >= 3 => m.kind \in {"ICCN", "STOPCCN"}

\* The server acknowledges no more than it has received.
FromLns(m, n) == m.by = "server" /\ m.ns \in Int /\ m.nr \in Int /\ m.nr <= n

\* The inductive invariant: in phase DATA the server has taken the fourth message, and a server that
\* has taken it has put the call up or ended the tunnel.
L2tpInv ==
  /\ ClientOK(l2tp, l2tpLink)
  /\ lns \in Lns
  /\ \A m \in datagrams : FromClient(m) \/ FromLns(m, lns.nr)
  /\ lns.nr >= 4 => lns.up \/ lns.last = "STOPCCN"
  /\ l2tp.phase = "DATA" => lns.nr >= 4

\* Nothing dialled.
LEMMA L2tpStarts == L2tpInit => L2tpInv
<1> SUFFICES ASSUME L2tpInit PROVE L2tpInv
  BY Zenon
<1>1. NewL2tp \in Client /\ NewL2tp.phase = "INITIAL"
  BY DEF NewL2tp, Client, Phases
<1>2. NewLns \in Lns /\ NewLns.nr = 0
  BY DEF NewLns, Lns
<1> QED BY <1>1, <1>2 DEF L2tpInit, L2tpInv, ClientOK

\* What a step of the client must respect for the invariant to hold after it.
LEMMA ClientStep ==
  ASSUME L2tpInv, NEW L, NEW link, NEW messages, Outcome(L, link, messages),
         ClientOK(L, link), \A m \in messages : FromClient(m),
         L.phase = "DATA" => lns.nr >= 4, UNCHANGED lns
  PROVE  L2tpInv'
<1>1. l2tp' = L /\ l2tpLink' = link /\ datagrams' = datagrams \cup messages /\ lns' = lns
  BY Zenon DEF Outcome
<1>2. ClientOK(l2tp, l2tpLink)'
  BY Zenon, <1>1 DEF ClientOK
<1>3. (\A m \in datagrams : FromClient(m) \/ FromLns(m, lns.nr))'
  BY Zenon, <1>1 DEF L2tpInv, FromClient, FromLns
<1> QED BY Zenon, <1>1, <1>2, <1>3 DEF L2tpInv

\* The numbers of a control message are those it was built with.
LEMMA ToServerFacts ==
  ASSUME NEW kind, NEW ns \in Int, NEW nr \in Int,
         kind = "ZLB" \/ kind \in {"ICCN", "STOPCCN"} \/ ns < 3
  PROVE  FromClient(ToServer(kind, ns, nr))
<1>1. /\ ToServer(kind, ns, nr).by = "client" /\ ToServer(kind, ns, nr).kind = kind
      /\ ToServer(kind, ns, nr).ns = ns /\ ToServer(kind, ns, nr).nr = nr
  BY Zenon DEF ToServer, Control
<1> QED BY <1>1 DEF FromClient

\* sys_timeout and sys_untimeout change the pending timers only.
LEMMA ArmFacts ==
  ASSUME NEW L \in Client
  PROVE  /\ L2tpArm(L) \in Client /\ L2tpArm(L).timers = L.timers + 1
         /\ L2tpArm(L).phase = L.phase /\ L2tpArm(L).our_ns = L.our_ns
         /\ L2tpUntimeout(L) \in Client /\ L2tpUntimeout(L).phase = L.phase
         /\ L2tpUntimeout(L).our_ns = L.our_ns /\ L2tpUntimeout(L).peer_ns = L.peer_ns
<1>1. /\ L2tpArm(L) \in Client /\ L2tpArm(L).timers = L.timers + 1
      /\ L2tpArm(L).phase = L.phase /\ L2tpArm(L).our_ns = L.our_ns
  BY DEF L2tpArm, Client
<1>2. /\ L2tpUntimeout(L) \in Client /\ L2tpUntimeout(L).phase = L.phase
      /\ L2tpUntimeout(L).our_ns = L.our_ns /\ L2tpUntimeout(L).peer_ns = L.peer_ns
  BY DEF L2tpUntimeout, Client
<1> QED BY Zenon, <1>1, <1>2

\* The fields of a client.
LEMMA ClientFields ==
  ASSUME NEW L \in Client
  PROVE  /\ L.our_ns \in Int /\ L.peer_nr \in Int /\ L.peer_ns \in Int /\ L.timers \in Nat
         /\ L.sccrq \in Nat /\ L.icrq \in Nat /\ L.iccn \in Nat /\ L.phase \in Phases
BY Zenon DEF Client

\* pppol2tp_abort_connect puts the client back to INITIAL and the link down.
LEMMA AbortStep ==
  ASSUME L2tpInv, NEW L \in Client, NEW messages, pppol2tp_abort_connect(L, messages),
         \A m \in messages : FromClient(m), UNCHANGED lns
  PROVE  L2tpInv'
<1> DEFINE R == [L EXCEPT !.phase = "INITIAL"]
<1>1. R \in Client /\ R.phase = "INITIAL"
  BY Zenon DEF Client, Phases
<1>2. Outcome(R, "dead", messages)
  BY Zenon DEF pppol2tp_abort_connect
<1> HIDE DEF R
<1> QED BY Zenon, <1>1, <1>2, ClientStep DEF ClientOK

\* pppol2tp_connect sends the SCCRQ and arms the timer.
LEMMA DialStep == ASSUME L2tpInv, pppol2tp_connect PROVE L2tpInv'
<1> DEFINE L == [NewL2tp EXCEPT !.timers = l2tp.timers, !.phase = "SCCRQ_SENT"]
<1>1. l2tp.timers \in Nat
  BY Zenon, ClientFields DEF L2tpInv, ClientOK
<1>2. L \in Client /\ L.phase = "SCCRQ_SENT" /\ L.our_ns = 0 /\ L.peer_ns = 0 /\ L.timers = l2tp.timers
  <2>1. NewL2tp \in Client /\ NewL2tp.our_ns = 0 /\ NewL2tp.peer_ns = 0
    BY DEF NewL2tp, Client, Phases
  <2> QED BY Zenon, <1>1, <2>1 DEF Client, Phases
<1>3. /\ l2tp' = L2tpArm(L) /\ l2tpLink' = "connecting" /\ lns' = NewLns /\ datagrams' = {SCCRQ(L)}
  BY Zenon DEF pppol2tp_connect
<1> HIDE DEF L
<1>4. /\ L2tpArm(L) \in Client /\ L2tpArm(L).phase = "SCCRQ_SENT" /\ L2tpArm(L).our_ns = 0
      /\ L2tpArm(L).timers > 0
  BY <1>1, <1>2, ArmFacts
<1>5. FromClient(SCCRQ(L))
  BY <1>2, ToServerFacts DEF SCCRQ
<1>6. NewLns \in Lns /\ NewLns.nr = 0
  BY DEF NewLns, Lns
<1>7. ClientOK(l2tp, l2tpLink)'
  BY Zenon, <1>3, <1>4 DEF ClientOK
<1>8. (\A m \in datagrams : FromClient(m) \/ FromLns(m, lns.nr))'
  BY Zenon, <1>3, <1>5 DEF FromClient
<1> QED BY <1>3, <1>4, <1>6, <1>7, <1>8 DEF L2tpInv

\* pppol2tp_disconnect sends the STOPCCN under the next number.
LEMMA HangUpStep == ASSUME L2tpInv, pppol2tp_disconnect PROVE L2tpInv'
<1> DEFINE L == [l2tp EXCEPT !.our_ns = @ + 1]
           R == [L2tpUntimeout(L) EXCEPT !.phase = "INITIAL"]
<1>1. l2tp \in Client /\ l2tp.our_ns \in Int /\ l2tp.peer_ns \in Int
  BY Zenon, ClientFields DEF L2tpInv, ClientOK
<1>2. L \in Client /\ L.our_ns \in Int /\ L.peer_ns \in Int
  BY <1>1 DEF Client
<1>3. Outcome(R, "dead", {STOPCCN(L, L.our_ns)}) /\ UNCHANGED lns
  BY Zenon DEF pppol2tp_disconnect
<1> HIDE DEF L
<1>4. L2tpUntimeout(L) \in Client
  BY Zenon, <1>2, ArmFacts
<1>5. R \in Client /\ R.phase = "INITIAL"
  BY Zenon, <1>4 DEF Client, Phases
<1> HIDE DEF R
<1>6. FromClient(STOPCCN(L, L.our_ns))
  BY Zenon, <1>2, ToServerFacts DEF STOPCCN
<1> QED BY Zenon, <1>3, <1>5, <1>6, ClientStep DEF ClientOK

\* pppol2tp_timeout repeats the message of the phase and arms a timer, or gives up; a timer left by an
\* abandoned call changes nothing.
LEMMA L2tpTimeoutStep == ASSUME L2tpInv, pppol2tp_timeout PROVE L2tpInv'
<1> DEFINE L == [l2tp EXCEPT !.timers = @ - 1]
<1>1. l2tp \in Client /\ l2tp.timers \in Nat /\ l2tp.timers > 0
  BY Zenon, ClientFields DEF L2tpInv, ClientOK, pppol2tp_timeout
<1>2. /\ L \in Client /\ L.timers \in Nat /\ L.phase = l2tp.phase /\ L.our_ns = l2tp.our_ns
      /\ L.peer_ns \in Int /\ L.peer_nr \in Int /\ L.sccrq \in Nat /\ L.icrq \in Nat /\ L.iccn \in Nat
  BY <1>1 DEF Client
<1>3. /\ \/ L.phase = "SCCRQ_SENT" /\ SccrqTimeout(L)
         \/ L.phase = "ICRQ_SENT" /\ IcrqTimeout(L)
         \/ L.phase = "ICCN_SENT" /\ IccnTimeout(L)
         \/ L.phase \in {"INITIAL", "DATA"} /\ Outcome(L, l2tpLink, {})
      /\ UNCHANGED lns
  BY Zenon, <1>2, ClientFields DEF pppol2tp_timeout, Phases
<1> HIDE DEF L
<1>4. ASSUME NEW T \in Client, NEW messages, Outcome(L2tpArm(T), l2tpLink, messages),
             T.phase = L.phase, T.our_ns = L.our_ns, T.timers \in Nat, L.phase \notin {"INITIAL", "DATA"},
             \A m \in messages : FromClient(m)
      PROVE  L2tpInv'
  <2>1. /\ L2tpArm(T) \in Client /\ L2tpArm(T).phase = l2tp.phase /\ L2tpArm(T).our_ns = l2tp.our_ns
        /\ L2tpArm(T).timers > 0
    BY <1>2, <1>4, ArmFacts
  <2>2. ClientOK(L2tpArm(T), l2tpLink)
    BY Zenon, <2>1, <1>2, <1>4 DEF L2tpInv, ClientOK
  <2> QED BY Zenon, <1>2, <1>3, <1>4, <2>1, <2>2, ClientStep
<1>5. CASE L.phase = "SCCRQ_SENT" /\ SccrqTimeout(L)
  <2> DEFINE n == IF L2TP_PERSIST /\ L.sccrq + 1 > PPPOL2TP_MAXSCCRQ THEN L.sccrq ELSE L.sccrq + 1
             T == [L EXCEPT !.sccrq = n]
  <2>1. n \in Nat
    BY <1>2
  <2>2. pppol2tp_abort_connect(T, {}) \/ Outcome(L2tpArm(T), l2tpLink, {SCCRQ(T)})
    BY Zenon, <1>5 DEF SccrqTimeout
  <2> HIDE DEF n
  <2>3. /\ T \in Client /\ T.phase = L.phase /\ T.our_ns = L.our_ns /\ T.timers \in Nat /\ T.peer_ns \in Int
        /\ T.our_ns = 0
    BY Zenon, <2>1, <1>2, <1>5 DEF Client, L2tpInv, ClientOK
  <2> HIDE DEF T
  <2>4. FromClient(SCCRQ(T))
    BY <2>3, ToServerFacts DEF SCCRQ
  <2>5. CASE pppol2tp_abort_connect(T, {})
    BY <2>5, <2>3, <1>3, AbortStep
  <2>6. CASE Outcome(L2tpArm(T), l2tpLink, {SCCRQ(T)})
    BY Zenon, <2>6, <2>3, <2>4, <1>4, <1>5
  <2> QED BY Zenon, <2>2, <2>5, <2>6
<1>6. CASE L.phase = "ICRQ_SENT" /\ IcrqTimeout(L)
  <2> DEFINE T == [L EXCEPT !.icrq = @ + 1]
             messages == {ICRQ(T, T.our_ns)} \cup
                           (IF T.peer_nr < T.our_ns THEN {SCCCN(T, T.our_ns - 1)} ELSE {})
  <2>1. pppol2tp_abort_connect(T, {}) \/ Outcome(L2tpArm(T), l2tpLink, messages)
    BY Zenon, <1>6 DEF IcrqTimeout
  <2>2. T \in Client /\ T.phase = L.phase /\ T.our_ns = L.our_ns /\ T.timers \in Nat /\ T.peer_ns \in Int
    BY <1>2, <1>6 DEF Client
  <2>3. T.our_ns = 2
    BY Zenon, <2>2, <1>2, <1>6 DEF L2tpInv, ClientOK
  <2> HIDE DEF T
  <2>4. FromClient(ICRQ(T, T.our_ns)) /\ FromClient(SCCCN(T, T.our_ns - 1))
    BY <2>2, <2>3, ToServerFacts DEF ICRQ, SCCCN
  <2>5. \A m \in messages : FromClient(m)
    BY Zenon, <2>4
  <2> HIDE DEF messages
  <2>6. CASE pppol2tp_abort_connect(T, {})
    BY <2>6, <2>2, <1>3, AbortStep
  <2>7. CASE Outcome(L2tpArm(T), l2tpLink, messages)
    BY Zenon, <2>7, <2>2, <2>5, <1>4, <1>6
  <2> QED BY Zenon, <2>1, <2>6, <2>7
<1>7. CASE L.phase = "ICCN_SENT" /\ IccnTimeout(L)
  <2> DEFINE T == [L EXCEPT !.iccn = @ + 1]
  <2>1. pppol2tp_abort_connect(T, {}) \/ Outcome(L2tpArm(T), l2tpLink, {ICCN(T, T.our_ns)})
    BY Zenon, <1>7 DEF IccnTimeout
  <2>2. /\ T \in Client /\ T.phase = L.phase /\ T.our_ns = L.our_ns /\ T.timers \in Nat /\ T.peer_ns \in Int
        /\ T.our_ns \in Int
    BY <1>2, <1>7 DEF Client
  <2> HIDE DEF T
  <2>3. FromClient(ICCN(T, T.our_ns))
    BY Zenon, <2>2, ToServerFacts DEF ICCN
  <2>4. CASE pppol2tp_abort_connect(T, {})
    BY <2>4, <2>2, <1>3, AbortStep
  <2>5. CASE Outcome(L2tpArm(T), l2tpLink, {ICCN(T, T.our_ns)})
    BY Zenon, <2>5, <2>2, <2>3, <1>4, <1>7
  <2> QED BY Zenon, <2>1, <2>4, <2>5
<1>8. CASE L.phase \in {"INITIAL", "DATA"} /\ Outcome(L, l2tpLink, {})
  <2>1. ClientOK(L, l2tpLink) /\ (L.phase = "DATA" => lns.nr >= 4)
    BY Zenon, <1>2, <1>8 DEF L2tpInv, ClientOK
  <2> QED BY <2>1, <1>3, <1>8, ClientStep
<1> QED BY Zenon, <1>3, <1>5, <1>6, <1>7, <1>8

\* A message that moves the client on cancels a timer and arms one.
LEMMA RestartStep ==
  ASSUME L2tpInv, NEW T \in Client, NEW messages, Outcome(L2tpArm(L2tpUntimeout(T)), l2tpLink, messages),
         l2tpLink = "connecting",
         \/ T.phase = "ICRQ_SENT" /\ T.our_ns = 2
         \/ T.phase = "ICCN_SENT" /\ T.our_ns = 3,
         \A m \in messages : FromClient(m), UNCHANGED lns
  PROVE  L2tpInv'
<1> DEFINE U == L2tpUntimeout(T)
           R == L2tpArm(U)
<1>1. U \in Client /\ U.phase = T.phase /\ U.our_ns = T.our_ns /\ U.timers \in Nat
  BY Zenon, ArmFacts, ClientFields
<1> HIDE DEF U
<1>2. R \in Client /\ R.phase = T.phase /\ R.our_ns = T.our_ns /\ R.timers > 0
  BY <1>1, ArmFacts
<1>3. Outcome(R, l2tpLink, messages)
  BY Zenon DEF R, U
<1> HIDE DEF R
<1> QED BY Zenon, <1>2, <1>3, ClientStep DEF ClientOK

\* The client after the SCCRP and after the ICRP, with the phase and number as parameters.
InCall(L, p, n) == [L EXCEPT !.icrq = 0, !.phase = p, !.our_ns = n]

InConnected(L, p, n) == [L EXCEPT !.iccn = 0, !.phase = p, !.our_ns = n]

\* Taking the SCCRP changes the phase, the number and the retry count.
LEMMA CallFacts ==
  ASSUME NEW L \in Client, NEW p \in Phases, NEW n \in Int
  PROVE  /\ InCall(L, p, n) \in Client
         /\ InCall(L, p, n).phase = p /\ InCall(L, p, n).our_ns = n
         /\ InCall(L, p, n).peer_ns = L.peer_ns
BY Zenon DEF InCall, Client

\* So does taking the ICRP.
LEMMA ConnectedFacts ==
  ASSUME NEW L \in Client, NEW p \in Phases, NEW n \in Int
  PROVE  /\ InConnected(L, p, n) \in Client
         /\ InConnected(L, p, n).phase = p /\ InConnected(L, p, n).our_ns = n
         /\ InConnected(L, p, n).peer_ns = L.peer_ns
BY Zenon DEF InConnected, Client

\* pppol2tp_dispatch_control_packet on SCCRP: SCCCN and ICRQ are sent under numbers 1 and 2.
LEMMA CallStep ==
  ASSUME L2tpInv, NEW L, NEW link, ClientOK(L, link), UNCHANGED lns,
         L.phase # "DATA" => link = l2tpLink, L.phase = "SCCRQ_SENT",
         Outcome(L2tpArm(L2tpUntimeout(InCall(L, "ICRQ_SENT", L.our_ns + 2))), link,
                 {SCCCN(InCall(L, "ICRQ_SENT", L.our_ns + 2), L.our_ns + 1),
                  ICRQ(InCall(L, "ICRQ_SENT", L.our_ns + 2), L.our_ns + 2)})
  PROVE  L2tpInv'
<1> DEFINE n == L.our_ns + 2
           p == "ICRQ_SENT"
           T == InCall(L, p, n)
           messages == {SCCCN(T, L.our_ns + 1), ICRQ(T, L.our_ns + 2)}
<1>1. L \in Client /\ L.our_ns = 0 /\ L.peer_ns \in Int /\ link = l2tpLink /\ l2tpLink = "connecting"
  BY Zenon, ClientFields DEF ClientOK
<1>2. Outcome(L2tpArm(L2tpUntimeout(T)), l2tpLink, messages)
  BY Zenon, <1>1
<1>3. n = 2 /\ p = "ICRQ_SENT" /\ p \in Phases
  BY <1>1 DEF Phases
<1> HIDE DEF n, p
<1>4. T \in Client /\ T.phase = "ICRQ_SENT" /\ T.our_ns = 2 /\ T.peer_ns \in Int
  BY <1>1, <1>3, CallFacts
<1> HIDE DEF T
<1>5. \A x \in messages : FromClient(x)
  BY <1>1, <1>4, ToServerFacts DEF SCCCN, ICRQ
<1> HIDE DEF messages
<1> QED BY Zenon, <1>1, <1>2, <1>4, <1>5, RestartStep

\* pppol2tp_dispatch_control_packet, once the numbers of the message are accepted.
LEMMA TakeStep ==
  ASSUME L2tpInv, NEW L, NEW m, NEW link, ClientOK(L, link), TakeMessage(L, m, link), UNCHANGED lns,
         L.phase = "DATA" => lns.nr >= 4, L.phase # "DATA" => link = l2tpLink
  PROVE  L2tpInv'
<1> DEFINE zlb == {ZLB(L.our_ns + 1, L.peer_ns)}
<1>1. L \in Client /\ L.our_ns \in Int /\ L.peer_ns \in Int
  BY Zenon, ClientFields DEF ClientOK
<1>2. \A x \in zlb : FromClient(x)
  BY <1>1, ToServerFacts DEF ZLB
<1>3. \/ m.kind = "SCCRP" /\ L.phase = "SCCRQ_SENT" /\ TakeSccrp(L, m, link)
      \/ m.kind = "ICRP" /\ L.phase = "ICRQ_SENT" /\ TakeIcrp(L, link)
      \/ m.kind = "STOPCCN" /\ L.phase # "DATA" /\ pppol2tp_abort_connect(L, zlb)
      \/ Outcome(L, link, zlb)
  BY Zenon DEF TakeMessage
<1> HIDE DEF zlb
<1>4. CASE L.phase = "SCCRQ_SENT" /\ TakeSccrp(L, m, link)
  <2>1. CASE pppol2tp_abort_connect(L, {})
    BY <1>1, <2>1, AbortStep
  <2>2. CASE Outcome(L2tpArm(L2tpUntimeout(InCall(L, "ICRQ_SENT", L.our_ns + 2))), link,
                     {SCCCN(InCall(L, "ICRQ_SENT", L.our_ns + 2), L.our_ns + 1),
                      ICRQ(InCall(L, "ICRQ_SENT", L.our_ns + 2), L.our_ns + 2)})
    BY Zenon, <1>4, <2>2, CallStep
  <2> QED BY Zenon, <1>4, <2>1, <2>2 DEF TakeSccrp, InCall
<1>5. CASE L.phase = "ICRQ_SENT" /\ TakeIcrp(L, link)
  <2> DEFINE n == L.our_ns + 1
             p == "ICCN_SENT"
             T == InConnected(L, p, n)
             messages == {ICCN(T, T.our_ns)}
  <2>1. L.our_ns = 2 /\ link = "connecting" /\ l2tpLink = "connecting"
    BY Zenon, <1>5 DEF ClientOK
  <2>2. Outcome(L2tpArm(L2tpUntimeout(T)), link, messages)
    BY Zenon, <1>5 DEF TakeIcrp, InConnected
  <2>n. n = 3 /\ p = "ICCN_SENT" /\ p \in Phases
    BY <2>1 DEF Phases
  <2> HIDE DEF n, p
  <2>3. T \in Client /\ T.phase = "ICCN_SENT" /\ T.our_ns = 3 /\ T.peer_ns \in Int
    BY <1>1, <2>n, ConnectedFacts
  <2> HIDE DEF T
  <2>4. \A x \in messages : FromClient(x)
    BY <2>3, ToServerFacts DEF ICCN
  <2> HIDE DEF messages
  <2>5. Outcome(L2tpArm(L2tpUntimeout(T)), l2tpLink, messages)
    BY Zenon, <2>1, <2>2
  <2> QED BY Zenon, <2>1, <2>3, <2>4, <2>5, RestartStep
<1>6. CASE pppol2tp_abort_connect(L, zlb)
  BY Zenon, <1>1, <1>2, <1>6, AbortStep
<1>7. CASE Outcome(L, link, zlb)
  BY Zenon, <1>2, <1>7, ClientStep
<1> QED BY Zenon, <1>3, <1>4, <1>5, <1>6, <1>7

\* pppol2tp_dispatch_control_packet: duplicates are acknowledged, the ICCN's acknowledgement opens the
\* call.
LEMMA ControlStep ==
  ASSUME L2tpInv, NEW m \in datagrams, m.by = "server", l2tp.phase # "INITIAL",
         pppol2tp_dispatch_control_packet(m), UNCHANGED lns
  PROVE  L2tpInv'
<1> DEFINE A == [l2tp EXCEPT !.peer_nr = m.nr]
           opens == A.phase = "ICCN_SENT" /\ A.peer_nr > A.our_ns
           B == IF opens THEN [L2tpUntimeout(A) EXCEPT !.phase = "DATA"] ELSE A
           link == IF opens THEN "started" ELSE l2tpLink
           C == [B EXCEPT !.peer_ns = m.ns + 1]
<1>1. m.ns \in Int /\ m.nr \in Int /\ m.nr <= lns.nr /\ lns.nr \in Int
  BY Zenon DEF L2tpInv, FromClient, FromLns, Lns
<1>2. l2tp \in Client /\ ClientOK(l2tp, l2tpLink)
  BY Zenon DEF L2tpInv, ClientOK
<1>3. /\ A \in Client /\ A.phase = l2tp.phase /\ A.our_ns = l2tp.our_ns /\ A.timers = l2tp.timers
      /\ A.peer_nr = m.nr
  BY Zenon, <1>1, <1>2 DEF Client
<1>4. \/ Outcome(l2tp, l2tpLink, IF m.ns < l2tp.peer_ns THEN {ZLB(m.nr, m.ns + 1)} ELSE {})
      \/ Outcome(B, link, {})
      \/ TakeMessage(C, m, link)
  BY Zenon DEF pppol2tp_dispatch_control_packet
<1> HIDE DEF A
<1>5. /\ ClientOK(B, link) /\ (B.phase = "DATA" => lns.nr >= 4)
      /\ B.phase # "DATA" => link = l2tpLink
  <2>1. CASE opens
    <3> DEFINE U == L2tpUntimeout(A)
    <3>1. U \in Client /\ U.our_ns = 3
      BY Zenon, <2>1, <1>2, <1>3, ArmFacts DEF ClientOK
    <3>2. B = [U EXCEPT !.phase = "DATA"] /\ link = "started"
      BY Zenon, <2>1
    <3> HIDE DEF U, B, link
    <3>3. B \in Client /\ B.phase = "DATA" /\ B.our_ns = 3
      BY Zenon, <3>1, <3>2 DEF Client, Phases
    <3>4. lns.nr >= 4
      BY <2>1, <1>1, <1>2, <1>3 DEF ClientOK
    <3> QED BY Zenon, <3>2, <3>3, <3>4 DEF ClientOK
  <2>2. CASE ~opens
    <3>1. B = A /\ link = l2tpLink
      BY Zenon, <2>2
    <3> HIDE DEF B, link
    <3>2. ClientOK(A, l2tpLink)
      BY Zenon, <1>2, <1>3 DEF ClientOK
    <3> QED BY Zenon, <3>1, <3>2, <1>3 DEF L2tpInv
  <2> QED BY Zenon, <2>1, <2>2
<1> HIDE DEF B, link
<1>6. C \in Client /\ C.phase = B.phase /\ C.our_ns = B.our_ns /\ C.timers = B.timers
  BY <1>1, <1>5 DEF ClientOK, Client
<1> HIDE DEF C
<1>7. ClientOK(C, link)
  BY Zenon, <1>5, <1>6 DEF ClientOK
<1>8. CASE Outcome(l2tp, l2tpLink, IF m.ns < l2tp.peer_ns THEN {ZLB(m.nr, m.ns + 1)} ELSE {})
  <2> DEFINE messages == IF m.ns < l2tp.peer_ns THEN {ZLB(m.nr, m.ns + 1)} ELSE {}
  <2>1. \A x \in messages : FromClient(x)
    BY <1>1, ToServerFacts DEF ZLB
  <2> HIDE DEF messages
  <2>2. Outcome(l2tp, l2tpLink, messages)
    BY Zenon, <1>8 DEF messages
  <2> QED BY Zenon, <2>1, <2>2, <1>2, ClientStep DEF L2tpInv
<1>9. CASE Outcome(B, link, {})
  BY <1>5, <1>9, ClientStep
<1>10. CASE TakeMessage(C, m, link)
  BY Zenon, <1>5, <1>6, <1>7, <1>10, TakeStep
<1> QED BY Zenon, <1>4, <1>8, <1>9, <1>10

\* What a step of the network server must respect for the invariant to hold after it.
LEMMA ServerStep ==
  ASSUME L2tpInv, NEW S \in Lns, NEW messages, ServerSends(S, messages),
         S.nr >= lns.nr, \A m \in messages : FromLns(m, S.nr),
         S.nr >= 4 => S.up \/ S.last = "STOPCCN"
  PROVE  L2tpInv'
<1>1. lns' = S /\ datagrams' = datagrams \cup messages /\ UNCHANGED <<l2tp, l2tpLink>>
  BY Zenon DEF ServerSends
<1>2. lns.nr \in Int /\ S.nr \in Int
  BY Zenon DEF L2tpInv, Lns
<1>3. ClientOK(l2tp, l2tpLink)'
  BY Zenon, <1>1 DEF L2tpInv, ClientOK
<1>4. (\A m \in datagrams : FromClient(m) \/ FromLns(m, lns.nr))'
  <2> SUFFICES ASSUME NEW m \in datagrams', ~FromClient(m) PROVE FromLns(m, S.nr)
    BY Zenon, <1>1 DEF FromClient, FromLns
  <2>1. CASE m \in datagrams
    BY <2>1, <1>2 DEF L2tpInv, FromLns
  <2> QED BY Zenon, <2>1, <1>1
<1>5. (lns.nr >= 4 => lns.up \/ lns.last = "STOPCCN")'
  BY Zenon, <1>1
<1>6. (l2tp.phase = "DATA" => lns.nr >= 4)'
  BY <1>1, <1>2 DEF L2tpInv
<1> QED BY Zenon, <1>1, <1>3, <1>4, <1>5, <1>6 DEF L2tpInv

\* The fields of the server.
LEMMA LnsFields ==
  ASSUME NEW S \in Lns
  PROVE  S.ns \in Int /\ S.nr \in Int /\ S.up \in BOOLEAN
BY Zenon DEF Lns

\* What the server sends acknowledges what it has received.
LEMMA FromServerFacts ==
  ASSUME NEW kind, NEW S \in Lns, NEW n \in Int, S.nr <= n
  PROVE  FromLns(FromServer(kind, S), n)
<1>1. /\ FromServer(kind, S).by = "server" /\ FromServer(kind, S).ns = S.ns
      /\ FromServer(kind, S).nr = S.nr
  BY Zenon DEF FromServer, Control
<1> QED BY Zenon, <1>1, LnsFields DEF FromLns

\* So does its SCCRP, with or without challenge and proof.
LEMMA SccrpFacts ==
  ASSUME NEW S \in Lns, NEW c, NEW p
  PROVE  FromLns(Sccrp(S, c, p), S.nr)
<1>1. /\ Sccrp(S, c, p).by = "server" /\ Sccrp(S, c, p).ns = S.ns
      /\ Sccrp(S, c, p).nr = S.nr
  BY Zenon DEF Sccrp, FromServer, Control
<1> QED BY <1>1, LnsFields DEF FromLns

\* The server after an answer.
Answered(S, k, l) == [S EXCEPT !.ns = k, !.last = l]

\* An answer changes the number sent and the last message only.
LEMMA AnsweredFacts ==
  ASSUME NEW S \in Lns, NEW k \in Int, NEW l \in {"none", "SCCRP", "ICRP", "STOPCCN"}
  PROVE  Answered(S, k, l) \in Lns /\ Answered(S, k, l).nr = S.nr
BY Zenon DEF Lns, Answered

\* The server takes the next message in order: with the fourth, the call is up or the tunnel ended.
LEMMA ServerAnswerStep == ASSUME L2tpInv, NEW m \in datagrams, ServerAnswers(m) PROVE L2tpInv'
<1> DEFINE n == m.ns + 1
           S == [lns EXCEPT !.nr = n]
<1>1. lns \in Lns /\ lns.nr \in Int /\ m.by = "client" /\ m.kind # "ZLB" /\ m.ns = lns.nr /\ lns.last # "STOPCCN"
  BY Zenon, LnsFields DEF L2tpInv, ServerAnswers
<1>2. n \in Int /\ n > lns.nr /\ (n >= 4 => m.kind \in {"ICCN", "STOPCCN"})
  BY <1>1 DEF L2tpInv, FromClient, FromLns
<1>3. \/ /\ m.kind = "SCCRQ"
         /\ \E c, p \in BOOLEAN : ServerSends(Answered(S, 1, "SCCRP"), {Sccrp(S, c, p)})
      \/ m.kind = "ICRQ" /\ ServerSends(Answered(S, 2, "ICRP"), {FromServer("ICRP", S)})
      \/ m.kind = "ICCN" /\ ServerSends([S EXCEPT !.up = TRUE], {FromServer("ZLB", S)})
      \/ /\ m.kind = "STOPCCN"
         /\ ServerSends([S EXCEPT !.up = FALSE, !.last = "STOPCCN"], {FromServer("ZLB", S)})
      \/ m.kind \notin {"ICCN", "STOPCCN"} /\ ServerSends(S, {FromServer("ZLB", S)})
  BY Zenon DEF ServerAnswers, Answered
<1> HIDE DEF n
<1>4. S \in Lns /\ S.nr = n /\ S.last = lns.last
  BY Zenon, <1>1, <1>2 DEF Lns
<1> HIDE DEF S
<1>5. /\ \A kind : FromLns(FromServer(kind, S), n)
      /\ \A c, p : FromLns(Sccrp(S, c, p), n)
  BY <1>2, <1>4, FromServerFacts, SccrpFacts
<1>6. ASSUME NEW R \in Lns, R.nr = n, NEW a, ServerSends(R, {a}), FromLns(a, n),
             n >= 4 => R.up \/ R.last = "STOPCCN"
      PROVE  L2tpInv'
  BY <1>1, <1>2, <1>6, ServerStep
<1>7. CASE /\ m.kind = "SCCRQ"
           /\ \E c, p \in BOOLEAN : ServerSends(Answered(S, 1, "SCCRP"), {Sccrp(S, c, p)})
  <2> DEFINE k == 1
             l == "SCCRP"
             R == Answered(S, k, l)
  <2>k. k \in Int /\ l \in {"none", "SCCRP", "ICRP", "STOPCCN"}
    OBVIOUS
  <2>2. PICK c \in BOOLEAN, p \in BOOLEAN : ServerSends(R, {Sccrp(S, c, p)})
    BY Zenon, <1>7
  <2> HIDE DEF k, l
  <2>1. R \in Lns /\ R.nr = n
    BY Zenon, <1>4, <2>k, AnsweredFacts
  <2> HIDE DEF R
  <2> QED BY Zenon, <2>1, <2>2, <1>2, <1>5, <1>6, <1>7
<1>8. CASE m.kind = "ICRQ" /\ ServerSends(Answered(S, 2, "ICRP"), {FromServer("ICRP", S)})
  <2> DEFINE k == 2
             l == "ICRP"
             R == Answered(S, k, l)
  <2>k. k \in Int /\ l \in {"none", "SCCRP", "ICRP", "STOPCCN"}
    OBVIOUS
  <2>2. ServerSends(R, {FromServer("ICRP", S)})
    BY Zenon, <1>8
  <2> HIDE DEF k, l
  <2>1. R \in Lns /\ R.nr = n
    BY Zenon, <1>4, <2>k, AnsweredFacts
  <2> HIDE DEF R
  <2> QED BY Zenon, <2>1, <2>2, <1>2, <1>5, <1>6, <1>8
<1>9. CASE m.kind = "ICCN" /\ ServerSends([S EXCEPT !.up = TRUE], {FromServer("ZLB", S)})
  <2> DEFINE R == [S EXCEPT !.up = TRUE]
  <2>1. R \in Lns /\ R.nr = n
    BY Zenon, <1>4 DEF Lns
  <2>2. R.up
    BY Zenon, <1>4 DEF Lns
  <2>3. ServerSends(R, {FromServer("ZLB", S)})
    BY Zenon, <1>9
  <2> HIDE DEF R
  <2> QED BY Zenon, <2>1, <2>2, <2>3, <1>5, <1>6
<1>10. CASE /\ m.kind = "STOPCCN"
            /\ ServerSends([S EXCEPT !.up = FALSE, !.last = "STOPCCN"], {FromServer("ZLB", S)})
  <2> DEFINE R == [S EXCEPT !.up = FALSE, !.last = "STOPCCN"]
  <2>1. R \in Lns /\ R.nr = n /\ R.last = "STOPCCN"
    BY Zenon, <1>4 DEF Lns
  <2>2. ServerSends(R, {FromServer("ZLB", S)})
    BY Zenon, <1>10
  <2> HIDE DEF R
  <2> QED BY Zenon, <2>1, <2>2, <1>5, <1>6
<1>11. CASE m.kind \notin {"ICCN", "STOPCCN"} /\ ServerSends(S, {FromServer("ZLB", S)})
  BY Zenon, <1>2, <1>4, <1>5, <1>6, <1>11
<1> QED BY Zenon, <1>3, <1>7, <1>8, <1>9, <1>10, <1>11

\* Every step of the L2TP client, the server and the network between them keeps the invariant.
LEMMA L2tpKeeps == L2tpInv /\ [L2tpNext]_l2tpVars => L2tpInv'
<1> SUFFICES ASSUME L2tpInv, [L2tpNext]_l2tpVars PROVE L2tpInv'
  BY Zenon
<1>1. lns \in Lns /\ lns.nr \in Int /\ lns.ns \in Int
  BY Zenon, LnsFields DEF L2tpInv
<1>2. CASE pppol2tp_connect \/ pppol2tp_disconnect \/ pppol2tp_timeout
  BY Zenon, <1>2, DialStep, HangUpStep, L2tpTimeoutStep
<1>3. CASE pppol2tp_input
  <2>1. PICK m \in datagrams : /\ m.by = "server" /\ l2tp.phase # "INITIAL"
                               /\ pppol2tp_dispatch_control_packet(m) /\ UNCHANGED lns
    BY Zenon, <1>3 DEF pppol2tp_input
  <2> QED BY Zenon, <2>1, ControlStep
<1>4. ASSUME NEW m \in datagrams, ServerAnswers(m) PROVE L2tpInv'
  BY Zenon, <1>4, ServerAnswerStep
<1>5. CASE ServerRepeats
  <2> DEFINE c == Control("server", lns.last, lns.ns - 1, lns.nr)
  <2>1. ServerSends(lns, {c, FromServer("ZLB", lns)})
    BY Zenon, <1>5 DEF ServerRepeats
  <2>2. c.by = "server" /\ c.ns \in Int /\ c.nr = lns.nr
    BY <1>1 DEF Control
  <2> HIDE DEF c
  <2>3. \A m \in {c, FromServer("ZLB", lns)} : FromLns(m, lns.nr)
    BY <1>1, <2>2, FromServerFacts DEF FromLns
  <2>4. lns.nr >= 4 => lns.up \/ lns.last = "STOPCCN"
    BY Zenon DEF L2tpInv
  <2> QED BY <1>1, <2>1, <2>3, <2>4, ServerStep
<1>6. CASE ServerStops
  <2> DEFINE k == lns.ns + 1
             R == [lns EXCEPT !.ns = k, !.last = "STOPCCN", !.up = FALSE]
  <2>1. ServerSends(R, {FromServer("STOPCCN", lns)}) /\ k \in Int
    BY <1>1, <1>6 DEF ServerStops
  <2> HIDE DEF k
  <2>2. R \in Lns /\ R.nr = lns.nr /\ R.last = "STOPCCN"
    BY Zenon, <1>1, <2>1 DEF Lns
  <2> HIDE DEF R
  <2>3. FromLns(FromServer("STOPCCN", lns), R.nr)
    BY <1>1, <2>2, FromServerFacts
  <2> QED BY <1>1, <2>1, <2>2, <2>3, ServerStep
<1>7. CASE UNCHANGED l2tpVars
  BY Zenon, <1>7 DEF l2tpVars, L2tpInv, ClientOK, FromClient, FromLns
<1> QED BY Zenon, <1>2, <1>3, <1>4, <1>5, <1>6, <1>7 DEF L2tpNext

\* For any retry limits, with messages lost, repeated and reordered: the link is started only while the
\* server has put the call up (or has since ended the tunnel), and a client that awaits an answer has a
\* timer pending.
THEOREM L2tpIsRight == L2tpSpec => []L2tpTunnels
<1>1. L2tpInv => L2tpTunnels
  <2> SUFFICES ASSUME L2tpInv PROVE L2tpTunnels
    BY Zenon
  <2>1. (l2tpLink = "started") = (l2tp.phase = "DATA")
    BY Zenon DEF L2tpInv, ClientOK
  <2>2. l2tp.phase = "DATA" => lns.up \/ lns.last = "STOPCCN"
    BY Zenon DEF L2tpInv
  <2>3. TunnelTimed
    BY Zenon DEF L2tpInv, ClientOK, TunnelTimed
  <2> QED BY Zenon, <2>1, <2>2, <2>3 DEF L2tpTunnels, DataIsEstablished
<1> QED BY <1>1, L2tpStarts, L2tpKeeps, PTL DEF L2tpSpec
=============================================================================
