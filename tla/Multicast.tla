----------------------------- MODULE Multicast -----------------------------
(***************************************************************************)
(* Multicast group membership in lwIP: IGMPv2 (src/core/ipv4/igmp.c) and   *)
(* MLDv1 (src/core/ipv6/mld6.c), two implementations of one protocol.      *)
(* Hosts running the stack and a multicast router share a link.  A host is *)
(* H = [groups, filter, mem, out, unsent]: the groups it is in, those its  *)
(* interface's MAC filter lets through, whether the call under way finds   *)
(* memory for a message, the messages it sends and the groups whose        *)
(* message could not be sent.                                              *)
(***************************************************************************)
EXTENDS Integers, Sequences, FiniteSets, TLC

CONSTANTS
  MHOSTS, MGROUPS,
  PROTOCOLS_M,       \* a subset of {"igmp", "mld"}
  JOIN_DELAY,        \* IGMP_JOIN_DELAYING_MEMBER_TMR, MLD6_JOIN_DELAYING_MEMBER_TMR_MS, in ticks
  MaxResp,           \* the response time the router asks for, in ticks
  MaxLan,            \* messages on the link when a host joins or leaves
  MaxUse,            \* joins of one group by one host (u8_t in the code)
  QUERY_INTERVAL, MEMBERSHIP, LAST_MEMBER   \* the router's timers, in ticks

VARIABLES
  proto,             \* the protocol in use
  mhost,             \* H of each host
  linkUp,            \* whether its link is up
  lan,               \* the messages on the link, in order
  router,            \* [known, query]: the time left for each group, to the next query
  missed             \* history: the groups a message about which somebody missed since the
                     \* last general query that everybody heard

mcastVars == <<proto, mhost, linkUp, lan, router, missed>>

ALLSYSTEMS == "allsystems"
Absent == [state |-> "none", timer |-> 0, last |-> FALSE, use |-> 0]
Joined(H) == {g \in MGROUPS : H.groups[g].state # "none"}
\* igmp_send and mld6_send: without memory nothing is sent, and nobody is told.
SendMessage(H, g, type) ==
  IF ~H.mem THEN [H EXCEPT !.unsent = @ \cup {g}]
  ELSE [H EXCEPT !.out = Append(@, [type |-> type, group |-> g]),
                 !.groups[g].last = @ \/ type = "report"]
\* Faulty variant: the delay may be zero, which is the value of a timer that is off.
StartTimerAtZero(H, g, max, draw) ==
  [H EXCEPT !.groups[g].timer = IF max <= 2 THEN 1 ELSE draw % max]

(***************************************************************************)
(* IGMP.  A delay is drawn at random: `draw' is the number drawn.          *)
(***************************************************************************)
igmp_start_timer(H, g, max, draw) ==
  [H EXCEPT !.groups[g].timer = IF max <= 2 \/ draw % max = 0 THEN 1 ELSE draw % max]

igmp_delaying_member(H, g, maxresp, draw) ==
  LET G == H.groups[g]
  IN IF \/ G.state = "idle"
        \/ G.state = "delaying" /\ (G.timer = 0 \/ maxresp < G.timer)
       THEN [igmp_start_timer(H, g, maxresp, draw) EXCEPT !.groups[g].state = "delaying"]
       ELSE H

\* The list's first group is allsystems, which igmp_start enters; a new group is a non-member.
\* A join that finds no memory for the group changes nothing.
igmp_joingroup_netif(H, g, draw) ==
  LET A == IF H.groups[g].state # "none" THEN H
           ELSE [igmp_start_timer(SendMessage([H EXCEPT !.filter = @ \cup {g}], g, "report"), g, JOIN_DELAY, draw)
                 EXCEPT !.groups[g].state = "delaying"]
  IN [A EXCEPT !.groups[g].use = @ + 1]

igmp_leavegroup_netif(H, g) ==
  LET A == IF H.groups[g].last THEN SendMessage(H, g, "leave") ELSE H
  IN IF H.groups[g].state = "none" THEN H
     ELSE IF H.groups[g].use <= 1
     THEN [A EXCEPT !.groups[g] = Absent, !.filter = @ \ {g}]
     ELSE [H EXCEPT !.groups[g].use = @ - 1]

igmp_timeout(H, g) ==
  IF H.groups[g].state = "delaying"
    THEN SendMessage([H EXCEPT !.groups[g].state = "idle"], g, "report") ELSE H

igmp_input(H, m, draw) ==
  CASE m.type = "query" /\ m.group = ALLSYSTEMS ->
         [H EXCEPT !.groups = [g \in MGROUPS |-> igmp_delaying_member(H, g, MaxResp, draw).groups[g]]]
    [] m.type = "query" /\ m.group # ALLSYSTEMS -> igmp_delaying_member(H, m.group, MaxResp, draw)
    [] m.type = "report" /\ H.groups[m.group].state = "delaying" ->
         [H EXCEPT !.groups[m.group] = [@ EXCEPT !.timer = 0, !.state = "idle", !.last = FALSE]]
    [] OTHER -> H

(***************************************************************************)
(* MLD.                                                                    *)
(***************************************************************************)
mld6_delayed_report(H, g, max, draw) ==
  LET G == H.groups[g]
      delay == IF max = 0 \/ draw % max = 0 THEN 1 ELSE draw % max
  IN IF \/ G.state = "idle"
        \/ G.state = "delaying" /\ (G.timer = 0 \/ delay < G.timer)
       THEN [H EXCEPT !.groups[g].timer = delay, !.groups[g].state = "delaying"]
       ELSE H

mld6_new_group(H, g) == [H EXCEPT !.groups[g] = [Absent EXCEPT !.state = "idle"]]

mld6_joingroup_netif(H, g, draw) ==
  LET A == IF H.groups[g].state # "none" THEN H
           ELSE mld6_delayed_report(SendMessage([mld6_new_group(H, g) EXCEPT !.filter = @ \cup {g}], g, "report"),
                                    g, JOIN_DELAY, draw)
  IN [A EXCEPT !.groups[g].use = @ + 1]

mld6_leavegroup_netif(H, g) ==
  LET A == IF H.groups[g].last THEN SendMessage(H, g, "leave") ELSE H
  IN IF H.groups[g].state = "none" THEN H
     ELSE IF H.groups[g].use <= 1
     THEN [A EXCEPT !.groups[g] = Absent, !.filter = @ \ {g}]
     ELSE [H EXCEPT !.groups[g].use = @ - 1]

MldTimeout(H, g) ==
  IF H.groups[g].state = "delaying"
    THEN [SendMessage(H, g, "report") EXCEPT !.groups[g].state = "idle"] ELSE H

mld6_input(H, m, draw) ==
  CASE m.type = "query" /\ m.group = ALLSYSTEMS ->
         [H EXCEPT !.groups = [g \in MGROUPS |-> mld6_delayed_report(H, g, MaxResp, draw).groups[g]]]
    [] m.type = "query" /\ m.group # ALLSYSTEMS -> mld6_delayed_report(H, m.group, MaxResp, draw)
    [] m.type = "report" /\ H.groups[m.group].state = "delaying" ->
         [H EXCEPT !.groups[m.group] = [@ EXCEPT !.timer = 0, !.state = "idle", !.last = FALSE]]
    [] OTHER -> H

(***************************************************************************)
(* What the two have in common.                                            *)
(***************************************************************************)
JoinNetif(H, g, draw) ==
  IF proto = "igmp" THEN igmp_joingroup_netif(H, g, draw) ELSE mld6_joingroup_netif(H, g, draw)

LeaveNetif(H, g) == IF proto = "igmp" THEN igmp_leavegroup_netif(H, g) ELSE mld6_leavegroup_netif(H, g)

Hears(H, m, draw) == IF proto = "igmp" THEN igmp_input(H, m, draw) ELSE mld6_input(H, m, draw)

\* igmp_report_groups and mld6_report_groups, when the link comes up.
ReportGroups(H, draw) ==
  [H EXCEPT !.groups = [g \in MGROUPS |->
     IF proto = "igmp" THEN igmp_delaying_member(H, g, JOIN_DELAY, draw).groups[g]
     ELSE mld6_delayed_report(H, g, JOIN_DELAY, draw).groups[g]]]

\* igmp_tmr and mld6_tmr for one group of a host.
TickGroup(H, g) ==
  LET A == [H EXCEPT !.groups[g].timer = @ - 1]
  IN IF H.groups[g].timer = 0 THEN H
     ELSE IF H.groups[g].timer > 1 THEN A
     ELSE IF proto = "igmp" THEN igmp_timeout(A, g) ELSE MldTimeout(A, g)

\* igmp_stop and mld6_stop, when the interface is removed.
StopNetif(H) == [H EXCEPT !.groups = [g \in MGROUPS |-> Absent], !.filter = {}]

(***************************************************************************)
(* The steps.  A message reaches any of the hosts whose link is up and of  *)
(* the router; the clock does not tick while messages are on the link.     *)
(***************************************************************************)
Draws == 0 .. JOIN_DELAY - 1

Calling(H, mem) == [H EXCEPT !.mem = mem]
Returned(H) == [H EXCEPT !.mem = TRUE, !.out = <<>>, !.unsent = {}]

Emit(h, H) ==
  /\ mhost' = [mhost EXCEPT ![h] = Returned(H)]
  /\ lan' = IF linkUp[h] THEN lan \o [i \in DOMAIN H.out |-> H.out[i] @@ [from |-> h]]
            ELSE lan
  /\ missed' = missed \cup H.unsent
  /\ UNCHANGED <<proto, router>>

Join(h) ==
  \E g \in MGROUPS, draw \in Draws, mem \in BOOLEAN :
    /\ mhost[h].groups[g].use < MaxUse
    /\ Len(lan) < MaxLan
    /\ Emit(h, JoinNetif(Calling(mhost[h], mem), g, draw))
    /\ UNCHANGED linkUp

Leave(h) ==
  /\ Len(lan) < MaxLan
  /\ \E g \in MGROUPS, mem \in BOOLEAN : Emit(h, LeaveNetif(Calling(mhost[h], mem), g))
  /\ UNCHANGED linkUp

Stop(h) == Emit(h, StopNetif(mhost[h])) /\ UNCHANGED linkUp

LinkDown(h) ==
  linkUp[h] /\ linkUp' = [linkUp EXCEPT ![h] = FALSE] /\ UNCHANGED <<proto, mhost, lan, router, missed>>

LinkBackUp(h) ==
  /\ ~linkUp[h]
  /\ linkUp' = [linkUp EXCEPT ![h] = TRUE]
  /\ \E draw \in Draws :
       mhost' = [mhost EXCEPT ![h] = ReportGroups(mhost[h], draw)]
  /\ UNCHANGED <<proto, lan, router, missed>>

\* External: the router keeps a group while reports come, and asks again when one is left.
RouterHears(m) ==
  CASE m.type = "report" -> [router EXCEPT !.known[m.group] = MEMBERSHIP]
    [] m.type = "leave" -> [router EXCEPT !.known[m.group] = IF @ > LAST_MEMBER THEN LAST_MEMBER ELSE @]
    [] OTHER -> router

Deliver ==
  /\ lan # <<>>
  /\ LET m == Head(lan)
         listeners == {h \in MHOSTS : linkUp[h] /\ h # m.from}
         about == IF m.group = ALLSYSTEMS THEN MGROUPS ELSE {m.group}
         answers == m.type = "leave" /\ router.known[m.group] > 0
     IN \E heard \in SUBSET listeners, reached \in BOOLEAN : \E draw \in [heard -> 0 .. MaxResp - 1] :
          /\ mhost' = [h \in MHOSTS |-> IF h \in heard THEN Hears(mhost[h], m, draw[h]) ELSE mhost[h]]
          /\ router' = IF reached THEN RouterHears(m) ELSE router
          /\ lan' = IF reached /\ answers
                      THEN Append(Tail(lan), [type |-> "query", group |-> m.group, from |-> "router"])
                      ELSE Tail(lan)
          /\ missed' = IF heard # listeners \/ ~reached THEN missed \cup about
                       ELSE IF m.group = ALLSYSTEMS THEN {} ELSE missed
  /\ UNCHANGED <<proto, linkUp>>

RECURSIVE TickGroups(_, _)
TickGroups(H, gs) ==
  IF gs = {} THEN H ELSE LET g == CHOOSE x \in gs : TRUE IN TickGroups(TickGroup(H, g), gs \ {g})

RECURSIVE Gather(_, _)
Gather(hs, Hs) ==
  IF hs = {} THEN <<>>
  ELSE LET h == CHOOSE x \in hs : TRUE
       IN (IF linkUp[h] THEN [i \in DOMAIN Hs[h].out |-> Hs[h].out[i] @@ [from |-> h]] ELSE <<>>)
          \o Gather(hs \ {h}, Hs)

Tick ==
  /\ lan = <<>>
  /\ \E mem \in [MHOSTS -> BOOLEAN] :
     LET Hs == [h \in MHOSTS |-> TickGroups(Calling(mhost[h], mem[h]), MGROUPS)]
         asks == router.query = 1
     IN /\ mhost' = [h \in MHOSTS |-> Returned(Hs[h])]
        /\ missed' = missed \cup UNION {Hs[h].unsent : h \in MHOSTS}
        /\ lan' = Gather(MHOSTS, Hs)
                  \o (IF asks THEN <<[type |-> "query", group |-> ALLSYSTEMS, from |-> "router"]>> ELSE <<>>)
        /\ router' = [known |-> [g \in MGROUPS |-> IF router.known[g] = 0 THEN 0 ELSE router.known[g] - 1],
                      query |-> IF asks THEN QUERY_INTERVAL ELSE router.query - 1]
  /\ UNCHANGED <<proto, linkUp>>

McastInit ==
  /\ proto \in PROTOCOLS_M
  /\ mhost = [h \in MHOSTS |-> [groups |-> [g \in MGROUPS |-> Absent], filter |-> {}, mem |-> TRUE, out |-> <<>>,
                             unsent |-> {}]]
  /\ linkUp = [h \in MHOSTS |-> TRUE]
  /\ lan = <<>>
  /\ router = [known |-> [g \in MGROUPS |-> 0], query |-> QUERY_INTERVAL]
  /\ missed = {}

McastNext ==
  \/ \E h \in MHOSTS : Join(h) \/ Leave(h) \/ Stop(h) \/ LinkDown(h) \/ LinkBackUp(h)
  \/ Deliver
  \/ Tick

McastSpec == McastInit /\ [][McastNext]_mcastVars

-----------------------------------------------------------------------------
\* A host that considers its membership reported (the group is idle) is known
\* to the router: although hosts keep silent when another host reports the
\* group, although only the last reporter announces that it leaves, and
\* although a link goes down and comes up in between.  igmp_timeout and mld6_tmr
\* make a group idle also when its report could not be sent, and a report may get
\* lost on the link; the host is then unknown at most until the next general
\* query that everybody hears, which starts its timer again.
MembersAreKnown ==
  lan = <<>> => \A h \in MHOSTS, g \in MGROUPS :
    linkUp[h] /\ mhost[h].groups[g].state = "idle" => router.known[g] > 0 \/ g \in missed

\* The interface's filter lets through exactly the groups the host is in, and
\* a group that waits to be reported has its timer running.
MembershipTimed ==
  \A h \in MHOSTS : /\ mhost[h].filter = Joined(mhost[h])
                    /\ \A g \in Joined(mhost[h]) :
                         /\ mhost[h].groups[g].use > 0
                         /\ (mhost[h].groups[g].state = "delaying") = (mhost[h].groups[g].timer > 0)
=============================================================================
