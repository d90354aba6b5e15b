--------------------------- MODULE PppNegotiation ----------------------------
(***************************************************************************)
(* The options LCP negotiates (netif/ppp/lcp.c).  An lcp_options structure *)
(* is a function whose domain is the set of options with neg_x set.  The   *)
(* list of options of a packet is a function too: the order of the options *)
(* is fixed by the code and carries no information, and the three ways to  *)
(* authenticate share one option, "auth", whose value is <<"EAP">>,        *)
(* <<"PAP">> or <<"CHAP", digest>>.  The operators return the new options  *)
(* and the answer; PppNegotiation gives them the packets.                  *)
(***************************************************************************)
EXTENDS Integers, FiniteSets, Sequences, TLC, Functions

CONSTANTS
    PPP_DEFMRU, PPP_MINMRU,
    ASYNC                \* the control characters an async map may escape

AUTHS == {"eap", "chap", "upap"}

Drop(o, ks) == Restrict(o, DOMAIN o \ ks)

(* CHAP_DIGEST asks for MD5 first, CHAP_MDTYPE drops the lowest bit first. *)
CHAP_DIGEST(md) ==
    IF "MD5" \in md THEN "MD5" ELSE IF "MSV2" \in md THEN "MSV2" ELSE "MS"

CHAP_MDTYPE(md) ==
    IF "MSV2" \in md THEN "MSV2" ELSE IF "MS" \in md THEN "MS" ELSE "MD5"

Has(o, k) == k \in DOMAIN o

Strongest(o) == IF Has(o, "eap") THEN "eap" ELSE IF Has(o, "chap") THEN "chap" ELSE "upap"

(* set: [secret, refuse, auth_required], what the application configured.  *)
lcp_resetci(wo, ao, set, magic) ==
    LET digests == {"MD5", "MSV2", "MS"} \ set.refuse
        md == IF Has(ao, "chap") THEN ao.chap \ set.refuse ELSE {}
        refused == {k \in {"upap", "eap"} : k \in set.refuse}
        a == IF set.secret
             THEN Drop(ao, refused \cup {"chap"}) @@ (IF md = {} THEN <<>> ELSE "chap" :> md)
             ELSE Drop(ao, AUTHS)
        wanted == [k \in {"upap", "eap"} \ refused |-> TRUE]
                  @@ (IF digests = {} THEN <<>> ELSE "chap" :> digests)
        w == "magic" :> magic @@ (IF set.secret /\ set.auth_required THEN wanted @@ wo ELSE wo)
    IN [wo |-> w, ao |-> a, go |-> Drop(w, {"ssnhf", "endpoint"})]

(* The options a request carries, and their values. *)
lcp_cilen(go) ==
    {k \in DOMAIN go : /\ k = "mru" => go.mru # PPP_DEFMRU
                       /\ k = "asyncmap" => go.asyncmap # ASYNC
                       /\ k \notin AUTHS}
    \cup (IF DOMAIN go \cap AUTHS # {} THEN {"auth"} ELSE {})

AuthOf(go) ==
    CASE Strongest(go) = "eap" -> <<"EAP">>
      [] Strongest(go) = "chap" -> <<"CHAP", CHAP_DIGEST(go.chap)>>
      [] OTHER -> <<"PAP">>

lcp_addci(go) == [k \in lcp_cilen(go) |-> IF k = "auth" THEN AuthOf(go) ELSE go[k]]

lcp_ackci(go, d) == d = lcp_addci(go)

(* The comparison of the digest offered with the one asked for,            *)
(* cichar != CHAP_DIGEST(...), is true whatever they are: the macro is not *)
(* parenthesised, so that a Nak of the digest asked for is no error.       *)
NakAuth(go, a) ==
    CASE a = <<"PAP">> -> Drop(go, {Strongest(go)})
      [] a[1] = "CHAP" /\ Has(go, "eap") ->
            IF Has(go, "chap") /\ a[2] \in go.chap
            THEN [Drop(go, {"eap"}) EXCEPT !.chap = {a[2]}] ELSE Drop(go, {"eap"})
      [] a[1] = "CHAP" /\ Has(go, "chap") /\ ~Has(go, "eap") ->
            IF a[2] \in go.chap THEN [go EXCEPT !.chap = {a[2]}]
            ELSE IF go.chap = {CHAP_MDTYPE(go.chap)} THEN Drop(go, {"chap"})
            ELSE [go EXCEPT !.chap = @ \ {CHAP_MDTYPE(@)}]
      [] OTHER -> Drop(go, {Strongest(go)})

NakMru(wo, mru, v) == IF v <= wo.mru \/ v <= PPP_DEFMRU THEN v ELSE mru

(* An option the request did not carry, which the peer wants us to ask for. *)
NakUnasked(go, d) ==
    (IF Has(d, "mru") /\ "mru" \notin lcp_cilen(go) /\ d.mru < PPP_DEFMRU
     THEN "mru" :> d.mru ELSE <<>>)
    @@ (IF Has(d, "ssnhf") THEN "ssnhf" :> TRUE ELSE <<>>)

lcp_nakci(go, wo, d, magic) ==
    LET asked == lcp_cilen(go)
        naked == DOMAIN d \cap asked
        dropped == naked \cap {"cbcp", "pcomp", "accomp", "ssnhf", "endpoint"}
        plain == [k \in DOMAIN go |->
                    CASE k = "mru" /\ k \in naked -> NakMru(wo, go.mru, d.mru)
                      [] k = "asyncmap" /\ k \in naked -> go.asyncmap \cup d.asyncmap
                      [] k = "magic" /\ k \in naked -> magic
                      [] k = "lqr" /\ k \in naked -> d.lqr
                      [] OTHER -> go[k]]
        tried == Drop(IF "auth" \in naked THEN NakAuth(plain, d.auth) ELSE plain, dropped)
    IN [go |-> NakUnasked(go, d) @@ tried,
        bad |-> "auth" \in naked /\ d.auth = <<"PAP">> /\ Strongest(go) = "upap",
        looped_back |-> "magic" \in naked]

(* A Reject must repeat the values asked for.  Rejecting EAP leaves CHAP    *)
(* and PAP to be asked for; rejecting CHAP gives up authenticating the peer. *)
RejAuth(go) ==
    IF Strongest(go) = "chap" THEN Drop(go, AUTHS) ELSE Drop(go, {Strongest(go)})

lcp_rejci(go, d) ==
    LET Known(k) == IF k = "auth" THEN DOMAIN go \cap AUTHS # {} /\ d.auth = AuthOf(go)
                    ELSE k \in DOMAIN go /\ d[k] = go[k]
        kept == IF Has(d, "auth") THEN RejAuth(go) ELSE go
    IN [go |-> Drop(kept, DOMAIN d), bad |-> \E k \in DOMAIN d : ~Known(k)]

(* The verdict on one option of the peer's request. *)
Ack == [c |-> "CONFACK"]
Nak(v) == [c |-> "CONFNAK", v |-> v]
Rej == [c |-> "CONFREJ"]

Preferred(ao, except) ==
    CASE Has(ao, "eap") /\ except # "eap" -> <<"EAP">>
      [] Has(ao, "chap") /\ except # "chap" -> <<"CHAP", CHAP_DIGEST(ao.chap)>>
      [] OTHER -> <<"PAP">>

ReqAuth(ao, a) ==
    CASE DOMAIN ao \cap AUTHS = {} -> Rej
      [] a = <<"PAP">> -> IF Has(ao, "upap") THEN Ack ELSE Nak(Preferred(ao, "upap"))
      [] a[1] = "CHAP" -> IF ~Has(ao, "chap") THEN Nak(Preferred(ao, "chap"))
                          ELSE IF a[2] \in ao.chap THEN Ack
                          ELSE Nak(<<"CHAP", CHAP_DIGEST(ao.chap)>>)
      [] a = <<"EAP">> -> IF Has(ao, "eap") THEN Ack ELSE Nak(Preferred(ao, "eap"))
      [] OTHER -> Nak(Preferred(ao, "none"))

ReqOption(go, ao, k, v, magic) ==
    CASE k = "mru" -> IF ~Has(ao, "mru") THEN Rej
                      ELSE IF v < PPP_MINMRU THEN Nak(PPP_MINMRU) ELSE Ack
      [] k = "asyncmap" -> IF ~Has(ao, "asyncmap") THEN Rej
                           ELSE IF ao.asyncmap \ v # {} THEN Nak(ao.asyncmap \cup v) ELSE Ack
      [] k = "auth" -> ReqAuth(ao, v)
      [] k = "magic" -> IF ~Has(ao, "magic") /\ ~Has(go, "magic") THEN Rej
                        ELSE IF Has(go, "magic") /\ v = go.magic THEN Nak(magic) ELSE Ack
      [] k = "cbcp" -> Rej
      [] OTHER -> IF Has(ao, k) THEN Ack ELSE Rej

(* Rejected options are sent back alone; else the options refused, with    *)
(* the values we would take; else the request.  When too many Naks were    *)
(* sent (reject_if_disagree) an option that disagrees is rejected.         *)
Answer(d, verdict, reject) ==
    LET C(k) == IF verdict[k].c = "CONFNAK" /\ k \in reject THEN "CONFREJ" ELSE verdict[k].c
        Of(c) == {k \in DOMAIN d : C(k) = c}
    IN IF Of("CONFREJ") # {} THEN [code |-> "CONFREJ", data |-> Restrict(d, Of("CONFREJ"))]
       ELSE IF Of("CONFNAK") # {}
       THEN [code |-> "CONFNAK", data |-> [k \in Of("CONFNAK") |-> verdict[k].v]]
       ELSE [code |-> "CONFACK", data |-> d]

(* hisoptions keeps what was acknowledged; of LQR it keeps nothing. *)
lcp_reqci(go, ao, d, reject_if_disagree, magic) ==
    LET verdict == [k \in DOMAIN d |-> ReqOption(go, ao, k, d[k], magic)]
        agreed == {k \in DOMAIN d \ {"lqr"} : verdict[k].c = "CONFACK"}
    IN [ho |-> Restrict(d, agreed)]
       @@ Answer(d, verdict, IF reject_if_disagree THEN DOMAIN d \ {"magic"} ELSE {})

-----------------------------------------------------------------------------

(***************************************************************************)
(* The options IPCP and IPV6CP negotiate (netif/ppp/ipcp.c, ipv6cp.c).     *)
(* Here an option structure is a record, because the code reads an address *)
(* whether or not its option is being negotiated.  A packet's options are  *)
(* a function as LCP's are:     "addrs" (the old pair of addresses),       *)
(* "addr", "dns1", "dns2", "ifaceid", and "vj", whose value is <<protocol>> *)
(* in the old form and <<protocol, maxslotindex, cflag>> in the new one.   *)
(* Address and identifier 0 mean unknown.                                  *)
(***************************************************************************)

CONSTANT MAX_STATES      \* VJ slots

VJ == "VJ"               \* IPCP_VJ_COMP; the other is IPCP_VJ_COMP_OLD

Pack(k, cond, v) == IF cond THEN k :> v ELSE <<>>

Asks(d, k) == k \in DOMAIN d

Flip(S, k, on) == IF on THEN S \cup {k} ELSE S \ {k}

NoIpOptions ==
    [neg |-> {}, ouraddr |-> 0, hisaddr |-> 0, accept_local |-> FALSE, accept_remote |-> FALSE,
     req_addr |-> FALSE, vj_protocol |-> VJ, maxslotindex |-> 0, cflag |-> FALSE, dns |-> <<0, 0>>]

(* neg is the set of options with their flag set: "addr" for neg_addr,      *)
(* "addrs" for old_addrs, "vj" and "oldvj", "dns1" and "dns2".              *)
ipcp_resetci(wo, ao, set) ==
    LET w == [wo EXCEPT !.req_addr = /\ wo.neg \cap {"addr", "addrs"} # {}
                                     /\ ao.neg \cap {"addr", "addrs"} # {},
                        !.accept_local = @ \/ wo.ouraddr = 0,
                        !.accept_remote = @ \/ wo.hisaddr = 0,
                        !.neg = (@ \ {"dns1", "dns2"})
                                \cup (IF set.usepeerdns THEN {"dns1", "dns2"} ELSE {})]
    IN [wo |-> w, go |-> [w EXCEPT !.ouraddr = IF set.ask_for_local THEN @ ELSE 0],
        ho |-> NoIpOptions]

(* Before a request is put together: fall back to the peer's old forms. *)
ipcp_cilen(go, wo, ho) ==
    LET a == IF {"addr", "addrs"} \subseteq go.neg /\ ho.neg \cap {"addr", "addrs"} = {"addrs"}
             THEN [go EXCEPT !.neg = @ \ {"addr"}] ELSE go
    IN IF /\ "vj" \in wo.neg /\ a.neg \cap {"vj", "oldvj"} = {}
          /\ {"vj", "oldvj"} \subseteq ho.neg
       THEN [a EXCEPT !.neg = @ \cup {"vj", "oldvj"}, !.vj_protocol = ho.vj_protocol] ELSE a

OldAddrs(go) == "addr" \notin go.neg /\ "addrs" \in go.neg

VjOf(go) == IF "oldvj" \in go.neg THEN <<go.vj_protocol>>
            ELSE <<go.vj_protocol, go.maxslotindex, go.cflag>>

ipcp_addci(go) ==
    Pack("addrs", OldAddrs(go), <<go.ouraddr, go.hisaddr>>)
    @@ Pack("vj", "vj" \in go.neg, VjOf(go))
    @@ Pack("addr", "addr" \in go.neg, go.ouraddr)
    @@ Pack("dns1", "dns1" \in go.neg, go.dns[1]) @@ Pack("dns2", "dns2" \in go.neg, go.dns[2])

ipcp_ackci(go, d) == d = ipcp_addci(go)

(* The address the peer suggests, taken only if we accept suggestions. *)
Take(old, accept, new) == IF accept /\ new # 0 THEN new ELSE old

NakVj(go, v, treat_as_reject) ==
    CASE treat_as_reject \/ (Len(v) = 3 /\ v[1] # VJ) -> [go EXCEPT !.neg = @ \ {"vj"}]
      [] Len(v) = 3 -> [go EXCEPT !.neg = @ \ {"oldvj"},
                                  !.maxslotindex = IF v[2] < @ THEN v[2] ELSE @,
                                  !.cflag = @ /\ v[3]]
      [] OTHER -> [go EXCEPT !.neg = @ \cup {"oldvj"}, !.vj_protocol = v[1]]

NakAddr(go, v, treat_as_reject) ==
    IF treat_as_reject THEN [go EXCEPT !.neg = @ \ {"addr", "addrs"}]
    ELSE [go EXCEPT !.ouraddr = Take(@, go.accept_local, v)]

NakAddrs(go, v, treat_as_reject) ==
    IF treat_as_reject THEN [go EXCEPT !.neg = @ \ {"addrs"}]
    ELSE [go EXCEPT !.ouraddr = Take(@, go.accept_local, v[1]),
                    !.hisaddr = Take(@, go.accept_remote, v[2])]

NakDns(go, i, k, v, treat_as_reject) ==
    IF treat_as_reject THEN [go EXCEPT !.neg = @ \ {k}] ELSE [go EXCEPT !.dns[i] = v]

(* Options the request did not carry: an address the peer wants us to use  *)
(* starts to be asked for, whatever treat_as_reject says.                  *)
NakMore(go, asked, d) ==
    LET New(k) == Asks(d, k) /\ k \notin asked
        Addrs(g) == IF New("addrs")
                    THEN [NakAddrs(g, d.addrs, FALSE) EXCEPT !.neg = @ \ {"addr"}] ELSE g
        Our(g) == Take(g.ouraddr, go.accept_local, d.addr)
        Addr(g) == IF New("addr")
                   THEN [g EXCEPT !.ouraddr = Our(g),
                                  !.neg = Flip(@ \ {"addrs"}, "addr", Our(g) # 0 \/ "addr" \in @)]
                   ELSE g
        Dns(g, i, k) == IF New(k) THEN [g EXCEPT !.dns[i] = d[k], !.neg = @ \cup {k}] ELSE g
    IN Dns(Dns(Addr(Addrs(go)), 1, "dns1"), 2, "dns2")

NakAsked(go, asked, d, t) ==
    LET N(k) == k \in asked /\ Asks(d, k)
        Addrs(g) == IF N("addrs") THEN NakAddrs(g, d.addrs, t) ELSE g
        Vj(g) == IF N("vj") THEN NakVj(g, d.vj, t) ELSE g
        Addr(g) == IF N("addr") THEN NakAddr(g, d.addr, t) ELSE g
        Dns(g, i, k) == IF N(k) THEN NakDns(g, i, k, d[k], t) ELSE g
    IN NakMore(Dns(Dns(Addr(Vj(Addrs(go))), 1, "dns1"), 2, "dns2"), asked, d)

ipcp_nakci(go, d, treat_as_reject) ==
    [go |-> NakAsked(go, DOMAIN ipcp_addci(go), d, treat_as_reject), bad |-> FALSE]

(* Rejecting "addr" leaves the old pair of addresses to be asked for. *)
ipcp_rejci(go, d) ==
    LET asked == ipcp_addci(go)
    IN [go |-> [go EXCEPT !.neg = @ \ DOMAIN d],
        bad |-> \E k \in DOMAIN d : k \notin DOMAIN asked \/ d[k] # asked[k]]

(* The peer may have the address we have for it, or, if it knows one and   *)
(* we accept it, its own.                                                  *)
Disagrees(wo, addr) == addr # wo.hisaddr /\ (addr = 0 \/ ~wo.accept_remote)

ReqAddr(ao, wo, v) ==
    CASE "addr" \notin ao.neg -> Rej
      [] Disagrees(wo, v) -> Nak(wo.hisaddr)
      [] v = 0 /\ wo.hisaddr = 0 -> Rej
      [] OTHER -> Ack

ReqAddrs(ao, wo, v) ==
    LET his == IF Disagrees(wo, v[1]) THEN wo.hisaddr ELSE v[1]
        ourbad == v[2] # wo.ouraddr /\ (v[2] = 0 \/ ~wo.accept_local)
    IN CASE "addrs" \notin ao.neg -> Rej
         [] ~Disagrees(wo, v[1]) /\ v[1] = 0 -> Rej
         [] Disagrees(wo, v[1]) \/ ourbad -> Nak(<<his, IF ourbad THEN wo.ouraddr ELSE v[2]>>)
         [] OTHER -> Ack

ReqVj(ao, wo, v) ==
    CASE "vj" \notin ao.neg \/ (v[1] # VJ /\ Len(v) = 3) -> Rej
      [] Len(v) = 1 \/ (v[2] <= ao.maxslotindex /\ ~(v[3] /\ ~ao.cflag)) -> Ack
      [] OTHER -> Nak(<<v[1], IF v[2] > ao.maxslotindex THEN ao.maxslotindex ELSE v[2],
                        IF v[3] /\ ~ao.cflag THEN wo.cflag ELSE v[3]>>)

ReqDns(ao, i, v) == IF ao.dns[i] = 0 THEN Rej ELSE IF v = ao.dns[i] THEN Ack ELSE Nak(ao.dns[i])

(* A name server address is corrected in place even when it will be sent   *)
(* back in a Reject.                                                       *)
Corrected(d, verdict, ks) ==
    [k \in DOMAIN d |-> IF k \in ks /\ verdict[k].c = "CONFNAK" THEN verdict[k].v ELSE d[k]]

(* Nothing was asked about the peer's address: suggest one, once. *)
Suggest(ans, ho, wo, set, reject) ==
    /\ ans.code # "CONFREJ" /\ ho.neg \cap {"addr", "addrs"} = {}
    /\ wo.req_addr /\ ~reject /\ ~set.noremoteip

HisIp(d, verdict) ==
    LET vj == Asks(d, "vj") /\ verdict["vj"].c # "CONFREJ"
        addr == Asks(d, "addr") /\ verdict["addr"].c # "CONFREJ"
        addrs == Asks(d, "addrs") /\ verdict["addrs"].c # "CONFREJ"
    IN [NoIpOptions EXCEPT
          !.neg = (IF vj THEN {"vj"} ELSE {}) \cup (IF vj /\ Len(d.vj) = 1 THEN {"oldvj"} ELSE {})
                  \cup (IF addr THEN {"addr"} ELSE {}) \cup (IF addrs THEN {"addrs"} ELSE {}),
          !.hisaddr = IF addr THEN d.addr ELSE IF addrs THEN d.addrs[1] ELSE 0,
          !.ouraddr = IF addrs THEN d.addrs[2] ELSE 0,
          !.vj_protocol = IF vj THEN d.vj[1] ELSE VJ,
          !.maxslotindex = IF ~vj THEN 0 ELSE IF Len(d.vj) = 1 THEN MAX_STATES - 1 ELSE d.vj[2],
          !.cflag = vj /\ (Len(d.vj) = 1 \/ d.vj[3])]

ReqIpOption(ao, wo, d, k) ==
    CASE k = "addrs" -> ReqAddrs(ao, wo, d.addrs)
      [] k = "addr" -> IF Asks(d, "addrs") /\ ReqAddrs(ao, wo, d.addrs) # Rej THEN Rej
                       ELSE ReqAddr(ao, wo, d.addr)
      [] k = "vj" -> ReqVj(ao, wo, d.vj)
      [] k = "dns1" -> ReqDns(ao, 1, d.dns1)
      [] k = "dns2" -> ReqDns(ao, 2, d.dns2)
      [] OTHER -> Rej

AnswerIp(wo, set, ho, ans, reject) ==
    IF Suggest(ans, ho, wo, set, reject)
    THEN [wo |-> [wo EXCEPT !.req_addr = @ /\ ans.code # "CONFACK"], ho |-> ho, code |-> "CONFNAK",
          data |-> "addr" :> wo.hisaddr @@ (IF ans.code = "CONFACK" THEN <<>> ELSE ans.data)]
    ELSE [wo |-> wo, ho |-> ho, code |-> ans.code, data |-> ans.data]

ipcp_reqci(wo, ao, set, d, reject_if_disagree) ==
    LET zero == {k \in DOMAIN d \cap ao.neg \cap {"addr", "addrs"} :
                   wo.hisaddr = 0 /\ (IF k = "addr" THEN d.addr ELSE d.addrs[1]) = 0}
        taken == IF Asks(d, "addrs") /\ "addrs" \in ao.neg /\ wo.accept_local /\ d.addrs[2] # 0
                    /\ zero = {}
                 THEN d.addrs[2] ELSE wo.ouraddr
        Judged(verdict) ==
          AnswerIp([wo EXCEPT !.req_addr = @ /\ zero = {}, !.ouraddr = taken], set,
                   HisIp(d, verdict),
                   Answer(Corrected(d, verdict, {"dns1", "dns2"}), verdict,
                          IF reject_if_disagree THEN DOMAIN d ELSE {}),
                   reject_if_disagree)
    IN Judged([k \in DOMAIN d |-> ReqIpOption(ao, wo, d, k)])

-----------------------------------------------------------------------------

(***************************************************************************)
(* The options of IPV6CP (netif/ppp/ipv6cp.c: an interface identifier) and *)
(* of CCP (netif/ppp/ccp.c: MPPE).  The other compression methods of ccp.c *)
(* cannot be built: ccp_init names variables it does not declare and       *)
(* ccp_test has no definition.  rnd is the number magic() draws.           *)
(***************************************************************************)

CONSTANT IFACEIDS        \* interface identifiers other than 0

(* magic() is drawn again until the number is none of those to avoid. *)
Draw(id, avoid, rnd) ==
    IF id \notin avoid THEN id
    ELSE IF rnd \in IFACEIDS \ avoid THEN rnd ELSE CHOOSE i \in IFACEIDS : i \notin avoid

ipv6cp_resetci(wo, ao, set, rnd) ==
    LET w == [wo EXCEPT !.req_ifaceid = "ifaceid" \in wo.neg /\ "ifaceid" \in ao.neg,
                        !.ourid = IF set.opt_local THEN @ ELSE Draw(0, {0}, rnd)]
    IN [wo |-> w, go |-> [w EXCEPT !.hisid = 0]]

ipv6cp_addci(go) == Pack("ifaceid", "ifaceid" \in go.neg, go.ourid)

ipv6cp_ackci(go, d) == d = ipv6cp_addci(go)

ipv6cp_nakci(go, d, treat_as_reject, rnd) ==
    LET id == IF go.accept_local THEN Draw(d.ifaceid, {0, go.hisid}, rnd) ELSE go.ourid
    IN [bad |-> FALSE,
        go |-> CASE ~Asks(d, "ifaceid") -> go
                 [] "ifaceid" \notin go.neg ->
                       [go EXCEPT !.neg = @ \cup {"ifaceid"}, !.ourid = id]
                 [] treat_as_reject -> [go EXCEPT !.neg = @ \ {"ifaceid"}]
                 [] OTHER -> [go EXCEPT !.ourid = id]]

ipv6cp_rejci(go, d) ==
    [go |-> [go EXCEPT !.neg = @ \ DOMAIN d], bad |-> d # <<>> /\ d # ipv6cp_addci(go)]

(* The identifier the peer should have instead of id, if any: the one we   *)
(* were told to give it, once; one that is neither 0 nor our own.          *)
HisId(go, wo, id, rnd) ==
    CASE wo.hisid # 0 /\ id # wo.hisid /\ go.hisid = 0 -> wo.hisid
      [] id \in {0, go.ourid} ->
            Draw(IF go.hisid = 0 THEN wo.hisid ELSE id, {0, go.ourid}, rnd)
      [] OTHER -> id

AnswerIp6(go, wo, ao, d, reject_if_disagree, id) ==
    LET asks == Asks(d, "ifaceid")
        rejected == asks /\ ("ifaceid" \notin ao.neg \/ (d.ifaceid = 0 /\ go.ourid = 0))
        naked == asks /\ ~rejected /\ id # d.ifaceid
        suggest == ~asks /\ wo.req_ifaceid /\ ~reject_if_disagree
    IN [go |-> IF naked THEN [go EXCEPT !.hisid = id] ELSE go,
        wo |-> IF suggest THEN [wo EXCEPT !.req_ifaceid = FALSE] ELSE wo,
        ho |-> IF asks /\ ~rejected THEN id ELSE 0,
        code |-> CASE rejected \/ (naked /\ reject_if_disagree) -> "CONFREJ"
                   [] naked \/ suggest -> "CONFNAK"
                   [] OTHER -> "CONFACK",
        data |-> CASE naked -> "ifaceid" :> id
                   [] suggest -> "ifaceid" :> wo.hisid
                   [] OTHER -> d]

(* The identifier is overwritten in the packet before the verdict is known. *)
ipv6cp_reqci(go, wo, ao, d, reject_if_disagree, rnd) ==
    AnswerIp6(go, wo, ao, d, reject_if_disagree, HisId(go, wo, d.ifaceid, rnd))

-----------------------------------------------------------------------------
(* CCP.  mppe is the set of MPPE bits wanted, allowed or agreed on.        *)

MPPE_BITS == {"40", "128", "stateful"}

Required(set) == IF set.require_mppe THEN {"40", "128"} \ set.refuse_mppe ELSE {}

(* close: the link is taken down, because the keys that MPPE needs are not *)
(* there.  set.mschap is the set of MS-CHAP exchanges completed.           *)
ResetMppe(w, a, set) ==
    LET go == IF set.mschap \cap {"MS_WITHPEER", "MS_PEER"} # {} THEN w.mppe \ {"40"} ELSE w.mppe
        keyless == Cardinality(set.mschap) # 1 \/ ~set.keys
    IN CASE w.mppe = {} -> [wo |-> w, ao |-> a, go |-> w, close |-> FALSE]
         [] keyless -> [wo |-> w, ao |-> a, go |-> w, close |-> TRUE]
         [] OTHER -> [wo |-> [w EXCEPT !.mppe = go], go |-> [w EXCEPT !.mppe = go],
                      ao |-> IF go = {} THEN a ELSE [a EXCEPT !.mppe = go], close |-> go = {}]

ccp_resetci(wo, ao, set) ==
    IF set.require_mppe
    THEN ResetMppe([wo EXCEPT !.mppe = Required(set)], [ao EXCEPT !.mppe = Required(set)], set)
    ELSE ResetMppe(wo, ao, set)

ccp_addci(go) == Pack("mppe", go.mppe # {}, go.mppe)

ccp_ackci(go, d) == d = ccp_addci(go)

ccp_nakci(go, set, d) ==
    LET offered == d.mppe
        tried == IF \/ "stateful" \in offered /\ set.refuse_stateful
                    \/ ~(offered \subseteq go.mppe \cup {"stateful"})
                 THEN {} ELSE offered
    IN IF go.mppe = {} \/ ~Asks(d, "mppe") THEN [go |-> go, close |-> FALSE]
       ELSE [go |-> [go EXCEPT !.mppe = tried], close |-> tried = {}]

(* ret -1: everything was rejected before and nothing is asked for. *)
ccp_rejci(go, all_rejected, d) ==
    IF d = <<>> THEN [ret |-> IF all_rejected THEN -1 ELSE 1, close |-> FALSE]
    ELSE [ret |-> IF go.mppe # {} THEN 1 ELSE 0, close |-> go.mppe # {}]

(* The key strength the peer may use: never both, the stronger preferred. *)
Strength(ao, m) ==
    IF {"128", "40"} \subseteq m
    THEN IF "128" \in ao.mppe THEN m \ {"40"} ELSE m \ {"128"}
    ELSE IF m \cap {"128", "40"} = {} THEN ao.mppe ELSE m

ccp_reqci(ao, set, d, dont_nak) ==
    LET m == d.mppe \cap MPPE_BITS
        refused == \/ ao.mppe = {}
                   \/ "stateful" \in m /\ set.refuse_stateful
                   \/ /\ m \cap {"128", "40"} # {}
                      /\ ~\E b \in {"128", "40"} : b \in m /\ b \in ao.mppe
        agreed == Strength(ao, m)
        code == CASE ~Asks(d, "mppe") -> IF d = <<>> THEN "CONFACK" ELSE "CONFREJ"
                  [] refused \/ (agreed # d.mppe /\ dont_nak) -> "CONFREJ"
                  [] agreed # d.mppe -> "CONFNAK"
                  [] OTHER -> "CONFACK"
    IN [code |-> code,
        ho |-> CASE ~Asks(d, "mppe") \/ ao.mppe = {} -> {}
                 [] refused -> m
                 [] OTHER -> agreed,
        data |-> IF Asks(d, "mppe") /\ ~refused THEN "mppe" :> agreed ELSE d,
        all_rejected |-> code = "CONFREJ",
        close |-> code = "CONFREJ" /\ ao.mppe # {} /\ (~Asks(d, "mppe") \/ refused)]

-----------------------------------------------------------------------------

(***************************************************************************)
(* Two PPP peers negotiate the options of one control protocol (LCP, IPCP, *)
(* IPV6CP or CCP): the automaton of fsm.c with the option callbacks of the *)
(* protocol at each end of a line that may lose, repeat or, when Reorder,  *)
(* reorder packets.  A case names the protocol and the configuration of    *)
(* the peers.  What a protocol does when it comes up or goes down beyond   *)
(* its options is the subject of PppLink.                                  *)
(***************************************************************************)

CONSTANTS
    NEG_CASES,           \* [proto, cfg: peer -> [wo, ao, set, silent, maxnak]]
    RND,                 \* what magic() may draw
    NEG_ID_MOD, NEG_CONF_REQ, NEG_TERM,
    LOOPBACKFAIL,        \* settings.lcp_loopbackfail
    Reorder,
    MaxNegFaults         \* bound on faults of the line, lack of memory and closes, together

VARIABLES
    peer,                \* the two ends
    wire,                \* packets on their way to each end
    neg,                 \* the case being run
    negFaults            \* [wire, mem, closes]: faults and closes so far

negVars == <<peer, wire, neg, negFaults>>

ENDS == {"a", "b"}

NEGOTIATING == {"REQSENT", "ACKRCVD", "ACKSENT"}

Other(e) == IF e = "a" THEN "b" ELSE "a"

(* The functions of the automaton, by name; its callbacks may close it. *)
RECURSIVE NegotiationCall(_, _, _, _)

(* lcp_close, ipcp_close or ipv6cp_close.  For CCP it is lcp_close that is *)
(* called, whose effect on CCP is ccp_lowerdown and ccp_close.             *)
NegotiationClose(P, x) ==
    IF x = "CCP"
    THEN IF P.lcpup
         THEN NegotiationCall(NegotiationCall([P EXCEPT !.lcpup = FALSE], x, "fsm_lowerdown", "none"),
                              x, "fsm_close", "none")
         ELSE P
    ELSE NegotiationCall(P, x, "fsm_close", "none")

CloseIf(close, P, x) == IF close THEN NegotiationClose(P, x) ELSE P

negResetci(P, x) ==
    LET Lcp(R) == [P EXCEPT !.wo = R.wo, !.ao = R.ao, !.go = R.go, !.numloops = 0]
        Ipcp(R) == [P EXCEPT !.wo = R.wo, !.go = R.go, !.ho = R.ho]
        Ipv6cp(R) == [P EXCEPT !.wo = R.wo, !.go = R.go]
        Ccp(R) == CloseIf(R.close, [P EXCEPT !.wo = R.wo, !.ao = R.ao, !.go = R.go,
                                             !.all_rejected = FALSE], x)
    IN CASE x = "LCP" -> Lcp(lcp_resetci(P.wo, P.ao, P.set, P.rnd))
         [] x = "IPCP" -> Ipcp(ipcp_resetci(P.wo, P.ao, P.set))
         [] x = "IPV6CP" -> Ipv6cp(ipv6cp_resetci(P.wo, P.ao, P.set, P.rnd))
         [] OTHER -> Ccp(ccp_resetci(P.wo, P.ao, P.set))

(* Of the cilen callbacks only IPCP's changes the options. *)
negCilen(P, x) == IF x = "IPCP" THEN [P EXCEPT !.go = ipcp_cilen(@, P.wo, P.ho)] ELSE P

negAddci(P, x) ==
    CASE x = "LCP" -> lcp_addci(P.go)
      [] x = "IPCP" -> ipcp_addci(P.go)
      [] x = "IPV6CP" -> ipv6cp_addci(P.go)
      [] OTHER -> ccp_addci(P.go)

negAckci(P, x, d) ==
    CASE x = "LCP" -> lcp_ackci(P.go, d)
      [] x = "IPCP" -> ipcp_ackci(P.go, d)
      [] x = "IPV6CP" -> ipv6cp_ackci(P.go, d)
      [] OTHER -> ccp_ackci(P.go, d)

(* The options tried next become the options wanted, unless the protocol   *)
(* is open; bad packets change nothing.                                    *)
NegCommit(P, x, R) ==
    CASE R.bad -> [P |-> P, ret |-> 0]
      [] P.f[x].state = "OPENED" -> [P |-> P, ret |-> 1]
      [] OTHER -> [P |-> [P EXCEPT !.go = R.go], ret |-> 1]

(* A Nak of the magic number means we may be talking to ourselves. *)
LcpNaked(P, x, R) ==
    LET loops == IF R.looped_back THEN P.numloops + 1 ELSE 0
    IN IF R.bad \/ P.f[x].state = "OPENED" THEN [P |-> P, ret |-> IF R.bad THEN 0 ELSE 1]
       ELSE [P |-> [CloseIf(R.looped_back /\ loops >= LOOPBACKFAIL, P, x) EXCEPT
                       !.go = R.go, !.numloops = loops], ret |-> 1]

negNakci(P, x, d, treat) ==
    LET Ccp(R, Q) == [P |-> IF Q.f[x].state = "OPENED" THEN Q ELSE [Q EXCEPT !.go = R.go], ret |-> 1]
        Closed(R) == Ccp(R, CloseIf(R.close, P, x))
    IN CASE x = "LCP" -> LcpNaked(P, x, lcp_nakci(P.go, P.wo, d, P.rnd))
         [] x = "IPCP" -> NegCommit(P, x, ipcp_nakci(P.go, d, treat))
         [] x = "IPV6CP" -> NegCommit(P, x, ipv6cp_nakci(P.go, d, treat, P.rnd))
         [] OTHER -> Closed(ccp_nakci(P.go, P.set, d))

negRejci(P, x, d) ==
    LET Ccp(R) == [P |-> CloseIf(R.close, P, x), ret |-> R.ret]
    IN CASE x = "LCP" -> NegCommit(P, x, lcp_rejci(P.go, d))
         [] x = "IPCP" -> NegCommit(P, x, ipcp_rejci(P.go, d))
         [] x = "IPV6CP" -> NegCommit(P, x, ipv6cp_rejci(P.go, d))
         [] OTHER -> Ccp(ccp_rejci(P.go, P.all_rejected, d))

negReqci(P, x, d, reject) ==
    LET Reply(R, Q) == [P |-> Q, code |-> R.code, data |-> R.data]
        Lcp(R) == Reply(R, [P EXCEPT !.ho = R.ho])
        Ipcp(R) == Reply(R, [P EXCEPT !.wo = R.wo, !.ho = R.ho])
        Ipv6cp(R) == Reply(R, [P EXCEPT !.go = R.go, !.wo = R.wo, !.ho = R.ho])
        Ccp(R) == Reply(R, CloseIf(R.close, [P EXCEPT !.ho = R.ho, !.refused = @ \/ R.close,
                                                      !.all_rejected = @ \/ R.all_rejected], x))
    IN CASE x = "LCP" -> Lcp(lcp_reqci(P.go, P.ao, d, reject, P.rnd))
         [] x = "IPCP" -> Ipcp(ipcp_reqci(P.wo, P.ao, P.set, d, reject))
         [] x = "IPV6CP" -> Ipv6cp(ipv6cp_reqci(P.go, P.wo, P.ao, d, reject, P.rnd))
         [] OTHER -> Ccp(ccp_reqci(P.ao, P.set, d, reject))

(* ipcp_up and ipv6cp_up refuse to come up without two usable addresses.   *)
negUp(P, x) ==
    LET his == IF P.ho.neg \cap {"addr", "addrs"} = {} THEN P.wo.hisaddr ELSE P.ho.hisaddr
        refused == \/ /\ P.go.neg \cap {"addr", "addrs"} = {} /\ P.wo.ouraddr # 0
                      /\ P.wo.neg \cap {"addr", "addrs"} # {}
                   \/ P.go.ouraddr = 0
                   \/ his # 0 /\ P.set.auth_required /\ P.wo.hisaddr # his
        Q == [P EXCEPT !.ho.hisaddr = his]
        our == P.go.ourid
    IN CASE x = "IPCP" -> IF refused THEN NegotiationClose(Q, x)
                          ELSE [Q EXCEPT !.wo.ouraddr = P.go.ouraddr, !.up = TRUE]
         [] x = "IPV6CP" -> IF P.ho = 0 \/ our = 0 \/ P.ho = our THEN NegotiationClose(P, x)
                            ELSE [P EXCEPT !.up = TRUE]
         [] OTHER -> [P EXCEPT !.up = TRUE]

(* Losing MPPE takes LCP, and with it CCP, down. *)
negDown(P, x) ==
    LET Q == [P EXCEPT !.up = FALSE]
    IN IF x = "CCP" /\ P.go.mppe # {} THEN NegotiationClose([Q EXCEPT !.go.mppe = {}], x) ELSE Q

negStarting(P, x) == P

negFinished(P, x) == [P EXCEPT !.ended = TRUE]

negExtcode(P, x, m) == [P |-> P, known |-> FALSE]

NF == INSTANCE PppFsm WITH
        ID_MOD <- NEG_ID_MOD, MAX_CONF_REQ <- NEG_CONF_REQ, MAX_TERM <- NEG_TERM,
        resetci <- negResetci, cilen <- negCilen, addci <- negAddci, ackci <- negAckci, nakci <- negNakci,
        rejci <- negRejci, reqci <- negReqci, up <- negUp, down <- negDown,
        starting <- negStarting, finished <- negFinished, extcode <- negExtcode

NegotiationCall(P, x, function, m) ==
    CASE function = "close" -> NegotiationClose(P, x)
      [] function = "start" -> NegotiationCall(NegotiationCall(P, x, "fsm_lowerup", "none"),
                                               x, "fsm_open", "none")
      [] OTHER -> NF!Fsm(P, x, function, m)

-----------------------------------------------------------------------------
NewEnd(x, c) ==
    [f |-> x :> [state |-> "INITIAL", flags |-> IF c.silent THEN {"SILENT"} ELSE {}, id |-> 0,
                 reqid |-> 0, seen_ack |-> FALSE, retransmits |-> 0, nakloops |-> 0,
                 rnakloops |-> 0, maxnakloops |-> c.maxnak],
     timer |-> x :> 0, out |-> <<>>, mem |-> TRUE, rnd |-> 0, set |-> c.set,
     wo |-> c.wo, ao |-> c.ao, go |-> c.wo,
     ho |-> CASE x = "LCP" -> <<>> [] x = "IPCP" -> NoIpOptions [] x = "IPV6CP" -> 0 [] OTHER -> {},
     numloops |-> 0, all_rejected |-> FALSE, up |-> FALSE, ended |-> FALSE, lcpup |-> TRUE,
     refused |-> FALSE]      \* whether ccp_reqci closed LCP, for the properties

NegotiationInit ==
    /\ neg \in NEG_CASES
    /\ peer = [e \in ENDS |-> NewEnd(neg.proto, neg.cfg[e])]
    /\ wire = [e \in ENDS |-> <<>>]
    /\ negFaults = [wire |-> 0, mem |-> 0, closes |-> 0]

MayFail == negFaults.wire + negFaults.mem + negFaults.closes < MaxNegFaults

(* An event at one end, its state before it being E: what it writes goes   *)
(* on the line.                                                            *)
At(e, E, w, late, function, m) ==
    \E r \in RND, mem \in (IF MayFail THEN BOOLEAN ELSE {TRUE}) :
    \E P \in {NegotiationCall([E EXCEPT !.rnd = r, !.mem = mem], neg.proto, function, m)} :
       /\ peer' = [peer EXCEPT ![e] = [P EXCEPT !.out = <<>>, !.rnd = 0, !.mem = TRUE]]
       /\ wire' = [w EXCEPT ![Other(e)] = @ \o P.out]
       /\ negFaults' = [negFaults EXCEPT !.mem = IF mem THEN @ ELSE @ + 1, !.wire = @ + late]
       /\ UNCHANGED neg

(* The lower layer is up and the protocol is opened. *)
Start(e) ==
    /\ peer[e].f[neg.proto].state = "INITIAL" /\ ~peer[e].ended /\ peer[e].lcpup
    /\ At(e, peer[e], wire, 0, "start", "none")

RemoveAt1(s, i) == SubSeq(s, 1, i - 1) \o SubSeq(s, i + 1, Len(s))

(* Without LCP ppp_input drops what is for the protocols above it. *)
Receive(e) ==
    \E i \in 1 .. Len(wire[e]) :
       /\ Reorder \/ i = 1
       /\ \/ peer[e].lcpup /\ At(e, peer[e], [wire EXCEPT ![e] = RemoveAt1(@, i)], 0, "fsm_input", wire[e][i])
          \/ ~peer[e].lcpup /\ wire' = [wire EXCEPT ![e] = RemoveAt1(@, i)] /\ UNCHANGED <<peer, neg, negFaults>>

(* The timer fires once nothing is on the line, or early, which counts as  *)
(* a fault of the line.                                                    *)
NegotiationTimer(e) ==
    LET quiet == \A i \in ENDS : wire[i] = <<>>
    IN /\ peer[e].timer[neg.proto] > 0
       /\ quiet \/ MayFail
       /\ At(e, [peer[e] EXCEPT !.timer[neg.proto] = @ - 1], wire, IF quiet THEN 0 ELSE 1,
             "fsm_timeout", "none")

CloseEnd(e) ==
    /\ MayFail
    /\ peer[e].f[neg.proto].state \in NEGOTIATING \cup {"OPENED", "STOPPED"}
    /\ \E P \in {NegotiationCall(peer[e], neg.proto, "close", "none")} :
          /\ peer' = [peer EXCEPT ![e] = [P EXCEPT !.out = <<>>]]
          /\ wire' = [wire EXCEPT ![Other(e)] = @ \o P.out]
    /\ negFaults' = [negFaults EXCEPT !.closes = @ + 1]
    /\ UNCHANGED neg

(* The line loses or repeats a packet. *)
WireFault(e) ==
    /\ MayFail
    /\ wire[e] # <<>>
    /\ \/ wire' = [wire EXCEPT ![e] = Tail(@)]
       \/ wire' = [wire EXCEPT ![e] = <<Head(@)>> \o @]
    /\ negFaults' = [negFaults EXCEPT !.wire = @ + 1]
    /\ UNCHANGED <<peer, neg>>

NegotiationNext ==
    \E e \in ENDS : Start(e) \/ Receive(e) \/ NegotiationTimer(e) \/ CloseEnd(e) \/ WireFault(e)

NegotiationSpec == NegotiationInit /\ [][NegotiationNext]_negVars

-----------------------------------------------------------------------------
Opened(e) == peer[e].f[neg.proto].state = "OPENED"

(* What e was granted is what the other end recorded. *)
Recorded(e) ==
    LET asked == negAddci(peer[e], neg.proto)
        ho == peer[Other(e)].ho
    IN CASE neg.proto = "LCP" -> ho = asked
         [] neg.proto = "IPCP" ->
               /\ "addr" \in DOMAIN asked => ho.hisaddr = asked.addr
               /\ "vj" \in DOMAIN asked <=> "vj" \in ho.neg
               /\ "vj" \in DOMAIN asked /\ Len(asked.vj) = 3 =>
                     asked.vj = <<ho.vj_protocol, ho.maxslotindex, ho.cflag>>
         [] neg.proto = "IPV6CP" -> "ifaceid" \in DOMAIN asked => ho = asked.ifaceid
         [] OTHER -> ho = peer[e].go.mppe

(* Two open ends agree on every option: what one was granted the other     *)
(* recorded, through retransmissions, lost and repeated packets and        *)
(* renegotiation (fsm_rconfreq, fsm_rconfack and the *_reqci, *_ackci).    *)
OpenEndsAgree == (\A e \in ENDS : Opened(e)) => \A e \in ENDS : Recorded(e)

(* At most one fsm_timeout timer is pending, and one is pending exactly    *)
(* while a request or a terminate request is outstanding, except where the *)
(* request could not be sent for want of memory (fsm_sconfreq), and at a   *)
(* CCP that refused MPPE: ccp_reqci closes LCP, and CCP with it, and then  *)
(* fsm_rconfreq, to which it returns, leaves CCP in REQSENT without a      *)
(* timer (ccp.c:1379, fsm.c:446).                                          *)
OneTimerWhileWaiting ==
    \A e \in ENDS :
       LET n == peer[e].timer[neg.proto]
           waiting == peer[e].f[neg.proto].state \in NEGOTIATING \cup {"CLOSING", "STOPPING"}
       IN /\ n <= 1
          /\ n = 1 => waiting
          /\ waiting /\ negFaults.mem = 0 /\ ~peer[e].refused => n = 1
==============================================================================
