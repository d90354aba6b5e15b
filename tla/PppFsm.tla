------------------------------- MODULE PppFsm -------------------------------
(***************************************************************************)
(* The automaton of netif/ppp/fsm.c that LCP, IPCP, IPV6CP and CCP share.  *)
(* An operator maps the state P of a PPP interface to its state after the  *)
(* call.  Of P this module uses: P.f[x], the fsm of protocol x; P.timer[x],*)
(* how many fsm_timeout timers are pending for it (sys_untimeout removes   *)
(* one); P.out, the packets written; P.mem, whether pbuf_alloc succeeds    *)
(* during this event.  The callbacks of struct fsm_callbacks are the       *)
(* operator constants; a callback may call back into any fsm of P.         *)
(***************************************************************************)
EXTENDS Integers, Sequences

CONSTANTS
    ID_MOD,              \* identifiers are u_char: counted modulo ID_MOD
    MAX_CONF_REQ,        \* settings.fsm_max_conf_req_transmits
    MAX_TERM,            \* settings.fsm_max_term_transmits
    resetci(_, _), cilen(_, _), addci(_, _), ackci(_, _, _), nakci(_, _, _, _),
    rejci(_, _, _), reqci(_, _, _, _), up(_, _), down(_, _), starting(_, _),
    finished(_, _), extcode(_, _, _)

Negotiating == {"REQSENT", "ACKRCVD", "ACKSENT"}

StateOf(P, x) == P.f[x].state

Become(P, x, s) == [P EXCEPT !.f[x].state = s]

Timeout(P, x) == [P EXCEPT !.timer[x] = @ + 1]

Untimeout(P, x) == [P EXCEPT !.timer[x] = IF @ > 0 THEN @ - 1 ELSE 0]

(* The identifier ++f->id, and f->reqid = ++f->id. *)
NextId(P, x) == (P.f[x].id + 1) % ID_MOD

FreshReqid(P, x) == [P EXCEPT !.f[x].id = NextId(P, x), !.f[x].reqid = NextId(P, x)]

fsm_sdata(P, x, code, id, data) ==
    IF P.mem
    THEN [P EXCEPT !.out = Append(@, [proto |-> x, code |-> code, id |-> id, data |-> data])]
    ELSE P

(* When the buffer cannot be had the request is neither sent nor timed. *)
SendConfReq(P, x) ==
    IF ~P.mem THEN P
    ELSE Timeout([fsm_sdata(P, x, "CONFREQ", P.f[x].reqid, addci(P, x))
                     EXCEPT !.f[x].retransmits = @ - 1], x)

fsm_sconfreq(P, x, retransmit) ==
    LET Anew == IF StateOf(P, x) \in Negotiating THEN P
                ELSE [resetci(P, x) EXCEPT !.f[x].nakloops = 0, !.f[x].rnakloops = 0]
        Counted(Q) == IF retransmit THEN Q
                      ELSE [FreshReqid(Q, x) EXCEPT !.f[x].retransmits = MAX_CONF_REQ]
    IN SendConfReq(cilen([Counted(Anew) EXCEPT !.f[x].seen_ack = FALSE], x), x)

Request(P, x) == Become(fsm_sconfreq(P, x, FALSE), x, "REQSENT")

fsm_lowerup(P, x) ==
    CASE StateOf(P, x) = "INITIAL" -> Become(P, x, "CLOSED")
      [] StateOf(P, x) = "STARTING" ->
            IF "SILENT" \in P.f[x].flags THEN Become(P, x, "STOPPED") ELSE Request(P, x)
      [] OTHER -> P
\* Faulty variant: the timeout stays pending when the lower layer goes down.
LowerDownKeepsTimer(P, x) ==
    CASE StateOf(P, x) = "CLOSED" -> Become(P, x, "INITIAL")
      [] StateOf(P, x) = "STOPPED" -> starting(Become(P, x, "STARTING"), x)
      [] StateOf(P, x) = "CLOSING" -> Become(P, x, "INITIAL")
      [] StateOf(P, x) \in {"STOPPING"} \cup Negotiating -> Become(P, x, "STARTING")
      [] StateOf(P, x) = "OPENED" -> Become(down(P, x), x, "STARTING")
      [] OTHER -> P

fsm_lowerdown(P, x) ==
    CASE StateOf(P, x) = "CLOSED" -> Become(P, x, "INITIAL")
      [] StateOf(P, x) = "STOPPED" -> starting(Become(P, x, "STARTING"), x)
      [] StateOf(P, x) = "CLOSING" -> Untimeout(Become(P, x, "INITIAL"), x)
      [] StateOf(P, x) \in {"STOPPING"} \cup Negotiating -> Untimeout(Become(P, x, "STARTING"), x)
      [] StateOf(P, x) = "OPENED" -> Become(down(P, x), x, "STARTING")
      [] OTHER -> P

Restart(P, x) ==
    IF "RESTART" \in P.f[x].flags THEN fsm_lowerup(fsm_lowerdown(P, x), x) ELSE P

fsm_open(P, x) ==
    CASE StateOf(P, x) = "INITIAL" -> starting(Become(P, x, "STARTING"), x)
      [] StateOf(P, x) = "CLOSED" ->
            IF "SILENT" \in P.f[x].flags THEN Become(P, x, "STOPPED") ELSE Request(P, x)
      [] StateOf(P, x) = "CLOSING" -> Restart(Become(P, x, "STOPPING"), x)
      [] StateOf(P, x) \in {"STOPPED", "OPENED"} -> Restart(P, x)
      [] OTHER -> P

Ended(state) == IF state = "CLOSING" THEN "CLOSED" ELSE "STOPPED"

SendTermReq(P, x) ==
    fsm_sdata(FreshReqid(P, x), x, "TERMREQ", NextId(P, x), {})

TermReqSent(P, x, nextstate) ==
    IF MAX_TERM = 0 THEN finished(Become(P, x, Ended(nextstate)), x)
    ELSE Become(Timeout([P EXCEPT !.f[x].retransmits = @ - 1], x), x, nextstate)

terminate_layer(P, x, nextstate) ==
    LET Lowered == IF StateOf(P, x) = "OPENED" THEN down(P, x) ELSE Untimeout(P, x)
    IN TermReqSent(SendTermReq([Lowered EXCEPT !.f[x].retransmits = MAX_TERM], x), x, nextstate)

fsm_close(P, x) ==
    CASE StateOf(P, x) = "STARTING" -> Become(P, x, "INITIAL")
      [] StateOf(P, x) = "STOPPED" -> Become(P, x, "CLOSED")
      [] StateOf(P, x) = "STOPPING" -> Become(P, x, "CLOSING")
      [] StateOf(P, x) \in {"OPENED"} \cup Negotiating -> terminate_layer(P, x, "CLOSING")
      [] OTHER -> P

Unacked(P, x) == IF StateOf(P, x) = "ACKRCVD" THEN Become(P, x, "REQSENT") ELSE P

(* Called with the timer that fired already taken off the list. *)
fsm_timeout(P, x) ==
    CASE StateOf(P, x) \in {"CLOSING", "STOPPING"} ->
            IF P.f[x].retransmits <= 0
            THEN finished(Become(P, x, Ended(StateOf(P, x))), x)
            ELSE Timeout([SendTermReq(P, x) EXCEPT !.f[x].retransmits = @ - 1], x)
      [] StateOf(P, x) \in Negotiating ->
            IF P.f[x].retransmits <= 0
            THEN LET S == Become(P, x, "STOPPED")
                 IN IF "PASSIVE" \in P.f[x].flags THEN S ELSE finished(S, x)
            ELSE Unacked(fsm_sconfreq(P, x, TRUE), x)
      [] OTHER -> P

(* The state after our answer to a request has been sent. *)
Answered(P, x, code) ==
    LET Acked == IF StateOf(P, x) = "ACKRCVD" THEN up(Become(Untimeout(P, x), x, "OPENED"), x)
                 ELSE Become(P, x, "ACKSENT")
        Refused == IF StateOf(P, x) = "ACKRCVD" THEN P ELSE Become(P, x, "REQSENT")
    IN CASE code = "CONFACK" -> [Acked EXCEPT !.f[x].nakloops = 0]
         [] code = "CONFNAK" -> [Refused EXCEPT !.f[x].nakloops = @ + 1]
         [] OTHER -> Refused

AnswerWith(R, x, id) == Answered(fsm_sdata(R.P, x, R.code, id, R.data), x, R.code)

AnswerRequest(P, x, id, opts) ==
    AnswerWith(reqci(P, x, opts, P.f[x].nakloops >= P.f[x].maxnakloops), x, id)

fsm_rconfreq(P, x, id, opts) ==
    CASE StateOf(P, x) = "CLOSED" -> fsm_sdata(P, x, "TERMACK", id, {})
      [] StateOf(P, x) \in {"CLOSING", "STOPPING"} -> P
      [] OTHER -> AnswerRequest(CASE StateOf(P, x) = "OPENED" -> Request(down(P, x), x)
                                  [] StateOf(P, x) = "STOPPED" -> Request(P, x)
                                  [] OTHER -> P, x, id, opts)

Answers(P, x, id) == id = P.f[x].reqid /\ ~P.f[x].seen_ack

fsm_rconfack(P, x, id, opts) ==
    LET Q == [P EXCEPT !.f[x].seen_ack = TRUE, !.f[x].rnakloops = 0]
        Full == [Q EXCEPT !.f[x].retransmits = MAX_CONF_REQ]
    IN IF ~Answers(P, x, id) \/ ~ackci(P, x, opts) THEN P
       ELSE CASE StateOf(P, x) \in {"CLOSED", "STOPPED"} -> fsm_sdata(Q, x, "TERMACK", id, {})
              [] StateOf(P, x) = "REQSENT" -> Become(Full, x, "ACKRCVD")
              [] StateOf(P, x) = "ACKRCVD" -> Request(Untimeout(Q, x), x)
              [] StateOf(P, x) = "ACKSENT" -> up(Become(Untimeout(Full, x), x, "OPENED"), x)
              [] StateOf(P, x) = "OPENED" -> Request(down(Q, x), x)
              [] OTHER -> Q

NakTaken(P, x, ret, id) ==
    CASE StateOf(P, x) \in {"CLOSED", "STOPPED"} -> fsm_sdata(P, x, "TERMACK", id, {})
      [] StateOf(P, x) \in {"REQSENT", "ACKSENT"} ->
            IF ret < 0 THEN Become(Untimeout(P, x), x, "STOPPED")
            ELSE fsm_sconfreq(Untimeout(P, x), x, FALSE)
      [] StateOf(P, x) = "ACKRCVD" -> Request(Untimeout(P, x), x)
      [] StateOf(P, x) = "OPENED" -> Request(down(P, x), x)
      [] OTHER -> P

TakeNak(R, x, id) ==
    IF R.ret = 0 THEN R.P ELSE NakTaken([R.P EXCEPT !.f[x].seen_ack = TRUE], x, R.ret, id)

fsm_rconfnakrej(P, x, code, id, opts) ==
    LET n == P.f[x].rnakloops + 1
    IN IF ~Answers(P, x, id) THEN P
       ELSE TakeNak(IF code = "CONFNAK"
                    THEN nakci([P EXCEPT !.f[x].rnakloops = n], x, opts, n >= P.f[x].maxnakloops)
                    ELSE rejci([P EXCEPT !.f[x].rnakloops = 0], x, opts), x, id)

fsm_rtermreq(P, x, id) ==
    LET Q == CASE StateOf(P, x) \in {"ACKRCVD", "ACKSENT"} -> Become(P, x, "REQSENT")
               [] StateOf(P, x) = "OPENED" ->
                     Timeout(down([Become(P, x, "STOPPING") EXCEPT !.f[x].retransmits = 0], x), x)
               [] OTHER -> P
    IN fsm_sdata(Q, x, "TERMACK", id, {})

fsm_rtermack(P, x) ==
    CASE StateOf(P, x) \in {"CLOSING", "STOPPING"} ->
            finished(Become(Untimeout(P, x), x, Ended(StateOf(P, x))), x)
      [] StateOf(P, x) = "ACKRCVD" -> Become(P, x, "REQSENT")
      [] StateOf(P, x) = "OPENED" -> Request(down(P, x), x)
      [] OTHER -> P

fsm_rcoderej(P, x) ==
    IF StateOf(P, x) = "ACKRCVD" THEN Become(P, x, "REQSENT") ELSE P

fsm_protreject(P, x) ==
    CASE StateOf(P, x) = "CLOSING" -> finished(Become(Untimeout(P, x), x, "CLOSED"), x)
      [] StateOf(P, x) = "CLOSED" -> finished(P, x)
      [] StateOf(P, x) \in {"STOPPING"} \cup Negotiating ->
            finished(Become(Untimeout(P, x), x, "STOPPED"), x)
      [] StateOf(P, x) = "STOPPED" -> finished(P, x)
      [] StateOf(P, x) = "OPENED" -> terminate_layer(P, x, "STOPPING")
      [] OTHER -> P

(* A code that is none of these goes to the protocol, which may not know it. *)
OtherCode(P, x, m) ==
    LET Known(R) == IF R.known THEN R.P
                    ELSE fsm_sdata([P EXCEPT !.f[x].id = NextId(P, x)], x, "CODEREJ", NextId(P, x), {})
    IN Known(extcode(P, x, m))

fsm_input(P, x, m) ==
    CASE StateOf(P, x) \in {"INITIAL", "STARTING"} -> P
      [] m.code = "CONFREQ" -> fsm_rconfreq(P, x, m.id, m.data)
      [] m.code = "CONFACK" -> fsm_rconfack(P, x, m.id, m.data)
      [] m.code \in {"CONFNAK", "CONFREJ"} -> fsm_rconfnakrej(P, x, m.code, m.id, m.data)
      [] m.code = "TERMREQ" -> fsm_rtermreq(P, x, m.id)
      [] m.code = "TERMACK" -> fsm_rtermack(P, x)
      [] m.code = "CODEREJ" -> fsm_rcoderej(P, x)
      [] OTHER -> OtherCode(P, x, m)

(* The functions that the protocols call, by name. *)
Fsm(P, x, function, m) ==
    CASE function = "fsm_open" -> fsm_open(P, x)
      [] function = "fsm_close" -> fsm_close(P, x)
      [] function = "fsm_lowerup" -> fsm_lowerup(P, x)
      [] function = "fsm_lowerdown" -> fsm_lowerdown(P, x)
      [] function = "fsm_protreject" -> fsm_protreject(P, x)
      [] function = "fsm_timeout" -> fsm_timeout(P, x)
      [] function = "fsm_input" -> fsm_input(P, x, m)
=============================================================================
