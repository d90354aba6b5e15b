------------------------------ MODULE PppAuth ------------------------------
(***************************************************************************)
(* The authentication protocols of netif/ppp: PAP (upap.c), CHAP           *)
(* (chap-new.c) and EAP (eap.c, without SRP).  An operator maps the state  *)
(* P of a PPP interface to its state after the call.  Of P this module     *)
(* uses P.pap, P.chap and P.eap, the client and the server machine of each *)
(* protocol (c and s, with the transmissions made); P.timer, how many      *)
(* timers of each kind are pending; P.mem, whether pbuf_alloc succeeds     *)
(* during this event; and P.ok, whether the secret in the packet verifies. *)
(* The functions of auth.c that a result is reported to are the operator   *)
(* constants; they may close the link, and with it these machines.         *)
(***************************************************************************)
EXTENDS Integers, FiniteSets

CONSTANTS
    AUTH_MAX,            \* pap_max_transmits, chap_max_transmits, eap_max_transmits
    EAP_ALLOW,           \* settings.eap_allow_req
    RECHALLENGE,         \* chap_rechallenge_time and eap_rechallenge are set
    auth_peer_fail(_), auth_peer_success(_, _),
    auth_withpeer_fail(_), auth_withpeer_success(_, _)

Arm(P, t) == [P EXCEPT !.timer[t] = @ + 1]

Disarm(P, t) == [P EXCEPT !.timer[t] = IF @ > 0 THEN @ - 1 ELSE 0]

-----------------------------------------------------------------------------
(* PAP *)

(* Without a buffer the request is neither sent nor timed. *)
upap_sauthreq(P) ==
    IF ~P.mem THEN P
    ELSE Arm([P EXCEPT !.pap.transmits = @ + 1, !.pap.c = "AUTHREQ"], "pap")

PapListen(P) == Arm([P EXCEPT !.pap.s = "LISTEN"], "papreq")

upap_authwithpeer(P) ==
    LET Q == [P EXCEPT !.pap.transmits = 0]
    IN IF P.pap.c \in {"INITIAL", "PENDING"} THEN [Q EXCEPT !.pap.c = "PENDING"]
       ELSE upap_sauthreq(Q)

upap_authpeer(P) ==
    IF P.pap.s \in {"INITIAL", "PENDING"} THEN [P EXCEPT !.pap.s = "PENDING"] ELSE PapListen(P)

upap_timeout(P) ==
    IF P.pap.c # "AUTHREQ" THEN P
    ELSE IF P.pap.transmits >= AUTH_MAX THEN auth_withpeer_fail([P EXCEPT !.pap.c = "BADAUTH"])
    ELSE upap_sauthreq(P)

upap_reqtimeout(P) ==
    IF P.pap.s # "LISTEN" THEN P ELSE [auth_peer_fail(P) EXCEPT !.pap.s = "BADAUTH"]

upap_lowerup(P) ==
    LET C == CASE P.pap.c = "INITIAL" -> [P EXCEPT !.pap.c = "CLOSED"]
               [] P.pap.c = "PENDING" -> upap_sauthreq(P)
               [] OTHER -> P
    IN CASE C.pap.s = "INITIAL" -> [C EXCEPT !.pap.s = "CLOSED"]
         [] C.pap.s = "PENDING" -> PapListen(C)
         [] OTHER -> C

upap_lowerdown(P) ==
    LET C == IF P.pap.c = "AUTHREQ" THEN Disarm(P, "pap") ELSE P
        S == IF P.pap.s = "LISTEN" THEN Disarm(C, "papreq") ELSE C
    IN [S EXCEPT !.pap.c = "INITIAL", !.pap.s = "INITIAL"]

upap_protrej(P) ==
    LET C == IF P.pap.c = "AUTHREQ" THEN auth_withpeer_fail(P) ELSE P
        S == IF C.pap.s = "LISTEN" THEN auth_peer_fail(C) ELSE C
    IN upap_lowerdown(S)

(* The answer to a request is remembered, so that a repeated one is        *)
(* answered alike.                                                         *)
upap_rauthreq(P) ==
    LET R == IF P.ok THEN auth_peer_success([P EXCEPT !.pap.s = "OPEN"], "PAP")
             ELSE auth_peer_fail([P EXCEPT !.pap.s = "BADAUTH"])
    IN IF P.pap.s = "LISTEN" THEN Disarm(R, "papreq") ELSE P

upap_rauthack(P) ==
    IF P.pap.c # "AUTHREQ" THEN P
    ELSE auth_withpeer_success(Disarm([P EXCEPT !.pap.c = "OPEN"], "pap"), "PAP")

upap_rauthnak(P) ==
    IF P.pap.c # "AUTHREQ" THEN P
    ELSE auth_withpeer_fail(Disarm([P EXCEPT !.pap.c = "BADAUTH"], "pap"))

upap_input(P, code) ==
    CASE code = "AUTHREQ" -> upap_rauthreq(P)
      [] code = "AUTHACK" -> upap_rauthack(P)
      [] code = "AUTHNAK" -> upap_rauthnak(P)
      [] OTHER -> P

-----------------------------------------------------------------------------
(* CHAP: the client and the server are sets of flags *)

SetS(P, flags) == [P EXCEPT !.chap.s = @ \cup flags]

ClearS(P, flags) == [P EXCEPT !.chap.s = @ \ flags]

StopChallenge(P) ==
    IF "TIMEOUT_PENDING" \in P.chap.s THEN ClearS(Disarm(P, "chap"), {"TIMEOUT_PENDING"}) ELSE P

chap_timeout(P) ==
    LET Q == ClearS(P, {"TIMEOUT_PENDING"})
        valid == "CHALLENGE_VALID" \in P.chap.s
        R == IF valid THEN Q ELSE SetS([Q EXCEPT !.chap.transmits = 0], {"CHALLENGE_VALID"})
    IN IF valid /\ P.chap.transmits >= AUTH_MAX
       THEN auth_peer_fail(SetS(ClearS(Q, {"CHALLENGE_VALID"}), {"AUTH_DONE", "AUTH_FAILED"}))
       ELSE IF ~P.mem THEN R
       ELSE Arm(SetS([R EXCEPT !.chap.transmits = @ + 1], {"TIMEOUT_PENDING"}), "chap")

chap_lowerup(P) ==
    LET Q == SetS([P EXCEPT !.chap.c = @ \cup {"LOWERUP"}], {"LOWERUP"})
    IN IF "AUTH_STARTED" \in P.chap.s THEN chap_timeout(Q) ELSE Q

chap_lowerdown(P) == [StopChallenge(P) EXCEPT !.chap.c = {}, !.chap.s = {}]

chap_auth_peer(P) ==
    IF "AUTH_STARTED" \in P.chap.s THEN P
    ELSE LET Q == SetS(P, {"AUTH_STARTED"})
         IN IF "LOWERUP" \in P.chap.s THEN chap_timeout(Q) ELSE Q

chap_auth_with_peer(P) == [P EXCEPT !.chap.c = @ \cup {"AUTH_STARTED"}]

(* The verdict on a response to the challenge in force, sent and reported. *)
(* A later response that repeats its identifier gets the same answer.      *)
ChapVerdict(P) ==
    LET Q == ClearS(P, {"CHALLENGE_VALID"})
        S == IF "AUTH_DONE" \in Q.chap.s THEN Q ELSE auth_peer_success(Q, "CHAP")
        R == IF RECHALLENGE THEN Arm(SetS(S, {"TIMEOUT_PENDING"}), "chap") ELSE S
        D == IF "AUTH_FAILED" \in Q.chap.s THEN auth_peer_fail(Q) ELSE R
    IN IF "CHALLENGE_VALID" \notin P.chap.s THEN P ELSE SetS(D, {"AUTH_DONE"})

chap_handle_response(P, match) ==
    LET Q == StopChallenge(P)
        V == IF P.ok THEN Q ELSE SetS(Q, {"AUTH_FAILED"})
    IN CASE "LOWERUP" \notin P.chap.s \/ ~match -> P
         [] "CHALLENGE_VALID" \in P.chap.s -> IF P.mem THEN ChapVerdict(V) ELSE V
         [] OTHER -> P

chap_handle_status(P, success) ==
    LET Q == [P EXCEPT !.chap.c = @ \cup {"AUTH_DONE"}]
    IN IF "AUTH_DONE" \in P.chap.c \/ ~({"AUTH_STARTED", "LOWERUP"} \subseteq P.chap.c) THEN P
       ELSE IF success THEN auth_withpeer_success(Q, "CHAP")
       ELSE auth_withpeer_fail([Q EXCEPT !.chap.c = @ \cup {"AUTH_FAILED"}])

(* A challenge is answered (chap_respond) without a change of state. *)
chap_input(P, code, match) ==
    CASE code = "RESPONSE" -> chap_handle_response(P, match)
      [] code \in {"SUCCESS", "FAILURE"} -> chap_handle_status(P, code = "SUCCESS")
      [] OTHER -> P

chap_protrej(P) ==
    LET Q == StopChallenge(P)
        S == IF "AUTH_STARTED" \in Q.chap.s THEN auth_peer_fail([Q EXCEPT !.chap.s = {}]) ELSE Q
    IN IF "AUTH_STARTED" \in S.chap.c /\ "AUTH_DONE" \notin S.chap.c
       THEN auth_withpeer_fail([S EXCEPT !.chap.c = @ \ {"AUTH_STARTED"}]) ELSE S

-----------------------------------------------------------------------------
(* EAP *)

EapInitial == [c |-> "Initial", s |-> "Initial", creq |-> 0, sreq |-> 0]

ServerActive(P) == P.eap.s \in {"Identify", "MD5Chall"}

eap_send_failure(P) ==
    IF P.mem THEN auth_peer_fail([P EXCEPT !.eap.s = "BadAuth"]) ELSE P

eap_send_success(P) == IF P.mem THEN auth_peer_success(P, "EAP") ELSE P

eap_figure_next_state(P, status) ==
    LET next == CASE P.eap.s = "Identify" -> "MD5Chall"
                  [] P.eap.s = "MD5Chall" /\ status = 0 -> "Open"
                  [] OTHER -> "BadAuth"
        Q == [P EXCEPT !.eap.s = next]
    IN CASE P.eap.s = "BadAuth" -> P
         [] next = "BadAuth" -> eap_send_failure(Q)
         [] OTHER -> Q

(* The branch for any other state sends nothing and starts no timer. *)
eap_send_request(P) ==
    LET Q == IF P.eap.s \in {"Pending", "Closed", "Listen"}
             THEN [P EXCEPT !.eap.s = "Identify"] ELSE P
    IN IF Q.eap.sreq >= AUTH_MAX THEN eap_send_failure(Q)
       ELSE IF ~Q.mem \/ ~ServerActive(Q) THEN Q
       ELSE Arm([Q EXCEPT !.eap.sreq = @ + 1], "eaps")

eap_authpeer(P) ==
    IF P.eap.s \in {"Initial", "Pending"} THEN [P EXCEPT !.eap.s = "Pending"]
    ELSE eap_send_request([P EXCEPT !.eap.s = "Pending"])

eap_server_timeout(P) == IF ServerActive(P) THEN eap_send_request(P) ELSE P

eap_rechallenge(P) ==
    IF P.eap.s # "Open" THEN P
    ELSE eap_send_request([P EXCEPT !.eap.sreq = 0, !.eap.s = "MD5Chall"])

eap_authwithpeer(P) == Arm([P EXCEPT !.eap.c = "Listen"], "eapc")

eap_client_timeout(P) ==
    IF P.eap.c = "Listen" THEN [auth_withpeer_fail(P) EXCEPT !.eap.c = "BadAuth"] ELSE P

eap_lowerup(P) == [P EXCEPT !.eap.c = "Closed", !.eap.s = "Closed"]

eap_lowerdown(P) ==
    LET C == IF P.eap.c = "Listen" THEN Disarm(P, "eapc") ELSE P
        S == CASE ServerActive(P) -> Disarm(C, "eaps")
               [] P.eap.s = "Open" /\ RECHALLENGE -> Disarm(C, "eapre")
               [] OTHER -> C
    IN [S EXCEPT !.eap = EapInitial]

eap_protrej(P) ==
    LET C == IF P.eap.c = "Listen" THEN auth_withpeer_fail(P) ELSE P
    IN eap_lowerdown(IF ServerActive(C) THEN auth_peer_fail(C) ELSE C)

(* A request is answered and restarts the client's timer, also after the   *)
(* exchange has ended.                                                     *)
eap_request(P) ==
    LET Q == [P EXCEPT !.eap.creq = @ + 1]
    IN CASE P.eap.c \in {"Initial", "Pending", "Closed"} -> P
         [] Q.eap.creq > EAP_ALLOW -> auth_withpeer_fail(Disarm(Q, "eapc"))
         [] OTHER -> Arm(Disarm(Q, "eapc"), "eapc")

(* type: IDENTITY, NAKMD5 (the peer proposes MD5 or SRP), NAKOTHER or       *)
(* MD5CHAP.                                                                *)
EapAnswer(P, type) ==
    LET S == eap_figure_next_state(eap_send_success(P), 0)
    IN CASE type = "IDENTITY" ->
              IF P.eap.s = "Identify" THEN eap_figure_next_state(P, 0) ELSE P
         [] type \in {"NAKMD5", "NAKOTHER"} ->
              IF P.eap.s = "Identify" THEN eap_figure_next_state(P, 1)
              ELSE IF type = "NAKMD5" THEN [P EXCEPT !.eap.s = "MD5Chall"] ELSE P
         [] P.eap.s # "MD5Chall" -> eap_figure_next_state(P, 1)
         [] ~P.ok -> eap_send_failure(P)
         [] OTHER -> IF RECHALLENGE THEN Arm(S, "eapre") ELSE S

eap_response(P, type, match) ==
    LET Q == Disarm(EapAnswer(P, type), "eaps")
    IN IF P.eap.s \in {"Initial", "Pending", "Closed"} \/ ~match THEN P
       ELSE IF Q.eap.s \in {"BadAuth", "Open"} THEN Q ELSE eap_send_request(Q)

eap_success(P) ==
    IF P.eap.c \notin {"Listen", "Open"} THEN P
    ELSE auth_withpeer_success(Disarm([P EXCEPT !.eap.c = "Open"], "eapc"), "EAP")

eap_failure(P) ==
    IF P.eap.c \in {"Initial", "Pending", "Closed"} THEN P
    ELSE auth_withpeer_fail(Disarm([P EXCEPT !.eap.c = "BadAuth"], "eapc"))

eap_input(P, code, match) ==
    CASE code = "REQUEST" -> eap_request(P)
      [] code = "SUCCESS" -> eap_success(P)
      [] code = "FAILURE" -> eap_failure(P)
      [] OTHER -> eap_response(P, code, match)
=============================================================================
