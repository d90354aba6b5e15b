------------------------------- MODULE Sockets -------------------------------
(***************************************************************************)
(* The application interfaces of lwIP: the sequential API (netconns), the  *)
(* socket layer over it, and the options of sockets.                       *)
(***************************************************************************)
EXTENDS Naturals, Sequences, FiniteSets, Integers, FiniteSetsExt

(***************************************************************************)
(* The sequential API of lwIP, src/api/api_msg.c and src/api/api_lib.c, for *)
(* TCP: a netconn couples application threads, which call netconn_xxx and   *)
(* may block, with the TCP control block (pcb) that the tcpip thread runs.   *)
(* LWIP_TCPIP_CORE_LOCKING: every lwip_netconn_do_xxx runs under the core   *)
(* lock, as do the callbacks of the pcb, so each is one step; waiting on     *)
(* op_completed and fetching from a mailbox happen outside the lock.        *)
(* The results of tcp_write, tcp_output, tcp_close, tcp_connect and          *)
(* tcp_listen are those their interfaces allow, chosen freely; data are      *)
(* numbered chunks on the way up and counted bytes on the way down.         *)
(* LWIP_NETCONN_FULLDUPLEX = 0: one thread at a time works on a netconn.    *)
(***************************************************************************)

CONSTANTS
    CONNS,           \* the netconns of MEMP_NETCONN
    NCTHREADS,         \* application threads
    RECVMBOX_SIZE, ACCEPTMBOX_SIZE,
    NETCONN_SND_BUF, TCP_SNDLOWAT,
    WriteSizes,      \* sizes the application writes
    POLLS,           \* polls_left of a close
    MaxChunks,       \* chunks the peer sends on one connection
    MaxNew,          \* netconns the application makes (at most, before others come)
    MaxConnections   \* netconns made in one behaviour, accepted ones included

VARIABLES
    conn,       \* [CONNS -> netconn]
    call,       \* [NCTHREADS -> the call a thread is executing]
    made        \* connections made so far

netconnVars == <<conn, call, made>>

NoThread == "NULL"
NoPcb == [st |-> "none"]
Invalid == [valid |-> FALSE, q |-> <<>>]
EmptyMbox == [valid |-> TRUE, q |-> <<>>]

\* One message of a mailbox: a chunk, an error marker or a new netconn.
Chunk(n) == <<"chunk", n>>
Marker(e) == <<"err", e>>
Newconn(c) == <<"conn", c>>

\* lwip_netconn_err_to_msg: only three errors have a marker.
lwip_netconn_err_to_msg(err) ==
    IF err \in {"ABRT", "RST", "CLSD"} THEN Marker(err) ELSE Marker("none")

sys_mbox_full(m, size) == Len(m.q) >= size
Posted(m, x) == [m EXCEPT !.q = Append(@, x)]

\* A free netconn, and one netconn_alloc has initialised.
FreeConn ==
    [used |-> FALSE, state |-> "NONE", pcb |-> NoPcb, pending_err |-> "OK",
     mboxclosed |-> FALSE, recvmbox |-> Invalid, acceptmbox |-> Invalid,
     current_msg |-> NoThread, nonblocking |-> FALSE, in_nonblocking_connect |-> FALSE,
     check_writespace |-> FALSE, fin_rx_pending |-> FALSE, sem |-> 0,
     sendevent |-> FALSE, got |-> 0, sentup |-> 0]
netconn_alloc == [FreeConn EXCEPT !.used = TRUE, !.recvmbox = EmptyMbox]

\* The control block as this layer sees it: its state, whether receiving is
\* shut, bytes in the send buffer, data and FIN it holds back because the
\* callback refused them, and the callbacks that are set.
NewTcpPcb == [st |-> "CLOSED", rxclosed |-> FALSE, snd |-> 0,
            refused |-> <<>>, fin |-> FALSE, arg |-> FALSE, cb |-> {}]

tcp_sndbuf(pcb) == NETCONN_SND_BUF - pcb.snd
Writable(pcb) == tcp_sndbuf(pcb) > TCP_SNDLOWAT
\* Faulty variant: the callback for errors is not registered.
SetupWithoutErr(c) == [c EXCEPT !.pcb.arg = TRUE, !.pcb.cb = @ \cup {"recv", "sent", "poll"}]

setup_tcp(c) ==
    [c EXCEPT !.pcb.arg = TRUE, !.pcb.cb = @ \cup {"recv", "sent", "poll", "err"}]

NoCall == [op |-> "idle", c |-> NoThread, pc |-> "none", err |-> "OK",
         len |-> 0, offset |-> 0, shut |-> {}, polls_left |-> 0, then |-> "none"]

NetconnInit ==
    /\ conn = [c \in CONNS |-> FreeConn]
    /\ call = [t \in NCTHREADS |-> NoCall]
    /\ made = 0

\* A pair of a netconn and the call whose message it works on.
Pair(c, t) == [c |-> conn[c], m |-> IF t = NoThread THEN NoCall ELSE call[t]]

\* netconn_err: reading the pending error clears it.
netconn_err(c) == [c EXCEPT !.pending_err = "OK"]

\* The end of an operation the netconn was working on: the message gets its
\* result and, when the thread waits for it (delayed), the semaphore is
\* signalled.
Complete(S, err, delayed) ==
    [c |-> [S.c EXCEPT !.current_msg = NoThread, !.state = "NONE",
                       !.sem = @ + (IF delayed THEN 1 ELSE 0)],
     m |-> [S.m EXCEPT !.err = err]]
-----------------------------------------------------------------------------
(* lwip_netconn_do_writemore: n bytes were accepted by tcp_write before it
   returned err, and tcp_output returned out. *)
WriteEvents(c, offset, len) ==
    IF c.nonblocking /\ offset < len
      THEN [c EXCEPT !.sendevent = FALSE, !.check_writespace = TRUE]
      ELSE IF ~Writable(c.pcb) THEN [c EXCEPT !.sendevent = FALSE] ELSE c

lwip_netconn_do_writemore(S, n, err, out, delayed) ==
    LET rest == S.m.len - S.m.offset
        room == tcp_sndbuf(S.c.pcb)
        taken == [c |-> [S.c EXCEPT !.pcb.snd = @ + n], m |-> [S.m EXCEPT !.offset = @ + n]]
        full == S.c.nonblocking /\ room = 0
        res == IF full THEN (IF S.m.offset = 0 THEN "WOULDBLOCK" ELSE "OK") ELSE err
        seen == IF res \in {"OK", "MEM"} \/ full
                  THEN [taken EXCEPT !.c = WriteEvents(@, taken.m.offset, S.m.len)] ELSE taken
        nb == S.c.nonblocking
    IN CASE res \in {"OK", "MEM"} /\ out = "RTE" -> Complete(seen, "RTE", delayed)
         [] res = "OK" /\ out # "RTE" /\ (taken.m.offset = S.m.len \/ nb) ->
              Complete(seen, "OK", delayed)
         [] res = "MEM" /\ out # "RTE" /\ nb ->
              Complete(seen, IF taken.m.offset = 0 THEN "WOULDBLOCK" ELSE "OK", delayed)
         [] res \notin {"OK", "MEM"} -> Complete(seen, res, delayed)
         [] OTHER -> seen

\* The results of tcp_write, with tcp_output's: all that fits, a part when it
\* runs out of memory between two vectors, nothing when the state forbids it.
WriteResults(S) ==
    LET room == tcp_sndbuf(S.c.pcb)
        rest == S.m.len - S.m.offset
        fit == IF room < rest THEN room ELSE rest
    IN IF S.c.pcb.st \notin {"ESTABLISHED", "CLOSE_WAIT", "SYN_SENT"} THEN {<<0, "CONN", "OK">>}
       ELSE IF S.c.nonblocking /\ room = 0 THEN {<<0, "OK", "OK">>}
       ELSE {<<fit, "OK">> \o <<out>> : out \in {"OK", "RTE"}}
            \cup {<<k, "MEM", "OK">> : k \in {j \in 0..fit : j < rest}}
WriteMore(S, delayed) ==
    {lwip_netconn_do_writemore(S, w[1], w[2], w[3], delayed) : w \in WriteResults(S)}
-----------------------------------------------------------------------------
(* lwip_netconn_do_close_internal. *)
ShutClose(S) ==
    \/ S.m.shut = {"RD", "WR"}
    \/ "RD" \in S.m.shut /\ S.c.pcb.st \in {"FIN_WAIT_1", "FIN_WAIT_2", "CLOSING"}
    \/ "WR" \in S.m.shut /\ S.c.pcb.rxclosed

\* The callbacks taken away before the pcb is closed or shut down.
Detach(S) ==
    LET gone == IF S.c.pcb.st = "LISTEN" THEN {"accept"}
                ELSE (IF "RD" \in S.m.shut THEN {"recv", "accept"} ELSE {})
                     \cup (IF "WR" \in S.m.shut THEN {"sent"} ELSE {})
                     \cup (IF ShutClose(S) THEN {"poll", "err"} ELSE {})
    IN [S EXCEPT !.c.pcb.cb = @ \ gone, !.c.pcb.arg = @ /\ ~ShutClose(S)]

\* Closing failed and is retried: some callbacks are restored.
Reattach(S) ==
    [S EXCEPT !.c.pcb.cb = @ \cup {"poll", "err"} \cup (IF "WR" \in S.m.shut THEN {"sent"} ELSE {}),
              !.c.pcb.arg = TRUE]

\* What tcp_shutdown leaves of the pcb.
ShutPcb(pcb, shut) ==
    LET rx == IF "RD" \in shut THEN [pcb EXCEPT !.rxclosed = TRUE, !.refused = <<>>] ELSE pcb
    IN IF "WR" \in shut
         THEN [rx EXCEPT !.st = IF @ = "ESTABLISHED" THEN "FIN_WAIT_1"
                                ELSE IF @ = "CLOSE_WAIT" THEN "LAST_ACK" ELSE @]
         ELSE rx

\* r is what tcp_close or tcp_shutdown returned.
lwip_netconn_do_close_internal(S, r, delayed) ==
    LET shut_close == ShutClose(S)
        D == Detach(S)
        giveup == r = "MEM" /\ S.m.polls_left = 0
        err == IF giveup /\ shut_close THEN "OK" ELSE r
        done == [D EXCEPT !.c.pcb = IF err # "OK" THEN @
                                    ELSE IF shut_close THEN NoPcb ELSE ShutPcb(@, S.m.shut),
                          !.c.sendevent = @ \/ (err = "OK" /\ "WR" \in S.m.shut)]
    IN IF r = "MEM" /\ ~giveup THEN Reattach(D) ELSE Complete(done, err, delayed)

\* What the TCP functions return.  Neither returns ERR_MEM in this version, a
\* FIN that cannot be queued is left to the timer (tcp_close_shutdown_fin), so
\* the retry above stays unused.
CloseResults(S) ==
    IF ShutClose(S) \/ S.m.shut = {"RD"} \/ S.c.pcb.st \in {"ESTABLISHED", "CLOSE_WAIT"}
      THEN {"OK"} ELSE {"CONN"}
CloseMore(S, delayed) ==
    {lwip_netconn_do_close_internal(S, r, delayed) : r \in CloseResults(S)}
-----------------------------------------------------------------------------
(* The callbacks TCP calls on the pcb of a netconn c, each after what TCP
   itself did to the pcb. *)
recv_tcp(c, m) ==
    IF ~c.recvmbox.valid THEN [ok |-> TRUE, c |-> c]
    ELSE IF sys_mbox_full(c.recvmbox, RECVMBOX_SIZE) THEN [ok |-> FALSE, c |-> c]
    ELSE [ok |-> TRUE, c |-> [c EXCEPT !.recvmbox = Posted(@, m)]]

\* Without a recv callback tcp_recv_null takes the data and drops them.
Deliver(c, m) ==
    IF "recv" \in c.pcb.cb /\ c.pcb.arg THEN recv_tcp(c, m) ELSE [ok |-> TRUE, c |-> c]

\* TCP hands up a chunk or the FIN, or holds it back when it is refused.
TcpData(cid) ==
    LET c == conn[cid] IN
    /\ c.pcb.st \in {"ESTABLISHED", "FIN_WAIT_1", "FIN_WAIT_2"} /\ ~c.pcb.fin /\ c.pcb.refused = <<>>
    /\ \/ /\ c.sentup < MaxChunks
          /\ LET u == [c EXCEPT !.sentup = @ + 1]
                 d == Deliver(u, Chunk(u.sentup))
             IN conn' = [conn EXCEPT ![cid] =
                            IF d.ok THEN d.c
                            ELSE [d.c EXCEPT !.pcb.refused = <<Chunk(u.sentup)>>]]
       \/ LET u == [c EXCEPT !.pcb.fin = TRUE, !.pcb.st = IF @ = "ESTABLISHED" THEN "CLOSE_WAIT"
                                                           ELSE "CLOSING"]
              d == Deliver(u, Marker("CLSD"))
          IN conn' = [conn EXCEPT ![cid] =
                         IF d.ok THEN d.c ELSE [d.c EXCEPT !.pcb.refused = <<Marker("CLSD")>>]]
    /\ UNCHANGED <<call, made>>

TcpRefused(cid) ==
    LET c == conn[cid] IN
    /\ c.pcb # NoPcb /\ c.pcb.st # "LISTEN" /\ c.pcb.refused # <<>>
    /\ LET d == Deliver(c, Head(c.pcb.refused))
       IN d.ok /\ conn' = [conn EXCEPT ![cid] = [d.c EXCEPT !.pcb.refused = <<>>]]
    /\ UNCHANGED <<call, made>>

\* Both poll_tcp and sent_tcp go on with the operation the netconn is in.
GoOn(S) ==
    CASE S.c.state = "WRITE" -> WriteMore(S, TRUE)
      [] S.c.state = "CLOSE" -> CloseMore(S, TRUE)
      [] OTHER -> {S}

\* Put a pair back; t is the thread whose message it was.
Commit(cid, t, S) ==
    /\ conn' = [conn EXCEPT ![cid] = S.c]
    /\ call' = IF t = NoThread THEN call ELSE [call EXCEPT ![t] = S.m]

SendPlus(c) == [c EXCEPT !.check_writespace = FALSE, !.sendevent = TRUE]

\* The peer acknowledged n bytes: sent_tcp.
sent_tcp(cid) ==
    /\ conn[cid].pcb # NoPcb /\ conn[cid].pcb.snd > 0 /\ "sent" \in conn[cid].pcb.cb
    /\ \E n \in 1..conn[cid].pcb.snd :
         LET t == conn[cid].current_msg
             S == [Pair(cid, t) EXCEPT !.c.pcb.snd = @ - n]
         IN \E T \in GoOn(S) :
              Commit(cid, t, IF T.c.pcb # NoPcb /\ Writable(T.c.pcb)
                             THEN [T EXCEPT !.c = SendPlus(@)] ELSE T)
    /\ UNCHANGED made

\* The slow timer: poll_tcp.
poll_tcp(cid) ==
    /\ conn[cid].pcb # NoPcb /\ "poll" \in conn[cid].pcb.cb
    /\ conn[cid].pcb.st \in {"ESTABLISHED", "CLOSE_WAIT", "FIN_WAIT_1", "LAST_ACK", "CLOSING"}
    /\ LET t == conn[cid].current_msg
           P == Pair(cid, t)
           S == IF P.c.state = "CLOSE" /\ P.m.polls_left > 0
                  THEN [P EXCEPT !.m.polls_left = @ - 1] ELSE P
       IN \E T \in GoOn(S) :
            Commit(cid, t, IF T.c.check_writespace /\ T.c.pcb # NoPcb /\ Writable(T.c.pcb)
                           THEN [T EXCEPT !.c = SendPlus(@)] ELSE T)
    /\ UNCHANGED made

\* The pcb died: err_tcp, when the callback is set.
err_tcp(cid, err) ==
    LET c == conn[cid]
        t == c.current_msg
        gone == [c EXCEPT !.pcb = NoPcb, !.pending_err = err, !.mboxclosed = TRUE, !.state = "NONE",
                          !.sendevent = TRUE]
        post(m, size) == IF m.valid /\ ~sys_mbox_full(m, size)
                           THEN Posted(m, lwip_netconn_err_to_msg(err)) ELSE m
        told == [gone EXCEPT !.recvmbox = post(@, RECVMBOX_SIZE),
                             !.acceptmbox = post(@, ACCEPTMBOX_SIZE)]
        busy == c.state \in {"WRITE", "CLOSE", "CONNECT"}
        wake == busy /\ ~c.in_nonblocking_connect
    IN /\ c.pcb # NoPcb /\ "err" \in c.pcb.cb /\ c.pcb.st \notin {"CLOSED", "LISTEN"}
       /\ conn' = [conn EXCEPT ![cid] =
                     [told EXCEPT !.in_nonblocking_connect = @ /\ ~busy,
                                  !.current_msg = IF wake THEN NoThread ELSE @,
                                  !.sem = IF wake THEN @ + 1 ELSE @]]
       /\ call' = IF wake THEN [call EXCEPT ![t].err = IF c.state = "CLOSE" THEN "OK" ELSE err]
                  ELSE call
       /\ UNCHANGED made

\* TCP is connected: lwip_netconn_do_connected.
lwip_netconn_do_connected(cid) ==
    LET c == conn[cid]
        t == c.current_msg
        wake == ~c.in_nonblocking_connect
        up == setup_tcp([c EXCEPT !.pcb.st = "ESTABLISHED"])
    IN /\ c.pcb.st = "SYN_SENT" /\ c.pcb.arg
       /\ conn' = [conn EXCEPT ![cid] =
                     [up EXCEPT !.in_nonblocking_connect = FALSE, !.current_msg = NoThread,
                                !.state = "NONE", !.sendevent = TRUE,
                                !.sem = IF wake THEN @ + 1 ELSE @]]
       /\ call' = IF wake THEN [call EXCEPT ![t].err = "OK"] ELSE call
       /\ UNCHANGED made

\* A connection is complete on the listener l: accept_function.  Without a
\* free netconn an error marker is posted, without room the pcb is given back
\* and TCP aborts it.
accept_function(l) ==
    LET c == conn[l]
        full == sys_mbox_full(c.acceptmbox, ACCEPTMBOX_SIZE)
    IN /\ c.pcb.st = "LISTEN" /\ "accept" \in c.pcb.cb /\ c.acceptmbox.valid
       /\ made < MaxConnections /\ made' = made + 1
       /\ UNCHANGED call
       /\ \/ /\ \A d \in CONNS : conn[d].used
             /\ conn' = [conn EXCEPT ![l].acceptmbox =
                           IF full THEN @ ELSE Posted(@, Marker("ABRT"))]
          \/ \E d \in CONNS :
               /\ ~conn[d].used
               /\ conn' = IF full THEN conn
                          ELSE [conn EXCEPT ![l].acceptmbox = Posted(@, Newconn(d)),
                                            ![d] = setup_tcp([netconn_alloc EXCEPT
                                                     !.pcb = [NewTcpPcb EXCEPT !.st = "ESTABLISHED"],
                                                     !.sendevent = TRUE])]
-----------------------------------------------------------------------------
(* netconn_drain: empty and free both mailboxes; netconns nobody accepted are
   aborted and freed. *)
Unaccepted(C, l) == {d \in CONNS : \E k \in 1..Len(C[l].acceptmbox.q) : C[l].acceptmbox.q[k] = Newconn(d)}
netconn_drain(C, l) ==
    [d \in CONNS |-> IF d = l THEN [C[l] EXCEPT !.recvmbox = Invalid, !.acceptmbox = Invalid]
                     ELSE IF d \in Unaccepted(C, l) THEN FreeConn ELSE C[d]]
-----------------------------------------------------------------------------
(* The calls of the application.  A thread works on a netconn that no other
   thread works on; a netconn waiting to be accepted is nobody's. *)
InUse(c) == \E t \in NCTHREADS : call[t].c = c
Mine(c) ==
    /\ conn[c].used /\ ~InUse(c)
    /\ \A l \in CONNS : c \notin Unaccepted(conn, l)

Begin(op, c) == [NoCall EXCEPT !.op = op, !.c = c]

\* netconn_apimsg returns: with the result at once, or after waiting.
CallReturns(t) == [call EXCEPT ![t] = NoCall]

netconn_new(t) ==
    /\ call[t] = NoCall /\ made < MaxNew /\ made' = made + 1
    /\ \E c \in CONNS : ~conn[c].used /\ conn' = [conn EXCEPT ![c] = [netconn_alloc EXCEPT !.pcb = NewTcpPcb]]
    /\ UNCHANGED call

SetNonblocking(t, c) ==
    /\ call[t] = NoCall /\ Mine(c) /\ conn[c].pcb # NoPcb
    /\ conn' = [conn EXCEPT ![c].nonblocking = ~@]
    /\ UNCHANGED <<call, made>>

\* Wait for op_completed, or return, after a call that may block.
After(t, cid, S) ==
    IF S.c.current_msg = t THEN [S.m EXCEPT !.pc = "wait"]
    ELSE IF S.m.then = "none" THEN NoCall ELSE [NoCall EXCEPT !.op = S.m.then, !.c = cid, !.pc = "freeing"]

lwip_netconn_do_connect(t, c) ==
    LET S == [c |-> setup_tcp(conn[c]), m |-> Begin("connect", c)]
        sent == [S.c EXCEPT !.pcb.st = "SYN_SENT", !.state = "CONNECT",
                            !.in_nonblocking_connect = conn[c].nonblocking]
    IN /\ call[t] = NoCall /\ Mine(c) /\ conn[c].state = "NONE" /\ conn[c].pcb.st = "CLOSED"
       /\ \/ conn' = [conn EXCEPT ![c] = S.c] /\ UNCHANGED call          \* tcp_connect failed
          \/ /\ conn[c].nonblocking
             /\ conn' = [conn EXCEPT ![c] = sent] /\ UNCHANGED call
          \/ /\ ~conn[c].nonblocking
             /\ conn' = [conn EXCEPT ![c] = [sent EXCEPT !.current_msg = t]]
             /\ call' = [call EXCEPT ![t] = [S.m EXCEPT !.pc = "wait"]]
       /\ UNCHANGED made

lwip_netconn_do_listen(t, c) ==
    /\ call[t] = NoCall /\ Mine(c) /\ conn[c].state = "NONE" /\ conn[c].pcb.st = "CLOSED"
    /\ \/ conn' = [conn EXCEPT ![c] = [@ EXCEPT !.recvmbox = Invalid, !.acceptmbox = EmptyMbox,
                        !.state = "LISTEN", !.pcb = [NewTcpPcb EXCEPT !.st = "LISTEN", !.arg = TRUE,
                                                                    !.cb = {"accept"}]]]
       \/ conn' = [conn EXCEPT ![c].recvmbox = Invalid, ![c].pcb = NoPcb]  \* no accept mailbox
    /\ UNCHANGED <<call, made>>

lwip_netconn_do_write(t, c, len) ==
    LET S == [c |-> [netconn_err(conn[c]) EXCEPT !.state = "WRITE", !.current_msg = t],
              m |-> [Begin("write", c) EXCEPT !.len = len]]
    IN /\ call[t] = NoCall /\ Mine(c)
       /\ IF conn[c].pending_err # "OK" \/ conn[c].state # "NONE" \/ conn[c].pcb = NoPcb
            THEN conn[c].pending_err # "OK" /\ conn' = [conn EXCEPT ![c] = netconn_err(@)] /\ UNCHANGED call
            ELSE \E T \in WriteMore(S, FALSE) :
                   conn' = [conn EXCEPT ![c] = T.c] /\ call' = [call EXCEPT ![t] = After(t, c, T)]
       /\ UNCHANGED made

\* lwip_netconn_do_close from the netconns C: `then` is what follows.
CloseFrom(t, c, shut, then, C) ==
    LET D == IF "RD" \in shut THEN netconn_drain(C, c) ELSE C
        S == [c |-> [D[c] EXCEPT !.state = "CLOSE", !.current_msg = t],
              m |-> [Begin("close", c) EXCEPT !.shut = shut, !.polls_left = POLLS, !.then = then]]
    IN \E T \in CloseMore(S, FALSE) :
         conn' = [D EXCEPT ![c] = T.c] /\ call' = [call EXCEPT ![t] = After(t, c, T)]

lwip_netconn_do_close(t, c, shut) ==
    /\ call[t] = NoCall /\ Mine(c) /\ conn[c].pcb # NoPcb
    /\ conn[c].state \notin {"CONNECT", "WRITE"}
    /\ shut = {"RD", "WR"} \/ conn[c].state # "LISTEN"
    /\ CloseFrom(t, c, shut, "none", conn)
    /\ UNCHANGED made

\* netconn_delete: lwip_netconn_do_delconn, then netconn_free.
lwip_netconn_do_delconn(t, c) ==
    /\ call[t] = NoCall /\ Mine(c)
    /\ conn[c].state \in {"NONE", "LISTEN"} \/ conn[c].in_nonblocking_connect
    /\ IF conn[c].pcb # NoPcb THEN CloseFrom(t, c, {"RD", "WR"}, "delete", netconn_drain(conn, c))
       ELSE /\ conn' = netconn_drain(conn, c)
            /\ call' = [call EXCEPT ![t] = [Begin("delete", c) EXCEPT !.pc = "freeing"]]
    /\ UNCHANGED made

netconn_free(t) ==
    /\ call[t].pc = "freeing"
    /\ conn' = [conn EXCEPT ![call[t].c] = FreeConn] /\ call' = CallReturns(t) /\ UNCHANGED made

\* op_completed was signalled.
Wake(t) ==
    LET c == call[t].c IN
    /\ call[t].pc = "wait" /\ conn[c].sem > 0
    /\ conn' = [conn EXCEPT ![c].sem = @ - 1]
    /\ call' = [call EXCEPT ![t] = IF @.then = "delete" THEN [@ EXCEPT !.pc = "freeing"] ELSE NoCall]
    /\ UNCHANGED made
-----------------------------------------------------------------------------
(* Receiving and accepting: the mailbox is fetched outside the core lock. *)
netconn_recv_data(t, c) ==
    /\ call[t] = NoCall /\ Mine(c) /\ conn[c].recvmbox.valid /\ ~conn[c].fin_rx_pending
    /\ call' = [call EXCEPT ![t] =
         [Begin("recv", c) EXCEPT !.pc = IF conn[c].nonblocking \/ conn[c].mboxclosed
                                              \/ conn[c].pending_err # "OK"
                                           THEN "tryfetch" ELSE "fetch"]]
    /\ UNCHANGED <<conn, made>>

TryfetchEmpty(t) ==
    LET c == call[t].c IN
    /\ call[t].op = "recv" /\ call[t].pc = "tryfetch" /\ conn[c].recvmbox.q = <<>>
    /\ conn' = [conn EXCEPT ![c] = netconn_err(@)]
    /\ call' = CallReturns(t) /\ UNCHANGED made

\* A message was fetched: data and the FIN are acknowledged to TCP, which
\* opens its window, and the FIN closes the receiving side.
FetchRecv(t) ==
    LET c == call[t].c
        m == Head(conn[c].recvmbox.q)
    IN /\ call[t].op = "recv" /\ call[t].pc \in {"fetch", "tryfetch"} /\ conn[c].recvmbox.q # <<>>
       /\ conn' = [conn EXCEPT ![c].recvmbox.q = Tail(@),
                               ![c].got = IF m[1] = "chunk" THEN m[2] ELSE @]
       /\ call' = [call EXCEPT ![t] = IF m = Marker("CLSD") THEN [@ EXCEPT !.pc = "fin"] ELSE NoCall]
       /\ UNCHANGED made

\* handle_fin, at once or, with NETCONN_NOFIN, on the next call.
netconn_recv_data_tcp(t, c) ==
    /\ \/ call[t].pc = "fin" /\ c = call[t].c
       \/ call[t] = NoCall /\ Mine(c) /\ conn[c].recvmbox.valid /\ conn[c].fin_rx_pending
    /\ \/ /\ call[t].pc = "fin"                                        \* NETCONN_NOFIN
          /\ conn' = [conn EXCEPT ![c].fin_rx_pending = TRUE] /\ call' = CallReturns(t)
       \/ LET C == [conn EXCEPT ![c].fin_rx_pending = FALSE]
          IN IF C[c].pcb = NoPcb \/ C[c].state \in {"CONNECT", "WRITE"}
               THEN conn' = [C EXCEPT ![c] = netconn_err(@)] /\ call' = CallReturns(t)
               ELSE CloseFrom(t, c, {"RD"}, "none", C)
    /\ UNCHANGED made

netconn_accept(t, l) ==
    /\ call[t] = NoCall /\ Mine(l) /\ conn[l].acceptmbox.valid /\ conn[l].pending_err = "OK"
    /\ conn[l].nonblocking => conn[l].acceptmbox.q # <<>>
    /\ call' = [call EXCEPT ![t] = [Begin("accept", l) EXCEPT !.pc = "fetch"]]
    /\ UNCHANGED <<conn, made>>

FetchAccept(t) ==
    LET l == call[t].c IN
    /\ call[t].op = "accept" /\ conn[l].acceptmbox.q # <<>>
    /\ conn' = [conn EXCEPT ![l].acceptmbox.q = Tail(@)]
    /\ call' = CallReturns(t) /\ UNCHANGED made
-----------------------------------------------------------------------------
NetconnTcpStep(c) ==
    \/ TcpData(c) \/ TcpRefused(c) \/ sent_tcp(c) \/ poll_tcp(c)
    \/ \E e \in {"ABRT", "RST"} : err_tcp(c, e)
    \/ lwip_netconn_do_connected(c) \/ accept_function(c)

AppStep(t) ==
    \/ netconn_new(t) \/ netconn_free(t) \/ Wake(t)
    \/ TryfetchEmpty(t) \/ FetchRecv(t) \/ FetchAccept(t)
    \/ \E c \in CONNS :
         \/ SetNonblocking(t, c) \/ lwip_netconn_do_connect(t, c) \/ lwip_netconn_do_listen(t, c)
         \/ \E n \in WriteSizes : lwip_netconn_do_write(t, c, n)
         \/ \E shut \in {{"RD"}, {"WR"}, {"RD", "WR"}} : lwip_netconn_do_close(t, c, shut)
         \/ lwip_netconn_do_delconn(t, c)
         \/ netconn_recv_data(t, c) \/ netconn_recv_data_tcp(t, c) \/ netconn_accept(t, c)

NetconnNext == (\E c \in CONNS : NetconnTcpStep(c)) \/ (\E t \in NCTHREADS : AppStep(t))

NetconnSpec == NetconnInit /\ [][NetconnNext]_netconnVars
-----------------------------------------------------------------------------
(* A thread that waits for op_completed will be woken: either the semaphore
   is signalled once, or its message is the netconn's current message, the
   netconn is in the state of the call and its pcb is alive with the callbacks
   that go on with the call (api_msg.c: writemore, close_internal, do_connect,
   err_tcp).  And nobody else is: a signal or a current message belongs to a
   waiting thread. *)
BlockedIsRecorded ==
    /\ \A t \in NCTHREADS : call[t].pc = "wait" =>
         LET c == conn[call[t].c] IN
         \/ c.sem = 1 /\ c.current_msg = NoThread
         \/ /\ c.sem = 0 /\ c.current_msg = t /\ c.pcb # NoPcb
            /\ c.state = (CASE call[t].op = "write" -> "WRITE" [] call[t].op = "close" -> "CLOSE"
                            [] OTHER -> "CONNECT")
            /\ c.pcb.arg /\ {"poll", "err"} \subseteq c.pcb.cb
    /\ \A c \in CONNS : conn[c].sem > 0 \/ conn[c].current_msg # NoThread =>
         \E t \in NCTHREADS : call[t].c = c /\ call[t].pc = "wait"

(* A write that returns without an error has handed all its bytes to TCP, or
   the netconn does not block (the assertion "do_write failed to write all
   bytes" of netconn_write_vectors_partly). *)
WriteIsWhole ==
    \A t \in NCTHREADS :
      call[t].op = "write" /\ call[t].pc = "wait" /\ call'[t] = NoCall /\ call[t].err = "OK"
        => call[t].offset = call[t].len

(* The chunks of a connection reach the application in order and none is lost
   between the control block and the reader: what was read, what is in the
   mailbox and what TCP holds back are consecutive (recv_tcp refusing when the
   mailbox is full), as long as the receiving side is open. *)
ChunksInOrder ==
    \A c \in CONNS :
      LET k == conn[c]
          waiting == SelectSeq(k.recvmbox.q \o (IF k.pcb = NoPcb THEN <<>> ELSE k.pcb.refused),
                               LAMBDA m : m[1] = "chunk")
      IN k.recvmbox.valid =>
           /\ \A i \in 1..Len(waiting) : waiting[i] = Chunk(k.got + i)
           /\ k.pcb # NoPcb => k.got + Len(waiting) = k.sentup

(* A socket that select does not report as writable becomes so again: its pcb
   is alive and either data are in flight whose acknowledgement raises the
   event, or the poll timer looks for space (NETCONN_FLAG_CHECK_WRITESPACE),
   or it is not yet connected. *)
WritableComesBack ==
    \A c \in CONNS :
      conn[c].used /\ ~conn[c].sendevent /\ conn[c].pcb # NoPcb =>
        \/ conn[c].pcb.st \in {"CLOSED", "LISTEN", "SYN_SENT"}
        \/ ~Writable(conn[c].pcb) /\ "sent" \in conn[c].pcb.cb
        \/ conn[c].check_writespace /\ "poll" \in conn[c].pcb.cb
        \/ conn[c].state = "CLOSE"

(* A reader that is about to block will not wait for ever on a dead
   connection: if the pcb is gone the mailbox holds a message, the marker
   err_tcp posted or data before it. *)
ReaderIsTold ==
    \A t \in NCTHREADS :
      call[t].op = "recv" /\ call[t].pc = "fetch" /\ conn[call[t].c].pcb = NoPcb
        => conn[call[t].c].recvmbox.q # <<>>

-----------------------------------------------------------------------------

(***************************************************************************)
(* The socket layer of lwIP, src/api/sockets.c: the socket table and its    *)
(* reference counts (LWIP_NETCONN_FULLDUPLEX), the event counters that       *)
(* event_callback keeps, and the threads that block in select and poll.      *)
(* The tcpip thread posts a message to the mailbox of a netconn and counts   *)
(* it afterwards; an application thread fetches it and discounts it          *)
(* afterwards; select scans, registers, scans again and blocks: none of      *)
(* these is atomic.  LWIP_TCPIP_CORE_LOCKING protects the list of waiters.  *)
(***************************************************************************)

CONSTANTS
    NUM_SOCKETS,
    SOCKCONNS,         \* netconns
    SOCKTHREADS,       \* application threads
    SOCK_MBOX_SIZE,    \* size of a receive mailbox
    MaxSockEvents,     \* messages and other events of one behaviour
    MaxSockCalls,      \* calls of one behaviour
    WatchSets          \* pairs of a read set and a write set that are watched

VARIABLES
    sock,       \* the table sockets[]
    nc,         \* the netconns: mailbox, callback_arg.socket, flags
    lock,       \* who holds the core lock, and the event being delivered
    app,        \* what each thread is doing
    torn,       \* the slots of a poll that met a descriptor being closed
    sockEvents, sockCalls

sockVars == <<sock, nc, lock, app, torn, sockEvents, sockCalls>>

SOCKS == 0 .. NUM_SOCKETS - 1
NoConn == "NULL"
FreeSocketSlot == [conn |-> NoConn, fd_used |-> 0, fd_free_pending |-> FALSE, rcvevent |-> 0,
         sendevent |-> FALSE, errevent |-> FALSE, select_waiting |-> 0, lastdata |-> FALSE]
DeadConn == [alive |-> FALSE, mbox |-> <<>>, arg |-> -1, invalid |-> FALSE, waiting |-> 0]
Unlocked == [by |-> NoConn, pc |-> "free", c |-> NoConn, evt |-> "none", s |-> 0, n |-> 0,
             has |-> {}]
AppIdle == [pc |-> "idle", op |-> "none", s |-> 0, rd |-> {}, wr |-> {}, todo |-> {}, used |-> {},
            nval |-> {}, ready |-> 0, linked |-> FALSE, signalled |-> FALSE]

Fds(a) == a.rd \cup a.wr

\* The application has opened one socket.
SocketsInit ==
    /\ \E c \in SOCKCONNS :
         /\ sock = [s \in SOCKS |-> IF s = 0 THEN [FreeSocketSlot EXCEPT !.conn = c, !.sendevent = TRUE] ELSE FreeSocketSlot]
         /\ nc = [d \in SOCKCONNS |-> IF d = c THEN [DeadConn EXCEPT !.alive = TRUE, !.arg = 0] ELSE DeadConn]
    /\ lock = Unlocked
    /\ app = [t \in SOCKTHREADS |-> AppIdle]
    /\ torn = {} /\ sockEvents = 0 /\ sockCalls = 0
-----------------------------------------------------------------------------
(* Reference counts of the table. *)
sock_inc_used(T, s) == [T EXCEPT ![s].fd_used = @ + 1]
CanUse(T, s) == ~T[s].fd_free_pending

\* free_socket_locked: the last user frees the slot, others leave it pending.
free_socket_locked(T, s) ==
    IF T[s].fd_used > 1
      THEN [T EXCEPT ![s].fd_used = @ - 1, ![s].fd_free_pending = TRUE]
      ELSE [T EXCEPT ![s].fd_used = 0, ![s].conn = NoConn, ![s].lastdata = FALSE]

FD_USED == 256      \* fd_used is an u8_t

done_socket(T, s) ==
    LET D == [T EXCEPT ![s].fd_used = (@ - 1) % FD_USED]
    IN IF D[s].fd_used = 0 /\ D[s].fd_free_pending
         THEN free_socket_locked([D EXCEPT ![s].fd_used = 1], s) ELSE D

\* The netconn of a slot that was freed is deleted (free_socket_free_elements).
free_socket_free_elements(T, U) ==
    [c \in SOCKCONNS |-> IF \E s \in SOCKS : T[s].conn = c /\ U[s].conn # c THEN DeadConn ELSE nc[c]]

\* tryget_socket: a slot with a netconn that is not about to be freed.
tryget_socket(s) == CanUse(sock, s) /\ sock[s].conn # NoConn

alloc_socket(c, accepted, s) ==
    [sock EXCEPT ![s] = [@ EXCEPT !.conn = c, !.fd_used = 1, !.fd_free_pending = FALSE,
                                  !.lastdata = FALSE, !.rcvevent = 0, !.sendevent = accepted,
                                  !.errevent = FALSE]]
FreeSlots == {s \in SOCKS : sock[s].conn = NoConn /\ sock[s].fd_used = 0}
-----------------------------------------------------------------------------
(* event_callback for an event of netconn c, by the holder of the core lock.
   A netconn not yet accepted counts its events in callback_arg.socket. *)
CountEvent(x, evt) ==
    CASE evt = "RCVPLUS" -> [x EXCEPT !.rcvevent = @ + 1]
      [] evt = "RCVMINUS" -> [x EXCEPT !.rcvevent = @ - 1]
      [] evt = "SENDPLUS" -> [x EXCEPT !.sendevent = TRUE]
      [] evt = "SENDMINUS" -> [x EXCEPT !.sendevent = FALSE]
      [] evt = "ERROR" -> [x EXCEPT !.errevent = TRUE]
\* Faulty variant: the waiters are looked for when data were there before.
CheckWaitersLate(x, evt) ==
    CASE evt = "RCVPLUS" -> x.rcvevent + 1 > 1
      [] evt = "SENDPLUS" -> ~x.sendevent
      [] evt = "ERROR" -> TRUE
      [] OTHER -> FALSE

CheckWaiters(x, evt) ==
    CASE evt = "RCVPLUS" -> x.rcvevent + 1 <= 1
      [] evt = "SENDPLUS" -> ~x.sendevent
      [] evt = "ERROR" -> TRUE
      [] OTHER -> FALSE

HasEvents(x) ==
    {e \in {"rd", "wr", "ex"} : \/ e = "rd" /\ x.rcvevent > 0
                                \/ e = "wr" /\ x.sendevent
                                \/ e = "ex" /\ x.errevent}

\* The lock goes on to the next event of the same batch, or is released.
NextEvent == IF lock.n > 1 THEN [lock EXCEPT !.pc = "event", !.n = @ - 1] ELSE Unlocked

event_callback ==
    LET c == lock.c
        s == nc[c].arg
        T == sock_inc_used(sock, s)
        U == [T EXCEPT ![s] = CountEvent(@, lock.evt)]
    IN /\ lock.pc = "event"
       /\ IF s < 0
            THEN /\ nc' = [nc EXCEPT ![c].arg = IF lock.evt = "RCVPLUS" THEN @ - 1 ELSE @]
                 /\ lock' = NextEvent /\ UNCHANGED sock
            ELSE IF ~tryget_socket(s) THEN lock' = NextEvent /\ UNCHANGED <<sock, nc>>
            ELSE IF U[s].select_waiting > 0 /\ CheckWaiters(sock[s], lock.evt)
              THEN /\ sock' = U /\ UNCHANGED nc
                   /\ lock' = [lock EXCEPT !.pc = "check", !.s = s, !.has = HasEvents(U[s])]
              ELSE /\ sock' = done_socket(U, s)
                   /\ nc' = free_socket_free_elements(U, done_socket(U, s))
                   /\ lock' = NextEvent
       /\ UNCHANGED <<app, torn, sockEvents, sockCalls>>

\* select_check_waiters: signal the linked waiters the event is for.
WakesUp(a, s, has) ==
    /\ a.linked /\ ~a.signalled
    /\ \/ "rd" \in has /\ s \in a.rd
       \/ "wr" \in has /\ s \in a.wr
       \/ "ex" \in has /\ a.op = "poll" /\ s \in a.rd \cup a.wr

select_check_waiters ==
    /\ lock.pc = "check"
    /\ app' = [t \in SOCKTHREADS |-> IF WakesUp(app[t], lock.s, lock.has)
                                       THEN [app[t] EXCEPT !.signalled = TRUE] ELSE app[t]]
    /\ sock' = done_socket(sock, lock.s)
    /\ nc' = free_socket_free_elements(sock, sock')
    /\ lock' = NextEvent
    /\ UNCHANGED <<torn, sockEvents, sockCalls>>

EventFor(c, evt, n) ==
    [Unlocked EXCEPT !.by = "tcpip", !.pc = "event", !.c = c, !.evt = evt, !.n = n]
-----------------------------------------------------------------------------
(* The tcpip thread: recv_udp posts a datagram or drops it; other events. *)
recv_udp(c) ==
    /\ lock = Unlocked /\ nc[c].alive /\ ~nc[c].invalid /\ sockEvents < MaxSockEvents
    /\ sockEvents' = sockEvents + 1
    /\ IF Len(nc[c].mbox) < SOCK_MBOX_SIZE
         THEN /\ nc' = [nc EXCEPT ![c].mbox = Append(@, "data")]
              /\ lock' = EventFor(c, "RCVPLUS", 1)
         ELSE UNCHANGED <<nc, lock>>
    /\ UNCHANGED <<sock, app, torn, sockCalls>>

OtherEvent(c) ==
    /\ lock = Unlocked /\ nc[c].alive /\ ~nc[c].invalid /\ sockEvents < MaxSockEvents
    /\ sockEvents' = sockEvents + 1
    /\ \E evt \in {"SENDPLUS", "SENDMINUS", "ERROR"} : lock' = EventFor(c, evt, 1)
    /\ UNCHANGED <<sock, nc, app, torn, sockCalls>>

\* accept_function makes a netconn that no socket has yet.
NewPending(c) ==
    /\ lock = Unlocked /\ ~nc[c].alive
    /\ nc' = [nc EXCEPT ![c] = [DeadConn EXCEPT !.alive = TRUE]]
    /\ UNCHANGED <<sock, lock, app, torn, sockEvents, sockCalls>>
-----------------------------------------------------------------------------
(* Threads. *)
StartCall(t) ==
    /\ app[t] = AppIdle /\ sockCalls < MaxSockCalls /\ sockCalls' = sockCalls + 1
    /\ UNCHANGED <<torn, sockEvents>>
Count == UNCHANGED <<sockEvents, sockCalls>>
Keep == UNCHANGED torn /\ Count
\* poll found a descriptor that is being closed: it will release the socket although it
\* never marked it, or count itself out where it did not count itself in.
Tears(t, found) == torn' = IF found /\ app[t].op = "poll" THEN torn \cup Fds(app[t]) ELSE torn

lwip_socket(t) ==
    /\ StartCall(t) /\ FreeSlots # {}
    /\ \E c \in SOCKCONNS :
         /\ ~nc[c].alive
         /\ LET s == Min(FreeSlots) IN
            /\ sock' = done_socket(alloc_socket(c, TRUE, s), s)
            /\ nc' = [nc EXCEPT ![c] = [DeadConn EXCEPT !.alive = TRUE, !.arg = s]]
    /\ UNCHANGED <<lock, app>>

\* lwip_accept: the slot, then callback_arg.socket, then under the core lock
\* the events counted before the netconn had a socket.
lwip_accept(t) ==
    /\ StartCall(t) /\ FreeSlots # {}
    /\ \E c \in SOCKCONNS :
         /\ nc[c].alive /\ nc[c].arg < 0
         /\ \A u \in SOCKTHREADS : app[u].op = "accept" => sock[app[u].s].conn # c
         /\ sock' = alloc_socket(c, TRUE, Min(FreeSlots))
    /\ app' = [app EXCEPT ![t] = [AppIdle EXCEPT !.pc = "number", !.op = "accept",
                                                 !.s = Min(FreeSlots)]]
    /\ UNCHANGED <<nc, lock>>
AcceptNumber(t) ==
    LET c == sock[app[t].s].conn IN
    /\ app[t].pc = "number"
    /\ app' = [app EXCEPT ![t].pc = "replay", ![t].ready = -1 - nc[c].arg]
    /\ nc' = [nc EXCEPT ![c].arg = app[t].s]
    /\ Keep /\ UNCHANGED <<sock, lock>>
AcceptReplay(t) ==
    /\ app[t].pc = "replay" /\ lock = Unlocked
    /\ lock' = IF app[t].ready > 0 THEN EventFor(sock[app[t].s].conn, "RCVPLUS", app[t].ready)
               ELSE Unlocked
    /\ app' = [app EXCEPT ![t].pc = "accepted"]
    /\ Keep /\ UNCHANGED <<sock, nc>>
AcceptDone(t) ==
    /\ app[t].pc = "accepted" /\ (lock.by = NoConn \/ lock.c # sock[app[t].s].conn)
    /\ sock' = done_socket(sock, app[t].s)
    /\ nc' = free_socket_free_elements(sock, sock')
    /\ app' = [app EXCEPT ![t] = AppIdle] /\ Keep /\ UNCHANGED lock

\* lwip_recvfrom_udp_raw without waiting when there is nothing to read; a
\* datagram only peeked at stays in lastdata.
lwip_recvfrom_udp_raw(t, s) ==
    /\ StartCall(t) /\ tryget_socket(s)
    /\ sock' = sock_inc_used(sock, s)
    /\ app' = [app EXCEPT ![t] = [AppIdle EXCEPT !.op = "recv", !.s = s,
                                    !.pc = IF sock[s].lastdata THEN "consume" ELSE "fetch"]]
    /\ UNCHANGED <<nc, lock>>
FetchDatagram(t) ==
    LET s == app[t].s
        c == sock[s].conn
    IN /\ app[t].pc = "fetch"
       /\ IF nc[c].invalid \/ nc[c].mbox = <<>>
            THEN app' = [app EXCEPT ![t].pc = "leave"] /\ UNCHANGED nc
            ELSE /\ nc' = [nc EXCEPT ![c].mbox = Tail(@)]
                 /\ app' = [app EXCEPT ![t].pc = "minus"]
       /\ Keep /\ UNCHANGED <<sock, lock>>
\* API_EVENT(RCVMINUS), which never wakes anybody, then lastdata.
Discount(t) ==
    /\ app[t].pc = "minus"
    /\ sock' = [sock EXCEPT ![app[t].s] =
                  [(IF tryget_socket(app[t].s) THEN CountEvent(@, "RCVMINUS") ELSE @)
                     EXCEPT !.lastdata = TRUE]]
    /\ app' = [app EXCEPT ![t].pc = "consume"] /\ Keep /\ UNCHANGED <<nc, lock>>
Consume(t) ==
    /\ app[t].pc = "consume"
    /\ \E peek \in BOOLEAN : sock' = [sock EXCEPT ![app[t].s].lastdata = peek]
    /\ app' = [app EXCEPT ![t].pc = "leave"] /\ Keep /\ UNCHANGED <<nc, lock>>
Leave(t) ==
    /\ app[t].pc = "leave"
    /\ sock' = done_socket(sock, app[t].s)
    /\ nc' = free_socket_free_elements(sock, sock')
    /\ app' = [app EXCEPT ![t] = AppIdle] /\ Keep /\ UNCHANGED lock

\* lwip_close: netconn_prepare_delete marks the mailbox and raises the last
\* events, then the slot is freed or left to its last user.
lwip_close(t, s) ==
    /\ StartCall(t) /\ tryget_socket(s) /\ lock = Unlocked
    /\ ~nc[sock[s].conn].invalid /\ nc[sock[s].conn].arg = s
    /\ sock' = sock_inc_used(sock, s)
    /\ nc' = [nc EXCEPT ![sock[s].conn].invalid = TRUE]
    /\ app' = [app EXCEPT ![t] = [AppIdle EXCEPT !.op = "close", !.s = s, !.pc = "events"]]
    /\ UNCHANGED lock
CloseEvents(t) ==
    /\ app[t].pc = "events" /\ lock = Unlocked
    /\ lock' = EventFor(sock[app[t].s].conn, "RCVPLUS", 1)
    /\ app' = [app EXCEPT ![t].pc = "freesock"] /\ Keep /\ UNCHANGED <<sock, nc>>
FreeSocket(t) ==
    /\ app[t].pc = "freesock" /\ lock = Unlocked
    /\ sock' = free_socket_locked(sock, app[t].s)
    /\ nc' = free_socket_free_elements(sock, sock')
    /\ app' = [app EXCEPT ![t] = AppIdle] /\ Keep /\ UNCHANGED lock
-----------------------------------------------------------------------------
(* select and poll.  Both go through their descriptors one at a time. *)
Ready(x, a, s) == \/ s \in a.rd /\ (x.lastdata \/ x.rcvevent > 0)
                  \/ s \in a.wr /\ x.sendevent
                  \/ a.op = "poll" /\ x.errevent
Go(t, pc) == [app EXCEPT ![t].pc = pc, ![t].todo = Fds(app[t])]

lwip_select(t, op, rd, wr) ==
    /\ StartCall(t) /\ rd \cup wr # {}
    /\ app' = [app EXCEPT ![t] = [AppIdle EXCEPT !.op = op, !.rd = rd, !.wr = wr,
                                     !.pc = "use", !.todo = rd \cup wr]]
    /\ UNCHANGED <<sock, nc, lock>>

\* lwip_select_inc_sockets_used and lwip_poll_inc_sockets_used: select notes
\* the sockets it marked, poll does not.
UseFd(t) ==
    LET s == Min(app[t].todo) IN
    /\ app[t].pc = "use"
    /\ IF app[t].todo = {} THEN app' = Go(t, "scan") /\ UNCHANGED sock
       ELSE /\ sock' = IF CanUse(sock, s) THEN sock_inc_used(sock, s) ELSE sock
            /\ app' = [app EXCEPT ![t].todo = @ \ {s},
                                  ![t].used = IF CanUse(sock, s) \/ app[t].op = "poll"
                                                THEN @ \cup {s} ELSE @]
    /\ Tears(t, app[t].todo # {} /\ ~CanUse(sock, s)) /\ Count /\ UNCHANGED <<nc, lock>>

\* lwip_selscan and lwip_pollscan: both give up at a descriptor that is being
\* closed, which poll marks POLLNVAL; poll's second and last scan also change
\* select_waiting.
Scan(t) ==
    LET a == app[t]
        s == Min(a.todo)
        poll == a.op = "poll"
        d == CASE poll /\ a.pc = "scan2" -> 1
               [] poll /\ a.pc = "scan3" /\ sock[s].select_waiting > 0 -> -1 [] OTHER -> 0
        after == CASE a.pc = "scan" -> (IF a.ready > 0 THEN "release" ELSE "link")
                   [] a.pc = "scan2" -> (IF a.ready > 0 THEN "unwait" ELSE "block")
                   [] a.pc = "scan3" -> (IF poll THEN "unlink" ELSE "release")
        fail == CASE a.pc = "scan" -> "release" [] a.pc = "scan2" -> "unwait"
                  [] a.pc = "scan3" -> (IF poll THEN "unlink" ELSE "release")
    IN /\ a.pc \in {"scan", "scan2", "scan3"}
       /\ IF a.todo = {} THEN app' = Go(t, after) /\ UNCHANGED sock
          ELSE IF ~CanUse(sock, s)
            THEN app' = [Go(t, fail) EXCEPT ![t].nval = {s}] /\ UNCHANGED sock
            ELSE /\ sock' = [sock EXCEPT ![s].select_waiting = @ + d]
                 /\ app' = [app EXCEPT ![t].todo = @ \ {s},
                                       ![t].ready = IF Ready(sock[s], a, s) THEN @ + 1 ELSE @]
       /\ Tears(t, a.todo # {} /\ ~CanUse(sock, s)) /\ Count /\ UNCHANGED <<nc, lock>>

lwip_link_select_cb(t) ==
    /\ app[t].pc = "link" /\ lock = Unlocked
    /\ \/ app' = [Go(t, "release") EXCEPT ![t].ready = 0]          \* timeout 0: poll only
       \/ app' = [Go(t, IF app[t].op = "select" THEN "wait" ELSE "scan2") EXCEPT ![t].linked = TRUE]
    /\ Keep /\ UNCHANGED <<sock, nc, lock>>

\* select raises select_waiting of each of its sockets.
SelectWaiting(t) ==
    LET s == Min(app[t].todo) IN
    /\ app[t].pc = "wait"
    /\ IF app[t].todo = {} THEN app' = Go(t, "scan2") /\ UNCHANGED sock
       ELSE IF ~CanUse(sock, s)
         THEN app' = [app EXCEPT ![t].pc = "unwait", ![t].todo = Fds(app[t]) \ app[t].todo] /\ UNCHANGED sock
         ELSE /\ sock' = [sock EXCEPT ![s].select_waiting = @ + 1]
              /\ app' = [app EXCEPT ![t].todo = @ \ {s}]
    /\ Keep /\ UNCHANGED <<nc, lock>>

\* sys_arch_sem_wait: the semaphore is signalled, or the timeout expires.
Block(t) ==
    /\ app[t].pc = "block"
    /\ app' = Go(t, "unwait")
    /\ Keep /\ UNCHANGED <<sock, nc, lock>>

\* select lowers select_waiting; poll does so while it scans.
Unwait(t) ==
    LET s == Min(app[t].todo) IN
    /\ app[t].pc = "unwait"
    /\ IF app[t].op = "poll" THEN /\ app' = [Go(t, "scan3") EXCEPT ![t].ready = 0, ![t].todo = @ \ app[t].nval]
                                   /\ UNCHANGED sock
       ELSE IF app[t].todo = {} THEN app' = Go(t, "unlink") /\ UNCHANGED sock
       ELSE /\ sock' = [sock EXCEPT ![s].select_waiting = IF @ > 0 THEN @ - 1 ELSE 0]
            /\ app' = [app EXCEPT ![t].todo = @ \ {s}]
    /\ Keep /\ UNCHANGED <<nc, lock>>

lwip_unlink_select_cb(t) ==
    /\ app[t].pc = "unlink" /\ lock = Unlocked
    /\ app' = [Go(t, IF app[t].op = "select" THEN "scan3" ELSE "release")
                 EXCEPT ![t].linked = FALSE, ![t].ready = 0]
    /\ Keep /\ UNCHANGED <<sock, nc, lock>>

\* lwip_select_dec_sockets_used, lwip_poll_dec_sockets_used.
Release(t) ==
    LET s == Min(app[t].used) IN
    /\ app[t].pc = "release"
    /\ IF app[t].used = {} THEN app' = [app EXCEPT ![t] = AppIdle] /\ UNCHANGED <<sock, nc>>
       ELSE /\ sock' = done_socket(sock, s)
            /\ nc' = free_socket_free_elements(sock, sock')
            /\ app' = [app EXCEPT ![t].used = @ \ {s}]
    /\ Keep /\ UNCHANGED lock
-----------------------------------------------------------------------------
\* Whoever works on a slot that was freed under it is not followed any further.
SlotIsGone(t) == app[t].op \in {"recv", "close", "accept"} /\ sock[app[t].s].conn = NoConn

SocketThread(t) ==
    \/ lwip_socket(t) \/ lwip_accept(t) \/ AcceptNumber(t) \/ AcceptReplay(t) \/ AcceptDone(t)
    \/ \E s \in SOCKS : lwip_recvfrom_udp_raw(t, s) \/ lwip_close(t, s)
    \/ FetchDatagram(t) \/ Discount(t) \/ Consume(t) \/ Leave(t)
    \/ CloseEvents(t) \/ FreeSocket(t)
    \/ \E op \in {"select", "poll"}, w \in WatchSets : lwip_select(t, op, w[1], w[2])
    \/ UseFd(t) \/ Scan(t) \/ lwip_link_select_cb(t) \/ SelectWaiting(t) \/ Block(t) \/ Unwait(t)
    \/ lwip_unlink_select_cb(t) \/ Release(t)

SocketsNext ==
    \/ event_callback \/ select_check_waiters
    \/ \E c \in SOCKCONNS : recv_udp(c) \/ OtherEvent(c) \/ NewPending(c)
    \/ \E t \in SOCKTHREADS : ~SlotIsGone(t) /\ SocketThread(t)

SocketsSpec == SocketsInit /\ [][SocketsNext]_sockVars
-----------------------------------------------------------------------------
(* A socket's receive counter is the number of datagrams in its mailbox, up to
   the one the tcpip thread has posted and not yet counted and those a reader
   has taken and not yet discounted; what arrived before accept, or while it
   was under way, is counted with callback_arg.socket and replayed
   (event_callback, lwip_accept).  This and the next three are not about the
   slots of a poll that met a descriptor being closed (torn): lwip_poll_dec_sockets_used
   releases also what lwip_poll_inc_sockets_used could not mark, and lwip_pollscan stops
   where it finds the descriptor, with select_waiting raised or lowered for only a part
   of the array (sockets.c:2305-2309, 2323-2358). *)
RcvEventCounts ==
    \A s \in SOCKS \ torn :
      LET c == sock[s].conn IN
      c # NoConn /\ CanUse(sock, s) /\ ~nc[c].invalid =>
        LET counting == IF lock.c = c /\ lock.evt = "RCVPLUS" /\ lock.pc = "event" THEN lock.n
                        ELSE IF lock.c = c /\ lock.evt = "RCVPLUS" THEN lock.n - 1 ELSE 0
            discounting == Cardinality({t \in SOCKTHREADS : app[t].pc = "minus" /\ app[t].s = s})
            replaying == LET T == {u \in SOCKTHREADS : app[u].pc = "replay" /\ app[u].s = s}
                         IN IF T = {} THEN 0 ELSE app[CHOOSE t \in T : TRUE].ready
            early == IF nc[c].arg < 0 THEN -1 - nc[c].arg ELSE 0
        IN sock[s].rcvevent = Len(nc[c].mbox) - counting + discounting - replaying - early

(* No lost wakeup: a thread that blocks in select or poll without having been
   signalled waits for descriptors none of which is readable or writable,
   unless the event that made it so is just being delivered (the order scan,
   link, select_waiting, scan, block against event_callback). *)
NoLostWakeup ==
    \A t \in SOCKTHREADS :
      app[t].pc = "block" /\ ~app[t].signalled =>
        \A s \in Fds(app[t]) \ torn :
          (s \in app[t].rd /\ sock[s].rcvevent > 0) \/ (s \in app[t].wr /\ sock[s].sendevent)
            => lock.pc = "check" /\ lock.s = s

(* A slot of the table is not freed while a thread works on it: who got a
   socket (recv, accept, close, select, poll) still finds its reference, so the
   descriptor is not given to a new socket under it (sock_inc_used,
   done_socket, free_socket_locked). *)
SocketOutlivesItsUsers ==
    /\ \A s \in SOCKS \ torn :
         sock[s].fd_used >= Cardinality({t \in SOCKTHREADS :
             \/ app[t].op \in {"recv", "close", "accept"} /\ app[t].s = s
             \/ app[t].op \in {"select", "poll"} /\ s \in app[t].used})
    /\ \A t \in SOCKTHREADS : SlotIsGone(t) => app[t].s \in torn

(* select_waiting counts the threads waiting on a slot, so a freed slot starts
   with none (the assertion of alloc_socket). *)
FreshSlotHasNoWaiters ==
    \A s \in FreeSlots \ torn : sock[s].select_waiting = 0

-----------------------------------------------------------------------------

(***************************************************************************)
(* setsockopt, getsockopt, ioctl and fcntl of src/api/sockets.c, and the     *)
(* table of multicast memberships that IP_ADD_MEMBERSHIP and close keep.     *)
(* An option is checked (the kind of socket, whether it has a control block, *)
(* whether it listens), its int is converted to the width of the field that  *)
(* holds it, and getsockopt converts the field back.  The widths and the     *)
(* number of milliseconds in a second are parameters.                       *)
(***************************************************************************)

CONSTANTS
    U8, OPT_U16, U32, S16MAX,        \* number of values of a type, largest s16_t
    MSECS,                       \* milliseconds in a second
    OptValues,                   \* values given to setsockopt, besides -1
    OPTSOCKS, GROUPS,            \* sockets and (interface, group) pairs
    LWIP_SOCKET_MAX_MEMBERSHIPS, \* size of the membership table
    MaxOptSteps                  \* bound on the options set

VARIABLES
    opt,       \* [kind of socket, listening, has a pcb, fields]
    lastset,   \* the option set last, and its value: [o, v] or none
    member,    \* the membership table: a set of [slot, sock, group]
    joined,    \* [GROUPS -> how often the group was joined]
    refused,   \* [GROUPS -> joins that failed, at most as many as are registered]
    optSteps

optVars == <<opt, lastset, member, joined, refused, optSteps>>

Kinds == {"tcp", "udp", "udplite", "raw"}
NoOption == [o |-> "none", v |-> 0]

Fields0 == [broadcast |-> 0, keepalive |-> 0, sndtimeo |-> 0, rcvtimeo |-> 0, linger |-> -1,
            nochksum |-> 0, device |-> 0, ttl |-> 1, tos |-> 0, pktinfo |-> 0, mttl |-> 1, mif |-> 0,
            mloop |-> 0, nodelay |-> 0, keep_idle |-> 2 * MSECS, keep_intvl |-> MSECS, keep_cnt |-> 1,
            chksum_reqd |-> 0, chksum_offset |-> 0, ipv6only |-> 0, cscov_tx |-> 0, cscov_rx |-> 0,
            nonblocking |-> 0]

SocketOptionsInit ==
    /\ \E k \in Kinds, l \in BOOLEAN, p \in BOOLEAN :
         /\ l => k = "tcp" /\ p
         /\ opt = [kind |-> k, listening |-> l, pcb |-> p, f |-> Fields0]
    /\ lastset = NoOption
    /\ member = {} /\ joined = [g \in GROUPS |-> 0] /\ refused = [g \in GROUPS |-> 0]
    /\ optSteps = 0

IsUdp(S) == S.kind \in {"udp", "udplite"}
Flag(v) == IF v # 0 THEN 1 ELSE 0
\* The conversion of an int to an unsigned or a 16-bit signed type.
ToU(v, width) == v % width
ToS16(v) == LET u == v % (2 * (S16MAX + 1)) IN IF u > S16MAX THEN u - 2 * (S16MAX + 1) ELSE u

\* Error or new fields of a setsockopt.
Ok(F) == [err |-> 0, f |-> F]
Err(S, e) == [err |-> e, f |-> S.f]
EINVAL == 22
ENOPROTOOPT == 92
ENODEV == 19
EAFNOSUPPORT == 47

NeedPcb(S, r) == IF S.pcb THEN r ELSE Err(S, EINVAL)
NeedType(S, ok, r) == IF S.pcb THEN (IF ok THEN r ELSE Err(S, ENOPROTOOPT)) ELSE Err(S, EINVAL)

\* SOL_SOCKET.
SetSolSocket(S, o, v) ==
    CASE o = "SO_BROADCAST" -> IF ~IsUdp(S) THEN Err(S, ENOPROTOOPT)
                               ELSE NeedPcb(S, Ok([S.f EXCEPT !.broadcast = Flag(v)]))
      [] o = "SO_KEEPALIVE" -> NeedPcb(S, Ok([S.f EXCEPT !.keepalive = Flag(v)]))
      [] o = "SO_SNDTIMEO" -> IF v < 0 THEN Err(S, EINVAL) ELSE Ok([S.f EXCEPT !.sndtimeo = v])
      [] o = "SO_RCVTIMEO" -> IF v < 0 THEN Err(S, EINVAL) ELSE Ok([S.f EXCEPT !.rcvtimeo = ToU(v, U32)])
      [] o = "SO_LINGER" ->   \* v < 0: l_onoff = 0
           Ok([S.f EXCEPT !.linger = IF v < 0 THEN -1 ELSE ToS16(IF v > OPT_U16 - 1 THEN OPT_U16 - 1 ELSE v)])
      [] o = "SO_NO_CHECK" -> NeedType(S, IsUdp(S),
           IF S.kind = "udplite" THEN Err(S, EAFNOSUPPORT) ELSE Ok([S.f EXCEPT !.nochksum = Flag(v)]))
      [] o = "SO_BINDTODEVICE" ->   \* 0: no name; negative: no such interface
           IF v < 0 THEN Err(S, ENODEV) ELSE Ok([S.f EXCEPT !.device = v])

SetIp(S, o, v) ==
    CASE o = "IP_TTL" -> NeedPcb(S, Ok([S.f EXCEPT !.ttl = ToU(v, U8)]))
      [] o = "IP_TOS" -> NeedPcb(S, Ok([S.f EXCEPT !.tos = ToU(v, U8)]))
      [] o = "IP_PKTINFO" -> NeedType(S, IsUdp(S), Ok([S.f EXCEPT !.pktinfo = Flag(v)]))
      [] o = "IP_MULTICAST_TTL" -> NeedType(S, IsUdp(S), Ok([S.f EXCEPT !.mttl = ToU(v, U8)]))
      [] o = "IP_MULTICAST_IF" -> NeedType(S, IsUdp(S), Ok([S.f EXCEPT !.mif = v]))
      [] o = "IP_MULTICAST_LOOP" -> NeedType(S, IsUdp(S), Ok([S.f EXCEPT !.mloop = Flag(v)]))

SetTcp(S, o, v) ==
    NeedType(S, S.kind = "tcp",
      IF S.listening THEN Err(S, EINVAL) ELSE
      CASE o = "TCP_NODELAY" -> Ok([S.f EXCEPT !.nodelay = Flag(v)])
        [] o = "TCP_KEEPALIVE" -> Ok([S.f EXCEPT !.keep_idle = ToU(v, U32)])
        [] o = "TCP_KEEPIDLE" -> Ok([S.f EXCEPT !.keep_idle = ToU(MSECS * v, U32)])
        [] o = "TCP_KEEPINTVL" -> Ok([S.f EXCEPT !.keep_intvl = ToU(MSECS * v, U32)])
        [] o = "TCP_KEEPCNT" -> Ok([S.f EXCEPT !.keep_cnt = ToU(v, U32)]))

lwip_setsockopt_impl_ipv6_checksum(S, v) ==
    NeedType(S, S.kind = "raw",
      IF v < 0 THEN Ok([S.f EXCEPT !.chksum_reqd = 0])
      ELSE IF v % 2 = 1 THEN Err(S, EINVAL)
      ELSE Ok([S.f EXCEPT !.chksum_reqd = 1, !.chksum_offset = ToU(v, OPT_U16)]))

SetIpv6(S, o, v) ==
    CASE o = "IPV6_CHECKSUM" -> lwip_setsockopt_impl_ipv6_checksum(S, v)
      [] o = "IPV6_V6ONLY" -> NeedPcb(S, Ok([S.f EXCEPT !.ipv6only = Flag(v)]))

\* A coverage that is not 0 covers at least the header.
Coverage(v) == IF v # 0 /\ (v < 8 \/ v > OPT_U16 - 1) THEN 8 ELSE ToU(v, OPT_U16)
SetUdplite(S, o, v) ==
    NeedType(S, S.kind = "udplite",
      CASE o = "UDPLITE_SEND_CSCOV" -> Ok([S.f EXCEPT !.cscov_tx = Coverage(v)])
        [] o = "UDPLITE_RECV_CSCOV" -> Ok([S.f EXCEPT !.cscov_rx = Coverage(v)]))

SolOptions == {"SO_BROADCAST", "SO_KEEPALIVE", "SO_SNDTIMEO", "SO_RCVTIMEO", "SO_LINGER",
               "SO_NO_CHECK", "SO_BINDTODEVICE"}
IpOptions == {"IP_TTL", "IP_TOS", "IP_PKTINFO", "IP_MULTICAST_TTL", "IP_MULTICAST_IF",
              "IP_MULTICAST_LOOP"}
TcpOptions == {"TCP_NODELAY", "TCP_KEEPALIVE", "TCP_KEEPIDLE", "TCP_KEEPINTVL", "TCP_KEEPCNT"}
Ipv6Options == {"IPV6_CHECKSUM", "IPV6_V6ONLY"}
UdpliteOptions == {"UDPLITE_SEND_CSCOV", "UDPLITE_RECV_CSCOV"}
Options == SolOptions \cup IpOptions \cup TcpOptions \cup Ipv6Options \cup UdpliteOptions

lwip_setsockopt_impl(S, o, v) ==
    CASE o \in SolOptions -> SetSolSocket(S, o, v)
      [] o \in IpOptions -> SetIp(S, o, v)
      [] o \in TcpOptions -> SetTcp(S, o, v)
      [] o \in Ipv6Options -> SetIpv6(S, o, v)
      [] o \in UdpliteOptions -> SetUdplite(S, o, v)
-----------------------------------------------------------------------------
(* lwip_getsockopt_impl: [err, v]; SO_BINDTODEVICE and IP_PKTINFO can only be
   set. *)
Got(v) == [err |-> 0, v |-> v]
GotErr(e) == [err |-> e, v |-> 0]
PcbGet(S, ok, v) ==
    IF ~S.pcb THEN GotErr(EINVAL) ELSE IF ok THEN Got(v) ELSE GotErr(ENOPROTOOPT)

GetSolSocket(S, o) ==
    CASE o = "SO_BROADCAST" -> IF ~IsUdp(S) THEN GotErr(ENOPROTOOPT) ELSE PcbGet(S, TRUE, S.f.broadcast)
      [] o = "SO_KEEPALIVE" -> PcbGet(S, TRUE, S.f.keepalive)
      [] o = "SO_SNDTIMEO" -> Got(S.f.sndtimeo)
      [] o = "SO_RCVTIMEO" -> Got(S.f.rcvtimeo)
      [] o = "SO_LINGER" -> Got(IF S.f.linger >= 0 THEN S.f.linger ELSE -1)
      [] o = "SO_NO_CHECK" -> IF S.pcb /\ S.kind = "udplite" THEN GotErr(EAFNOSUPPORT)
                              ELSE PcbGet(S, IsUdp(S), S.f.nochksum)
      [] OTHER -> GotErr(ENOPROTOOPT)

GetIp(S, o) ==
    CASE o = "IP_TTL" -> PcbGet(S, TRUE, S.f.ttl)
      [] o = "IP_TOS" -> PcbGet(S, TRUE, S.f.tos)
      [] o = "IP_MULTICAST_TTL" -> PcbGet(S, IsUdp(S), S.f.mttl)
      [] o = "IP_MULTICAST_IF" -> PcbGet(S, IsUdp(S), S.f.mif)
      [] o = "IP_MULTICAST_LOOP" -> PcbGet(S, TRUE, S.f.mloop)
      [] OTHER -> GotErr(ENOPROTOOPT)

GetTcp(S, o) ==
    IF S.pcb /\ S.kind = "tcp" /\ S.listening THEN GotErr(EINVAL)
    ELSE PcbGet(S, S.kind = "tcp",
           CASE o = "TCP_NODELAY" -> S.f.nodelay
             [] o = "TCP_KEEPALIVE" -> S.f.keep_idle
             [] o = "TCP_KEEPIDLE" -> S.f.keep_idle \div MSECS
             [] o = "TCP_KEEPINTVL" -> S.f.keep_intvl \div MSECS
             [] o = "TCP_KEEPCNT" -> S.f.keep_cnt)

GetOthers(S, o) ==
    CASE o = "IPV6_CHECKSUM" -> PcbGet(S, S.kind = "raw",
                                       IF S.f.chksum_reqd = 0 THEN -1 ELSE S.f.chksum_offset)
      [] o = "IPV6_V6ONLY" -> Got(S.f.ipv6only)
      [] o = "UDPLITE_SEND_CSCOV" -> PcbGet(S, S.kind = "udplite", S.f.cscov_tx)
      [] o = "UDPLITE_RECV_CSCOV" -> PcbGet(S, S.kind = "udplite", S.f.cscov_rx)

lwip_getsockopt_impl(S, o) ==
    CASE o \in SolOptions -> GetSolSocket(S, o)
      [] o \in IpOptions -> GetIp(S, o)
      [] o \in TcpOptions -> GetTcp(S, o)
      [] OTHER -> GetOthers(S, o)
-----------------------------------------------------------------------------
lwip_setsockopt(o, v) ==
    LET r == lwip_setsockopt_impl(opt, o, v) IN
    /\ optSteps' = optSteps + 1
    /\ opt' = [opt EXCEPT !.f = r.f]
    /\ lastset' = IF r.err = 0 THEN [o |-> o, v |-> v] ELSE NoOption
    /\ UNCHANGED <<member, joined, refused>>

\* ioctl(FIONBIO) and fcntl(F_SETFL) set the same flag.
lwip_ioctl(v) ==
    /\ optSteps' = optSteps + 1
    /\ opt' = [opt EXCEPT !.f.nonblocking = Flag(v)] /\ lastset' = NoOption
    /\ UNCHANGED <<member, joined, refused>>
-----------------------------------------------------------------------------
(* Multicast memberships.  A slot of the table is taken before the group is
   joined, and given back after it was left; IPV6_JOIN_GROUP and
   IPV6_LEAVE_GROUP do the same with a table and groups of their own. *)
FreeSlot == {i \in 1..LWIP_SOCKET_MAX_MEMBERSHIPS : \A m \in member : m.slot # i}

lwip_socket_register_membership(s, g) ==
    LET i == CHOOSE i \in FreeSlot : \A j \in FreeSlot : i <= j
    IN member \cup {[slot |-> i, sock |-> s, group |-> g]}

\* igmp_leavegroup finds no group that was not joined, and changes nothing then.
Left(g, n) == IF joined[g] > n THEN joined[g] - n ELSE 0
Registered(M, g) == Cardinality({m \in M : m.group = g})
Still(M) == [g \in GROUPS |-> Min({refused[g], Registered(M, g)})]

\* igmp_joingroup counts one more user of a group there is, and may find no
\* memory for a new one: EADDRNOTAVAIL, and the registration stays.
IP_ADD_MEMBERSHIP(s, g) ==
    /\ IF FreeSlot = {} THEN UNCHANGED <<member, joined, refused>>
       ELSE /\ member' = lwip_socket_register_membership(s, g)
            /\ \/ joined' = [joined EXCEPT ![g] = @ + 1] /\ UNCHANGED refused
               \/ joined[g] = 0 /\ refused' = [refused EXCEPT ![g] = @ + 1] /\ UNCHANGED joined
    /\ lastset' = NoOption /\ UNCHANGED <<opt, optSteps>>

\* lwip_socket_unregister_membership frees the first slot that matches; the
\* group is left whether the socket is a member or not, so the application is
\* assumed to drop only what it asked for.
IP_DROP_MEMBERSHIP(s, g) ==
    LET mine == {m \in member : m.sock = s /\ m.group = g} IN
    /\ mine # {}
    /\ joined' = [joined EXCEPT ![g] = Left(g, 1)]
    /\ member' = member \ {CHOOSE m \in mine : \A n \in mine : m.slot <= n.slot}
    /\ refused' = Still(member')
    /\ lastset' = NoOption /\ UNCHANGED <<opt, optSteps>>

\* close: every membership of the socket is dropped.
lwip_socket_drop_registered_memberships(s) ==
    /\ member' = {m \in member : m.sock # s}
    /\ joined' = [g \in GROUPS |-> Left(g, Registered(member \ member', g))]
    /\ refused' = Still(member')
    /\ lastset' = NoOption /\ UNCHANGED <<opt, optSteps>>

(* Memberships share no state with the other options: a behaviour is about
   one or the other. *)
SocketOptionsNext ==
    \/ /\ optSteps < MaxOptSteps /\ member = {}
       /\ \/ \E o \in Options, v \in OptValues \cup {-1} : lwip_setsockopt(o, v)
          \/ \E v \in OptValues : lwip_ioctl(v)
    \/ /\ optSteps = 0
       /\ \/ \E s \in OPTSOCKS : lwip_socket_drop_registered_memberships(s)
          \/ \E s \in OPTSOCKS, g \in GROUPS : IP_ADD_MEMBERSHIP(s, g) \/ IP_DROP_MEMBERSHIP(s, g)

SocketOptionsSpec == SocketOptionsInit /\ [][SocketOptionsNext]_optVars
-----------------------------------------------------------------------------
\* The values an option keeps exactly: flags, and numbers that fit the field.
Normal(o, v) ==
    CASE o \in {"SO_BROADCAST", "SO_KEEPALIVE", "SO_NO_CHECK", "IP_MULTICAST_LOOP", "TCP_NODELAY",
                "IPV6_V6ONLY"} -> Flag(v)
      [] o = "SO_LINGER" -> IF v < 0 THEN -1 ELSE v
      [] o = "IPV6_CHECKSUM" -> IF v < 0 THEN -1 ELSE v
      [] o \in UdpliteOptions -> Coverage(v)
      [] OTHER -> v
Fits(o, v) ==
    CASE o \in {"IP_TTL", "IP_TOS", "IP_MULTICAST_TTL"} -> v \in 0 .. U8 - 1
      [] o \in {"TCP_KEEPIDLE", "TCP_KEEPINTVL"} -> v >= 0 /\ MSECS * v < U32
      [] o \in {"TCP_KEEPALIVE", "TCP_KEEPCNT"} -> v \in 0 .. U32 - 1
      [] o = "SO_LINGER" -> v <= S16MAX
      [] o = "IPV6_CHECKSUM" -> v < OPT_U16
      [] OTHER -> TRUE

(* What setsockopt accepted getsockopt returns, for every kind of socket and
   every value the field can hold, and getsockopt accepts whatever setsockopt
   did (the two switches of lwip_setsockopt_impl and lwip_getsockopt_impl). *)
GetAfterSet ==
    LET o == lastset.o IN
    o \notin {"none", "SO_BINDTODEVICE", "IP_PKTINFO"} /\ Fits(o, lastset.v) =>
      lwip_getsockopt_impl(opt, o) = Got(Normal(o, lastset.v))

(* A group is joined as often as sockets are registered for it, so it is left
   for good exactly when the last of them is closed or drops it, as long as
   igmp_joingroup finds memory.  A join that failed stays registered
   (sockets.c:3616-3629, 3732-3745): while it is, the group may be joined less
   often by so many, and the close of that socket then takes the membership of
   another one away; it is never joined more often, and not once nobody is
   registered. *)
JoinedIsRegistered ==
    \A g \in GROUPS : joined[g] \in Registered(member, g) - refused[g] .. Registered(member, g)
==============================================================================
