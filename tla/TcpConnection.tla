---------------------------- MODULE TcpConnection ----------------------------
(***************************************************************************)
(* TCP between two endpoints: the receiving half of lwIP's TCP             *)
(* (src/core/tcp_in.c), and two endpoints that talk over an IP network.    *)
(*                                                                         *)
(***************************************************************************)
EXTENDS Tcp, Bags

(***************************************************************************)
(* The receiving half of lwIP's TCP (src/core/tcp_in.c).  s is the segment *)
(* that arrived; c.rflags, c.racked and c.rdata are the file's static      *)
(* recv_flags, recv_acked and recv_data.  Selective acknowledgements,      *)
(* window scaling and timestamps are off in this build.                    *)
(***************************************************************************)

\* The length of an arrived segment in sequence space.
tcplen(s) == TCP_TCPLEN(s)

RstReply(c, s) == tcp_rst(c, s.ackno, Add(s.seqno, tcplen(s)))

tcp_listen_input(c, s, iss) ==
  LET opened == [tcp_alloc EXCEPT
        !.state = "SYN_RCVD", !.flags = {"BACKLOGPEND"}, !.listener = TRUE,
        !.rcv_nxt = Add(s.seqno, 1), !.rcv_ann_right_edge = Add(s.seqno, 1),
        !.snd_wl1 = Diff(s.seqno, 1), !.snd_wl2 = iss, !.snd_nxt = iss,
        !.lastack = iss, !.snd_lbb = iss, !.snd_wnd = s.wnd, !.snd_wnd_max = s.wnd]
      d == [c EXCEPT !.p = opened, !.lis.pending = @ + 1, !.app.open = FALSE]
  IN  CASE "RST" \in s.flags -> c
        [] "RST" \notin s.flags /\ "ACK" \in s.flags -> RstReply(c, s)
        [] s.flags \cap {"RST", "ACK"} = {} /\ "SYN" \in s.flags /\ c.lis.pending < c.lis.backlog ->
             IF c.mem THEN tcp_output(tcp_enqueue_flags(d, {"SYN", "ACK"})) ELSE c
        [] OTHER -> c

tcp_timewait_input(c, s) ==
  IF "RST" \in s.flags THEN c
  ELSE IF "SYN" \in s.flags
          /\ TCP_SEQ_BETWEEN(s.seqno, c.p.rcv_nxt, Add(c.p.rcv_nxt, c.p.rcv_wnd))
       THEN RstReply(c, s)
  ELSE IF tcplen(s) > 0 THEN tcp_output(tcp_ack_now(c))
  ELSE c
\* Faulty variant: a segment is freed once its first byte is acknowledged.
FreeStartedSegments(q, ackno) ==
  LET n == FirstRun({i \in DOMAIN q : TCP_SEQ_LEQ(q[i].seq, ackno)})
  IN  [freed |-> SubSeq(q, 1, n), kept |-> SubSeq(q, n + 1, Len(q))]

\* The acknowledged segments leave a queue; their bytes are reported and make
\* room in the send buffer.
tcp_free_acked_segments(q, ackno) ==
  LET n == FirstRun({i \in DOMAIN q : TCP_SEQ_LEQ(Add(q[i].seq, TCP_TCPLEN(q[i])), ackno)})
  IN  [freed |-> SubSeq(q, 1, n), kept |-> SubSeq(q, n + 1, Len(q))]

UpdateSendWindow(p, s) ==
  IF \/ TCP_SEQ_LT(p.snd_wl1, s.seqno)
     \/ p.snd_wl1 = s.seqno /\ TCP_SEQ_LT(p.snd_wl2, s.ackno)
     \/ p.snd_wl2 = s.ackno /\ s.wnd > p.snd_wnd
  THEN [p EXCEPT !.snd_wnd = s.wnd, !.snd_wnd_max = Greater(@, s.wnd),
                 !.snd_wl1 = s.seqno, !.snd_wl2 = s.ackno]
  ELSE p

\* The five clauses of a duplicate ACK; the counter is cut at 4, past which
\* nothing depends on it.
DuplicateAck(c, s, edge) ==
  LET n == Lesser(c.p.dupacks + 1, 4)
      d == [c EXCEPT !.p.dupacks = n,
                     !.p.cwnd = IF n > 3 THEN TCP_WND_INC(@, c.p.mss) ELSE @]
  IN  IF /\ tcplen(s) = 0
         /\ Add(c.p.snd_wl2, c.p.snd_wnd) = edge
         /\ c.p.rtime >= 0
         /\ c.p.lastack = s.ackno
      THEN IF n >= 3 THEN tcp_rexmit_fast(d) ELSE d
      ELSE c

\* Slow start below ssthresh, one segment per window above it.
GrowCwnd(p, acked) ==
  LET segs == IF "RTO" \in p.flags THEN 1 ELSE 2
      counted == TCP_WND_INC(p.bytes_acked, acked)
  IN  IF p.cwnd < p.ssthresh
      THEN [p EXCEPT !.cwnd = TCP_WND_INC(@, Lesser(acked, segs * p.mss))]
      ELSE IF counted >= p.cwnd
      THEN [p EXCEPT !.bytes_acked = counted - p.cwnd, !.cwnd = TCP_WND_INC(@, p.mss)]
      ELSE [p EXCEPT !.bytes_acked = counted]

LeaveRecovery(p) ==
  IF "INFR" \in p.flags
  THEN [p EXCEPT !.flags = @ \ {"INFR"}, !.cwnd = p.ssthresh, !.bytes_acked = 0]
  ELSE p

\* a and u are what the acknowledgement frees and leaves of unacked and unsent.
FreeAcked(c, a, u) ==
  LET freed == SegmentBytes(a.freed \o u.freed)
      oldest == a.kept \o u.kept
      roundOver == oldest = << >> \/ TCP_SEQ_LEQ(c.p.rto_end, Head(oldest).seq)
  IN  [c EXCEPT
        !.p.unacked = a.kept, !.p.unsent = u.kept,
        !.p.snd_queuelen = @ - Pbufs(a.freed \o u.freed),
        !.p.rtime = IF a.kept = << >> THEN -1 ELSE 0,
        !.p.unsent_oversize = IF u.kept = << >> THEN 0 ELSE @,
        !.p.snd_buf = @ + freed,
        !.p.flags = IF roundOver THEN @ \ {"RTO"} ELSE @,
        !.racked = @ + freed]

\* New data acknowledged: leave fast recovery, free the segments, restart or
\* stop the retransmission timer, end the retransmission round.
NewAck(c, s) ==
  FreeAcked([c EXCEPT !.p = GrowCwnd([LeaveRecovery(@) EXCEPT !.nrtx = 0, !.dupacks = 0,
                                                              !.lastack = s.ackno],
                                     Diff(s.ackno, c.p.lastack))],
            tcp_free_acked_segments(c.p.unacked, s.ackno),
            tcp_free_acked_segments(c.p.unsent, s.ackno))

ReceiveAck(c, s) ==
  LET d == [c EXCEPT !.p = UpdateSendWindow(@, s)]
  IN  IF "ACK" \notin s.flags THEN c
      ELSE IF TCP_SEQ_LEQ(s.ackno, c.p.lastack)
      THEN DuplicateAck(d, s, Add(c.p.snd_wnd, c.p.snd_wl2))
      ELSE IF TCP_SEQ_BETWEEN(s.ackno, Add(c.p.lastack, 1), c.p.snd_nxt) THEN NewAck(d, s)
      ELSE tcp_send_empty_ack(d)

\* What arrived, as a segment of the out-of-sequence queue.
InSeg(s) == Segment(s.seqno, s.data, s.flags \cap {"FIN"}, 1)

EndOfData(seg) == Add(seg.seq, Len(seg.data))

TrimTo(seg, seqno) == [seg EXCEPT !.data = SubSeq(@, 1, Diff(seqno, seg.seq))]

FinOf(q) == UNION {q[i].flags \cap {"FIN"} : i \in DOMAIN q}

\* seg without what overlaps the segments behind it.
CutBefore(seg, end, rest) ==
  IF rest # << >> /\ TCP_SEQ_GT(end, Head(rest).seq) THEN TrimTo(seg, Head(rest).seq) ELSE seg

JoinAt(seg, next, n) ==
  LET rest == SubSeq(next, n + 1, Len(next))
  IN  <<CutBefore([seg EXCEPT !.flags = @ \cup FinOf(SubSeq(next, 1, n))], EndOfData(seg), rest)>>
        \o rest

\* tcp_oos_insert_segment: cseg in front of next, the segments it covers removed
\* and their FIN taken over, itself cut where the next one begins.
tcp_oos_insert_segment(cseg, next) ==
  LET covered == {i \in DOMAIN next : TCP_SEQ_GEQ(EndOfData(cseg), EndOfData(next[i]))}
  IN  IF "FIN" \in cseg.flags THEN <<cseg>> ELSE JoinAt(cseg, next, FirstRun(covered))

\* The place of an arrived segment in the queue of out-of-sequence segments: a
\* longer one replaces the one that starts where it does, unless that is the
\* last, which was cut to fit the window; a segment behind the last is cut to
\* the window, and none is queued behind a FIN.
QueueOutOfSequence(p, in) ==
  LET q == p.ooseq
      edge == Add(p.rcv_nxt, p.rcv_wnd)
      same == {i \in 1 .. Len(q) : q[i].seq = in.seq}
      n == Cardinality({i \in 1 .. Len(q) : TCP_SEQ_LT(q[i].seq, in.seq)})
      front == [i \in 1 .. n |-> IF i = n THEN CutBefore(q[i], EndOfData(q[i]), <<in>>) ELSE q[i]]
      fits == IF TCP_SEQ_GT(Add(in.seq, TCP_TCPLEN(in)), edge)
              THEN [TrimTo(in, edge) EXCEPT !.flags = {}] ELSE in
  IN  IF q = << >> THEN <<in>>
      ELSE IF same # {} THEN
        LET i == CHOOSE i \in same : TRUE
        IN  IF Len(in.data) > Len(q[i].data) /\ i < Len(q)
            THEN SubSeq(q, 1, i - 1) \o tcp_oos_insert_segment(in, SubSeq(q, i, Len(q)))
            ELSE q
      ELSE IF n < Len(q) THEN front \o tcp_oos_insert_segment(in, SubSeq(q, n + 1, Len(q)))
      ELSE IF "FIN" \in Last(q).flags THEN q
      ELSE Append(front, fits)

\* One segment joins the received stream: the window shrinks by its length.
TakeSegment(c, seg) ==
  [c EXCEPT !.p = tcp_update_rcv_ann_wnd([@ EXCEPT !.rcv_nxt = Add(@, TCP_TCPLEN(seg)),
                                                   !.rcv_wnd = @ - TCP_TCPLEN(seg)]),
            !.rdata = @ \o seg.data,
            !.rflags = IF "FIN" \in seg.flags THEN @ \cup {"GOT_FIN"} ELSE @]

RECURSIVE TakeQueued(_)
TakeQueued(c) ==
  LET seg == Head(c.p.ooseq)
      d == TakeSegment([c EXCEPT !.p.ooseq = Tail(@)], seg)
  IN  IF c.p.ooseq = << >> \/ seg.seq # c.p.rcv_nxt THEN c
      ELSE TakeQueued(IF "FIN" \in seg.flags /\ d.p.state = "ESTABLISHED"
                      THEN [d EXCEPT !.p.state = "CLOSE_WAIT"] ELSE d)

TakeAll(c, seg, rest) ==
  tcp_ack(TakeQueued(TakeSegment([c EXCEPT !.p.ooseq = rest],
                                 CutBefore(seg, Add(seg.seq, TCP_TCPLEN(seg)), rest))))

\* The queued segments that in covers give way to it; their FIN counts.
JoinInSequence(c, in) ==
  LET q == c.p.ooseq
      End(i) == Add(EndOfData(in), IF FinOf(SubSeq(q, 1, i - 1)) = {} THEN 0 ELSE 1)
      covered == {i \in DOMAIN q : TCP_SEQ_GEQ(End(i), EndOfData(q[i]))}
      Behind(n) == TakeAll(c, [in EXCEPT !.flags = FinOf(SubSeq(q, 1, n))],
                           SubSeq(q, n + 1, Len(q)))
  IN  IF "FIN" \in in.flags THEN TakeAll(c, in, << >>) ELSE Behind(FirstRun(covered))

\* The next segment of the stream: cut to the window, then cut to or joined with
\* what is queued out of sequence, then taken with all that it makes contiguous.
TakeInSequence(c, arrived) ==
  JoinInSequence(c, IF TCP_TCPLEN(arrived) > c.p.rcv_wnd
                    THEN [arrived EXCEPT !.flags = {},
                                         !.data = SubSeq(@, 1, Lesser(Len(@), c.p.rcv_wnd))]
                    ELSE arrived)

InWindow(p, seqno) == TCP_SEQ_BETWEEN(seqno, p.rcv_nxt, Diff(Add(p.rcv_nxt, p.rcv_wnd), 1))

Receive(c, in) ==
  IF ~InWindow(c.p, in.seq) THEN tcp_send_empty_ack(c)
  ELSE IF in.seq = c.p.rcv_nxt THEN TakeInSequence(c, in)
  ELSE tcp_send_empty_ack(IF c.mem THEN [c EXCEPT !.p.ooseq = QueueOutOfSequence(c.p, in)] ELSE c)

\* The data half of tcp_receive: the part already received is cut off; what is
\* next is taken, what lies ahead in the window is queued, the rest is answered.
ReceiveData(c, s) ==
  LET nxt == c.p.rcv_nxt
      off == Diff(nxt, s.seqno)
  IN  IF tcplen(s) = 0 \/ c.p.state \notin {"ESTABLISHED", "FIN_WAIT_1", "FIN_WAIT_2"}
      THEN IF InWindow(c.p, s.seqno) THEN c ELSE tcp_ack_now(c)
      ELSE IF TCP_SEQ_BETWEEN(nxt, Add(s.seqno, 1), Diff(Add(s.seqno, tcplen(s)), 1))
      THEN Receive(c, [InSeg(s) EXCEPT !.seq = nxt, !.data = SubSeq(@, off + 1, Len(@))])
      ELSE Receive(IF TCP_SEQ_LT(s.seqno, nxt) THEN tcp_ack_now(c) ELSE c, InSeg(s))

tcp_receive(c, s) == ReceiveData(ReceiveAck(c, s), s)

\* A reset is believed when its number is exact; one merely in the window is
\* answered with an ACK.
ProcessRst(c, s) ==
  LET p == c.p
      acceptable == IF p.state = "SYN_SENT" THEN s.ackno = p.snd_nxt ELSE s.seqno = p.rcv_nxt
  IN  IF acceptable
      THEN [c EXCEPT !.rflags = @ \cup {"RESET"}, !.p.flags = @ \ {"ACK_DELAY"}]
      ELSE IF /\ p.state # "SYN_SENT"
              /\ TCP_SEQ_BETWEEN(s.seqno, p.rcv_nxt, Add(p.rcv_nxt, p.rcv_wnd))
      THEN tcp_ack_now(c)
      ELSE c

\* TCP_EVENT_CONNECTED and TCP_EVENT_ACCEPT: the application owns the connection
\* from now on, or aborts it.
TakeConnection(c, does) ==
  IF does = "abort" THEN tcp_abort(c) ELSE [c EXCEPT !.app.open = TRUE]

ProcessSynSent(c, s, does) ==
  LET p == c.p
      unsent == IF p.unacked = << >> THEN Tail(p.unsent) ELSE p.unsent
      unacked == IF p.unacked = << >> THEN << >> ELSE Tail(p.unacked)
      Up == [p EXCEPT
               !.rcv_nxt = Add(s.seqno, 1), !.rcv_ann_right_edge = Add(s.seqno, 1),
               !.lastack = s.ackno, !.snd_wnd = s.wnd, !.snd_wnd_max = s.wnd,
               !.snd_wl1 = Diff(s.seqno, 1), !.state = "ESTABLISHED",
               !.cwnd = LWIP_TCP_CALC_INITIAL_CWND(p.mss),
               !.snd_queuelen = @ - 1, !.unsent = unsent, !.unacked = unacked,
               !.rtime = IF unacked = << >> THEN -1 ELSE 0,
               !.nrtx = IF unacked = << >> THEN @ ELSE 0]
      rst == RstReply(c, s)
      Ack(d) == IF Gone(d) THEN d ELSE tcp_ack_now(d)
  IN  IF {"SYN", "ACK"} \subseteq s.flags /\ s.ackno = Add(p.lastack, 1)
      THEN Ack(TakeConnection([c EXCEPT !.p = Up], does))
      ELSE IF "ACK" \notin s.flags THEN c
      ELSE IF p.nrtx < TCP_SYNMAXRTX THEN tcp_rexmit_rto([rst EXCEPT !.p.rtime = 0])
      ELSE rst

\* The FIN that a segment brought has been taken.
CloseWaitOnFin(c) ==
  IF "GOT_FIN" \in c.rflags THEN [tcp_ack_now(c) EXCEPT !.p.state = "CLOSE_WAIT"] ELSE c

\* A block whose listener has gone is aborted.
Accepted(c, does) ==
  IF c.p.listener THEN TakeConnection(tcp_backlog_accepted(c), does) ELSE tcp_abort(c)

\* What the ACK of the handshake brings to an accepted connection.
ReceiveFirst(c, s, mss) ==
  IF Gone(c) THEN c
  ELSE CloseWaitOnFin([tcp_receive(c, s) EXCEPT !.racked = Greater(@ - 1, 0),
                                                !.p.cwnd = LWIP_TCP_CALC_INITIAL_CWND(mss)])

\* The ACK of the handshake completes a passive open.
ProcessSynRcvd(c, s, does) ==
  LET acked == TCP_SEQ_BETWEEN(s.ackno, Add(c.p.lastack, 1), c.p.snd_nxt)
  IN  CASE "SYN" \in s.flags -> IF s.seqno = Diff(c.p.rcv_nxt, 1) THEN tcp_rexmit(c) ELSE c
        [] "SYN" \notin s.flags /\ "ACK" \in s.flags ->
             IF ~acked THEN RstReply(c, s)
             ELSE ReceiveFirst(Accepted([c EXCEPT !.p.state = "ESTABLISHED"], does), s, c.p.mss)
        [] OTHER -> c

TimeWait(c) == [tcp_pcb_purge(c) EXCEPT !.p.state = "TIME_WAIT"]

\* The closing states after tcp_receive: ours is acknowledged when the ACK covers
\* all that was sent and nothing waits to be sent.
ProcessClosing(c, s) ==
  LET finAcked == "ACK" \in s.flags /\ s.ackno = c.p.snd_nxt /\ c.p.unsent = << >>
      gotFin == "GOT_FIN" \in c.rflags
  IN  CASE c.p.state = "FIN_WAIT_1" ->
             CASE gotFin /\ finAcked -> TimeWait(tcp_ack_now(c))
               [] gotFin /\ ~finAcked -> [tcp_ack_now(c) EXCEPT !.p.state = "CLOSING"]
               [] ~gotFin /\ finAcked -> [c EXCEPT !.p.state = "FIN_WAIT_2"]
               [] OTHER -> c
        [] c.p.state = "FIN_WAIT_2" -> IF gotFin THEN TimeWait(tcp_ack_now(c)) ELSE c
        [] c.p.state = "CLOSING" -> IF finAcked THEN TimeWait(c) ELSE c
        [] c.p.state = "LAST_ACK" ->
             IF finAcked THEN [c EXCEPT !.rflags = @ \cup {"CLOSED"}] ELSE c

tcp_process(c, s, does) ==
  LET p == c.p
      d == [c EXCEPT !.p.persist_probe = 0]
  IN  CASE "RST" \in s.flags -> ProcessRst(c, s)
        [] "RST" \notin s.flags /\ "SYN" \in s.flags /\ p.state \notin {"SYN_SENT", "SYN_RCVD"} ->
             tcp_ack_now(c)
        [] OTHER ->
             CASE p.state = "SYN_SENT" -> ProcessSynSent(d, s, does)
               [] p.state = "SYN_RCVD" -> ProcessSynRcvd(d, s, does)
               [] p.state \in {"ESTABLISHED", "CLOSE_WAIT"} -> CloseWaitOnFin(tcp_receive(d, s))
               [] OTHER -> ProcessClosing(tcp_receive(d, s), s)

tcp_input_delayed_close(c) ==
  IF "CLOSED" \notin c.rflags \/ Gone(c) THEN c
  ELSE tcp_free(tcp_pcb_remove(IF "RXCLOSED" \in c.p.flags THEN c ELSE TCP_EVENT_ERR(c, "CLSD")))

\* What tcp_input hands to the application once tcp_process is done: the data,
\* then the end of the stream; then it sends what it may.
DeliverData(c, does) ==
  IF Gone(c) \/ c.rdata = << >> THEN c
  ELSE IF "RXCLOSED" \in c.p.flags THEN tcp_abort(c)
  ELSE IF does = "refuse"
  THEN [c EXCEPT !.p.refused_data = [data |-> c.rdata, fin |-> FALSE, held |-> TRUE]]
  ELSE TCP_EVENT_RECV(c, c.rdata, does)

DeliverFin(c, does) ==
  IF Gone(c) \/ "GOT_FIN" \notin c.rflags THEN c
  ELSE IF c.p.refused_data.held THEN [c EXCEPT !.p.refused_data.fin = TRUE]
  ELSE TCP_EVENT_CLOSED(c, IF does = "close" /\ c.rdata = << >> THEN does ELSE "take")

tcp_input_end(c) ==
  LET Out(d) == IF Gone(d) THEN d ELSE tcp_output(d)
  IN  Out(tcp_input_delayed_close([c EXCEPT !.input = FALSE]))

\* tcp_input after tcp_process.
InputProcessed(c, does) ==
  IF Gone(c) THEN c
  ELSE IF "RESET" \in c.rflags THEN tcp_free(tcp_pcb_remove(TCP_EVENT_ERR(c, "RST")))
  ELSE tcp_input_end(DeliverFin(DeliverData(tcp_input_delayed_close(c), does), does))

\* New data is dropped while refused data is held.
InputOffered(c, s, does) ==
  IF Gone(c) THEN c
  ELSE IF c.p.refused_data.held /\ tcplen(s) > 0
  THEN IF c.p.rcv_ann_wnd = 0 THEN tcp_send_empty_ack(c) ELSE c
  ELSE InputProcessed(tcp_process([c EXCEPT !.input = TRUE, !.rflags = {}, !.racked = 0,
                                            !.rdata = << >>], s, does), does)

\* tcp_input for a segment of an active block: refused data is offered again
\* first.
InputActive(c, s, does) ==
  InputOffered(IF c.p.refused_data.held THEN tcp_process_refused_data(c, does) ELSE c, s, does)

\* A segment goes to the block of its connection, else to the listener (the first
\* of the list, whatever the address and port), else it is answered with a reset.
tcp_input(c, s, iss, does) ==
  CASE c.p.state \notin {"FREE", "TIME_WAIT"} -> InputActive(c, s, does)
    [] c.p.state = "TIME_WAIT" -> tcp_timewait_input(c, s)
    [] c.p.state = "FREE" /\ c.lis.open -> tcp_listen_input(c, s, iss)
    [] OTHER -> IF "RST" \in s.flags THEN c ELSE RstReply(c, s)

-----------------------------------------------------------------------------

(***************************************************************************)
(* Two lwIP endpoints that talk TCP over an IP network: the client opens   *)
(* the connection, the server has a listener.  Each has one block.  The    *)
(* network holds a bag of segments for each endpoint and may lose,         *)
(* duplicate and reorder them; an allocation may fail; the applications    *)
(* write, give window back, refuse data, shut down, close and abort as     *)
(* they like; the timers may expire at any tick.  Every call runs to its   *)
(* end before the next one (lwIP's core runs in one thread).               *)
(***************************************************************************)

CONSTANTS
  ISS,       \* initial sequence number of each endpoint (tcp_next_iss)
  MaxBytes,  \* bytes each application writes at most
  TcpWriteSizes,\* sizes of one tcp_write, for each endpoint
  MaxFlight, \* segments in flight to one endpoint
  Budget,    \* faults, timers and application choices, and connections accepted
  BACKLOG    \* backlog of the listener

VARIABLES pcb, tcpApp, lis, net, budget

tcpVars == <<pcb, tcpApp, lis, net, budget>>

Ends == {"client", "server"}
Peer(e) == IF e = "client" THEN "server" ELSE "client"

NewApp == [wrote |-> 0, got |-> << >>, pending |-> 0, eof |-> FALSE, err |-> "OK",
           open |-> FALSE]

NoListener == [pending |-> 0, backlog |-> 0, open |-> FALSE]

TcpInit ==
  /\ pcb = [e \in Ends |-> Freed]
  /\ tcpApp = [e \in Ends |-> NewApp]
  /\ lis = [pending |-> 0, backlog |-> BACKLOG, open |-> TRUE]
  /\ net = [e \in Ends |-> EmptyBag]
  /\ budget = Budget

\* A fault, a timer that expires or a choice of an application costs one unit of
\* the budget, whatever it is; what the system must be able to do is free.
Spend(what) ==
  LET purse == IF what = "accept" THEN what ELSE "credit"
  IN  IF what = "free" THEN budget' = budget
      ELSE budget[purse] > 0 /\ budget' = [budget EXCEPT ![purse] = @ - 1]

\* The context a call at e starts from, and what the call leaves behind.
Context(e, mem) ==
  [p |-> pcb[e], lis |-> IF e = "server" THEN lis ELSE NoListener, out |-> << >>, mem |-> mem,
   input |-> FALSE, rflags |-> {}, racked |-> 0, rdata |-> << >>, app |-> tcpApp[e]]

Sent(out) == FoldLeft(LAMBDA b, w: b (+) SetToBag({w}), EmptyBag, out)

TcpCommit(e, c, inNet) ==
  /\ pcb' = [pcb EXCEPT ![e] = c.p]
  /\ tcpApp' = [tcpApp EXCEPT ![e] = c.app]
  /\ lis' = IF e = "server" THEN c.lis ELSE lis
  /\ net' = [inNet EXCEPT ![Peer(e)] = @ (+) Sent(c.out)]
  /\ BagCardinality(net'[Peer(e)]) <= MaxFlight

TcpCall(e, c) == TcpCommit(e, c, net)

\* One failed allocation costs budget; else the call costs what it is worth.
Cost(mem, what) == Spend(IF mem THEN what ELSE "nomem")

Connect(mem) ==
  /\ Cost(mem, "free")
  /\ pcb["client"].state = "FREE" /\ tcpApp["client"] = NewApp
  /\ TcpCall("client", tcp_connect(Context("client", mem), ISS["client"]))

CloseListener ==
  /\ lis.open /\ Spend("unlisten")
  /\ lis' = [lis EXCEPT !.open = FALSE]
  /\ pcb' = [pcb EXCEPT !["server"] = tcp_listen_closed(Context("server", TRUE)).p]
  /\ UNCHANGED <<tcpApp, net>>

Positions(from, n) == [i \in 1 .. n |-> from + i]

Write(e, n, flush, mem) ==
  /\ Cost(mem, IF flush THEN "free" ELSE "unflushed")
  /\ tcpApp[e].open /\ MayWrite(pcb[e]) /\ tcpApp[e].wrote + n <= MaxBytes[e]
  /\ "FIN" \notin pcb[e].flags
  /\ \E c \in {tcp_write(Context(e, mem), Positions(tcpApp[e].wrote, n))} :
       TcpCall(e, IF flush THEN tcp_output(c) ELSE c)

Recved(e) ==
  /\ Spend("free")
  /\ tcpApp[e].open /\ tcpApp[e].pending > 0
  /\ TcpCall(e, tcp_recved([Context(e, TRUE) EXCEPT !.app.pending = 0], tcpApp[e].pending))

Shutdown(e, rx, mem) ==
  LET c == Context(e, mem)
  IN  /\ Cost(mem, "shutdown")
      /\ tcpApp[e].open /\ "FIN" \notin pcb[e].flags /\ "RXCLOSED" \notin pcb[e].flags
      /\ TcpCall(e, tcp_shutdown(c, rx, ~rx))

Close(e, mem) ==
  /\ Cost(mem, "close")
  /\ tcpApp[e].open
  /\ TcpCall(e, [tcp_close(Context(e, mem)) EXCEPT !.app.open = FALSE])

Abort(e) ==
  /\ Spend("abort")
  /\ tcpApp[e].open
  /\ TcpCall(e, tcp_abort(Context(e, TRUE)))

\* The bound "accept" is the number of connections the listener opens.
Opens(e, s) == pcb[e].state = "FREE" /\ e = "server" /\ lis.open /\ s.flags = {"SYN"}

Input(e, does, mem) ==
  \E s \in BagToSet(net[e]) :
    /\ Cost(mem, IF Opens(e, s) THEN "accept" ELSE IF does = "take" THEN "free" ELSE does)
    /\ does \in {"close", "abort"} => ~pcb[e].refused_data.held
    /\ TcpCommit(e, tcp_input(Context(e, mem), s, ISS[e], does),
              [net EXCEPT ![e] = @ (-) SetToBag({s})])

Lose(e) ==
  \E s \in BagToSet(net[e]) :
    /\ Spend("lose")
    /\ net' = [net EXCEPT ![e] = @ (-) SetToBag({s})]
    /\ UNCHANGED <<pcb, tcpApp, lis>>

Duplicate(e) ==
  \E s \in BagToSet(net[e]) :
    /\ Spend("dup") /\ BagCardinality(net[e]) < MaxFlight
    /\ net' = [net EXCEPT ![e] = @ (+) SetToBag({s})]
    /\ UNCHANGED <<pcb, tcpApp, lis>>

HasBlock(e) == pcb[e].state # "FREE"

FastTmr(e, does, mem) ==
  /\ Cost(mem, IF does = "take" THEN "free" ELSE does)
  /\ HasBlock(e)
  /\ pcb[e].state # "TIME_WAIT"
  /\ pcb[e].flags \cap {"ACK_DELAY", "CLOSEPEND"} # {} \/ pcb[e].refused_data.held
  /\ TcpCall(e, tcp_fasttmr(Context(e, mem), does))

TxNow(e) ==
  /\ Spend("free")
  /\ HasBlock(e) /\ "NAGLEMEMERR" \in pcb[e].flags
  /\ TcpCall(e, tcp_txnow(Context(e, TRUE)))

Quiet == \A e \in Ends : net[e] = EmptyBag

SlowTmr(e, due, mem) ==
  /\ Cost(mem, IF due \in {"none", "msl"} THEN "free" ELSE due)
  /\ HasBlock(e)
  /\ due = "msl" => Quiet
  /\ TcpCall(e, tcp_slowtmr(Context(e, mem), due))
  /\ pcb' # pcb \/ net' # net

TcpNext ==
  \/ \E mem \in BOOLEAN : Connect(mem)
  \/ CloseListener
  \/ \E e \in Ends, flush, mem \in BOOLEAN : \E n \in TcpWriteSizes[e] : Write(e, n, flush, mem)
  \/ \E e \in Ends : Recved(e)
  \/ \E e \in Ends, rx, mem \in BOOLEAN : Shutdown(e, rx, mem)
  \/ \E e \in Ends, mem \in BOOLEAN : Close(e, mem)
  \/ \E e \in Ends : Abort(e)
  \/ \E e \in Ends, does \in {"take", "refuse", "close", "abort"}, mem \in BOOLEAN : Input(e, does, mem)
  \/ \E e \in Ends : Lose(e)
  \/ \E e \in Ends : Duplicate(e)
  \/ \E e \in Ends, does \in {"take", "refuse"}, mem \in BOOLEAN : FastTmr(e, does, mem)
  \/ \E e \in Ends : TxNow(e)
  \/ \E e \in Ends, due \in {"none", "persist", "rto", "keep", "dead", "ooseq", "idle", "msl"},
        mem \in BOOLEAN : SlowTmr(e, due, mem)

TcpSpec == TcpInit /\ [][TcpNext]_tcpVars
-----------------------------------------------------------------------------
Held(e) == tcpApp[e].got \o pcb[e].refused_data.data

\* What an application received (or refused for now) is the beginning of what
\* its peer wrote, byte for byte, whatever the network lost, duplicated or
\* reordered and wherever the sequence numbers wrapped (tcp_receive).
StreamIsPrefix ==
  \A e \in Ends : Held(e) = Positions(0, Len(Held(e))) /\ Len(Held(e)) <= tcpApp[Peer(e)].wrote

BytesQueued(e) == SegmentBytes(pcb[e].unsent) + SegmentBytes(pcb[e].unacked)

Sending(e) == pcb[e].state \in {"ESTABLISHED", "CLOSE_WAIT", "FIN_WAIT_1", "FIN_WAIT_2",
                                "CLOSING", "LAST_ACK"}

\* The room in the send buffer and the queue length agree with the segments that
\* are queued, through every split, retransmission and acknowledgement
\* (tcp_write, tcp_receive, tcp_split_unsent_seg).
SendAccounting ==
  \A e \in Ends : Sending(e) =>
    /\ pcb[e].snd_buf + BytesQueued(e) = TCP_SND_BUF
    /\ pcb[e].snd_queuelen = Pbufs(pcb[e].unsent) + Pbufs(pcb[e].unacked)

\* A byte leaves the sender's queues only when the peer has taken it
\* (tcp_free_acked_segments): data that may still be needed is never dropped.
AckedWasReceived ==
  \A e \in Ends : Sending(e) /\ Sending(Peer(e)) /\ "RXCLOSED" \notin pcb[Peer(e)].flags =>
    tcpApp[e].wrote - BytesQueued(e) <= Len(Held(Peer(e)))

\* The retransmission timer runs whenever something is unacknowledged
\* (tcp_output_segment, tcp_receive).
TimerRuns ==
  \A e \in Ends : pcb[e].unacked # << >> => pcb[e].rtime >= 0

\* The end of the stream is reported only behind all of it (tcp_split_unsent_seg,
\* "Migrate flags from original segment").
EofAfterAllData ==
  \A e \in Ends : tcpApp[e].eof => Len(tcpApp[e].got) = tcpApp[Peer(e)].wrote

\* The right edge of the window a peer was told never moves to the left while a
\* connection lives (tcp_update_rcv_ann_wnd).
EdgeNeverMovesLeft ==
  \A e \in Ends :
    Sending(e) /\ pcb'[e].state \notin {"FREE", "CLOSED"} =>
      TCP_SEQ_GEQ(pcb'[e].rcv_ann_right_edge, pcb[e].rcv_ann_right_edge)
==============================================================================
