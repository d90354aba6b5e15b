--------------------------------- MODULE Tcp ---------------------------------
(***************************************************************************)
(* The protocol control block of lwIP's TCP and the arithmetic it rests    *)
(* on: sequence numbers modulo SEQ (2^32 in the code), the macros that     *)
(* compare them, the queues of segments, and the functions of tcp.c that   *)
(* create, purge and free a block (src/core/tcp.c,                         *)
(* include/lwip/priv/tcp_priv.h).                                          *)
(*                                                                         *)
(* A function of the code that changes a block and sends segments is an    *)
(* operator on a context c: the block c.p, the listener c.lis it came      *)
(* from, the segments c.out the call has put on the wire, the application  *)
(* c.app its callbacks change, and the variables of one run of tcp_input.  *)
(* c.mem says whether the allocations of the call succeed.                 *)
(*                                                                         *)
(* Abstractions: a byte is its position in the stream.  The retransmission *)
(* timer is either stopped (-1) or running (0), and may expire at any slow *)
(* tick, so the round-trip estimate (sa, sv, rto) is left out.             *)
(***************************************************************************)
EXTENDS Integers, SequencesExt

CONSTANTS
  SEQ,                      \* sequence numbers are 0 .. SEQ - 1
  TCP_WND,                  \* receive window of a new block
  TCP_MSS,                  \* largest segment
  TCP_SND_BUF,              \* bytes the application may have queued
  TCP_SND_QUEUELEN,         \* pbufs the application may have queued
  TCP_WND_UPDATE_THRESHOLD, \* window growth worth an ACK of its own
  TCPWND_MAX,               \* largest value of a window variable
  TCP_MAXRTX,               \* retransmissions before a connection is dropped
  TCP_SYNMAXRTX             \* the same for a SYN

ASSUME TcpConstants ==
  /\ {SEQ, TCP_WND, TCP_MSS, TCP_SND_BUF, TCPWND_MAX} \subseteq Nat \ {0}
  /\ 4 * TCP_WND <= SEQ

Lesser(a, b) == IF a < b THEN a ELSE b
Greater(a, b) == IF a > b THEN a ELSE b

Add(a, n) == (a + n) % SEQ
Diff(a, b) == (a - b) % SEQ

TCP_SEQ_LT(a, b) == Diff(a, b) >= SEQ \div 2
TCP_SEQ_LEQ(a, b) == ~TCP_SEQ_LT(b, a)
TCP_SEQ_GT(a, b) == TCP_SEQ_LT(b, a)
TCP_SEQ_GEQ(a, b) == TCP_SEQ_LEQ(b, a)
TCP_SEQ_BETWEEN(a, b, c) == TCP_SEQ_GEQ(a, b) /\ TCP_SEQ_LEQ(a, c)

\* A queued segment: its first sequence number, its bytes, its header flags and
\* the number of pbufs it is made of.
Segment(seq, data, flags, clen) ==
  [seq |-> seq, data |-> data, flags |-> flags, clen |-> clen]

TCP_TCPLEN(seg) == Len(seg.data) + IF seg.flags \cap {"SYN", "FIN"} # {} THEN 1 ELSE 0

\* How many places of a queue, from the first on, are in S.
FirstRun(S) == CHOOSE n \in S \cup {0} : 1 .. n \subseteq S /\ n + 1 \notin S

\* The bytes of a queue of segments.
SegmentBytes(q) == FoldLeft(LAMBDA n, seg: n + Len(seg.data), 0, q)
Pbufs(q) == FoldLeft(LAMBDA n, seg: n + seg.clen, 0, q)

TCP_WND_INC(wnd, inc) == Lesser(wnd + inc, TCPWND_MAX)

LWIP_TCP_CALC_INITIAL_CWND(mss) == Lesser(4 * mss, TCPWND_MAX)

NoData == [data |-> << >>, fin |-> FALSE, held |-> FALSE]

tcp_alloc ==
  [state |-> "CLOSED", flags |-> {}, listener |-> FALSE,
   rcv_nxt |-> 0, rcv_wnd |-> TCP_WND, rcv_ann_wnd |-> TCP_WND, rcv_ann_right_edge |-> 0,
   snd_nxt |-> 0, snd_lbb |-> 0, snd_wl1 |-> 0, snd_wl2 |-> 0,
   snd_wnd |-> 0, snd_wnd_max |-> 0, lastack |-> 0, dupacks |-> 0,
   mss |-> TCP_MSS, cwnd |-> 1, ssthresh |-> TCP_SND_BUF, bytes_acked |-> 0,
   snd_buf |-> TCP_SND_BUF, snd_queuelen |-> 0, unsent_oversize |-> 0,
   unsent |-> << >>, unacked |-> << >>, ooseq |-> << >>, refused_data |-> NoData,
   rtime |-> -1, nrtx |-> 0, rto_end |-> 0, persist_backoff |-> 0, persist_probe |-> 0]

\* The slot of an endpoint that has no block.
Freed == [tcp_alloc EXCEPT !.state = "FREE"]

tcp_free(c) == [c EXCEPT !.p = Freed]

\* tcp_err, tcp_recv, tcp_sent: what the application's callbacks record.
TCP_EVENT_ERR(c, err) == [c EXCEPT !.app.err = err, !.app.open = FALSE]

tcp_backlog_accepted(c) ==
  IF "BACKLOGPEND" \in c.p.flags /\ c.p.listener
  THEN [c EXCEPT !.lis.pending = @ - 1, !.p.flags = @ \ {"BACKLOGPEND"}]
  ELSE c

\* tcp_remove_listener runs over every list of blocks but the listeners.
tcp_listen_closed(c) == [c EXCEPT !.p.listener = FALSE]

tcp_free_ooseq(c) == [c EXCEPT !.p.ooseq = << >>]

tcp_pcb_purge(c) ==
  IF c.p.state \in {"CLOSED", "TIME_WAIT", "LISTEN"} THEN c
  ELSE [tcp_free_ooseq(tcp_backlog_accepted(c)) EXCEPT
          !.p.refused_data = NoData, !.p.rtime = -1,
          !.p.unsent = << >>, !.p.unacked = << >>, !.p.unsent_oversize = 0]

tcp_ack_now(c) == [c EXCEPT !.p.flags = @ \cup {"ACK_NOW"}]

tcp_ack(c) ==
  IF "ACK_DELAY" \in c.p.flags
  THEN [c EXCEPT !.p.flags = (@ \ {"ACK_DELAY"}) \cup {"ACK_NOW"}]
  ELSE [c EXCEPT !.p.flags = @ \cup {"ACK_DELAY"}]

\* How far the window the peer knows of would move (the value the function of
\* the same name returns), and the window to announce.
WndInflation(p) ==
  LET edge == Add(p.rcv_nxt, p.rcv_wnd)
  IN  IF TCP_SEQ_GEQ(edge, Add(p.rcv_ann_right_edge, Lesser(TCP_WND \div 2, p.mss)))
      THEN Diff(edge, p.rcv_ann_right_edge) ELSE 0
\* Faulty variant: a window that cannot grow is announced as closed.
AnnounceGrowthOnly(p) ==
  [p EXCEPT !.rcv_ann_wnd =
     IF TCP_SEQ_GEQ(Add(p.rcv_nxt, p.rcv_wnd),
                    Add(p.rcv_ann_right_edge, Lesser(TCP_WND \div 2, p.mss)))
     THEN p.rcv_wnd ELSE 0]

tcp_update_rcv_ann_wnd(p) ==
  [p EXCEPT !.rcv_ann_wnd =
     IF TCP_SEQ_GEQ(Add(p.rcv_nxt, p.rcv_wnd),
                    Add(p.rcv_ann_right_edge, Lesser(TCP_WND \div 2, p.mss)))
     THEN p.rcv_wnd
     ELSE IF TCP_SEQ_GT(p.rcv_nxt, p.rcv_ann_right_edge) THEN 0
     ELSE Diff(p.rcv_ann_right_edge, p.rcv_nxt)]

-----------------------------------------------------------------------------

(***************************************************************************)
(* The sending half of lwIP's TCP (src/core/tcp_out.c): queueing what the  *)
(* application writes, sending what the windows allow, retransmitting, and *)
(* the segments that carry no queued data (ACK, RST, keep-alive, window    *)
(* probe).  A segment on the wire is [flags, seqno, ackno, wnd, data];     *)
(* checksums, options, ports and addresses are left out, and the network   *)
(* interface always takes a segment (a segment it would lose is lost by    *)
(* the network).                                                           *)
(***************************************************************************)

Wire(flags, seqno, ackno, wnd, data) ==
  [flags |-> flags, seqno |-> seqno, ackno |-> ackno, wnd |-> wnd, data |-> data]

tcp_output_control_segment(c, w) == [c EXCEPT !.out = Append(@, w)]

\* A header with the block's acknowledgement; the peer now knows this window.
tcp_output_alloc_header(c, flags, seqno, data) ==
  [tcp_output_control_segment(c, Wire(flags, seqno, c.p.rcv_nxt, c.p.rcv_ann_wnd, data)) EXCEPT
     !.p.rcv_ann_right_edge = Add(c.p.rcv_nxt, c.p.rcv_ann_wnd)]

tcp_rst(c, seqno, ackno) ==
  IF c.mem THEN tcp_output_control_segment(c, Wire({"RST", "ACK"}, seqno, ackno, TCP_WND, << >>))
  ELSE c

tcp_send_empty_ack(c) ==
  IF c.mem
  THEN [tcp_output_alloc_header(c, {"ACK"}, c.p.snd_nxt, << >>) EXCEPT
          !.p.flags = @ \ {"ACK_DELAY", "ACK_NOW"}]
  ELSE [c EXCEPT !.p.flags = @ \cup {"ACK_DELAY", "ACK_NOW"}]

tcp_keepalive(c) ==
  IF c.mem THEN tcp_output_alloc_header(c, {"ACK"}, Diff(c.p.snd_nxt, 1), << >>) ELSE c

\* One byte of the first unsent segment, or its FIN, into a closed window.
tcp_zero_window_probe(c) ==
  LET seg == Head(c.p.unsent)
      isFin == "FIN" \in seg.flags /\ seg.data = << >>
      d == tcp_output_alloc_header(c, IF isFin THEN {"ACK", "FIN"} ELSE {"ACK"}, seg.seq,
                                   IF isFin THEN << >> ELSE SubSeq(seg.data, 1, 1))
      nxt == Add(seg.seq, 1)
      counted == [c EXCEPT !.p.persist_probe = @ + 1]
  IN  IF c.p.unsent = << >> THEN c
      ELSE IF ~c.mem THEN counted
      ELSE [d EXCEPT !.p.persist_probe = @ + 1,
                     !.p.snd_nxt = IF TCP_SEQ_LT(@, nxt) THEN nxt ELSE @]

tcp_output_segment(c, seg) ==
  [tcp_output_alloc_header(c, seg.flags, seg.seq, seg.data) EXCEPT
     !.p.rtime = IF @ < 0 THEN 0 ELSE @]

\* seg before the first segment of q that does not start before it.
InsertBySeq(q, seg) ==
  InsertAt(q, FirstRun({i \in DOMAIN q : TCP_SEQ_LT(q[i].seq, seg.seq)}) + 1, seg)

tcp_do_output_nagle(p) ==
  \/ p.unacked = << >>
  \/ p.flags \cap {"NODELAY", "INFR"} # {}
  \/ p.unsent # << >> /\ (Len(p.unsent) > 1 \/ Len(Head(p.unsent).data) >= p.mss)
  \/ p.snd_buf = 0
  \/ p.snd_queuelen >= TCP_SND_QUEUELEN

SendWindow(p) == Lesser(p.snd_wnd, p.cwnd)

FitsWindow(p) ==
  LET seg == Head(p.unsent)
  IN  (Diff(seg.seq, p.lastack) + Len(seg.data)) % SEQ <= SendWindow(p)

\* One round of the loop of tcp_output: the head of unsent goes out and, if it
\* takes sequence space, to unacked, which stays sorted.
SendHead(c) ==
  LET acked == IF c.p.state # "SYN_SENT" THEN {"ACK"} ELSE {}
      seg == [Head(c.p.unsent) EXCEPT !.flags = @ \cup acked]
      nxt == Add(seg.seq, TCP_TCPLEN(seg))
      after == c.p.unacked = << >> \/ ~TCP_SEQ_LT(seg.seq, Last(c.p.unacked).seq)
  IN  [tcp_output_segment(c, seg) EXCEPT
         !.p.unsent = Tail(@),
         !.p.flags = IF c.p.state # "SYN_SENT" THEN @ \ {"ACK_DELAY", "ACK_NOW"} ELSE @,
         !.p.snd_nxt = IF TCP_SEQ_LT(@, nxt) THEN nxt ELSE @,
         !.p.unacked = IF TCP_TCPLEN(seg) = 0 THEN @
                       ELSE IF after THEN Append(@, seg) ELSE InsertBySeq(@, seg)]

RECURSIVE SendWhatFits(_)
SendWhatFits(c) ==
  IF c.p.unsent = << >> THEN [c EXCEPT !.p.unsent_oversize = 0]
  ELSE IF ~FitsWindow(c.p) THEN c
  ELSE IF ~tcp_do_output_nagle(c.p) /\ c.p.flags \cap {"NAGLEMEMERR", "FIN"} = {} THEN c
  ELSE SendWhatFits(SendHead(c))

\* Nothing to send, or nothing that fits: an ACK that is due goes out alone.
AckAlone(c) ==
  IF "ACK_NOW" \in c.p.flags THEN tcp_send_empty_ack(c)
  ELSE [c EXCEPT !.p.flags = @ \ {"NAGLEMEMERR"}]

StartPersist(c) ==
  IF SendWindow(c.p) = c.p.snd_wnd /\ c.p.unacked = << >> /\ c.p.persist_backoff = 0
  THEN [c EXCEPT !.p.persist_backoff = 1, !.p.persist_probe = 0]
  ELSE c

\* tcp_output does nothing while tcp_input works on the same block.
tcp_output(c) ==
  IF c.input THEN c
  ELSE IF c.p.unsent = << >> THEN AckAlone(c)
  ELSE IF ~FitsWindow(c.p) THEN AckAlone(StartPersist(c))
  ELSE [SendWhatFits([c EXCEPT !.p.persist_backoff = 0]) EXCEPT !.p.flags = @ \ {"NAGLEMEMERR"}]

\* A segment that holds only a SYN or a FIN, at the end of unsent.
tcp_enqueue_flags(c, flags) ==
  IF ~c.mem THEN [c EXCEPT !.p.flags = @ \cup {"NAGLEMEMERR"}]
  ELSE [c EXCEPT !.p.unsent = Append(@, Segment(c.p.snd_lbb, << >>, flags, 1)),
                 !.p.unsent_oversize = 0,
                 !.p.snd_lbb = Add(@, 1),
                 !.p.flags = IF "FIN" \in flags THEN @ \cup {"FIN"} ELSE @,
                 !.p.snd_queuelen = @ + 1]

FinFitsLast(p) == p.unsent # << >> /\ Last(p.unsent).flags \cap {"SYN", "FIN"} = {}

tcp_send_fin(c) ==
  IF FinFitsLast(c.p)
  THEN [c EXCEPT !.p.unsent[Len(c.p.unsent)].flags = @ \cup {"FIN"},
                 !.p.flags = @ \cup {"FIN"}]
  ELSE tcp_enqueue_flags(c, {"FIN"})

\* Whether tcp_send_fin returns ERR_OK.
SendFinOk(c) == FinFitsLast(c.p) \/ c.mem

MayWrite(p) == p.state \in {"ESTABLISHED", "CLOSE_WAIT", "SYN_SENT", "SYN_RCVD"}

tcp_write_checks(p, len) == len <= p.snd_buf /\ p.snd_queuelen < TCP_SND_QUEUELEN

MssLocal(p) ==
  LET m == Lesser(p.mss, p.snd_wnd_max \div 2) IN IF m = 0 THEN p.mss ELSE m

\* tcp_pbuf_prealloc: the room left behind len bytes in a pbuf for max_length.
Oversize(p, len, max_length, first) ==
  IF len < max_length /\ "NODELAY" \notin p.flags
     /\ (~first \/ p.unsent # << >> \/ p.unacked # << >>)
  THEN max_length - len ELSE 0

\* The new segments tcp_write cuts the rest of the data into, one pbuf each.
CutIntoSegments(p, data, seqno) ==
  LET mss == MssLocal(p)
      n == (Len(data) + mss - 1) \div mss
      Piece(i) == SubSeq(data, (i - 1) * mss + 1, Lesser(i * mss, Len(data)))
  IN  [i \in 1 .. n |-> Segment(Add(seqno, (i - 1) * mss), Piece(i), {}, 1)]

\* The end of tcp_write: used bytes fill the last unsent segment's pbuf, chain
\* bytes a pbuf chained to it, where room were free, and fresh are new segments.
\* Nothing is kept if these need more pbufs than the queue may hold.
WriteSegments(c, data, used, room, chain, fresh) ==
  LET p == c.p
      kept == used + chain
      queuelen == p.snd_queuelen + (IF chain > 0 THEN 1 ELSE 0) + Len(fresh)
      over == IF fresh # << >>
              THEN Oversize(p, Len(Last(fresh).data), MssLocal(p), Len(fresh) = 1)
              ELSE IF chain > 0 THEN Oversize(p, chain, room, TRUE)
              ELSE p.unsent_oversize - used
      grown == IF kept = 0 THEN p.unsent
               ELSE [p.unsent EXCEPT ![Len(p.unsent)].data = @ \o SubSeq(data, 1, kept),
                                     ![Len(p.unsent)].clen = @ + (IF chain > 0 THEN 1 ELSE 0)]
  IN  IF \/ ~tcp_write_checks(p, Len(data))
         \/ ~c.mem /\ kept + Len(fresh) > used
         \/ fresh # << >> /\ queuelen > TCP_SND_QUEUELEN
      THEN [c EXCEPT !.p.flags = @ \cup {"NAGLEMEMERR"}]
      ELSE [c EXCEPT !.p.unsent = grown \o fresh,
                     !.p.unsent_oversize = over,
                     !.p.snd_lbb = Add(@, Len(data)),
                     !.p.snd_buf = @ - Len(data),
                     !.p.snd_queuelen = queuelen,
                     !.app.wrote = @ + Len(data)]

\* Phase 2: one more pbuf for the last segment, if it has data and room.
WriteChained(c, data, used, room) ==
  LET left == Len(data) - used
      Rest(chain) ==
        WriteSegments(c, data, used, room, chain,
                      CutIntoSegments(c.p, SubSeq(data, used + chain + 1, Len(data)),
                                      Add(c.p.snd_lbb, used + chain)))
  IN  Rest(IF left > 0 /\ room > 0 /\ Last(c.p.unsent).data # << >> THEN Lesser(room, left) ELSE 0)

\* Phase 1 fills the room left in the last pbuf of the last unsent segment, phase
\* 2 chains one more pbuf to it, phase 3 makes new segments.
tcp_write(c, data) ==
  LET Phases(space, used) == WriteChained(c, data, used, space - used)
      Within(space) == Phases(space, Lesser(space, Lesser(c.p.unsent_oversize, Len(data))))
  IN  Within(IF c.p.unsent # << >> THEN MssLocal(c.p) - Len(Last(c.p.unsent).data) ELSE 0)

\* The first unsent segment cut in two.  Its FIN is copied to the second part and
\* stays on the first: TCPH_SET_FLAG adds flags to a header and removes none.
tcp_split_unsent_seg(c, split) ==
  LET seg == Head(c.p.unsent)
      rest == Segment(Add(seg.seq, split), SubSeq(seg.data, split + 1, Len(seg.data)),
                      seg.flags \cap {"FIN"}, 1)
      first == [seg EXCEPT !.data = SubSeq(@, 1, split), !.clen = Lesser(@, split)]
  IN  IF c.p.unsent = << >> \/ Len(seg.data) <= split \/ ~c.mem THEN c
      ELSE [c EXCEPT !.p.unsent = <<first, rest>> \o Tail(@),
                     !.p.snd_queuelen = @ - seg.clen + first.clen + 1,
                     !.p.unsent_oversize = IF Len(c.p.unsent) = 1 THEN 0 ELSE @]

tcp_rexmit_rto_prepare(c) ==
  LET last == Last(c.p.unacked)
  IN  IF c.p.unacked = << >> THEN c
      ELSE [c EXCEPT !.p.unsent = c.p.unacked \o @, !.p.unacked = << >>,
                     !.p.flags = @ \cup {"RTO"},
                     !.p.rto_end = Add(last.seq, TCP_TCPLEN(last))]

tcp_rexmit_rto_commit(c) == tcp_output([c EXCEPT !.p.nrtx = @ + 1])

tcp_rexmit_rto(c) ==
  IF c.p.unacked = << >> THEN c ELSE tcp_rexmit_rto_commit(tcp_rexmit_rto_prepare(c))

tcp_rexmit(c) ==
  LET seg == Head(c.p.unacked)
      Requeued(q) == [c EXCEPT !.p.unacked = Tail(@), !.p.unsent = q, !.p.nrtx = @ + 1,
                               !.p.unsent_oversize = IF Last(q) = seg THEN 0 ELSE @]
  IN  IF c.p.unacked = << >> THEN c ELSE Requeued(InsertBySeq(c.p.unsent, seg))

tcp_rexmit_fast(c) ==
  LET half == Greater(Lesser(c.p.cwnd, c.p.snd_wnd) \div 2, 2 * c.p.mss)
  IN  IF c.p.unacked = << >> \/ "INFR" \in c.p.flags THEN c
      ELSE [tcp_rexmit(c) EXCEPT !.p.ssthresh = half,
                                 !.p.cwnd = Lesser(half + 3 * c.p.mss, TCPWND_MAX),
                                 !.p.flags = @ \cup {"INFR"}, !.p.rtime = 0]

-----------------------------------------------------------------------------

(***************************************************************************)
(* What the application calls and what the timers run (src/core/tcp.c):    *)
(* connecting, closing, aborting, giving window back, the refused data,    *)
(* tcp_fasttmr and tcp_slowtmr for one block.  Lists of blocks, ports and  *)
(* the choice of a victim when memory runs out are in Pcbs.                *)
(***************************************************************************)

tcp_connect(c, iss) ==
  LET opened == [tcp_alloc EXCEPT
        !.snd_nxt = iss, !.lastack = Diff(iss, 1), !.snd_wl2 = Diff(iss, 1),
        !.snd_lbb = Diff(iss, 1), !.snd_wnd = TCP_WND]
      queued == tcp_enqueue_flags([c EXCEPT !.p = opened], {"SYN"})
  IN  IF c.mem THEN tcp_output([queued EXCEPT !.p.state = "SYN_SENT"]) ELSE c

\* The block leaves the lists; a delayed ACK is sent before it is forgotten.
tcp_pcb_remove(c) ==
  LET Acked(d) == IF d.p.state # "TIME_WAIT" /\ "ACK_DELAY" \in d.p.flags
                  THEN tcp_output(tcp_ack_now(d)) ELSE d
  IN  [Acked(tcp_pcb_purge(c)) EXCEPT !.p.state = "CLOSED"]

tcp_abandon(c, reset) ==
  IF c.p.state = "TIME_WAIT" THEN tcp_free(tcp_pcb_remove(c))
  ELSE IF c.p.state = "CLOSED" THEN TCP_EVENT_ERR(tcp_free(c), "ABRT")
  ELSE LET Reset(d) == IF reset THEN tcp_rst(d, c.p.snd_nxt, c.p.rcv_nxt) ELSE d
       IN  TCP_EVENT_ERR(tcp_free(Reset(tcp_backlog_accepted(tcp_pcb_remove(c)))), "ABRT")

tcp_abort(c) == tcp_abandon(c, TRUE)

\* The FIN of an orderly close; without memory the close stays pending.
tcp_close_shutdown_fin(c) ==
  LET next == IF c.p.state = "CLOSE_WAIT" THEN "LAST_ACK" ELSE "FIN_WAIT_1"
      queued == tcp_send_fin(c)
      d == IF c.p.state = "SYN_RCVD" THEN tcp_backlog_accepted(queued) ELSE queued
  IN  IF c.p.state \notin {"SYN_RCVD", "ESTABLISHED", "CLOSE_WAIT"} THEN c
      ELSE IF SendFinOk(c) THEN tcp_output([d EXCEPT !.p.state = next])
      ELSE [queued EXCEPT !.p.flags = @ \cup {"CLOSEPEND"}]

\* Data the application has not taken turns a close into a reset.
tcp_close_shutdown(c, rst_on_unacked_data) ==
  IF /\ rst_on_unacked_data /\ c.p.state \in {"ESTABLISHED", "CLOSE_WAIT"}
     /\ c.p.refused_data.held \/ c.p.rcv_wnd # TCP_WND
  THEN LET d == tcp_pcb_purge(tcp_rst(c, c.p.snd_nxt, c.p.rcv_nxt))
       IN  IF c.input THEN [d EXCEPT !.rflags = @ \cup {"CLOSED"}] ELSE tcp_free(d)
  ELSE IF c.p.state = "CLOSED" THEN tcp_free(c)
  ELSE IF c.p.state = "SYN_SENT" THEN tcp_free(tcp_pcb_remove(c))
  ELSE tcp_close_shutdown_fin(c)

tcp_close(c) == tcp_close_shutdown([c EXCEPT !.p.flags = @ \cup {"RXCLOSED"}], TRUE)

tcp_shutdown(c, shut_rx, shut_tx) ==
  LET rx == [c EXCEPT !.p.flags = @ \cup {"RXCLOSED"}]
  IN  CASE shut_rx /\ shut_tx -> tcp_close_shutdown(rx, TRUE)
        [] shut_rx /\ ~shut_tx -> [rx EXCEPT !.p.refused_data = NoData]
        [] OTHER -> IF c.p.state \in {"SYN_RCVD", "ESTABLISHED", "CLOSE_WAIT"}
                    THEN tcp_close_shutdown(c, FALSE) ELSE c

tcp_recved(c, len) ==
  LET Announce(d) == [d EXCEPT !.p = tcp_update_rcv_ann_wnd(@)]
      Widened(d) == IF WndInflation(d.p) >= TCP_WND_UPDATE_THRESHOLD
                    THEN tcp_output(tcp_ack_now(Announce(d))) ELSE Announce(d)
  IN  Widened([c EXCEPT !.p.rcv_wnd = Lesser(@ + len, TCP_WND)])

\* The receive callback: the application takes the data, refuses it, closes or
\* aborts the connection.  After an abort the slot is free.
TCP_EVENT_RECV(c, data, does) ==
  LET taken == [c EXCEPT !.app.got = @ \o data, !.app.pending = @ + Len(data)]
  IN  CASE does = "take"   -> taken
        [] does = "refuse" -> c
        [] does = "close"  -> [tcp_close(taken) EXCEPT !.app.open = FALSE]
        [] does = "abort"  -> tcp_abort(taken)

\* The same callback with no data: the peer has closed its half.
TCP_EVENT_CLOSED(c, does) ==
  LET d == [c EXCEPT !.app.eof = TRUE,
                     !.p.rcv_wnd = IF @ # TCP_WND THEN @ + 1 ELSE @]
  IN  IF does = "close" THEN [tcp_close(d) EXCEPT !.app.open = FALSE] ELSE d

Gone(c) == c.p.state = "FREE"

tcp_process_refused_data(c, does) ==
  LET held == c.p.refused_data
      Fin(d) == IF Gone(d) \/ ~held.fin THEN d ELSE TCP_EVENT_CLOSED(d, "take")
  IN  IF does = "refuse" THEN c
      ELSE Fin(TCP_EVENT_RECV([c EXCEPT !.p.refused_data = NoData], held.data, does))

\* Delayed ACKs, pending closes and refused data, every 250 ms.
tcp_fasttmr(c, does) ==
  LET Acked == IF "ACK_DELAY" \in c.p.flags
               THEN [tcp_output(tcp_ack_now(c)) EXCEPT !.p.flags = @ \ {"ACK_DELAY", "ACK_NOW"}]
               ELSE c
      Closed(d) == IF "CLOSEPEND" \in d.p.flags
                   THEN tcp_close_shutdown_fin([d EXCEPT !.p.flags = @ \ {"CLOSEPEND"}])
                   ELSE d
      Offered(d) == IF d.p.refused_data.held THEN tcp_process_refused_data(d, does) ELSE d
  IN  Offered(Closed(Acked))

tcp_txnow(c) == IF "NAGLEMEMERR" \in c.p.flags THEN tcp_output(c) ELSE c

\* tcp_slowtmr, the persist timer: probe a closed window, split the first segment
\* for a window it does not fit.
PersistExpired(c) ==
  IF c.p.snd_wnd = 0 THEN tcp_zero_window_probe(c)
  ELSE LET d == tcp_split_unsent_seg(c, c.p.snd_wnd)
       IN  IF c.mem THEN tcp_output(d) ELSE d

\* tcp_slowtmr, the retransmission timer: everything unacknowledged is unsent
\* again, the congestion window closes.
RetransmitExpired(c) ==
  LET d == tcp_rexmit_rto_prepare(c)
      half == Greater(Lesser(c.p.cwnd, c.p.snd_wnd) \div 2, 2 * c.p.mss)
  IN  IF c.p.unacked = << >> /\ c.p.unsent = << >> THEN c
      ELSE tcp_rexmit_rto_commit([d EXCEPT !.p.rtime = 0, !.p.ssthresh = half,
                                           !.p.cwnd = c.p.mss, !.p.bytes_acked = 0])

TooManyTries(p) ==
  \/ p.state = "SYN_SENT" /\ p.nrtx >= TCP_SYNMAXRTX
  \/ p.nrtx >= TCP_MAXRTX
  \/ p.persist_backoff > 0 /\ p.persist_probe >= TCP_MAXRTX

\* Removal by tcp_slowtmr: with a reset only when the keep-alive probes failed.
SlowRemove(c, reset) ==
  LET d == tcp_pcb_purge(c)
      e == IF reset THEN tcp_rst(d, c.p.snd_nxt, c.p.rcv_nxt) ELSE d
  IN  TCP_EVENT_ERR(tcp_free(e), "ABRT")

\* The waits of tcp_slowtmr that end a connection, by the state they apply to.
\* They count from the last segment that set tmr; none does once the application
\* has closed the receiving half, so a wait may then be over when it begins.
WaitIsOver(p, due) ==
  \/ due = "idle" /\ p.state \in {"FIN_WAIT_2", "LAST_ACK", "TIME_WAIT"} /\ "RXCLOSED" \in p.flags
  \/ due = "idle" /\ p.state = "SYN_RCVD"
  \/ due = "msl" /\ p.state \in {"LAST_ACK", "TIME_WAIT"}

\* One pass of tcp_slowtmr over a block.  due names the wait that has run out by
\* this tick, if any.
tcp_slowtmr(c, due) ==
  LET timed == CASE due = "persist" /\ c.p.persist_backoff > 0 -> PersistExpired(c)
                 [] due = "rto" /\ c.p.persist_backoff = 0 /\ c.p.rtime = 0 -> RetransmitExpired(c)
                 [] due = "keep" /\ c.p.state \in {"ESTABLISHED", "CLOSE_WAIT"} -> tcp_keepalive(c)
                 [] due = "ooseq" -> tcp_free_ooseq(c)
                 [] OTHER -> c
      dead == due = "dead" /\ c.p.state \in {"ESTABLISHED", "CLOSE_WAIT"}
  IN  CASE c.p.state = "TIME_WAIT" -> IF WaitIsOver(c.p, due) THEN tcp_free(c) ELSE c
        [] c.p.state # "TIME_WAIT" /\ (TooManyTries(c.p) \/ WaitIsOver(c.p, due) \/ dead) ->
             SlowRemove(c, dead)
        [] OTHER -> tcp_output(timed)
==============================================================================
