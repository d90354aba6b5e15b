--------------------------- MODULE LwIPConnection ---------------------------
(***************************************************************************)
(* A TCP flow of the packet tunnel: the listener's accept callback, the    *)
(* channel LwIPConnection over an lwIP protocol control block, and the     *)
(* task of handleNewFlow that joins the channel to the local SOCKS proxy   *)
(* (Sources/NetbotLwIP).                                                   *)
(*                                                                         *)
(* Everything the channel does runs on one event loop, which executes its  *)
(* queued work in order; "loop" is that queue.  Three others add to it:    *)
(* the packet loop hands over one packet and waits until it was input      *)
(* before it hands over the next, the SOCKS channel's handler writes each  *)
(* reply, and the flow's task closes the channel when it ends.             *)
(*                                                                         *)
(* lwIP is seen through its callbacks: it accepts bytes while its send     *)
(* buffer has room, calls the recv, sent and err callbacks that are        *)
(* registered, and may fail a tcp_write or a tcp_output.  A payload is its *)
(* length; the bytes handed to lwIP are remembered, each as a byte of its  *)
(* reply.  The packet that ends the handshake may carry data and a FIN,    *)
(* which lwIP delivers in the same input, before any callback is set.      *)
(***************************************************************************)
EXTENDS Naturals, Sequences, FiniteSets

CONSTANTS
  Replies,    \* the lengths of the replies that arrive from the SOCKS proxy, in order
  SndBuf,     \* the size of lwIP's send buffer
  LowWater,   \* isWritable asks for more free space than this
  MaxData,    \* how many segments of data the peer may send
  MaxFaults   \* how often lwIP, the SOCKS connection or the peer may fail

ASSUME ConnectionAssumption ==
  /\ Replies \in Seq(Nat \ {0})
  /\ LowWater \in Nat /\ SndBuf \in Nat /\ LowWater < SndBuf
  /\ MaxData \in Nat /\ MaxFaults \in Nat

VARIABLES
  loop,           \* the event loop's queue of work
  turn,           \* what the event loop is in the middle of
  packets,        \* whether the packet loop waits for the packet it handed over
  peer,           \* what the peer of the TCP connection has sent; first and early are the
                  \* data and the FIN of the packet that ended the handshake
  callbacks,      \* the callbacks registered with lwIP
  isOpen, isActive, inputClosed, outputClosed,
  socketOpen,     \* socket.isOpen
  closeFuture,    \* whether closePromise was succeeded
  pendingWrites,  \* the writes not yet handed to lwIP, each with the bytes it has left
  mark,           \* the flush mark: an index of pendingWrites, or 0
  promise,        \* how each reply's write ended
  stream,         \* the bytes handed to lwIP
  acked,          \* how many of them the peer acknowledged
  received,       \* segments of data fired into the pipeline
  discarded,      \* segments of data lwIP dropped for want of a callback
  eof,            \* whether the end of the input was fired into the pipeline
  flow,           \* where the task of handleNewFlow is
  forwarded,      \* segments it has written to the SOCKS proxy
  replies,        \* replies the SOCKS proxy has sent
  faults

channel == <<isOpen, isActive, inputClosed, outputClosed, socketOpen, callbacks>>
writes == <<pendingWrites, mark, promise, stream>>
inbound == <<received, discarded, eof>>
task == <<flow, forwarded, replies>>
flowVars == <<loop, turn, packets, peer, channel, closeFuture, writes, acked, inbound, task, faults>>

Reply == DOMAIN Replies
Work == [op : {"handshake"}, arg : {0, 1}]
          \cup [op : {"data", "fin", "rst", "register", "close", "closed"}, arg : {0}]
          \cup [op : {"ack"}, arg : Nat] \cup [op : {"write"}, arg : Reply]

FlowInit ==
  /\ loop = <<>> /\ turn = "idle" /\ packets = "idle"
  /\ peer = [shook |-> FALSE, first |-> 0, early |-> FALSE, data |-> 0, fin |-> FALSE, reset |-> FALSE]
  /\ callbacks = {} /\ closeFuture = FALSE
  /\ isOpen = FALSE /\ isActive = FALSE /\ inputClosed = FALSE /\ outputClosed = FALSE
  /\ socketOpen = FALSE
  /\ pendingWrites = <<>> /\ mark = 0 /\ promise = [r \in Reply |-> "none"]
  /\ stream = <<>> /\ acked = 0
  /\ received = 0 /\ discarded = 0 /\ eof = FALSE
  /\ flow = "none" /\ forwarded = 0 /\ replies = 0 /\ faults = 0

-----------------------------------------------------------------------------
(* The packet loop and the peer behind it.                                  *)

\* Faulty variant: the packet loop does not wait for the packet it submitted.
SubmitWithoutWaiting(op, n) ==
  /\ loop' = Append(loop, [op |-> op, arg |-> n])
  /\ UNCHANGED packets

\* handleNewPackets: input(packetObject) is submitted to the event loop and its
\* future awaited before the next packet is looked at.
Submit(op, n) ==
  /\ packets = "idle"
  /\ packets' = "waiting"
  /\ loop' = Append(loop, [op |-> op, arg |-> n])

\* A packet of the peer, as tcp_process tells it apart.  The ACK that takes the control
\* block out of SYN_RCVD may carry data and a FIN; after that come data, a FIN and a RST.
PeerSends ==
  /\ ~peer.reset
  /\ \/ /\ ~peer.shook
        /\ \E n \in {0, 1}, f \in BOOLEAN :
             /\ n <= MaxData
             /\ Submit("handshake", n)
             /\ peer' = [shook |-> TRUE, first |-> n, early |-> f, data |-> n, fin |-> f,
                         reset |-> FALSE]
        /\ UNCHANGED faults
     \/ /\ peer.shook /\ ~peer.fin /\ peer.data < MaxData
        /\ Submit("data", 0) /\ peer' = [peer EXCEPT !.data = @ + 1]
        /\ UNCHANGED faults
     \/ /\ peer.shook /\ ~peer.fin
        /\ Submit("fin", 0) /\ peer' = [peer EXCEPT !.fin = TRUE]
        /\ UNCHANGED faults
     \/ /\ peer.shook /\ faults < MaxFaults
        /\ Submit("rst", 0) /\ peer' = [peer EXCEPT !.reset = TRUE]
        /\ faults' = faults + 1
  /\ UNCHANGED <<turn, channel, closeFuture, writes, acked, inbound, task>>

PeerAcks ==
  /\ ~peer.reset
  /\ \E n \in acked + 1 .. Len(stream) : Submit("ack", n)
  /\ UNCHANGED <<turn, peer, channel, closeFuture, writes, acked, inbound, task, faults>>

-----------------------------------------------------------------------------
(* The event loop.  A turn takes the first piece of work and runs its       *)
(* handler to the end; only a flush and an accept take several steps.       *)

Turn(op) == turn = "idle" /\ loop # <<>> /\ Head(loop).op = op

\* The future the packet loop waits for completes when its input has returned.  (Here that
\* may be before a flush the input led to is over; the next packet queues up behind it.)
Resume == packets' = "idle"

\* isWritable: "We can't compare with zero here".
Writable(free) == free > LowWater

Free(sent, n) == SndBuf - (Len(sent) - n)

\* Faulty variant: flushNow is skipped while an earlier part of the stream is unacknowledged.
flushWhenAllAcked == turn' = IF mark' > 0 /\ isOpen' /\ Len(stream') = acked'
                             THEN "flushing" ELSE "idle"

\* flushNow: the loop runs while a write is marked, the channel is open and writable.
\* (isFlushPending keeps a nested call out; the turn that flushes is not interrupted.)
flushNow == turn' = IF mark' > 0 /\ isOpen' /\ Writable(Free(stream', acked'))
                    THEN "flushing" ELSE "idle"

\* A FIN that came with the end of the handshake made tcp_recv_null close the control
\* block: lwIP takes nothing more to send, and frees the block without a callback when
\* the peer has acknowledged the close.  The channel does not learn of it.
Abandoned == peer.early /\ flow # "none"

\* The accept callback makes the channel and calls handleNewFlow, which starts a task of
\* its own; when it has returned, tcp_input delivers what the packet carried, with
\* tcp_recv_null as the receive callback: data is acknowledged and freed, and a FIN
\* closes the control block (Abandoned).  Nothing in between can tell the two apart ...
Accept ==
  /\ Turn("handshake")
  /\ loop' = Tail(loop) /\ turn' = "accepting"
  /\ isOpen' = TRUE /\ socketOpen' = TRUE
  /\ flow' = "started"
  /\ discarded' = discarded + Head(loop).arg
  /\ UNCHANGED <<packets, peer, isActive, inputClosed, outputClosed, callbacks, closeFuture,
                 writes, acked, received, eof, forwarded, replies, faults>>

\* ... then it fires the channel through the listener's pipeline, whose channelRead0
\* leaves the registration to a later turn.
channelRead0 ==
  /\ turn = "accepting" /\ turn' = "idle"
  /\ loop' = Append(loop, [op |-> "register", arg |-> 0])
  /\ Resume
  /\ UNCHANGED <<peer, channel, closeFuture, writes, acked, inbound, task, faults>>

\* registerAlreadyConfigured0: register0 sets the callbacks unless the channel is closed
\* already; becomeActive0 follows in either case and flushes what was written before.
registerAlreadyConfigured0 ==
  /\ Turn("register")
  /\ loop' = Tail(loop)
  /\ callbacks' = IF isOpen THEN {"recv", "sent", "err"} ELSE callbacks
  /\ isActive' = TRUE
  /\ UNCHANGED <<isOpen, mark, stream, acked>> /\ flushNow
  /\ UNCHANGED <<packets, peer, inputClosed, outputClosed, socketOpen, closeFuture,
                 pendingWrites, promise, inbound, task, faults>>

\* close0: every write that waits is taken out and fails.
failWrites ==
  /\ pendingWrites' = <<>> /\ mark' = 0
  /\ promise' = [r \in Reply |-> IF \E i \in DOMAIN pendingWrites : pendingWrites[i].id = r
                                 THEN "fail" ELSE promise[r]]

\* close0(mode: .all) of LwIPConnection and of BaseSocketChannel: every write that waits
\* fails, the socket is closed unless lwIP reported it dead, and the rest of the shutdown
\* is left to a later turn; a channel that is closed already stays as it is.
close0(queue) ==
  /\ inputClosed' = TRUE /\ outputClosed' = TRUE
  /\ failWrites
  /\ isOpen' = FALSE /\ socketOpen' = FALSE /\ callbacks' = {}
  /\ loop' = IF isOpen THEN Append(queue, [op |-> "closed", arg |-> 0]) ELSE queue

\* close0(mode: .input), called by the recv callback at the end of the input.
closeInput ==
  /\ callbacks' = callbacks \ {"recv"} /\ inputClosed' = TRUE
  /\ UNCHANGED <<isOpen, isActive, outputClosed, socketOpen>>

-----------------------------------------------------------------------------
(* The callbacks of lwIP.                                                   *)

\* recv with data: fired into the pipeline; without a callback tcp_recv_null drops it.
RecvData ==
  /\ Turn("data")
  /\ loop' = Tail(loop) /\ Resume
  /\ IF "recv" \in callbacks THEN received' = received + 1 /\ UNCHANGED discarded
                             ELSE discarded' = discarded + 1 /\ UNCHANGED received
  /\ UNCHANGED <<turn, peer, channel, closeFuture, writes, acked, eof, task, faults>>

\* recv without data: the peer has closed its side.
RecvEnd ==
  /\ Turn("fin")
  /\ loop' = Tail(loop) /\ Resume
  /\ IF "recv" \in callbacks THEN eof' = TRUE /\ closeInput ELSE UNCHANGED <<eof, channel>>
  /\ UNCHANGED <<turn, peer, closeFuture, writes, acked, received, discarded, task, faults>>

\* lwIP counts an acknowledgement that covers more than the last one.
Acknowledged(n) == IF n > acked THEN n ELSE acked

\* sent: room became free, so what waits is flushed.
Sent ==
  /\ Turn("ack")
  /\ loop' = Tail(loop) /\ Resume
  /\ acked' = Acknowledged(Head(loop).arg)
  /\ UNCHANGED <<channel, writes>>
  /\ IF "sent" \in callbacks /\ pendingWrites # <<>> THEN flushNow ELSE UNCHANGED turn
  /\ UNCHANGED <<peer, closeFuture, inbound, task, faults>>

\* Faulty variant: the err callback marks the socket dead and leaves the channel open.
ErrWithoutClose ==
  /\ Turn("rst")
  /\ loop' = Tail(loop) /\ Resume /\ socketOpen' = FALSE
  /\ UNCHANGED <<turn, peer, isOpen, isActive, inputClosed, outputClosed, callbacks, closeFuture,
                 writes, acked, inbound, task, faults>>

\* err: lwIP has freed the control block; the channel is closed.  A reset that finds no
\* control block any more changes nothing.
Err ==
  /\ Turn("rst")
  /\ Resume
  /\ \/ "err" \in callbacks /\ close0(Tail(loop))
     \/ /\ "err" \notin callbacks \/ Abandoned
        /\ loop' = Tail(loop)
        /\ UNCHANGED <<inputClosed, outputClosed, pendingWrites, mark, promise, isOpen,
                       socketOpen, callbacks>>
  /\ UNCHANGED <<turn, peer, isActive, closeFuture, stream, acked, inbound, task, faults>>

-----------------------------------------------------------------------------
(* The channel's writes.                                                    *)

\* write0 and flush0 of one reply: refused when the channel or its output is closed,
\* otherwise queued, marked and flushed.
write0 ==
  /\ Turn("write")
  /\ loop' = Tail(loop)
  /\ LET r == Head(loop).arg IN
       IF ~isOpen \/ outputClosed
       THEN promise' = [promise EXCEPT ![r] = "fail"] /\ UNCHANGED <<pendingWrites, mark>>
       ELSE /\ promise' = [promise EXCEPT ![r] = "pending"]
            /\ pendingWrites' = Append(pendingWrites, [id |-> r, left |-> Replies[r]])
            /\ mark' = Len(pendingWrites) + 1
  /\ UNCHANGED <<channel, stream, acked>> /\ flushNow
  /\ UNCHANGED <<packets, peer, closeFuture, inbound, task, faults>>

\* Faulty variant: a write that was handed over in part goes back as it was.
Unread(write, n) == write

\* What goes back of a write of which n bytes were handed over.
Rest(write, n) == [write EXCEPT !.left = @ - n]

\* The first n bytes that a write has left, each as the reply and the place in it.
Piece(write, n) == [i \in 1 .. n |-> [id |-> write.id, at |-> Replies[write.id] - write.left + i]]

Succeeded == promise' = [promise EXCEPT ![Head(pendingWrites).id] = "succeed"]

\* One iteration of writeToSocket.  As much of the first write as the send buffer takes
\* is handed over.  A write that is through is removed and the iteration goes on with the
\* next, marked or not; a write with bytes left goes back with what it has left and ends
\* the iteration, and then flushNow's own condition decides.
writeToSocket ==
  /\ turn = "flushing" /\ ~Abandoned
  /\ LET first == Head(pendingWrites)
         free == Free(stream, acked)
         n == IF first.left <= free THEN first.left ELSE free
     IN /\ stream' = stream \o Piece(first, n)
        /\ IF first.left > n
           THEN /\ pendingWrites' = [pendingWrites EXCEPT ![1] = Rest(@, n)]
                /\ UNCHANGED <<mark, promise, acked, isOpen>>
                /\ flushNow
           ELSE /\ pendingWrites' = Tail(pendingWrites)
                /\ mark' = IF mark > 0 THEN mark - 1 ELSE 0
                /\ Succeeded
                /\ turn' = IF Len(pendingWrites) > 1 THEN "flushing" ELSE "idle"
  /\ UNCHANGED <<loop, packets, peer, channel, closeFuture, acked, inbound, task, faults>>

\* writeToSocket throws: tcp_write failed, or tcp_output after the bytes were taken; the
\* tcp_write of a control block that is closed always fails.  The write's promise fails
\* and flushNow closes the channel.
writeThrows ==
  /\ turn = "flushing" /\ turn' = "idle"
  /\ LET first == Head(pendingWrites)
         free == Free(stream, acked)
     IN \/ Abandoned /\ UNCHANGED <<stream, faults>>
        \/ /\ ~Abandoned /\ faults < MaxFaults /\ faults' = faults + 1
           /\ \E n \in {0, IF first.left <= free THEN first.left ELSE free} :
                stream' = stream \o Piece(first, n)
  /\ close0(loop)
  /\ UNCHANGED <<packets, peer, isActive, closeFuture, acked, inbound, task>>

-----------------------------------------------------------------------------
(* The flow's task, on a thread of its own, and the SOCKS channel.          *)

Close == Append(loop, [op |-> "close", arg |-> 0])

\* The destination is found: a pool address needs a PTR record.  Without one the task
\* throws, and executeThenClose closes the channel.
resolve ==
  /\ flow = "started"
  /\ \/ flow' = "connecting" /\ UNCHANGED loop
     \/ flow' = "closing" /\ loop' = Close
  /\ UNCHANGED <<turn, packets, peer, channel, closeFuture, writes, acked, inbound, forwarded,
                 replies, faults>>

connect ==
  /\ flow = "connecting"
  /\ \/ flow' = "copying" /\ UNCHANGED loop
     \/ flow' = "closing" /\ loop' = Close
  /\ UNCHANGED <<turn, packets, peer, channel, closeFuture, writes, acked, inbound, forwarded,
                 replies, faults>>

\* One frame of the channel is written to the SOCKS proxy.
forward ==
  /\ flow = "copying" /\ forwarded < received
  /\ forwarded' = forwarded + 1
  /\ UNCHANGED <<loop, turn, packets, peer, channel, closeFuture, writes, acked, inbound, flow,
                 replies, faults>>

\* "for try await frame in ti" ends when the input has ended and no frame is left.
EndOfFrames == (eof \/ closeFuture) /\ forwarded = received

\* The frames end with the input or with the channel, or writing one fails; the SOCKS
\* channel is closed, then the channel.
finish ==
  /\ flow = "copying"
  /\ \/ EndOfFrames /\ UNCHANGED faults
     \/ forwarded < received /\ faults < MaxFaults /\ faults' = faults + 1
  /\ flow' = "closing" /\ loop' = Close
  /\ UNCHANGED <<turn, packets, peer, channel, closeFuture, writes, acked, inbound, forwarded,
                 replies>>

\* AutoReplyResponse: what the SOCKS proxy sends is written to the channel.
AutoReplyResponse ==
  /\ flow = "copying" /\ replies < Len(Replies)
  /\ replies' = replies + 1
  /\ loop' = Append(loop, [op |-> "write", arg |-> replies + 1])
  /\ UNCHANGED <<turn, packets, peer, channel, closeFuture, writes, acked, inbound, flow,
                 forwarded, faults>>

\* The task's close reaches the event loop: nothing is left to do when the channel is
\* closed already.
Closing ==
  /\ Turn("close")
  /\ close0(Tail(loop)) /\ flow' = "done"
  /\ UNCHANGED <<turn, packets, peer, isActive, closeFuture, stream, acked, inbound, forwarded,
                 replies, faults>>

\* The last part of the shutdown: the handlers are removed and closeFuture completes.
Closed ==
  /\ Turn("closed")
  /\ loop' = Tail(loop) /\ closeFuture' = TRUE
  /\ UNCHANGED <<turn, packets, peer, channel, writes, acked, inbound, task, faults>>

-----------------------------------------------------------------------------
Peer == PeerSends \/ PeerAcks
EventLoop ==
  \/ Accept \/ channelRead0 \/ registerAlreadyConfigured0
  \/ RecvData \/ RecvEnd \/ Sent \/ Err
  \/ write0 \/ writeToSocket \/ writeThrows
  \/ Closing \/ Closed
FlowTask == resolve \/ connect \/ forward \/ finish

\* The system may stop when the peer stops.
Idle == packets = "idle" /\ loop = <<>> /\ turn = "idle" /\ UNCHANGED flowVars

FlowNext == Peer \/ EventLoop \/ FlowTask \/ AutoReplyResponse \/ Idle

FlowSpec == FlowInit /\ [][FlowNext]_flowVars

-----------------------------------------------------------------------------
(* Properties.                                                              *)

\* Types of the event loop, the channel, its queue of writes and the flow task.
FlowTypeOK ==
  /\ loop \in Seq(Work) /\ turn \in {"idle", "accepting", "flushing"}
  /\ packets \in {"idle", "waiting"}
  /\ peer \in [shook : BOOLEAN, first : {0, 1}, early : BOOLEAN, data : Nat, fin : BOOLEAN, reset : BOOLEAN]
  /\ callbacks \subseteq {"recv", "sent", "err"}
  /\ {isOpen, isActive, inputClosed, outputClosed, socketOpen, closeFuture, eof} \subseteq BOOLEAN
  /\ pendingWrites \in Seq([id : Reply, left : Nat \ {0}]) /\ mark \in 0 .. Len(pendingWrites)
  /\ promise \in [Reply -> {"none", "pending", "succeed", "fail"}]
  /\ stream \in Seq([id : Reply, at : Nat]) /\ acked \in 0 .. Len(stream)
  /\ received \in Nat /\ discarded \in Nat /\ forwarded \in 0 .. received
  /\ flow \in {"none", "started", "connecting", "copying", "closing", "done"}
  /\ replies \in 0 .. Len(Replies) /\ faults \in 0 .. MaxFaults

\* The byte that follows a byte of a reply: in the reply, or the first of the next one.
Following(byte) == IF byte.at < Replies[byte.id] THEN [byte EXCEPT !.at = @ + 1]
                                                 ELSE [id |-> byte.id + 1, at |-> 1]

\* The bytes handed to lwIP are the replies' bytes, in the order in which the SOCKS proxy
\* sent them, none twice and none left out, although a write is handed over in pieces
\* (writeToSocket puts the rest back) and although a write is reported done only by the
\* piece that ends it.
StreamIsReplies ==
  /\ \A i \in DOMAIN stream :
       stream[i] = IF i = 1 THEN [id |-> 1, at |-> 1] ELSE Following(stream[i - 1])
  /\ \A r \in Reply : promise[r] = "succeed" =>
       \E i \in DOMAIN stream : stream[i] = [id |-> r, at |-> Replies[r]]

\* Of what the peer sends, an open channel loses what came with the end of the handshake
\* and nothing else.  That one packet is delivered in the accept's own input, to
\* tcp_recv_null, which acknowledges and frees its data.  The registration, which sets the
\* recv callback a turn later (channelRead0), comes before the input of any later packet.
NoInputLost == isOpen => discarded = peer.first

\* What deinit asserts of a channel that was closed: both directions are closed, no write
\* is left in the queue, and none of them is without an outcome.
ClosedIsEmpty ==
  (turn = "idle" /\ flow # "none" /\ ~isOpen) =>
    /\ inputClosed /\ outputClosed /\ pendingWrites = <<>> /\ ~socketOpen
    /\ \A r \in Reply : promise[r] # "pending"

\* A flushed write that waits, waits for room: the send buffer is low, so bytes of it are
\* unacknowledged, and the callback that will flush again is set or about to be set.
WaitsForRoom ==
  (turn # "flushing" /\ pendingWrites # <<>>) =>
    /\ isOpen /\ mark = Len(pendingWrites)
    /\ ~Writable(Free(stream, acked)) /\ acked < Len(stream)
    /\ \/ "sent" \in callbacks \/ turn = "accepting"
       \/ \E i \in DOMAIN loop : loop[i].op = "register"

\* While nothing fails, the flow's task stops copying only when the peer has closed its
\* side and everything the peer sent was forwarded to the SOCKS proxy, but for the data
\* of the packet that ended the handshake, which no callback was there to take.
CopiesEverything ==
  (flow = "copying" /\ flow' = "closing" /\ faults' = 0) =>
    (peer.fin /\ forwarded = peer.data - peer.first)

\* Once the peer has closed its side or reset the connection, the flow's task ends and the
\* channel's shutdown runs to its end; every pending write gets an outcome as long as
\* the peer acknowledges what it is sent; and the task never ends early.  The exception
\* is a FIN on the packet that ended the handshake: tcp_recv_null answers it, the channel
\* is never told, and its task goes on until a write fails.
FlowEnds ==
  /\ ((peer.fin \/ peer.reset) /\ ~peer.early) ~> (flow = "done" /\ closeFuture)
  /\ \A r \in Reply : []<>(promise[r] # "pending")
  /\ [][CopiesEverything]_flowVars
=============================================================================
