------------------------ MODULE LwIPConnectionProofs ------------------------
(***************************************************************************)
(* Proofs that a flow of the packet tunnel drops nothing but the data of   *)
(* the handshake's last packet while its channel is open, that a closed    *)
(* channel is empty, and that a flushed write waits only for room, for any *)
(* replies, buffer sizes and numbers of failures.                          *)
(*                                                                         *)
(* The properties are not inductive.  They rest on the order of the event  *)
(* loop's queue: at most one packet is queued, and behind any registration *)
(* that is queued, because the packet loop waits for the accept to return  *)
(* (Order).  So a packet at the head of the queue finds the callbacks set. *)
(***************************************************************************)
EXTENDS LwIPConnection, Integers, TLAPS

Packet == {"handshake", "data", "fin", "rst", "ack"}
Op(i) == loop[i].op

Write == [id : Reply, left : Nat]
Byte == [id : Reply, at : Int]
Sender == [shook : BOOLEAN, first : {0, 1}, early : BOOLEAN, data : Nat, fin : BOOLEAN, reset : BOOLEAN]

\* What the steps below need to know of the variables' shape.
Shape ==
  /\ loop \in Seq(Work) /\ packets \in {"idle", "waiting"}
  /\ turn \in {"idle", "accepting", "flushing"}
  /\ isOpen \in BOOLEAN /\ inputClosed \in BOOLEAN /\ outputClosed \in BOOLEAN
  /\ socketOpen \in BOOLEAN
  /\ peer \in Sender
  /\ pendingWrites \in Seq(Write)
  /\ promise \in [Reply -> {"none", "pending", "succeed", "fail"}]
  /\ stream \in Seq(Byte) /\ acked \in Nat /\ discarded \in Nat /\ replies \in Nat

\* Before the accept there is nothing but the handshake; after it, no second one.
Begin ==
  /\ flow = "none" =>
       /\ turn = "idle" /\ ~isOpen /\ ~inputClosed /\ discarded = 0 /\ stream = <<>>
       /\ \A i \in DOMAIN loop : Op(i) = "handshake" /\ loop[i].arg = peer.first
       /\ peer.shook <=> packets = "waiting"
       /\ ~peer.shook => ~peer.fin
  /\ flow # "none" => peer.shook /\ \A i \in DOMAIN loop : Op(i) # "handshake"

\* At most one packet is queued, behind every registration.
Order ==
  /\ turn = "accepting" => packets = "waiting"
  /\ \A i \in DOMAIN loop : Op(i) \in Packet =>
       /\ packets = "waiting" /\ turn # "accepting"
       /\ \A j \in DOMAIN loop : (Op(j) \in Packet => j = i) /\ (Op(j) = "register" => j < i)

\* The callbacks of an open channel are set, or about to be set.
Registered ==
  isOpen => \/ turn = "accepting"
            \/ \E i \in DOMAIN loop : Op(i) = "register"
            \/ "sent" \in callbacks /\ ("recv" \in callbacks \/ inputClosed)

\* The input of an open channel is closed by the peer's FIN, after which no data follows.
Input ==
  /\ isOpen /\ inputClosed => peer.fin
  /\ \A i \in DOMAIN loop : (Op(i) = "fin" => peer.fin) /\ (Op(i) = "data" => ~peer.fin)

\* Writes that wait belong to an open channel.
Waiting ==
  /\ ~isOpen => pendingWrites = <<>>
  /\ flow # "none" /\ ~isOpen => inputClosed /\ outputClosed /\ ~socketOpen
  /\ mark = Len(pendingWrites)
  /\ \A r \in Reply : promise[r] = "pending" => \E i \in DOMAIN pendingWrites : pendingWrites[i].id = r

\* A flush is under way, or what waits finds no room.
Flushed ==
  /\ turn = "flushing" => isOpen /\ pendingWrites # <<>>
  /\ turn # "flushing" /\ pendingWrites # <<>> => ~Writable(Free(stream, acked))

FlowIInv == Shape /\ Begin /\ Order /\ Registered /\ Input /\ Waiting /\ Flushed /\ NoInputLost

-----------------------------------------------------------------------------
(* The queue.                                                               *)

Other == {"write", "close", "closed"}

\* The first d pieces of work were taken; what was added is neither packet nor registration.
Took(d) ==
  /\ loop' \in Seq(Work)
  /\ \A i \in DOMAIN loop' :
       \/ i + d \in DOMAIN loop /\ loop'[i] = loop[i + d]
       \/ loop'[i].op \in Other
  /\ \A i \in DOMAIN loop : i > d => i - d \in DOMAIN loop' /\ loop'[i - d] = loop[i]

\* What the queue operations of the event loop do, as Took.
LEMMA QueueSteps ==
  ASSUME loop \in Seq(Work), NEW w \in Work, w.op \in Other
  PROVE  /\ loop' = loop => Took(0)
         /\ loop' = Append(loop, w) => Took(0)
         /\ loop # <<>> /\ loop' = Tail(loop) => Took(1)
         /\ loop # <<>> /\ loop' = Append(Tail(loop), w) => Took(1)
<1>1. loop' = loop => Took(0)
  BY DEF Took
<1>2. loop' = Append(loop, w) => Took(0)
  BY DEF Took
<1>3. loop # <<>> /\ loop' = Tail(loop) => Took(1)
  BY DEF Took
<1>4. ASSUME loop # <<>>, loop' = Append(Tail(loop), w)
      PROVE  Took(1)
  <2>1. Tail(loop) \in Seq(Work) /\ Len(Tail(loop)) = Len(loop) - 1 /\ Len(loop) \in Nat \ {0}
    BY <1>4
  <2>2. /\ loop' \in Seq(Work) /\ DOMAIN loop' = 1 .. Len(loop)
        /\ loop'[Len(loop)] = w
        /\ \A i \in 1 .. Len(loop) - 1 : loop'[i] = loop[i + 1]
    BY <1>4, <2>1
  <2>3. DOMAIN loop = 1 .. Len(loop)
    OBVIOUS
  <2> QED
    BY <2>1, <2>2, <2>3 DEF Took
<1> QED
  BY Zenon, <1>1, <1>2, <1>3, <1>4

\* The order of the packets in the queue is kept, and none is left when one was taken.
LEMMA PacketsKeepOrder ==
  ASSUME FlowIInv, NEW d \in {0, 1}, Took(d), d = 1 => loop # <<>>
  PROVE  /\ \A i \in DOMAIN loop' : loop'[i].op \in Packet \cup {"register"} =>
              i + d \in DOMAIN loop /\ loop'[i] = loop[i + d]
         /\ \A i, j \in DOMAIN loop' : loop'[i].op \in Packet =>
              (loop'[j].op \in Packet => j = i) /\ (loop'[j].op = "register" => j < i)
         /\ d = 1 /\ Op(1) \in Packet =>
              /\ \A i \in DOMAIN loop' : loop'[i].op \notin Packet \cup {"register"}
              /\ \A i \in DOMAIN loop : Op(i) # "register"
         /\ (\E i \in DOMAIN loop : Op(i) = "register") /\ (d = 1 => Op(1) # "register")
              => \E i \in DOMAIN loop' : loop'[i].op = "register"
<1>1. \A i \in DOMAIN loop' : loop'[i].op \in Packet \cup {"register"} =>
              i + d \in DOMAIN loop /\ loop'[i] = loop[i + d]
  BY Zenon DEF Took, Other, Packet
<1>2. loop' \in Seq(Work) /\ DOMAIN loop' \subseteq Nat /\ DOMAIN loop \subseteq Nat
  BY DEF Took, FlowIInv, Shape
<1>3. \A i, j \in DOMAIN loop' : loop'[i].op \in Packet =>
              (loop'[j].op \in Packet => j = i) /\ (loop'[j].op = "register" => j < i)
  <2> SUFFICES ASSUME NEW i \in DOMAIN loop', NEW j \in DOMAIN loop', loop'[i].op \in Packet
               PROVE  (loop'[j].op \in Packet => j = i) /\ (loop'[j].op = "register" => j < i)
    BY Zenon
  <2>1. i + d \in DOMAIN loop /\ Op(i + d) \in Packet
    BY Zenon, <1>1 DEF Op
  <2>2. ASSUME loop'[j].op \in Packet PROVE j = i
    <3>1. j + d \in DOMAIN loop /\ Op(j + d) \in Packet
      BY Zenon, <1>1, <2>2 DEF Op
    <3>2. j + d = i + d
      BY Zenon, <2>1, <3>1 DEF FlowIInv, Order
    <3> QED
      BY <3>2, <1>2
  <2>3. ASSUME loop'[j].op = "register" PROVE j < i
    <3>1. j + d \in DOMAIN loop /\ Op(j + d) = "register"
      BY Zenon, <1>1, <2>3 DEF Op
    <3>2. j + d < i + d
      BY Zenon, <2>1, <3>1 DEF FlowIInv, Order
    <3> QED
      BY <3>2, <1>2
  <2> QED
    BY Zenon, <2>2, <2>3
<1>4. ASSUME d = 1, Op(1) \in Packet
      PROVE  /\ \A i \in DOMAIN loop' : loop'[i].op \notin Packet \cup {"register"}
             /\ \A i \in DOMAIN loop : Op(i) # "register"
  <2>1. 1 \in DOMAIN loop
    BY <1>4 DEF FlowIInv, Shape
  <2>2. \A i \in DOMAIN loop : Op(i) # "register" /\ (Op(i) \in Packet => i = 1)
    BY <1>4, <2>1, <1>2 DEF FlowIInv, Order
  <2>3. \A i \in DOMAIN loop' : i + 1 # 1
    BY <1>2
  <2> QED
    BY <1>1, <1>4, <2>2, <2>3 DEF Op
<1>5. ASSUME NEW i \in DOMAIN loop, Op(i) = "register", d = 1 => Op(1) # "register"
      PROVE  \E k \in DOMAIN loop' : loop'[k].op = "register"
  <2>1. i > d
    BY <1>5, <1>2 DEF FlowIInv, Shape
  <2> QED
    BY Zenon, <1>5, <2>1 DEF Took, Op
<1> QED
  BY Zenon, <1>1, <1>3, <1>4, <1>5

-----------------------------------------------------------------------------
(* The steps, by family.                                                    *)

outside == <<turn, packets, peer, channel, writes, acked, inbound>>

\* A step of the flow's task or of the SOCKS channel queues at most a close or a write; the
\* last part of a shutdown takes itself from the queue.
LEMMA TaskStep ==
  ASSUME FlowIInv, NEW d \in {0, 1}, Took(d),
         d = 1 => loop # <<>> /\ Op(1) \notin Packet \cup {"register"},
         UNCHANGED outside, flow # "none", flow' # "none", replies' \in Nat
  PROVE  FlowIInv'
<1> USE DEF outside, channel, writes, inbound
<1>1. Shape'
  BY DEF FlowIInv, Shape, Took
<1>2. Begin'
  BY PacketsKeepOrder DEF FlowIInv, Begin, Op, Packet
<1>3. Order'
  BY Zenon, PacketsKeepOrder DEF FlowIInv, Order, Op, Packet
<1>4. Registered'
  BY Zenon, PacketsKeepOrder DEF FlowIInv, Registered, Op
<1>5. Input'
  BY PacketsKeepOrder DEF FlowIInv, Input, Op, Packet
<1>6. Waiting' /\ Flushed' /\ NoInputLost'
  BY Zenon DEF FlowIInv, Waiting, Flushed, NoInputLost, Free, Writable
<1> QED
  BY Zenon, <1>1, <1>2, <1>3, <1>4, <1>5, <1>6 DEF FlowIInv

\* A packet is handed over: behind everything that is queued, and there is no other.
LEMMA SubmitStep ==
  ASSUME FlowIInv, NEW w \in Work, w.op \in Packet, Submit(w.op, w.arg),
         w = [op |-> w.op, arg |-> w.arg],
         peer' \in Sender,
         peer'.shook, w.op = "handshake" <=> ~peer.shook,
         peer.shook => peer'.first = peer.first, w.op = "handshake" => w.arg = peer'.first,
         peer.fin => peer'.fin, w.op = "fin" => peer'.fin, w.op = "data" => ~peer'.fin,
         UNCHANGED <<turn, channel, writes, acked, inbound, flow, replies>>
  PROVE  FlowIInv'
<1> USE DEF channel, writes, inbound
<1>1. /\ packets = "idle" /\ packets' = "waiting" /\ loop' = Append(loop, w)
      /\ loop \in Seq(Work) /\ loop' \in Seq(Work)
      /\ DOMAIN loop' = DOMAIN loop \cup {Len(loop) + 1} /\ DOMAIN loop = 1 .. Len(loop)
      /\ Len(loop) \in Nat
      /\ loop'[Len(loop) + 1] = w /\ \A i \in DOMAIN loop : loop'[i] = loop[i]
  BY DEF Submit, FlowIInv, Shape
<1>2. turn # "accepting" /\ \A i \in DOMAIN loop : Op(i) \notin Packet
  BY Zenon, <1>1 DEF FlowIInv, Order
<1>3. Shape'
  BY Zenon, <1>1 DEF FlowIInv, Shape
<1>4. Begin'
  BY <1>1, <1>2 DEF FlowIInv, Begin, Op, Packet
<1>5. Order'
  <2>1. \A i \in DOMAIN loop' : loop'[i].op \in Packet => i = Len(loop) + 1
    BY Zenon, <1>1, <1>2 DEF Op
  <2>2. \A i \in DOMAIN loop' : loop'[i].op = "register" => i < Len(loop) + 1
    BY <1>1 DEF Packet
  <2> QED
    BY <1>1, <1>2, <2>1, <2>2 DEF Order, Op
<1>6. Registered'
  BY Zenon, <1>1 DEF FlowIInv, Registered, Op
<1>7. Input'
  <2>1. isOpen' /\ inputClosed' => peer'.fin
    BY Zenon DEF FlowIInv, Input
  <2>2. \A i \in DOMAIN loop : loop'[i].op \notin {"fin", "data"}
    BY <1>1, <1>2 DEF Op, Packet
  <2> QED
    BY Zenon, <1>1, <2>1, <2>2 DEF Input, Op
<1>8. Waiting' /\ Flushed' /\ NoInputLost'
  BY Zenon DEF FlowIInv, Begin, Waiting, Flushed, NoInputLost, Free, Writable
<1> QED
  BY Zenon, <1>3, <1>4, <1>5, <1>6, <1>7, <1>8 DEF FlowIInv

\* The channel is closed: nothing is left that waits.
LEMMA CloseStep ==
  ASSUME FlowIInv, NEW d \in {0, 1}, d = 1 => loop # <<>> /\ Op(1) # "handshake",
         NEW q, q = IF d = 1 THEN Tail(loop) ELSE loop, close0(q),
         flow # "none", flow' # "none", turn' = "idle",
         packets' = packets \/ (d = 1 /\ Op(1) \in Packet /\ packets' = "idle"),
         stream' \in Seq(Byte), UNCHANGED <<peer, acked, discarded, replies>>
  PROVE  FlowIInv'
<1>1. [op |-> "closed", arg |-> 0] \in Work /\ "closed" \in Other
  BY Zenon DEF Work, Other
<1>2. Took(d)
  BY Zenon, <1>1, QueueSteps DEF close0, FlowIInv, Shape
<1>3. Shape'
  <2>1. promise' \in [Reply -> {"none", "pending", "succeed", "fail"}]
    BY Zenon DEF close0, failWrites, FlowIInv, Shape
  <2>2. pendingWrites' \in Seq(Write)
    BY DEF close0, failWrites
  <2>3. /\ packets' \in {"idle", "waiting"} /\ loop' \in Seq(Work)
        /\ isOpen' \in BOOLEAN /\ inputClosed' \in BOOLEAN /\ outputClosed' \in BOOLEAN
        /\ socketOpen' \in BOOLEAN
    BY Zenon, <1>2 DEF Took, close0, FlowIInv, Shape
  <2> QED
    BY Zenon, <2>1, <2>2, <2>3 DEF FlowIInv, Shape
<1>4. Begin'
  BY <1>2, PacketsKeepOrder DEF FlowIInv, Begin, Op, Packet
<1>5. Order'
  BY Zenon, <1>2, PacketsKeepOrder DEF FlowIInv, Order, Op, Packet
<1>6. Registered' /\ NoInputLost'
  BY Zenon DEF Registered, NoInputLost, close0
<1>7. Input'
  BY <1>2, PacketsKeepOrder DEF FlowIInv, Input, Op, Packet, close0
<1>8. Waiting'
  BY Zenon DEF close0, failWrites, Waiting, FlowIInv
<1>9. Flushed'
  BY Zenon DEF close0, failWrites, Flushed
<1> QED
  BY Zenon, <1>3, <1>4, <1>5, <1>6, <1>7, <1>8, <1>9 DEF FlowIInv

\* A packet is taken from the queue: the next may be handed over, and no registration is
\* left, so the callbacks of an open channel are set.
LEMMA PacketStep ==
  ASSUME FlowIInv, turn = "idle", loop # <<>>, Op(1) \in Packet \ {"handshake"}, loop' = Tail(loop),
         packets' = "idle", turn' \in {"idle", "flushing"}, UNCHANGED <<peer, flow>>
  PROVE  /\ flow # "none" /\ loop' \in Seq(Work) /\ Begin' /\ Order'
         /\ \A i \in DOMAIN loop' : loop'[i].op \notin Packet \cup {"register"}
         /\ isOpen => "sent" \in callbacks /\ ("recv" \in callbacks \/ inputClosed)
         /\ Op(1) = "data" => ~peer.fin
         /\ Op(1) = "fin" => peer.fin
<1>1. [op |-> "closed", arg |-> 0] \in Work /\ [op |-> "closed", arg |-> 0].op \in Other
  BY Zenon DEF Work, Other
<1>2. Took(1)
  BY Zenon, <1>1, QueueSteps DEF FlowIInv, Shape
<1>3. /\ \A i \in DOMAIN loop' : loop'[i].op \notin Packet \cup {"register"}
      /\ \A i \in DOMAIN loop : Op(i) # "register"
  BY Zenon, <1>2, PacketsKeepOrder
<1>4. 1 \in DOMAIN loop
  BY DEF FlowIInv, Shape
<1>5. flow # "none"
  BY Zenon, <1>4 DEF FlowIInv, Begin
<1>6. Begin'
  BY Zenon, <1>3, <1>5 DEF FlowIInv, Begin, Op, Packet
<1>7. Order'
  BY Zenon, <1>3 DEF Order, Op
<1>8. isOpen => "sent" \in callbacks /\ ("recv" \in callbacks \/ inputClosed)
  BY Zenon, <1>3 DEF FlowIInv, Registered
<1>9. (Op(1) = "data" => ~peer.fin) /\ (Op(1) = "fin" => peer.fin)
  BY Zenon, <1>4 DEF FlowIInv, Input
<1> QED
  BY Zenon, <1>2, <1>3, <1>5, <1>6, <1>7, <1>8, <1>9 DEF Took

\* The handshake was all there was to do; what it carried is dropped.
LEMMA AcceptStep ==
  ASSUME FlowIInv, Accept
  PROVE  FlowIInv'
<1> USE DEF writes, inbound
<1>1. /\ loop \in Seq(Work) /\ loop # <<>> /\ 1 \in DOMAIN loop /\ Op(1) = "handshake"
      /\ Len(loop) \in Nat /\ DOMAIN loop = 1 .. Len(loop) /\ loop' = Tail(loop)
  BY DEF Accept, Turn, FlowIInv, Shape, Op
<1>2. flow = "none" /\ packets = "waiting"
  BY Zenon, <1>1 DEF FlowIInv, Begin, Order, Packet
<1>3. \A i \in DOMAIN loop : i = 1
  BY Zenon, <1>1, <1>2 DEF FlowIInv, Begin, Order, Packet
<1>4. Len(loop) = 1
  BY <1>1, <1>3
<1>5. loop' = <<>> /\ loop' \in Seq(Work) /\ DOMAIN loop' = {}
  BY <1>1, <1>4
<1>5a. Head(loop).arg = peer.first /\ peer.first \in {0, 1} /\ discarded = 0
  BY <1>1, <1>2 DEF FlowIInv, Begin, Shape, Sender
<1>5b. discarded' = peer.first /\ discarded' \in Nat
  BY <1>5a DEF Accept
<1>6. Shape'
  BY Zenon, <1>5, <1>5b DEF Accept, FlowIInv, Shape
<1>7. Begin' /\ Order' /\ Registered' /\ Input'
  BY Zenon, <1>2, <1>5 DEF Accept, FlowIInv, Begin, Order, Registered, Input
<1>8. Waiting' /\ Flushed' /\ NoInputLost'
  BY Zenon, <1>2, <1>5b DEF Accept, FlowIInv, Begin, Waiting, Flushed, NoInputLost
<1> QED
  BY Zenon, <1>6, <1>7, <1>8 DEF FlowIInv

\* The registration is queued while no packet is.
LEMMA ChannelReadStep ==
  ASSUME FlowIInv, channelRead0
  PROVE  FlowIInv'
<1> USE DEF channel, writes, inbound, task
<1> DEFINE w == [op |-> "register", arg |-> 0]
<1>1. w \in Work /\ w.op = "register"
  BY Zenon DEF Work
<1>2. /\ loop \in Seq(Work) /\ Len(loop) \in Nat /\ DOMAIN loop = 1 .. Len(loop)
      /\ loop' = Append(loop, w)
  BY DEF channelRead0, FlowIInv, Shape
<1> HIDE DEF w
<1>3. /\ loop' \in Seq(Work) /\ DOMAIN loop' = DOMAIN loop \cup {Len(loop) + 1}
      /\ loop'[Len(loop) + 1] = w /\ \A i \in DOMAIN loop : loop'[i] = loop[i]
  BY <1>1, <1>2
<1>4. flow # "none" /\ \A i \in DOMAIN loop : Op(i) \notin Packet
  BY Zenon DEF channelRead0, FlowIInv, Begin, Order
<1>5. \A i \in DOMAIN loop' : loop'[i].op \notin Packet
  BY Zenon, <1>1, <1>3, <1>4 DEF Op, Packet
<1>6. Shape'
  BY Zenon, <1>3 DEF channelRead0, Resume, FlowIInv, Shape
<1>7. Begin' /\ Order'
  BY Zenon, <1>4, <1>5 DEF channelRead0, FlowIInv, Begin, Order, Op, Packet
<1>8. Registered'
  BY Zenon, <1>1, <1>3 DEF Registered, Op
<1>9. Input'
  BY Zenon, <1>5 DEF channelRead0, FlowIInv, Input, Op, Packet
<1>10. Waiting' /\ Flushed' /\ NoInputLost'
  BY Zenon DEF channelRead0, FlowIInv, Waiting, Flushed, NoInputLost, Free, Writable
<1> QED
  BY Zenon, <1>6, <1>7, <1>8, <1>9, <1>10 DEF FlowIInv

\* flushNow leaves nothing behind that could be handed over.
LEMMA FlushStep ==
  ASSUME Shape', Waiting', flushNow
  PROVE  Flushed'
<1>1. pendingWrites' # <<>> <=> mark' > 0
  BY DEF Shape, Waiting
<1> QED
  BY Zenon, <1>1 DEF Waiting, flushNow, Flushed

\* The registration sets the callbacks of an open channel.
LEMMA RegisterStep ==
  ASSUME FlowIInv, registerAlreadyConfigured0
  PROVE  FlowIInv'
<1> USE DEF inbound, task
<1>1. [op |-> "closed", arg |-> 0] \in Work /\ [op |-> "closed", arg |-> 0].op \in Other
  BY Zenon DEF Work, Other
<1>2. /\ loop # <<>> /\ 1 \in DOMAIN loop /\ Op(1) = "register" /\ turn = "idle"
      /\ turn' \in {"idle", "flushing"} /\ loop' = Tail(loop)
  BY DEF registerAlreadyConfigured0, Turn, flushNow, FlowIInv, Shape, Op
<1>3. Took(1)
  BY Zenon, <1>1, <1>2, QueueSteps DEF FlowIInv, Shape
<1>4. flow # "none"
  BY Zenon, <1>2 DEF FlowIInv, Begin
<1>5. Shape'
  BY <1>2, <1>3 DEF registerAlreadyConfigured0, Took, FlowIInv, Shape
<1>6. Begin'
  BY <1>2, <1>3, <1>4, PacketsKeepOrder DEF registerAlreadyConfigured0, FlowIInv, Begin, Op, Packet
<1>7. Order'
  BY Zenon, <1>2, <1>3, PacketsKeepOrder DEF registerAlreadyConfigured0, FlowIInv, Order, Op, Packet
<1>8. Registered' /\ NoInputLost'
  BY Zenon DEF registerAlreadyConfigured0, FlowIInv, Registered, NoInputLost
<1>9. Input'
  BY Zenon, <1>2, <1>3, PacketsKeepOrder DEF registerAlreadyConfigured0, FlowIInv, Input, Op, Packet
<1>10. Waiting'
  BY Zenon DEF registerAlreadyConfigured0, FlowIInv, Waiting
<1>11. Flushed'
  BY Zenon, <1>5, <1>10, FlushStep DEF registerAlreadyConfigured0
<1> QED
  BY Zenon, <1>5, <1>6, <1>7, <1>8, <1>9, <1>10, <1>11 DEF FlowIInv

-----------------------------------------------------------------------------
(* The callbacks.                                                           *)

\* The head of the queue, as the turn that takes it sees it.
LEMMA HeadOfLoop ==
  ASSUME Shape, NEW op, Turn(op)
  PROVE  /\ turn = "idle" /\ loop # <<>> /\ 1 \in DOMAIN loop /\ Op(1) = op
         /\ Head(loop) = loop[1] /\ loop[1] \in Work
BY DEF Shape, Turn, Op

\* Data that arrives at an open channel finds the recv callback: the input of an open
\* channel is closed only by a FIN, and no data follows one.
LEMMA RecvDataStep ==
  ASSUME FlowIInv, RecvData
  PROVE  FlowIInv'
<1> USE DEF channel, writes, inbound, task
<1>1. Turn("data") /\ loop' = Tail(loop) /\ packets' = "idle" /\ turn' = turn /\ UNCHANGED <<peer, flow>>
  BY Zenon DEF RecvData, Resume
<1>2. turn = "idle" /\ loop # <<>> /\ Op(1) = "data"
  BY Zenon, <1>1, HeadOfLoop DEF FlowIInv
<1>3. /\ flow # "none" /\ loop' \in Seq(Work) /\ Begin' /\ Order'
      /\ \A i \in DOMAIN loop' : loop'[i].op \notin Packet \cup {"register"}
      /\ isOpen => "sent" \in callbacks /\ ("recv" \in callbacks \/ inputClosed)
      /\ ~peer.fin
  BY Zenon, <1>1, <1>2, PacketStep DEF Packet
<1>4. isOpen => "recv" \in callbacks
  BY Zenon, <1>3 DEF FlowIInv, Input
<1>5. Shape'
  BY <1>1, <1>2, <1>3 DEF RecvData, FlowIInv, Shape
<1>6. Registered' /\ NoInputLost'
  BY Zenon, <1>3, <1>4 DEF RecvData, FlowIInv, Registered, NoInputLost
<1>7. Input'
  BY Zenon, <1>1, <1>3 DEF RecvData, FlowIInv, Input, Op, Packet
<1>8. Waiting' /\ Flushed'
  BY Zenon, <1>1 DEF RecvData, FlowIInv, Waiting, Flushed, Free, Writable
<1> QED
  BY Zenon, <1>3, <1>5, <1>6, <1>7, <1>8 DEF FlowIInv

\* The end of the input closes the input of the channel and leaves the sent callback set.
LEMMA RecvEndStep ==
  ASSUME FlowIInv, RecvEnd
  PROVE  FlowIInv'
<1> USE DEF channel, writes, inbound, task
<1>1. Turn("fin") /\ loop' = Tail(loop) /\ packets' = "idle" /\ turn' = turn /\ UNCHANGED <<peer, flow>>
  BY Zenon DEF RecvEnd, Resume
<1>2. turn = "idle" /\ loop # <<>> /\ Op(1) = "fin"
  BY Zenon, <1>1, HeadOfLoop DEF FlowIInv
<1>3. /\ flow # "none" /\ loop' \in Seq(Work) /\ Begin' /\ Order'
      /\ \A i \in DOMAIN loop' : loop'[i].op \notin Packet \cup {"register"}
      /\ isOpen => "sent" \in callbacks /\ ("recv" \in callbacks \/ inputClosed)
      /\ peer.fin
  BY Zenon, <1>1, <1>2, PacketStep DEF Packet
<1>4. /\ isOpen' = isOpen /\ outputClosed' = outputClosed /\ socketOpen' = socketOpen
      /\ \/ callbacks' = callbacks \ {"recv"} /\ inputClosed' = TRUE
         \/ callbacks' = callbacks /\ inputClosed' = inputClosed
  BY Zenon DEF RecvEnd, closeInput
<1>5. Shape'
  BY Zenon, <1>1, <1>2, <1>3, <1>4 DEF RecvEnd, FlowIInv, Shape
<1>6. Registered'
  BY Zenon, <1>3, <1>4 DEF Registered
<1>7. Input'
  BY Zenon, <1>1, <1>3 DEF Input, Op, Packet
<1>8. Waiting' /\ Flushed' /\ NoInputLost'
  BY Zenon, <1>1, <1>4 DEF RecvEnd, FlowIInv, Waiting, Flushed, NoInputLost, Free, Writable
<1> QED
  BY Zenon, <1>3, <1>5, <1>6, <1>7, <1>8 DEF FlowIInv

\* An acknowledgement finds the sent callback of a channel with writes that wait.
LEMMA SentStep ==
  ASSUME FlowIInv, Sent
  PROVE  FlowIInv'
<1> USE DEF channel, writes, inbound, task
<1>1. Turn("ack") /\ loop' = Tail(loop) /\ packets' = "idle" /\ UNCHANGED <<peer, flow>>
  BY Zenon DEF Sent, Resume
<1>2. turn = "idle" /\ loop # <<>> /\ Op(1) = "ack" /\ loop[1] \in Work /\ Head(loop) = loop[1]
  BY Zenon, <1>1, HeadOfLoop DEF FlowIInv
<1>3. turn' \in {"idle", "flushing"}
  BY Zenon, <1>2 DEF Sent, flushNow
<1>4. /\ flow # "none" /\ loop' \in Seq(Work) /\ Begin' /\ Order'
      /\ \A i \in DOMAIN loop' : loop'[i].op \notin Packet \cup {"register"}
      /\ isOpen => "sent" \in callbacks /\ ("recv" \in callbacks \/ inputClosed)
  BY Zenon, <1>1, <1>2, <1>3, PacketStep DEF Packet
<1>5. acked' \in Nat
  <2>1. loop[1].arg \in Nat
    BY Zenon, <1>2 DEF Work, Op
  <2> QED
    BY Zenon, <1>2, <2>1 DEF Sent, Acknowledged, FlowIInv, Shape
<1>6. Shape'
  BY Zenon, <1>1, <1>3, <1>4, <1>5 DEF Sent, FlowIInv, Shape
<1>7. Registered' /\ NoInputLost'
  BY Zenon, <1>4 DEF Sent, FlowIInv, Registered, NoInputLost
<1>8. Input'
  BY Zenon, <1>1, <1>4 DEF Sent, FlowIInv, Input, Op, Packet
<1>9. Waiting'
  BY Zenon, <1>1 DEF Sent, FlowIInv, Waiting
<1>10. Flushed'
  <2>1. CASE pendingWrites = <<>>
    BY Zenon, <1>2, <2>1 DEF Sent, Flushed
  <2>2. CASE pendingWrites # <<>>
    <3>1. flushNow
      BY Zenon, <1>4, <2>2 DEF Sent, FlowIInv, Waiting
    <3> QED
      BY Zenon, <1>6, <1>9, <3>1, FlushStep
  <2> QED
    BY Zenon, <2>1, <2>2
<1> QED
  BY Zenon, <1>4, <1>6, <1>7, <1>8, <1>9, <1>10 DEF FlowIInv

\* A reset closes the channel, or finds it closed.
LEMMA ErrStep ==
  ASSUME FlowIInv, Err
  PROVE  FlowIInv'
<1> USE DEF channel, writes, inbound, task
<1>1. Turn("rst") /\ packets' = "idle" /\ turn' = turn /\ UNCHANGED <<peer, flow, stream, acked, discarded, replies>>
  BY Zenon DEF Err, Resume
<1>2. turn = "idle" /\ loop # <<>> /\ Op(1) = "rst" /\ 1 \in DOMAIN loop
  BY Zenon, <1>1, HeadOfLoop DEF FlowIInv
<1>3. flow # "none" /\ stream' \in Seq(Byte)
  BY Zenon, <1>1, <1>2 DEF FlowIInv, Begin, Shape
<1>4. CASE close0(Tail(loop))
  BY Zenon, <1>1, <1>2, <1>3, <1>4, CloseStep DEF Packet
<1>5. CASE ~close0(Tail(loop))
  <2>1. /\ loop' = Tail(loop)
        /\ UNCHANGED <<inputClosed, outputClosed, pendingWrites, mark, promise, isOpen, socketOpen,
                       callbacks>>
    BY Zenon, <1>5 DEF Err
  <2>2. /\ loop' \in Seq(Work) /\ Begin' /\ Order'
        /\ \A i \in DOMAIN loop' : loop'[i].op \notin Packet \cup {"register"}
        /\ isOpen => "sent" \in callbacks /\ ("recv" \in callbacks \/ inputClosed)
    BY Zenon, <1>1, <1>2, <2>1, PacketStep DEF Packet
  <2>3. Shape'
    BY <1>1, <2>1, <2>2 DEF FlowIInv, Shape
  <2>4. Registered' /\ NoInputLost'
    BY Zenon, <1>1, <2>1, <2>2 DEF FlowIInv, Registered, NoInputLost
  <2>5. Input'
    BY Zenon, <1>1, <2>1, <2>2 DEF FlowIInv, Input, Op, Packet
  <2>6. Waiting' /\ Flushed'
    BY Zenon, <1>1, <2>1 DEF FlowIInv, Waiting, Flushed, Free, Writable
  <2> QED
    BY Zenon, <2>2, <2>3, <2>4, <2>5, <2>6 DEF FlowIInv
<1> QED
  BY Zenon, <1>4, <1>5

-----------------------------------------------------------------------------
(* The writes.                                                              *)

\* Facts on sequences, for the queue of writes.
LEMMA NonEmpty ==
  ASSUME NEW W, NEW s \in Seq(W), s # <<>>
  PROVE  /\ Len(s) \in Nat \ {0} /\ DOMAIN s = 1 .. Len(s)
         /\ Head(s) = s[1] /\ s[1] \in W
OBVIOUS

\* A sequence that grows by an element of its set stays a sequence over it.
LEMMA Appended ==
  ASSUME NEW W, NEW s \in Seq(W), NEW w \in W
  PROVE  Append(s, w) \in Seq(W)
OBVIOUS

\* A write is refused, or queued and marked; flushNow follows.
LEMMA WriteStep ==
  ASSUME FlowIInv, write0
  PROVE  FlowIInv'
<1> USE DEF channel, inbound, task
<1> DEFINE r == loop[1].arg
           write == [id |-> r, left |-> Replies[r]]
<1>1. /\ turn = "idle" /\ loop # <<>> /\ 1 \in DOMAIN loop /\ Op(1) = "write"
      /\ loop' = Tail(loop) /\ Head(loop) = loop[1] /\ loop[1] \in Work
  BY Zenon, HeadOfLoop DEF write0, FlowIInv
<1>2. r \in Reply
  BY Zenon, <1>1 DEF Work, Op
<1>3. [op |-> "closed", arg |-> 0] \in Work /\ [op |-> "closed", arg |-> 0].op \in Other
  BY Zenon DEF Work, Other
<1>4. Took(1)
  BY Zenon, <1>1, <1>3, QueueSteps DEF FlowIInv, Shape
<1>5. flow # "none" /\ turn' \in {"idle", "flushing"}
  BY Zenon, <1>1 DEF FlowIInv, Begin, write0, flushNow
<1>6. \/ promise' = [promise EXCEPT ![r] = "fail"] /\ UNCHANGED <<pendingWrites, mark>>
      \/ /\ isOpen /\ promise' = [promise EXCEPT ![r] = "pending"]
         /\ pendingWrites' = Append(pendingWrites, write)
         /\ mark' = Len(pendingWrites) + 1
  BY Zenon, <1>1 DEF write0
<1>7. write \in Write /\ write.id = r
  BY <1>2, ConnectionAssumption DEF Reply, Write
<1> HIDE DEF r, write
<1>8. pendingWrites' \in Seq(Write)
  <2>1. pendingWrites \in Seq(Write)
    BY Zenon DEF FlowIInv, Shape
  <2>2. Append(pendingWrites, write) \in Seq(Write)
    BY Zenon, <1>7, <2>1, Appended
  <2> QED
    BY Zenon, <1>6, <2>1, <2>2
<1>9. promise' \in [Reply -> {"none", "pending", "succeed", "fail"}]
  BY Zenon, <1>6 DEF FlowIInv, Shape
<1>10. Shape'
  BY Zenon, <1>4, <1>5, <1>8, <1>9 DEF write0, Took, FlowIInv, Shape
<1>11. Begin'
  BY <1>1, <1>4, <1>5, PacketsKeepOrder DEF write0, FlowIInv, Begin, Op, Packet
<1>12. Order'
  BY Zenon, <1>1, <1>4, <1>5, PacketsKeepOrder DEF write0, FlowIInv, Order, Op, Packet
<1>13. Registered' /\ NoInputLost'
  BY Zenon, <1>1, <1>4, PacketsKeepOrder DEF write0, FlowIInv, Registered, NoInputLost, Op
<1>14. Input'
  BY <1>1, <1>4, PacketsKeepOrder DEF write0, FlowIInv, Input, Op, Packet
<1>15. Waiting'
  <2>1. UNCHANGED <<isOpen, inputClosed, outputClosed, socketOpen, flow>>
    BY Zenon DEF write0
  <2>2. CASE promise' = [promise EXCEPT ![r] = "fail"] /\ UNCHANGED <<pendingWrites, mark>>
    BY Zenon, <2>1, <2>2 DEF FlowIInv, Shape, Waiting
  <2>3. CASE /\ isOpen /\ promise' = [promise EXCEPT ![r] = "pending"]
             /\ pendingWrites' = Append(pendingWrites, write)
             /\ mark' = Len(pendingWrites) + 1
    <3>1. /\ Len(pendingWrites') = Len(pendingWrites) + 1 /\ Len(pendingWrites) \in Nat
          /\ DOMAIN pendingWrites = 1 .. Len(pendingWrites)
          /\ DOMAIN pendingWrites' = 1 .. Len(pendingWrites) + 1
          /\ pendingWrites'[Len(pendingWrites) + 1] = write
          /\ \A i \in DOMAIN pendingWrites : pendingWrites'[i] = pendingWrites[i]
      BY <2>3, <1>7 DEF FlowIInv, Shape
    <3>2. mark' = Len(pendingWrites') /\ isOpen'
      BY Zenon, <2>1, <2>3, <3>1
    <3>3. ASSUME NEW k \in Reply, promise'[k] = "pending"
          PROVE  \E i \in DOMAIN pendingWrites' : pendingWrites'[i].id = k
      <4>1. CASE k = r
        BY <1>7, <3>1, <4>1
      <4>2. CASE k # r
        <5>1. promise[k] = "pending"
          BY Zenon, <2>3, <3>3, <4>2 DEF FlowIInv, Shape
        <5> QED
          BY <3>1, <5>1 DEF FlowIInv, Waiting
      <4> QED
        BY Zenon, <4>1, <4>2
    <3> QED
      BY Zenon, <2>1, <3>2, <3>3 DEF Waiting
  <2> QED
    BY Zenon, <1>6, <2>2, <2>3
<1>16. Flushed'
  BY Zenon, <1>10, <1>15, FlushStep DEF write0
<1> QED
  BY Zenon, <1>10, <1>11, <1>12, <1>13, <1>14, <1>15, <1>16 DEF FlowIInv

\* A piece of a write, of any length, is a sequence of bytes of its reply.
LEMMA PieceIsBytes ==
  ASSUME NEW n \in Int, NEW w \in Write
  PROVE  Piece(w, n) \in Seq(Byte)
<1> DEFINE byte(i) == [id |-> w.id, at |-> Replies[w.id] - w.left + i]
<1>1. Piece(w, n) = [i \in 1 .. n |-> byte(i)]
  BY Zenon DEF Piece
<1>2. \A i \in Int : byte(i) \in Byte
  <2>1. w.id \in Reply /\ w.left \in Nat /\ Replies[w.id] \in Nat
    BY ConnectionAssumption DEF Write, Reply
  <2> QED
    BY <2>1 DEF Byte
<1> HIDE DEF byte
<1>3. CASE n \in Nat
  BY <1>1, <1>2, <1>3
<1>4. CASE n < 0
  <2>1. 1 .. n = 1 .. 0
    BY <1>4
  <2> QED
    BY <1>1, <1>2, <2>1
<1> QED
  BY <1>3, <1>4

\* The first write goes back with what it has left, or is through and leaves.
LEMMA WriteToSocketStep ==
  ASSUME FlowIInv, writeToSocket
  PROVE  FlowIInv'
<1> USE DEF channel, inbound, task
<1> DEFINE first == Head(pendingWrites)
           free == Free(stream, acked)
           n == IF first.left <= free THEN first.left ELSE free
<1>1. /\ turn = "flushing" /\ isOpen /\ pendingWrites # <<>>
      /\ pendingWrites \in Seq(Write)
      /\ Len(pendingWrites) \in Nat \ {0} /\ DOMAIN pendingWrites = 1 .. Len(pendingWrites)
      /\ first = pendingWrites[1] /\ first \in Write
  <2>1. /\ turn = "flushing" /\ isOpen /\ pendingWrites # <<>>
        /\ pendingWrites \in Seq(Write)
    BY Zenon DEF writeToSocket, FlowIInv, Flushed, Shape
  <2> QED
    BY <2>1, NonEmpty
<1>2. free \in Int
  BY ConnectionAssumption DEF Free, FlowIInv, Shape
<1>3. stream' = stream \o Piece(first, n)
  BY Zenon DEF writeToSocket
<1>4. \/ /\ first.left > n /\ pendingWrites' = [pendingWrites EXCEPT ![1] = Rest(pendingWrites[1], n)]
         /\ UNCHANGED <<mark, promise>> /\ flushNow
      \/ /\ pendingWrites' = Tail(pendingWrites) /\ mark' = IF mark > 0 THEN mark - 1 ELSE 0
         /\ promise' = [promise EXCEPT ![first.id] = "succeed"]
         /\ turn' = IF Len(pendingWrites) > 1 THEN "flushing" ELSE "idle"
  BY Zenon DEF writeToSocket, Succeeded
<1>5. /\ UNCHANGED <<loop, packets, peer, isOpen, isActive, inputClosed, outputClosed, socketOpen>>
      /\ UNCHANGED <<callbacks, acked, received, discarded, eof, flow, replies>>
  BY Zenon DEF writeToSocket
<1>6. n \in Int /\ first.id \in Reply /\ first.left \in Nat
  BY <1>1, <1>2 DEF Write
<1> HIDE DEF n, free, first
<1>7. stream' \in Seq(Byte)
  <2> DEFINE piece == Piece(first, n)
  <2>1. piece \in Seq(Byte)
    BY Zenon, <1>1, <1>6, PieceIsBytes
  <2>2. stream' = stream \o piece /\ stream \in Seq(Byte)
    BY Zenon, <1>3 DEF FlowIInv, Shape
  <2> HIDE DEF piece
  <2> QED
    BY <2>1, <2>2
<1>8. turn' \in {"idle", "flushing"} /\ flow # "none"
  BY Zenon, <1>1, <1>4 DEF flushNow, FlowIInv, Begin
<1>9. CASE /\ first.left > n /\ pendingWrites' = [pendingWrites EXCEPT ![1] = Rest(pendingWrites[1], n)]
           /\ UNCHANGED <<mark, promise>> /\ flushNow
  <2>1. Rest(pendingWrites[1], n) \in Write /\ Rest(pendingWrites[1], n).id = pendingWrites[1].id
    BY <1>1, <1>6, <1>9 DEF Rest, Write
  <2>2. /\ pendingWrites' \in Seq(Write) /\ Len(pendingWrites') = Len(pendingWrites)
        /\ DOMAIN pendingWrites' = DOMAIN pendingWrites
        /\ \A i \in DOMAIN pendingWrites : pendingWrites'[i].id = pendingWrites[i].id
    BY <1>1, <1>9, <2>1
  <2>3. Shape'
    BY <1>5, <1>7, <1>8, <1>9, <2>2 DEF FlowIInv, Shape
  <2>4. Waiting'
    BY Zenon, <1>1, <1>5, <1>9, <2>2 DEF FlowIInv, Waiting
  <2> QED
    BY Zenon, <1>9, <2>3, <2>4, FlushStep, <1>5, <1>8, <1>1 DEF FlowIInv, Begin, Order, Registered, Input, NoInputLost, Op
<1>10. CASE /\ pendingWrites' = Tail(pendingWrites) /\ mark' = IF mark > 0 THEN mark - 1 ELSE 0
            /\ promise' = [promise EXCEPT ![first.id] = "succeed"]
            /\ turn' = IF Len(pendingWrites) > 1 THEN "flushing" ELSE "idle"
  <2>1. /\ pendingWrites' \in Seq(Write) /\ Len(pendingWrites') = Len(pendingWrites) - 1
        /\ DOMAIN pendingWrites' = 1 .. Len(pendingWrites) - 1
        /\ \A i \in 1 .. Len(pendingWrites) - 1 : pendingWrites'[i] = pendingWrites[i + 1]
    BY <1>1, <1>10
  <2>2. promise' \in [Reply -> {"none", "pending", "succeed", "fail"}]
    BY Zenon, <1>10 DEF FlowIInv, Shape
  <2>3. Shape'
    BY <1>5, <1>7, <1>8, <2>1, <2>2 DEF FlowIInv, Shape
  <2>4. mark' = Len(pendingWrites')
    BY <1>1, <1>10, <2>1 DEF FlowIInv, Waiting
  <2>5. ASSUME NEW k \in Reply, promise'[k] = "pending"
        PROVE  \E i \in DOMAIN pendingWrites' : pendingWrites'[i].id = k
    <3>1. k # first.id /\ promise[k] = "pending"
      BY Zenon, <1>6, <1>10, <2>5 DEF FlowIInv, Shape
    <3>2. PICK i \in DOMAIN pendingWrites : pendingWrites[i].id = k
      BY Zenon, <3>1 DEF FlowIInv, Waiting
    <3>3. i \in 1 .. Len(pendingWrites) /\ i # 1
      BY Zenon, <1>1, <3>1, <3>2
    <3>4. i - 1 \in 1 .. Len(pendingWrites) - 1 /\ (i - 1) + 1 = i
      BY <1>1, <3>3
    <3> QED
      BY Zenon, <2>1, <3>2, <3>4
  <2>6. Waiting'
    BY Zenon, <1>1, <1>5, <2>4, <2>5 DEF Waiting
  <2>7. Flushed'
    <3>1. pendingWrites' # <<>> <=> Len(pendingWrites) > 1
      BY <1>1, <2>1
    <3> QED
      BY Zenon, <1>1, <1>5, <1>10, <3>1 DEF Flushed
  <2> QED
    BY Zenon, <2>3, <2>6, <2>7, <1>5, <1>8, <1>1 DEF FlowIInv, Begin, Order, Registered, Input, NoInputLost, Op
<1> QED
  BY Zenon, <1>4, <1>9, <1>10

\* A write that throws closes the channel.
LEMMA WriteThrowsStep ==
  ASSUME FlowIInv, writeThrows
  PROVE  FlowIInv'
<1> USE DEF inbound, task
<1> DEFINE first == Head(pendingWrites)
           free == Free(stream, acked)
<1>1. /\ turn = "flushing" /\ turn' = "idle" /\ close0(loop)
      /\ UNCHANGED <<packets, peer, acked, discarded, flow, replies>>
      /\ \/ stream' = stream
         \/ \E n \in {0, IF first.left <= free THEN first.left ELSE free} :
              stream' = stream \o Piece(first, n)
  BY Zenon DEF writeThrows
<1>2. pendingWrites # <<>> /\ pendingWrites \in Seq(Write) /\ flow # "none" /\ stream \in Seq(Byte)
  BY Zenon, <1>1 DEF FlowIInv, Flushed, Shape, Begin
<1>3. first \in Write
  BY <1>2, NonEmpty
<1>4. free \in Int
  BY ConnectionAssumption DEF Free, FlowIInv, Shape
<1>5. first.id \in Reply /\ first.left \in Int
  BY <1>3 DEF Write
<1> HIDE DEF first, free
<1>6. stream' \in Seq(Byte)
  <2> SUFFICES ASSUME stream' # stream PROVE stream' \in Seq(Byte)
    BY Zenon, <1>2
  <2>1. PICK n \in {0, IF first.left <= free THEN first.left ELSE free} :
               stream' = stream \o Piece(first, n)
    BY <1>1, Zenon
  <2> DEFINE piece == Piece(first, n)
  <2>2. piece \in Seq(Byte)
    <3>1. n \in Int
      BY <1>4, <1>5
    <3> QED
      BY Zenon, <1>3, <3>1, PieceIsBytes
  <2>3. stream' = stream \o piece
    BY Zenon, <2>1
  <2> HIDE DEF piece
  <2> QED
    BY <1>2, <2>2, <2>3
<1> QED
  BY <1>1, <1>2, <1>6, CloseStep

-----------------------------------------------------------------------------
(* Every step.                                                              *)

\* The peer's packets and acknowledgements are handed over one at a time.
LEMMA PeerStep ==
  ASSUME FlowIInv, Peer
  PROVE  FlowIInv'
<1> USE DEF task
<1>1. peer \in Sender
  BY Zenon DEF FlowIInv, Shape
<1>2. CASE PeerSends
  <2> DEFINE Ended(n, f) == [shook |-> TRUE, first |-> n, early |-> f, data |-> n, fin |-> f, reset |-> FALSE]
  <2>1. /\ UNCHANGED <<turn, channel, writes, acked, inbound, flow, replies>>
        /\ \/ \E n \in {0, 1}, f \in BOOLEAN : ~peer.shook /\ Submit("handshake", n) /\ peer' = Ended(n, f)
           \/ peer.shook /\ ~peer.fin /\ Submit("data", 0) /\ peer' = [peer EXCEPT !.data = @ + 1]
           \/ peer.shook /\ ~peer.fin /\ Submit("fin", 0) /\ peer' = [peer EXCEPT !.fin = TRUE]
           \/ peer.shook /\ Submit("rst", 0) /\ peer' = [peer EXCEPT !.reset = TRUE]
    BY Zenon, <1>2 DEF PeerSends
  <2>2. \A op \in {"data", "fin", "rst"} : [op |-> op, arg |-> 0] \in Work /\ op \in Packet
    BY Zenon DEF Work, Packet
  <2>3. ASSUME NEW n \in {0, 1}, NEW f \in BOOLEAN,
               ~peer.shook, Submit("handshake", n), peer' = Ended(n, f)
        PROVE  FlowIInv'
    <3> DEFINE w == [op |-> "handshake", arg |-> n]
    <3>1. /\ w \in Work /\ w.op \in Packet /\ Submit(w.op, w.arg) /\ w = [op |-> w.op, arg |-> w.arg]
          /\ w.op = "handshake" /\ w.arg = n
      BY Zenon, <2>3 DEF Work, Packet
    <3>2. peer' \in Sender /\ peer'.shook /\ peer'.first = n
      <4>1. n \in Nat
        OBVIOUS
      <4> QED
        BY Zenon, <2>3, <4>1 DEF Sender
    <3>3. ~peer.fin
      <4>1. flow = "none"
        BY Zenon, <2>3 DEF FlowIInv, Begin
      <4> QED
        BY Zenon, <2>3, <4>1 DEF FlowIInv, Begin
    <3> HIDE DEF w
    <3> QED
      BY Zenon, <2>1, <2>3, <3>1, <3>2, <3>3, SubmitStep
  <2>4. CASE peer.shook /\ ~peer.fin /\ Submit("data", 0) /\ peer' = [peer EXCEPT !.data = @ + 1]
    <3> DEFINE w == [op |-> "data", arg |-> 0]
    <3>1. w \in Work /\ w.op \in Packet /\ Submit(w.op, w.arg) /\ w = [op |-> w.op, arg |-> w.arg]
      BY Zenon, <2>2, <2>4
    <3> QED
      BY <1>1, <2>1, <2>4, <3>1, SubmitStep DEF Sender
  <2>5. CASE peer.shook /\ ~peer.fin /\ Submit("fin", 0) /\ peer' = [peer EXCEPT !.fin = TRUE]
    <3> DEFINE w == [op |-> "fin", arg |-> 0]
    <3>1. w \in Work /\ w.op \in Packet /\ Submit(w.op, w.arg) /\ w = [op |-> w.op, arg |-> w.arg]
      BY Zenon, <2>2, <2>5
    <3> QED
      BY Zenon, <1>1, <2>1, <2>5, <3>1, SubmitStep DEF Sender
  <2>6. CASE peer.shook /\ Submit("rst", 0) /\ peer' = [peer EXCEPT !.reset = TRUE]
    <3> DEFINE w == [op |-> "rst", arg |-> 0]
    <3>1. w \in Work /\ w.op \in Packet /\ Submit(w.op, w.arg) /\ w = [op |-> w.op, arg |-> w.arg]
      BY Zenon, <2>2, <2>6
    <3> QED
      BY Zenon, <1>1, <2>1, <2>6, <3>1, SubmitStep DEF Sender
  <2> QED
    BY Zenon, <2>1, <2>3, <2>4, <2>5, <2>6
<1>3. CASE PeerAcks
  <2>1. PICK n \in acked + 1 .. Len(stream) : Submit("ack", n)
    BY Zenon, <1>3 DEF PeerAcks
  <2>2. UNCHANGED <<turn, peer, channel, writes, acked, inbound, flow, replies>>
    BY Zenon, <1>3 DEF PeerAcks
  <2>3. n \in Nat /\ stream # <<>>
    BY <2>1 DEF FlowIInv, Shape
  <2>4. peer.shook
    BY Zenon, <2>3 DEF FlowIInv, Begin
  <2> DEFINE w == [op |-> "ack", arg |-> n]
  <2>5. w \in Work /\ w.op \in Packet /\ Submit(w.op, w.arg) /\ w = [op |-> w.op, arg |-> w.arg]
    BY Zenon, <2>1, <2>3 DEF Work, Packet
  <2>6. w.op = "ack"
    BY Zenon
  <2> HIDE DEF w
  <2> QED
    BY Zenon, <1>1, <2>2, <2>4, <2>5, <2>6, SubmitStep
<1> QED
  BY Zenon, <1>2, <1>3 DEF Peer

\* The steps of the flow's task and of the SOCKS channel, and the last part of a shutdown.
LEMMA FlowStep ==
  ASSUME FlowIInv, FlowTask \/ AutoReplyResponse \/ Closed
  PROVE  FlowIInv'
<1> USE DEF task
<1>1. loop \in Seq(Work)
  BY Zenon DEF FlowIInv, Shape
<1>2. CASE FlowTask \/ AutoReplyResponse
  <2>1. UNCHANGED outside /\ flow # "none" /\ flow' # "none" /\ replies' \in Nat
    BY SMTT(20), <1>2 DEF FlowIInv, Shape, outside, FlowTask, resolve, connect, forward, finish, AutoReplyResponse
  <2>2. \/ loop' = loop \/ loop' = Close
        \/ replies < Len(Replies) /\ loop' = Append(loop, [op |-> "write", arg |-> replies + 1])
    BY Zenon, <1>2 DEF FlowTask, resolve, connect, forward, finish, AutoReplyResponse
  <2>3. [op |-> "close", arg |-> 0] \in Work /\ [op |-> "close", arg |-> 0].op \in Other
    BY Zenon DEF Work, Other
  <2>4. CASE loop' = loop \/ loop' = Close
    BY <1>1, <2>3, <2>4, QueueSteps, <2>1, TaskStep DEF Close
  <2>5. CASE replies < Len(Replies) /\ loop' = Append(loop, [op |-> "write", arg |-> replies + 1])
    <3>1. replies + 1 \in Reply
      BY <2>5, ConnectionAssumption DEF Reply, FlowIInv, Shape
    <3> DEFINE w == [op |-> "write", arg |-> replies + 1]
    <3>2. w \in Work /\ w.op \in Other
      BY Zenon, <3>1 DEF Work, Other
    <3> HIDE DEF w
    <3>3. loop' = Append(loop, w)
      BY Zenon, <2>5 DEF w
    <3> QED
      BY <1>1, <3>2, <3>3, QueueSteps, <2>1, TaskStep
  <2> QED
    BY Zenon, <2>2, <2>4, <2>5
<1>3. CASE Closed
  <2>1. UNCHANGED outside /\ UNCHANGED <<flow, replies>> /\ loop' = Tail(loop) /\ Turn("closed")
    BY Zenon, <1>3 DEF outside, Closed
  <2>2. loop # <<>> /\ 1 \in DOMAIN loop /\ Op(1) = "closed"
    BY Zenon, <2>1, HeadOfLoop DEF FlowIInv
  <2>3. flow # "none" /\ replies' \in Nat /\ Op(1) \notin Packet \cup {"register"}
    BY Zenon, <2>1, <2>2 DEF FlowIInv, Begin, Shape, Packet
  <2>4. [op |-> "close", arg |-> 0] \in Work /\ [op |-> "close", arg |-> 0].op \in Other
    BY Zenon DEF Work, Other
  <2>5. Took(1)
    BY Zenon, <1>1, <2>1, <2>2, <2>4, QueueSteps
  <2> QED
    BY Zenon, <2>1, <2>2, <2>3, <2>5, TaskStep
<1> QED
  BY Zenon, <1>2, <1>3

\* The close of the flow's task closes the channel, or finds it closed.
LEMMA ClosingStep ==
  ASSUME FlowIInv, Closing
  PROVE  FlowIInv'
<1> USE DEF inbound
<1>1. /\ Turn("close") /\ close0(Tail(loop)) /\ flow' = "done" /\ turn' = turn
      /\ UNCHANGED <<packets, peer, stream, acked, discarded, replies>>
  BY Zenon DEF Closing
<1>2. turn = "idle" /\ loop # <<>> /\ 1 \in DOMAIN loop /\ Op(1) = "close"
  BY Zenon, <1>1, HeadOfLoop DEF FlowIInv
<1>3. flow # "none" /\ stream' \in Seq(Byte)
  BY Zenon, <1>1, <1>2 DEF FlowIInv, Begin, Shape
<1> QED
  BY Zenon, <1>1, <1>2, <1>3, CloseStep

\* A step that changes nothing.
LEMMA Stutter ==
  ASSUME FlowIInv, UNCHANGED flowVars
  PROVE  FlowIInv'
<1> USE DEF flowVars, channel, writes, inbound, task
<1>1. Shape' /\ Begin' /\ Order'
  BY DEF FlowIInv, Shape, Begin, Order, Op
<1>2. Registered' /\ Input' /\ Waiting'
  BY Zenon DEF FlowIInv, Registered, Input, Waiting, Op
<1>3. Flushed' /\ NoInputLost'
  BY Zenon DEF FlowIInv, Flushed, NoInputLost, Free, Writable
<1> QED
  BY Zenon, <1>1, <1>2, <1>3 DEF FlowIInv

-----------------------------------------------------------------------------
\* The invariant holds before the first packet ...
LEMMA Start == FlowInit => FlowIInv
<1> SUFFICES ASSUME FlowInit PROVE FlowIInv
  BY Zenon
<1>1. Shape
  <2>1. pendingWrites \in Seq(Write) /\ stream \in Seq(Byte) /\ loop \in Seq(Work)
    BY DEF FlowInit
  <2>2. promise \in [Reply -> {"none", "pending", "succeed", "fail"}]
    BY Zenon DEF FlowInit
  <2> QED
    BY Zenon, <2>1, <2>2 DEF FlowInit, Shape, Sender
<1>2. Begin /\ Order /\ Registered /\ Input /\ Flushed /\ NoInputLost
  BY DEF FlowInit, Begin, Order, Registered, Input, Flushed, NoInputLost
<1>3. Waiting
  BY Zenon DEF FlowInit, Waiting
<1> QED
  BY Zenon, <1>1, <1>2, <1>3 DEF FlowIInv

\* ... and every step keeps it.
LEMMA Step == FlowIInv /\ [FlowNext]_flowVars => FlowIInv'
<1> SUFFICES ASSUME FlowIInv, [FlowNext]_flowVars PROVE FlowIInv'
  BY Zenon
<1>1. CASE Peer
  BY Zenon, <1>1, PeerStep
<1>2. CASE Accept \/ channelRead0 \/ registerAlreadyConfigured0
  BY Zenon, <1>2, AcceptStep, ChannelReadStep, RegisterStep
<1>3. CASE RecvData \/ RecvEnd \/ Sent \/ Err
  BY Zenon, <1>3, RecvDataStep, RecvEndStep, SentStep, ErrStep
<1>4. CASE write0 \/ writeToSocket \/ writeThrows
  BY Zenon, <1>4, WriteStep, WriteToSocketStep, WriteThrowsStep
<1>5. CASE Closing
  BY Zenon, <1>5, ClosingStep
<1>6. CASE Closed \/ FlowTask \/ AutoReplyResponse
  BY Zenon, <1>6, FlowStep
<1>7. CASE Idle \/ UNCHANGED flowVars
  BY Zenon, <1>7, Stutter DEF Idle
<1> QED
  BY Zenon, <1>1, <1>2, <1>3, <1>4, <1>5, <1>6, <1>7 DEF FlowNext, EventLoop

\* The channel of a flow drops the data of the packet that ended the handshake and nothing
\* else that its peer sends while it is open, although registerAlreadyConfigured0 sets the
\* recv callback a turn after the accept.
THEOREM InputIsKept == FlowSpec => []NoInputLost
<1>1. FlowIInv => NoInputLost
  BY Zenon DEF FlowIInv
<1> QED
  BY <1>1, Start, Step, PTL DEF FlowSpec

\* What deinit asserts holds of every closed channel: close0 leaves no write in the queue
\* and none without an outcome, in whatever turn it was called.
THEOREM ClosedChannelIsEmpty == FlowSpec => []ClosedIsEmpty
<1>1. FlowIInv => ClosedIsEmpty
  BY DEF FlowIInv, Waiting, ClosedIsEmpty
<1> QED
  BY <1>1, Start, Step, PTL DEF FlowSpec

\* A flushed write that waits does so for room in lwIP's send buffer, with bytes that are
\* still to be acknowledged and a callback that will flush again.
THEOREM WritesWaitForRoom == FlowSpec => []WaitsForRoom
<1>1. FlowIInv => WaitsForRoom
  <2> SUFFICES ASSUME FlowIInv, turn # "flushing", pendingWrites # <<>>
               PROVE  /\ isOpen /\ mark = Len(pendingWrites)
                      /\ ~Writable(Free(stream, acked)) /\ acked < Len(stream)
                      /\ \/ "sent" \in callbacks \/ turn = "accepting"
                         \/ \E i \in DOMAIN loop : loop[i].op = "register"
    BY Zenon DEF WaitsForRoom
  <2>1. isOpen /\ mark = Len(pendingWrites) /\ ~Writable(Free(stream, acked))
    BY Zenon DEF FlowIInv, Waiting, Flushed
  <2>2. acked < Len(stream)
    <3>1. Len(stream) \in Nat /\ acked \in Nat
      BY DEF FlowIInv, Shape
    <3> QED
      BY <2>1, <3>1, ConnectionAssumption DEF Writable, Free
  <2>3. \/ "sent" \in callbacks \/ turn = "accepting"
        \/ \E i \in DOMAIN loop : loop[i].op = "register"
    BY Zenon, <2>1 DEF FlowIInv, Registered, Op
  <2> QED
    BY Zenon, <2>1, <2>2, <2>3
<1> QED
  BY <1>1, Start, Step, PTL DEF FlowSpec

-----------------------------------------------------------------------------
(* The stream of replies.  The bytes handed over end where the first write  *)
(* that waits goes on, the writes that wait are of consecutive replies, and *)
(* the writes still in the event loop are those of the replies after them,  *)
(* in order; so the next write to be queued is of the reply that follows.   *)

\* A sequence of bytes that starts with the first reply and leaves no byte out ...
Chain(s) == \A i \in DOMAIN s : s[i] = IF i = 1 THEN [id |-> 1, at |-> 1] ELSE Following(s[i - 1])

\* ... and the byte it goes on with.
NextByte(s) == IF s = <<>> THEN [id |-> 1, at |-> 1] ELSE Following(s[Len(s)])

\* The reply whose write an open channel queues next.
Fresh == IF pendingWrites = <<>> THEN NextByte(stream).id ELSE pendingWrites[1].id + Len(pendingWrites)

\* The writes in the event loop are those of the replies that have no outcome and wait not
\* yet, in order.
InTurn ==
  /\ \A i \in DOMAIN loop : Op(i) = "write" => loop[i].arg <= replies /\ promise[loop[i].arg] = "none"
  /\ \A i, j \in DOMAIN loop : i < j /\ Op(i) = "write" /\ Op(j) = "write" => loop[i].arg < loop[j].arg
  /\ \A r \in Reply : promise[r] = "none" /\ r <= replies =>
       \E i \in DOMAIN loop : Op(i) = "write" /\ loop[i].arg = r
  /\ \A r \in Reply : r > replies => promise[r] = "none"
  /\ flow = "none" => replies = 0

\* The writes that wait are of consecutive replies, and only the first was begun.
Consecutive ==
  \A i \in DOMAIN pendingWrites :
    /\ pendingWrites[i].left \in 1 .. Replies[pendingWrites[i].id]
    /\ pendingWrites[i].id = pendingWrites[1].id + i - 1
    /\ i > 1 => pendingWrites[i].left = Replies[pendingWrites[i].id]

\* The stream goes on with the first write that waits, and the replies before the next
\* write to be queued are those that are not new.
Handed ==
  isOpen =>
    /\ IF pendingWrites = <<>>
       THEN NextByte(stream).at = 1
       ELSE NextByte(stream) = [id |-> pendingWrites[1].id,
                                at |-> Replies[pendingWrites[1].id] - pendingWrites[1].left + 1]
    /\ \A r \in Reply : promise[r] = "none" <=> r >= Fresh

\* lwIP takes no more than its send buffer holds.
Room == Free(stream, acked) >= 0

\* Only a close shuts the output.
OutputOpen == isOpen \/ flow = "none" => ~outputClosed

StreamInv == InTurn /\ Consecutive /\ Handed /\ Room /\ OutputOpen /\ StreamIsReplies

\* t is the stream s with n bytes of the write w.
Continues(s, w, n, t) ==
  /\ t \in Seq(Byte) /\ Chain(t) /\ Len(t) = Len(s) + n
  /\ \A i \in DOMAIN s : i \in DOMAIN t /\ t[i] = s[i]
  /\ n < w.left => NextByte(t) = [id |-> w.id, at |-> Replies[w.id] - (w.left - n) + 1]
  /\ n = w.left => /\ NextByte(t) = [id |-> w.id + 1, at |-> 1]
                   /\ \E i \in DOMAIN t : t[i] = [id |-> w.id, at |-> Replies[w.id]]

\* A queued write names a reply, and counts the bytes of it that are left.
LEMMA WriteFacts ==
  ASSUME NEW x \in Write
  PROVE  x.id \in Reply /\ x.id \in Nat /\ x.left \in Nat /\ Replies[x.id] \in Nat
BY ConnectionAssumption DEF Write, Reply

\* What is left of a sequence without its first element.
LEMMA TailFacts ==
  ASSUME NEW W, NEW s \in Seq(W), s # <<>>
  PROVE  /\ Len(Tail(s)) = Len(s) - 1 /\ DOMAIN Tail(s) = 1 .. Len(s) - 1
         /\ \A i \in 1 .. Len(s) - 1 : i + 1 \in DOMAIN s /\ Tail(s)[i] = s[i + 1]
         /\ Len(s) = 1 => Tail(s) = <<>>
OBVIOUS

\* The place in a piece of a byte that is not its first.
LEMMA Offset ==
  ASSUME NEW i \in Int, NEW m \in Int, NEW n \in Int, i > m + 1, i <= m + n
  PROVE  i - m \in 1 .. n /\ i = m + (i - m) /\ i - m > 1
OBVIOUS

\* A piece of the write the stream goes on with continues it.
LEMMA PieceContinues ==
  ASSUME NEW s \in Seq(Byte), Chain(s), NEW w \in Write, w.left \in 1 .. Replies[w.id],
         NextByte(s) = [id |-> w.id, at |-> Replies[w.id] - w.left + 1],
         NEW n \in 0 .. w.left, NEW t, t = s \o Piece(w, n)
  PROVE  Continues(s, w, n, t)
<1> DEFINE p == Piece(w, n)
           at(i) == Replies[w.id] - w.left + i
<1>1. Replies[w.id] \in Nat /\ w.left \in Nat /\ w.id \in Nat /\ n \in Nat /\ n <= w.left
  BY ConnectionAssumption DEF Write, Reply
<1>2. p \in Seq(Byte) /\ Len(p) = n /\ \A i \in 1 .. n : p[i] = [id |-> w.id, at |-> at(i)]
  <2>1. p \in Seq(Byte)
    BY <1>1, PieceIsBytes
  <2>2. DOMAIN p = 1 .. n /\ \A i \in 1 .. n : p[i] = [id |-> w.id, at |-> at(i)]
    BY Zenon DEF Piece
  <2> QED
    BY <1>1, <2>1, <2>2
<1>3. t = s \o p
  BY Zenon
<1> HIDE DEF p
<1>4. /\ t \in Seq(Byte) /\ Len(t) = Len(s) + n /\ Len(s) \in Nat
      /\ DOMAIN t = 1 .. Len(s) + n /\ DOMAIN s = 1 .. Len(s)
  BY <1>1, <1>2, <1>3
<1>5. \A i \in 1 .. Len(s) : t[i] = s[i]
  BY <1>1, <1>2, <1>3, <1>4
<1>6. \A i \in 1 .. n : t[Len(s) + i] = [id |-> w.id, at |-> at(i)]
  BY <1>1, <1>2, <1>3, <1>4
<1>7. Chain(t)
  <2> SUFFICES ASSUME NEW i \in DOMAIN t
               PROVE  t[i] = IF i = 1 THEN [id |-> 1, at |-> 1] ELSE Following(t[i - 1])
    BY Zenon DEF Chain
  <2>1. CASE i <= Len(s)
    <3>1. i \in DOMAIN s /\ t[i] = s[i] /\ (i # 1 => t[i - 1] = s[i - 1])
      BY <1>1, <1>4, <1>5, <2>1
    <3> QED
      BY Zenon, <3>1 DEF Chain
  <2>2. CASE i = Len(s) + 1
    <3>1. t[i] = NextByte(s)
      BY <1>1, <1>4, <1>6, <2>2
    <3>2. CASE s = <<>>
      BY <2>2, <3>1, <3>2 DEF NextByte
    <3>3. CASE s # <<>>
      <4>1. i # 1 /\ i - 1 = Len(s) /\ Len(s) \in 1 .. Len(s)
        BY <1>4, <2>2, <3>3
      <4>2. t[i - 1] = s[Len(s)]
        BY Zenon, <1>5, <4>1
      <4> QED
        BY Zenon, <3>1, <3>3, <4>1, <4>2 DEF NextByte
    <3> QED
      BY Zenon, <3>2, <3>3
  <2>3. CASE i > Len(s) + 1
    <3> DEFINE k == i - Len(s)
    <3>1. k \in 1 .. n /\ i = Len(s) + k /\ k > 1
      <4>1. i \in Int /\ i <= Len(s) + n /\ Len(s) \in Int /\ n \in Int
        BY <1>4, <1>1
      <4> QED
        BY Zenon, <4>1, <2>3, Offset
    <3> HIDE DEF k
    <3>2. k - 1 \in 1 .. n /\ i - 1 = Len(s) + (k - 1) /\ i # 1
      BY <1>1, <1>4, <3>1
    <3>3. t[i] = [id |-> w.id, at |-> at(k)] /\ t[i - 1] = [id |-> w.id, at |-> at(k - 1)]
      BY Zenon, <1>6, <3>1, <3>2
    <3>4. at(k - 1) < Replies[w.id] /\ at(k) = at(k - 1) + 1
      BY SMTT(20), <1>1, <3>1
    <3>5. Following([id |-> w.id, at |-> at(k - 1)]) = [id |-> w.id, at |-> at(k)]
      BY Zenon, <3>4 DEF Following
    <3> QED
      BY Zenon, <3>2, <3>3, <3>5
  <2> QED
    BY SMTT(20), <1>1, <1>4, <2>1, <2>2, <2>3
<1>8. n > 0 => t # <<>> /\ t[Len(t)] = [id |-> w.id, at |-> at(n)] /\ Len(t) \in DOMAIN t
  BY <1>1, <1>4, <1>6
<1>9. ASSUME n < w.left PROVE NextByte(t) = [id |-> w.id, at |-> Replies[w.id] - (w.left - n) + 1]
  <2>1. CASE n = 0
    <3>1. (t = <<>> <=> s = <<>>) /\ Len(t) = Len(s) /\ (s # <<>> => t[Len(t)] = s[Len(s)])
      BY <1>4, <1>5, <2>1
    <3>2. NextByte(t) = NextByte(s)
      BY Zenon, <3>1 DEF NextByte
    <3> QED
      BY <1>1, <2>1, <3>2
  <2>2. CASE n > 0
    <3>1. at(n) < Replies[w.id] /\ at(n) + 1 = Replies[w.id] - (w.left - n) + 1
      BY <1>1, <1>9
    <3>2. Following([id |-> w.id, at |-> at(n)]) = [id |-> w.id, at |-> at(n) + 1]
      BY Zenon, <3>1 DEF Following
    <3> QED
      BY Zenon, <1>8, <2>2, <3>1, <3>2 DEF NextByte
  <2> QED
    BY <1>1, <2>1, <2>2
<1>10. ASSUME n = w.left
       PROVE  /\ NextByte(t) = [id |-> w.id + 1, at |-> 1]
              /\ \E i \in DOMAIN t : t[i] = [id |-> w.id, at |-> Replies[w.id]]
  <2>1. n > 0 /\ at(n) = Replies[w.id]
    BY SMTT(20), <1>1, <1>10
  <2>2. Following([id |-> w.id, at |-> Replies[w.id]]) = [id |-> w.id + 1, at |-> 1]
    BY <1>1 DEF Following
  <2> QED
    BY Zenon, <1>8, <2>1, <2>2 DEF NextByte
<1> HIDE DEF at
<1> QED
  <2>1. \A i \in DOMAIN s : i \in DOMAIN t /\ t[i] = s[i]
    BY <1>4, <1>5
  <2> QED
    BY Zenon, <1>4, <1>7, <1>9, <1>10, <2>1 DEF Continues

\* The first d pieces of work were taken, of which none is a write, and none was added.
Passed(d) ==
  /\ \A i \in DOMAIN loop' : loop'[i].op = "write" => i + d \in DOMAIN loop /\ loop'[i] = loop[i + d]
  /\ \A i \in DOMAIN loop : i > d => i - d \in DOMAIN loop' /\ loop'[i - d] = loop[i]

\* What the queue operations of the event loop do, as Passed.
LEMMA PassedSteps ==
  ASSUME loop \in Seq(Work), NEW w \in Work, w.op # "write"
  PROVE  /\ loop' = loop => Passed(0)
         /\ loop' = Append(loop, w) => Passed(0)
         /\ loop # <<>> /\ loop' = Tail(loop) => Passed(1)
         /\ loop # <<>> /\ loop' = Append(Tail(loop), w) => Passed(1)
<1>1. loop' = loop => Passed(0)
  BY DEF Passed
<1>2. loop' = Append(loop, w) => Passed(0)
  BY DEF Passed
<1>3. loop # <<>> /\ loop' = Tail(loop) => Passed(1)
  BY DEF Passed
<1>4. ASSUME loop # <<>>, loop' = Append(Tail(loop), w)
      PROVE  Passed(1)
  <2>1. Tail(loop) \in Seq(Work) /\ Len(Tail(loop)) = Len(loop) - 1 /\ Len(loop) \in Nat \ {0}
    BY <1>4
  <2>2. /\ DOMAIN loop' = 1 .. Len(loop) /\ DOMAIN loop = 1 .. Len(loop)
        /\ loop'[Len(loop)] = w
        /\ \A i \in 1 .. Len(loop) - 1 : loop'[i] = loop[i + 1]
    BY <1>4, <2>1
  <2> QED
    BY <2>1, <2>2 DEF Passed
<1> QED
  BY Zenon, <1>1, <1>2, <1>3, <1>4

\* The writes in the event loop stay in turn while none of them is taken.
LEMMA TurnKept ==
  ASSUME loop \in Seq(Work), loop' \in Seq(Work), InTurn, NEW d \in {0, 1}, Passed(d),
         d = 1 => loop # <<>> /\ Op(1) # "write",
         \A r \in Reply : promise'[r] = "none" <=> promise[r] = "none",
         replies' = replies, flow' = "none" => flow = "none"
  PROVE  InTurn'
<1>1. \A i \in DOMAIN loop' : loop'[i].op = "write" => i + d \in DOMAIN loop /\ loop'[i] = loop[i + d]
  BY Zenon DEF Passed
<1>2. DOMAIN loop \subseteq Nat \ {0} /\ DOMAIN loop' \subseteq Nat
  OBVIOUS
<1>3. \A i \in DOMAIN loop : Op(i) = "write" => loop[i].arg \in Reply
  <2> SUFFICES ASSUME NEW i \in DOMAIN loop, Op(i) = "write" PROVE loop[i].arg \in Reply
    BY Zenon
  <2>1. loop[i] \in Work
    OBVIOUS
  <2> QED
    BY Zenon, <2>1 DEF Work, Op
<1>4. \A i \in DOMAIN loop' : loop'[i].op = "write" =>
        loop'[i].arg <= replies' /\ promise'[loop'[i].arg] = "none"
  BY <1>1, <1>3 DEF InTurn, Op
<1>5. \A i, j \in DOMAIN loop' : i < j /\ loop'[i].op = "write" /\ loop'[j].op = "write" =>
        loop'[i].arg < loop'[j].arg
  <2> SUFFICES ASSUME NEW i \in DOMAIN loop', NEW j \in DOMAIN loop', i < j,
                      loop'[i].op = "write", loop'[j].op = "write"
               PROVE  loop'[i].arg < loop'[j].arg
    BY Zenon
  <2>1. i + d < j + d
    BY <1>2
  <2> QED
    BY <1>1, <2>1 DEF InTurn, Op
<1>6. ASSUME NEW r \in Reply, promise'[r] = "none", r <= replies'
      PROVE  \E i \in DOMAIN loop' : loop'[i].op = "write" /\ loop'[i].arg = r
  <2>1. PICK i \in DOMAIN loop : Op(i) = "write" /\ loop[i].arg = r
    BY Zenon, <1>6 DEF InTurn
  <2>2. i > d
    BY <1>2, <2>1
  <2> QED
    BY <2>1, <2>2 DEF Passed, Op
<1> QED
  BY Zenon, <1>4, <1>5, <1>6 DEF InTurn, Op

\* A step that leaves the writes and their stream alone.
LEMMA StreamKept ==
  ASSUME FlowIInv, FlowIInv', StreamInv, NEW d \in {0, 1}, Passed(d),
         d = 1 => loop # <<>> /\ Op(1) # "write",
         UNCHANGED <<pendingWrites, promise, stream, isOpen, outputClosed, replies>>, acked' >= acked,
         flow' = "none" => flow = "none"
  PROVE  StreamInv'
<1>1. InTurn'
  BY Zenon, TurnKept DEF StreamInv, FlowIInv, Shape
<1>2. Consecutive' /\ Handed' /\ OutputOpen' /\ StreamIsReplies'
  BY Zenon DEF StreamInv, Consecutive, Handed, OutputOpen, StreamIsReplies, Fresh, NextByte
<1>3. Room'
  <2>1. stream \in Seq(Byte) /\ acked \in Nat /\ acked' \in Nat /\ SndBuf \in Nat
    BY Zenon, ConnectionAssumption DEF FlowIInv, Shape
  <2>2. Free(stream, acked) >= 0 => Free(stream, acked') >= 0
    BY <2>1 DEF Free
  <2> QED
    BY Zenon, <2>2 DEF StreamInv, Room, Free
<1> QED
  BY Zenon, <1>1, <1>2, <1>3 DEF StreamInv

\* The channel is closed, with or without a last piece of the first write.
LEMMA StreamClosed ==
  ASSUME FlowIInv, FlowIInv', StreamInv, NEW d \in {0, 1}, d = 1 => loop # <<>> /\ Op(1) # "write",
         NEW q, q = IF d = 1 THEN Tail(loop) ELSE loop, close0(q), Chain(stream'),
         \A i \in DOMAIN stream : i \in DOMAIN stream' /\ stream'[i] = stream[i],
         Free(stream', acked') >= 0, replies' = replies, flow' # "none"
  PROVE  StreamInv'
<1>1. [op |-> "closed", arg |-> 0] \in Work /\ [op |-> "closed", arg |-> 0].op # "write"
  BY Zenon DEF Work
<1>2. Passed(d)
  <2>1. loop \in Seq(Work)
    BY Zenon DEF FlowIInv, Shape
  <2>2. loop' = q \/ loop' = Append(q, [op |-> "closed", arg |-> 0])
    BY Zenon DEF close0
  <2> QED
    BY Zenon, <1>1, <2>1, <2>2, PassedSteps
<1>3. \A i \in DOMAIN pendingWrites : promise[pendingWrites[i].id] # "none"
  <2> SUFFICES ASSUME NEW i \in DOMAIN pendingWrites PROVE promise[pendingWrites[i].id] # "none"
    BY Zenon
  <2>1. isOpen /\ pendingWrites # <<>>
    BY DEF FlowIInv, Waiting
  <2>2. pendingWrites \in Seq(Write) /\ pendingWrites[i] \in Write /\ i \in 1 .. Len(pendingWrites)
    BY DEF FlowIInv, Shape
  <2>3. 1 \in DOMAIN pendingWrites /\ pendingWrites[1] \in Write
    BY <2>1, <2>2
  <2>4. /\ pendingWrites[i].id \in Reply /\ pendingWrites[i].id \in Nat /\ pendingWrites[1].id \in Nat
        /\ Len(pendingWrites) \in Nat
    <3>1. Len(pendingWrites) \in Nat
      BY <2>2
    <3> QED
      BY Zenon, <2>2, <2>3, <3>1, WriteFacts
  <2>5. pendingWrites[i].id < Fresh
    BY <2>1, <2>2, <2>4 DEF StreamInv, Consecutive, Fresh
  <2>6. Fresh \in Nat
    BY <2>1, <2>4 DEF Fresh
  <2> QED
    <3>1. ~(pendingWrites[i].id >= Fresh)
      BY <2>4, <2>5, <2>6
    <3> QED
      BY Zenon, <2>1, <2>4, <3>1 DEF StreamInv, Handed
<1>4. \A r \in Reply : /\ promise'[r] = "none" <=> promise[r] = "none"
                       /\ promise'[r] = "succeed" => promise[r] = "succeed"
  BY ZenonT(40), <1>3 DEF close0, failWrites
<1>5. InTurn'
  BY Zenon, <1>2, <1>4, TurnKept DEF StreamInv, FlowIInv, Shape
<1>6. Consecutive' /\ Handed' /\ Room' /\ OutputOpen'
  BY DEF close0, failWrites, Consecutive, Handed, Room, OutputOpen
<1>7. StreamIsReplies'
  BY Zenon, <1>4 DEF StreamInv, StreamIsReplies, Chain
<1> QED
  BY Zenon, <1>5, <1>6, <1>7 DEF StreamInv

\* The channel is opened before any reply arrived.
LEMMA StreamAccept ==
  ASSUME FlowIInv, FlowIInv', StreamInv, Accept
  PROVE  StreamInv'
<1> USE DEF writes
<1>1. Turn("handshake") /\ loop' = Tail(loop) /\ flow' = "started"
      /\ UNCHANGED <<pendingWrites, promise, stream, acked, replies>>
  BY Zenon DEF Accept
<1>2. loop # <<>> /\ 1 \in DOMAIN loop /\ Op(1) = "handshake" /\ loop \in Seq(Work) /\ loop' \in Seq(Work)
  BY Zenon, <1>1, HeadOfLoop DEF FlowIInv, Shape
<1>3. flow = "none"
  BY Zenon, <1>2 DEF FlowIInv, Begin
<1>4. [op |-> "closed", arg |-> 0] \in Work /\ [op |-> "closed", arg |-> 0].op # "write"
  BY Zenon DEF Work
<1>5. Passed(1)
  BY Zenon, <1>1, <1>2, <1>4, PassedSteps
<1>6. InTurn'
  BY Zenon, <1>1, <1>2, <1>3, <1>5, TurnKept DEF StreamInv
<1>7. stream = <<>> /\ pendingWrites = <<>> /\ replies = 0
  BY Zenon, <1>3 DEF FlowIInv, Begin, Waiting, StreamInv, InTurn
<1>8. Handed'
  <2>1. NextByte(stream') = [id |-> 1, at |-> 1] /\ Fresh' = 1
    BY Zenon, <1>1, <1>7 DEF NextByte, Fresh
  <2>2. \A r \in Reply : promise[r] = "none" /\ r >= 1
    BY <1>7, ConnectionAssumption DEF StreamInv, InTurn, Reply
  <2> QED
    BY <1>1, <1>7, <2>1, <2>2 DEF Handed
<1>9. Consecutive' /\ Room' /\ OutputOpen' /\ StreamIsReplies'
  BY Zenon, <1>1, <1>3 DEF Accept, StreamInv, Consecutive, Room, Free, OutputOpen, StreamIsReplies
<1> QED
  BY Zenon, <1>6, <1>8, <1>9 DEF StreamInv

\* The write of a new reply is queued behind those of the replies before it.
LEMMA StreamReply ==
  ASSUME FlowIInv, FlowIInv', StreamInv, AutoReplyResponse
  PROVE  StreamInv'
<1> USE DEF writes, channel
<1> DEFINE w == [op |-> "write", arg |-> replies + 1]
<1>1. /\ flow = "copying" /\ flow' = flow /\ replies < Len(Replies) /\ replies' = replies + 1
      /\ loop' = Append(loop, w) /\ UNCHANGED <<pendingWrites, promise, stream, acked, isOpen, outputClosed>>
  BY Zenon DEF AutoReplyResponse
<1>2. loop \in Seq(Work) /\ replies \in Nat /\ replies + 1 \in Reply
  BY <1>1, ConnectionAssumption DEF FlowIInv, Shape, Reply
<1>3. w \in Work /\ w.op = "write" /\ w.arg = replies + 1
  BY Zenon, <1>2 DEF Work
<1> HIDE DEF w
<1>4. /\ DOMAIN loop' = DOMAIN loop \cup {Len(loop) + 1} /\ Len(loop) + 1 \notin DOMAIN loop
      /\ loop'[Len(loop) + 1] = w /\ \A i \in DOMAIN loop : loop'[i] = loop[i]
      /\ DOMAIN loop = 1 .. Len(loop) /\ Len(loop) \in Nat
  BY <1>1, <1>2, <1>3
<1>5. \A i \in DOMAIN loop : Op(i) = "write" => loop[i].arg \in Reply /\ loop[i].arg \in Nat
  <2> SUFFICES ASSUME NEW i \in DOMAIN loop, Op(i) = "write"
               PROVE  loop[i].arg \in Reply /\ loop[i].arg \in Nat
    BY Zenon
  <2>1. loop[i] \in Work
    BY <1>2
  <2> QED
    BY <2>1, ConnectionAssumption DEF Work, Op, Reply
<1>6. \A i \in DOMAIN loop' : loop'[i].op = "write" =>
        loop'[i].arg <= replies' /\ promise'[loop'[i].arg] = "none"
  <2> SUFFICES ASSUME NEW i \in DOMAIN loop', loop'[i].op = "write"
               PROVE  loop'[i].arg <= replies' /\ promise'[loop'[i].arg] = "none"
    BY Zenon
  <2>1. CASE i \in DOMAIN loop
    <3>1. loop[i].arg <= replies /\ promise[loop[i].arg] = "none" /\ loop'[i] = loop[i] /\ loop[i].arg \in Nat
      BY Zenon, <1>4, <1>5, <2>1 DEF StreamInv, InTurn, Op
    <3> QED
      BY <1>1, <1>2, <3>1
  <2>2. CASE i = Len(loop) + 1
    BY <1>1, <1>2, <1>3, <1>4, <2>2 DEF StreamInv, InTurn
  <2> QED
    BY Zenon, <1>4, <2>1, <2>2
<1>7. \A i, j \in DOMAIN loop' : i < j /\ loop'[i].op = "write" /\ loop'[j].op = "write" =>
        loop'[i].arg < loop'[j].arg
  <2> SUFFICES ASSUME NEW i \in DOMAIN loop', NEW j \in DOMAIN loop', i < j,
                      loop'[i].op = "write", loop'[j].op = "write"
               PROVE  loop'[i].arg < loop'[j].arg
    BY Zenon
  <2>1. i \in DOMAIN loop /\ loop'[i] = loop[i]
    BY <1>4
  <2>2. CASE j \in DOMAIN loop
    BY <1>4, <2>1, <2>2 DEF StreamInv, InTurn, Op
  <2>3. CASE j = Len(loop) + 1
    <3>1. loop[i].arg <= replies /\ loop[i].arg \in Nat
      BY Zenon, <1>5, <2>1 DEF StreamInv, InTurn, Op
    <3> QED
      BY <1>2, <1>3, <1>4, <2>1, <2>3, <3>1
  <2> QED
    BY Zenon, <1>4, <2>2, <2>3
<1>8. ASSUME NEW r \in Reply, promise'[r] = "none", r <= replies'
      PROVE  \E i \in DOMAIN loop' : loop'[i].op = "write" /\ loop'[i].arg = r
  <2>1. CASE r <= replies
    BY <1>1, <1>4, <1>8, <2>1 DEF StreamInv, InTurn, Op
  <2>2. CASE r = replies + 1
    BY Zenon, <1>3, <1>4, <2>2
  <2>3. r \in Nat
    BY ConnectionAssumption DEF Reply
  <2> QED
    BY <1>1, <1>2, <1>8, <2>1, <2>2, <2>3
<1>9. \A r \in Reply : r > replies' => promise'[r] = "none"
  <2>1. \A r \in Reply : r \in Nat
    BY ConnectionAssumption DEF Reply
  <2> QED
    BY <1>1, <1>2, <2>1 DEF StreamInv, InTurn
<1>10. InTurn'
  BY Zenon, <1>1, <1>6, <1>7, <1>8, <1>9 DEF InTurn, Op
<1>11. Consecutive' /\ Handed' /\ Room' /\ OutputOpen' /\ StreamIsReplies'
  BY Zenon, <1>1 DEF StreamInv, Consecutive, Handed, Fresh, NextByte, Room, Free, OutputOpen, StreamIsReplies
<1> QED
  BY Zenon, <1>10, <1>11 DEF StreamInv

\* The write that the event loop takes is that of the next reply: those of the replies
\* before it were taken, and it comes before the others.
LEMMA NextWrite ==
  ASSUME FlowIInv, StreamInv, Turn("write"), isOpen
  PROVE  loop[1].arg = Fresh
<1> DEFINE r == loop[1].arg
<1>1. 1 \in DOMAIN loop /\ Op(1) = "write" /\ loop \in Seq(Work) /\ loop[1] \in Work
  BY Zenon, HeadOfLoop DEF FlowIInv, Shape
<1>2. r \in Reply /\ r \in Nat /\ promise[r] = "none" /\ r <= replies /\ replies \in Nat
  <2>1. r \in Reply /\ r \in Nat
    BY <1>1, ConnectionAssumption DEF Work, Op, Reply
  <2>2. promise[r] = "none" /\ r <= replies /\ replies \in Nat
    BY Zenon, <1>1 DEF StreamInv, InTurn, FlowIInv, Shape
  <2> QED
    BY Zenon, <2>1, <2>2
<1>3. r >= Fresh
  BY Zenon, <1>2 DEF StreamInv, Handed
<1>4. Fresh \in Nat \ {0}
  <2>1. CASE pendingWrites = <<>>
    <3>1. stream # <<>> => stream[Len(stream)] \in Byte
      BY DEF FlowIInv, Shape
    <3>2. \A b \in Byte : b.id \in Nat \ {0}
      BY ConnectionAssumption DEF Byte, Reply
    <3>3. NextByte(stream).id \in Nat \ {0}
      BY <3>1, <3>2 DEF NextByte, Following, Byte
    <3> QED
      BY Zenon, <2>1, <3>3 DEF Fresh
  <2>2. CASE pendingWrites # <<>>
    <3>1. pendingWrites[1] \in Write /\ Len(pendingWrites) \in Nat
      BY <2>2 DEF FlowIInv, Shape
    <3>2. pendingWrites[1].id \in Nat \ {0}
      BY <3>1, ConnectionAssumption DEF Write, Reply
    <3> QED
      BY <2>2, <3>1, <3>2 DEF Fresh
  <2> QED
    BY Zenon, <2>1, <2>2
<1> HIDE DEF r
<1>5. ASSUME Fresh < r PROVE FALSE
  <2>1. Fresh \in Reply
    BY <1>2, <1>4, <1>5, ConnectionAssumption DEF Reply
  <2>2. promise[Fresh] = "none" /\ Fresh <= replies
    BY <1>2, <1>4, <1>5, <2>1 DEF StreamInv, Handed
  <2>3. PICK i \in DOMAIN loop : Op(i) = "write" /\ loop[i].arg = Fresh
    BY Zenon, <2>1, <2>2 DEF StreamInv, InTurn
  <2>4. i # 1
    BY <1>2, <1>4, <1>5, <2>3 DEF r
  <2>5. 1 < i
    BY <1>1, <2>4
  <2>6. r < Fresh
    BY Zenon, <1>1, <2>3, <2>5 DEF StreamInv, InTurn, r
  <2> QED
    BY <1>2, <1>4, <1>5, <2>6
<1> QED
  BY <1>2, <1>3, <1>4, <1>5 DEF r

\* A write is refused, or queued as the next.
LEMMA StreamWrite ==
  ASSUME FlowIInv, FlowIInv', StreamInv, write0
  PROVE  StreamInv'
<1> USE DEF channel, task
<1> DEFINE r == loop[1].arg
           w == [id |-> r, left |-> Replies[r]]
<1>1. /\ turn = "idle" /\ loop # <<>> /\ 1 \in DOMAIN loop /\ Op(1) = "write"
      /\ loop' = Tail(loop) /\ Head(loop) = loop[1] /\ loop[1] \in Work /\ Turn("write")
  BY Zenon, HeadOfLoop DEF write0, FlowIInv
<1>2. r \in Reply /\ r \in Nat /\ Replies[r] \in Nat \ {0}
  BY <1>1, ConnectionAssumption DEF Work, Op, Reply
<1>3. /\ UNCHANGED <<stream, acked, isOpen, outputClosed, replies, flow>>
      /\ \/ /\ ~isOpen /\ promise' = [promise EXCEPT ![r] = "fail"] /\ UNCHANGED pendingWrites
         \/ /\ isOpen /\ promise' = [promise EXCEPT ![r] = "pending"]
            /\ pendingWrites' = Append(pendingWrites, w)
  BY Zenon, <1>1 DEF write0, StreamInv, OutputOpen
<1>4. /\ w \in Write /\ w.id = r /\ w.left = Replies[r]
  BY Zenon, <1>2 DEF Write
<1> HIDE DEF r, w
<1>5. /\ \A k \in Reply : k # r => promise'[k] = promise[k]
      /\ promise'[r] \notin {"none", "succeed"} /\ promise[r] = "none" /\ r <= replies /\ replies \in Nat
  <2>1. \A k \in Reply : k # r => promise'[k] = promise[k]
    BY Zenon, <1>2, <1>3 DEF FlowIInv, Shape
  <2>2. promise'[r] \notin {"none", "succeed"}
    BY Zenon, <1>2, <1>3 DEF FlowIInv, Shape
  <2>3. promise[r] = "none" /\ r <= replies
    BY <1>1, <1>2 DEF FlowIInv, Shape, StreamInv, InTurn, r
  <2>4. replies \in Nat
    BY Zenon DEF FlowIInv, Shape
  <2> QED
    BY Zenon, <2>1, <2>2, <2>3, <2>4
<1>6. InTurn'
  <2>1. /\ DOMAIN loop' = 1 .. Len(loop) - 1 /\ DOMAIN loop = 1 .. Len(loop) /\ Len(loop) \in Nat \ {0}
        /\ \A i \in 1 .. Len(loop) - 1 : i + 1 \in DOMAIN loop /\ loop'[i] = loop[i + 1]
    <3>1. loop \in Seq(Work)
      BY Zenon DEF FlowIInv, Shape
    <3> QED
      BY <1>1, <3>1
  <2>2. \A i \in DOMAIN loop : Op(i) = "write" => loop[i].arg \in Reply /\ loop[i].arg \in Nat
    <3> SUFFICES ASSUME NEW i \in DOMAIN loop, Op(i) = "write"
                 PROVE  loop[i].arg \in Reply /\ loop[i].arg \in Nat
      BY Zenon
    <3>1. loop[i] \in Work
      BY DEF FlowIInv, Shape
    <3> QED
      BY <3>1, ConnectionAssumption DEF Work, Op, Reply
  <2>3. \A i \in DOMAIN loop' : loop'[i].op = "write" =>
          loop'[i].arg <= replies' /\ promise'[loop'[i].arg] = "none"
    <3> SUFFICES ASSUME NEW i \in DOMAIN loop', loop'[i].op = "write"
                 PROVE  loop'[i].arg <= replies' /\ promise'[loop'[i].arg] = "none"
      BY Zenon
    <3>1. i + 1 \in DOMAIN loop /\ loop'[i] = loop[i + 1] /\ Op(i + 1) = "write" /\ 1 < i + 1
      BY <2>1 DEF Op
    <3>2. r < loop[i + 1].arg
      BY Zenon, <1>1, <3>1 DEF StreamInv, InTurn, r
    <3>3. loop[i + 1].arg <= replies /\ promise[loop[i + 1].arg] = "none"
      BY Zenon, <3>1 DEF StreamInv, InTurn
    <3>4. loop[i + 1].arg \in Reply /\ loop[i + 1].arg # r
      BY <1>2, <2>2, <3>1, <3>2
    <3> QED
      BY Zenon, <1>3, <1>5, <3>1, <3>3, <3>4
  <2>4. \A i, j \in DOMAIN loop' : i < j /\ loop'[i].op = "write" /\ loop'[j].op = "write" =>
          loop'[i].arg < loop'[j].arg
    <3> SUFFICES ASSUME NEW i \in DOMAIN loop', NEW j \in DOMAIN loop', i < j,
                        loop'[i].op = "write", loop'[j].op = "write"
                 PROVE  loop'[i].arg < loop'[j].arg
      BY Zenon
    <3>1. /\ i + 1 \in DOMAIN loop /\ j + 1 \in DOMAIN loop /\ i + 1 < j + 1
          /\ loop'[i] = loop[i + 1] /\ loop'[j] = loop[j + 1]
      BY <2>1
    <3> QED
      BY <3>1 DEF StreamInv, InTurn, Op
  <2>5. ASSUME NEW k \in Reply, promise'[k] = "none", k <= replies'
        PROVE  \E i \in DOMAIN loop' : loop'[i].op = "write" /\ loop'[i].arg = k
    <3>1. k # r /\ promise[k] = "none" /\ k <= replies
      BY Zenon, <1>3, <1>5, <2>5
    <3>2. PICK i \in DOMAIN loop : Op(i) = "write" /\ loop[i].arg = k
      BY Zenon, <3>1 DEF StreamInv, InTurn
    <3>3. i # 1
      BY Zenon, <3>1, <3>2 DEF r
    <3>4. i - 1 \in DOMAIN loop' /\ loop'[i - 1] = loop[i]
      BY <2>1, <3>3
    <3> QED
      BY Zenon, <3>2, <3>4 DEF Op
  <2>6. \A k \in Reply : k > replies' => promise'[k] = "none"
    <3>1. \A k \in Reply : k \in Nat
      BY ConnectionAssumption DEF Reply
    <3> QED
      BY <1>2, <1>3, <1>5, <3>1 DEF StreamInv, InTurn
  <2> QED
    BY Zenon, <1>3, <2>3, <2>4, <2>5, <2>6 DEF StreamInv, InTurn, Op
<1>7. Room' /\ OutputOpen'
  BY Zenon, <1>3 DEF StreamInv, Room, Free, OutputOpen
<1>8. StreamIsReplies'
  BY Zenon, <1>2, <1>3, <1>5 DEF StreamInv, StreamIsReplies
<1>9. CASE ~isOpen /\ UNCHANGED pendingWrites
  BY Zenon, <1>3, <1>6, <1>7, <1>8, <1>9 DEF StreamInv, Consecutive, Handed
<1>10. CASE isOpen /\ pendingWrites' = Append(pendingWrites, w)
  <2>1. r = Fresh
    BY Zenon, <1>1, <1>10, NextWrite DEF r
  <2>2. pendingWrites \in Seq(Write)
    BY Zenon DEF FlowIInv, Shape
  <2>3. /\ Len(pendingWrites') = Len(pendingWrites) + 1 /\ Len(pendingWrites) \in Nat
        /\ DOMAIN pendingWrites = 1 .. Len(pendingWrites)
        /\ DOMAIN pendingWrites' = 1 .. Len(pendingWrites) + 1
        /\ pendingWrites'[Len(pendingWrites) + 1] = w /\ pendingWrites' # <<>>
        /\ \A i \in DOMAIN pendingWrites : pendingWrites'[i] = pendingWrites[i]
    BY <1>4, <1>10, <2>2
  <2>4. \A k \in Reply : k \in Nat
    BY ConnectionAssumption DEF Reply
  <2>4a. \A k \in Reply : promise'[k] = "none" <=> k >= r + 1
    <3>1. \A k \in Reply : promise[k] = "none" <=> k >= r
      BY Zenon, <1>10, <2>1 DEF StreamInv, Handed
    <3>2. (\A k \in Reply : k # r => (k >= r <=> k >= r + 1)) /\ ~(r >= r + 1)
      BY <1>2, <2>4
    <3> QED
      BY Zenon, <1>5, <3>1, <3>2
  <2>5. CASE pendingWrites = <<>>
    <3>1. Len(pendingWrites) = 0 /\ pendingWrites'[1] = w /\ DOMAIN pendingWrites' = {1}
      BY <2>3, <2>5
    <3>2. Consecutive'
      BY <1>2, <1>4, <3>1 DEF Consecutive
    <3>3. Fresh' = r + 1
      BY <1>4, <2>3, <3>1 DEF Fresh
    <3>4. NextByte(stream).id = r /\ NextByte(stream).at = 1
      BY Zenon, <1>10, <2>1, <2>5 DEF Fresh, StreamInv, Handed
    <3>5. NextByte(stream) = [id |-> r, at |-> 1]
      <4>1. stream = <<>> \/ stream[Len(stream)] \in Byte
        BY DEF FlowIInv, Shape
      <4>2. NextByte(stream) \in [id : Int, at : Int]
        BY SMTT(20), <4>1, ConnectionAssumption DEF NextByte, Following, Byte, Reply
      <4> QED
        BY Zenon, <3>4, <4>2
    <3>6. NextByte(stream') = [id |-> w.id, at |-> Replies[w.id] - w.left + 1]
      BY <1>2, <1>3, <1>4, <3>5
    <3>7. \A k \in Reply : promise'[k] = "none" <=> k >= Fresh'
      BY Zenon, <2>4a, <3>3
    <3>8. Handed'
      BY Zenon, <2>3, <3>1, <3>6, <3>7 DEF Handed
    <3> QED
      BY Zenon, <1>6, <1>7, <1>8, <3>2, <3>8 DEF StreamInv
  <2>6. CASE pendingWrites # <<>>
    <3>1. /\ 1 \in DOMAIN pendingWrites /\ pendingWrites'[1] = pendingWrites[1]
          /\ pendingWrites[1] \in Write /\ pendingWrites[1].id \in Nat
      <4>1. 1 \in DOMAIN pendingWrites
        BY <2>2, <2>6
      <4>2. pendingWrites[1] \in Write /\ pendingWrites'[1] = pendingWrites[1]
        BY <2>2, <2>3, <4>1
      <4> QED
        BY Zenon, <2>4, <4>1, <4>2 DEF Write
    <3>2. r = pendingWrites[1].id + Len(pendingWrites)
      BY Zenon, <2>1, <2>6 DEF Fresh
    <3>3. Consecutive'
      <4> SUFFICES ASSUME NEW i \in DOMAIN pendingWrites'
                   PROVE  /\ pendingWrites'[i].left \in 1 .. Replies[pendingWrites'[i].id]
                          /\ pendingWrites'[i].id = pendingWrites'[1].id + i - 1
                          /\ i > 1 => pendingWrites'[i].left = Replies[pendingWrites'[i].id]
        BY Zenon DEF Consecutive
      <4>1. CASE i \in DOMAIN pendingWrites
        BY Zenon, <2>3, <3>1, <4>1 DEF StreamInv, Consecutive
      <4>2. CASE i = Len(pendingWrites) + 1
        BY <1>2, <1>4, <2>3, <3>1, <3>2, <4>2
      <4> QED
        BY <2>3, <4>1, <4>2
    <3>4. Fresh' = r + 1
      BY <2>3, <3>1, <3>2 DEF Fresh
    <3>5. \A k \in Reply : promise'[k] = "none" <=> k >= Fresh'
      BY Zenon, <2>4a, <3>4
    <3>6. Handed'
      BY Zenon, <1>3, <1>10, <2>3, <2>6, <3>1, <3>5 DEF StreamInv, Handed
    <3> QED
      BY Zenon, <1>6, <1>7, <1>8, <3>3, <3>6 DEF StreamInv
  <2> QED
    BY Zenon, <2>5, <2>6
<1> QED
  BY Zenon, <1>3, <1>9, <1>10

\* What a flush hands over is a piece of the first write, no more than there is room for,
\* with which the stream goes on.
LEMMA HandsOver ==
  ASSUME FlowIInv, StreamInv, turn = "flushing",
         NEW n, n = (IF Head(pendingWrites).left <= Free(stream, acked)
                     THEN Head(pendingWrites).left ELSE Free(stream, acked)) \/ n = 0,
         stream' = stream \o Piece(Head(pendingWrites), n), acked' = acked
  PROVE  /\ isOpen /\ pendingWrites # <<>> /\ pendingWrites \in Seq(Write)
         /\ Head(pendingWrites) = pendingWrites[1] /\ pendingWrites[1] \in Write
         /\ pendingWrites[1].left \in 1 .. Replies[pendingWrites[1].id]
         /\ n \in 0 .. pendingWrites[1].left
         /\ Continues(stream, pendingWrites[1], n, stream') /\ Free(stream', acked') >= 0
<1> DEFINE w == pendingWrites[1]
<1>1. isOpen /\ pendingWrites # <<>> /\ pendingWrites \in Seq(Write)
  BY Zenon DEF FlowIInv, Flushed, Shape
<1>2. Head(pendingWrites) = w /\ w \in Write /\ 1 \in DOMAIN pendingWrites
  BY <1>1, NonEmpty
<1>3. w.left \in 1 .. Replies[w.id] /\ w.left \in Nat
  BY Zenon, <1>2 DEF StreamInv, Consecutive, Write
<1>4. Free(stream, acked) \in Nat /\ Free(stream, acked) = SndBuf - (Len(stream) - acked)
      /\ Len(stream) \in Nat /\ acked \in Nat /\ SndBuf \in Nat
  BY ConnectionAssumption DEF StreamInv, Room, Free, FlowIInv, Shape
<1>5. NextByte(stream) = [id |-> w.id, at |-> Replies[w.id] - w.left + 1]
  BY Zenon, <1>1 DEF StreamInv, Handed
<1>6. n \in 0 .. w.left /\ n <= Free(stream, acked)
  BY <1>2, <1>3, <1>4
<1>7. stream \in Seq(Byte) /\ Chain(stream) /\ stream' = stream \o Piece(w, n)
  BY Zenon, <1>2 DEF FlowIInv, Shape, StreamInv, StreamIsReplies, Chain
<1> HIDE DEF w
<1>8. Continues(stream, w, n, stream')
  BY Zenon, <1>2, <1>3, <1>5, <1>6, <1>7, PieceContinues
<1>9. Free(stream', acked') >= 0
  BY <1>3, <1>4, <1>6, <1>8 DEF Free, Continues
<1> QED
  BY Zenon, <1>1, <1>2, <1>3, <1>6, <1>8, <1>9 DEF w

\* The first write goes back with what it has left, or is through.
LEMMA StreamFlush ==
  ASSUME FlowIInv, FlowIInv', StreamInv, writeToSocket
  PROVE  StreamInv'
<1> USE DEF channel, task
<1> DEFINE first == Head(pendingWrites)
           n == IF first.left <= Free(stream, acked) THEN first.left ELSE Free(stream, acked)
           w == pendingWrites[1]
<1>1. /\ turn = "flushing" /\ stream' = stream \o Piece(first, n)
      /\ UNCHANGED <<loop, acked, isOpen, outputClosed, replies, flow>>
      /\ \/ /\ first.left > n /\ pendingWrites' = [pendingWrites EXCEPT ![1] = Rest(pendingWrites[1], n)]
            /\ promise' = promise
         \/ /\ ~(first.left > n) /\ pendingWrites' = Tail(pendingWrites)
            /\ promise' = [promise EXCEPT ![first.id] = "succeed"]
  BY Zenon DEF writeToSocket, Succeeded
<1>2. /\ isOpen /\ pendingWrites # <<>> /\ pendingWrites \in Seq(Write)
      /\ first = w /\ w \in Write /\ w.left \in 1 .. Replies[w.id] /\ n \in 0 .. w.left
  BY Zenon, <1>1, HandsOver
<1>2a. /\ stream' \in Seq(Byte) /\ Chain(stream') /\ Free(stream', acked') >= 0
       /\ \A i \in DOMAIN stream : i \in DOMAIN stream' /\ stream'[i] = stream[i]
  BY Zenon, <1>1, HandsOver DEF Continues
<1>2b. /\ n < w.left => NextByte(stream') = [id |-> w.id, at |-> Replies[w.id] - (w.left - n) + 1]
       /\ n = w.left => /\ NextByte(stream') = [id |-> w.id + 1, at |-> 1]
                        /\ \E i \in DOMAIN stream' : stream'[i] = [id |-> w.id, at |-> Replies[w.id]]
  BY Zenon, <1>1, HandsOver DEF Continues
<1>2c. w = pendingWrites[1]
  BY Zenon
<1> HIDE DEF n, first, w
<1>3. /\ w.id \in Reply /\ w.id \in Nat /\ w.left \in Nat /\ Replies[w.id] \in Nat
      /\ w.left <= Replies[w.id] /\ n \in Nat /\ n <= w.left
  <2>1. w.id \in Reply /\ w.id \in Nat /\ w.left \in Nat /\ Replies[w.id] \in Nat
    BY Zenon, <1>2, WriteFacts
  <2>2. w.left <= Replies[w.id] /\ n \in Nat /\ n <= w.left
    <3>1. w.left \in 1 .. Replies[w.id] /\ n \in 0 .. w.left
      BY Zenon, <1>2
    <3> QED
      BY <2>1, <3>1
  <2> QED
    BY Zenon, <2>1, <2>2
<1>4. DOMAIN pendingWrites = 1 .. Len(pendingWrites) /\ Len(pendingWrites) \in Nat \ {0}
  BY Zenon, <1>2, NonEmpty
<1>5. Fresh = w.id + Len(pendingWrites) /\ promise[w.id] # "none"
  <2>1. Fresh = w.id + Len(pendingWrites)
    BY Zenon, <1>2, <1>2c DEF Fresh
  <2>2. ~(w.id >= Fresh)
    BY <1>3, <1>4, <2>1
  <2> QED
    BY Zenon, <1>2, <1>3, <2>1, <2>2 DEF StreamInv, Handed
<1>6. \A i \in DOMAIN pendingWrites :
        /\ pendingWrites[i].left \in 1 .. Replies[pendingWrites[i].id]
        /\ pendingWrites[i].id = w.id + i - 1
        /\ i > 1 => pendingWrites[i].left = Replies[pendingWrites[i].id]
  BY Zenon, <1>2c DEF StreamInv, Consecutive
<1>7. Room' /\ OutputOpen'
  BY Zenon, <1>1, <1>2a DEF StreamInv, Room, OutputOpen
<1>8. CASE /\ first.left > n /\ pendingWrites' = [pendingWrites EXCEPT ![1] = Rest(pendingWrites[1], n)]
           /\ promise' = promise
  <2>1. n < w.left
    BY Zenon, <1>2, <1>3, <1>8
  <2>2. /\ DOMAIN pendingWrites' = DOMAIN pendingWrites /\ Len(pendingWrites') = Len(pendingWrites)
        /\ pendingWrites' # <<>> /\ pendingWrites'[1] = Rest(w, n)
        /\ \A i \in DOMAIN pendingWrites : i # 1 => pendingWrites'[i] = pendingWrites[i]
    <3>1. 1 \in DOMAIN pendingWrites
      BY <1>4
    <3>2. /\ DOMAIN pendingWrites' = DOMAIN pendingWrites /\ pendingWrites'[1] = Rest(w, n)
          /\ \A i \in DOMAIN pendingWrites : i # 1 => pendingWrites'[i] = pendingWrites[i]
      BY Zenon, <1>2, <1>2c, <1>8, <3>1
    <3>3. pendingWrites' \in Seq(Write)
      BY Zenon DEF FlowIInv, Shape
    <3>4. Len(pendingWrites') = Len(pendingWrites) /\ pendingWrites' # <<>>
      BY <1>4, <3>2, <3>3
    <3> QED
      BY Zenon, <3>2, <3>4
  <2>3. Rest(w, n).id = w.id /\ Rest(w, n).left = w.left - n
    BY Zenon, <1>2 DEF Rest, Write
  <2>4. Consecutive'
    <3> SUFFICES ASSUME NEW i \in DOMAIN pendingWrites'
                 PROVE  /\ pendingWrites'[i].left \in 1 .. Replies[pendingWrites'[i].id]
                        /\ pendingWrites'[i].id = pendingWrites'[1].id + i - 1
                        /\ i > 1 => pendingWrites'[i].left = Replies[pendingWrites'[i].id]
      BY Zenon DEF Consecutive
    <3>1. CASE i = 1
      <4>1. w.left - n \in 1 .. Replies[w.id] /\ w.id = w.id + 1 - 1
        BY <1>3, <2>1
      <4> QED
        BY <2>2, <2>3, <3>1, <4>1
    <3>2. CASE i # 1
      BY Zenon, <1>6, <2>2, <2>3, <3>2
    <3> QED
      BY Zenon, <3>1, <3>2
  <2>5. Fresh' = Fresh
    BY Zenon, <1>2, <1>5, <2>2, <2>3 DEF Fresh
  <2>6. Handed'
    BY Zenon, <1>1, <1>2, <1>2b, <1>8, <2>1, <2>2, <2>3, <2>5 DEF StreamInv, Handed
  <2>7. InTurn'
    BY Zenon, <1>1, <1>8 DEF StreamInv, InTurn, Op
  <2>8. StreamIsReplies'
    BY ZenonT(40), <1>2a, <1>8 DEF StreamInv, StreamIsReplies, Chain
  <2> QED
    BY Zenon, <1>7, <2>4, <2>6, <2>7, <2>8 DEF StreamInv
<1>9. CASE /\ ~(first.left > n) /\ pendingWrites' = Tail(pendingWrites)
           /\ promise' = [promise EXCEPT ![first.id] = "succeed"]
  <2>1. n = w.left
    BY <1>2, <1>3, <1>9
  <2>2. /\ Len(pendingWrites') = Len(pendingWrites) - 1
        /\ DOMAIN pendingWrites' = 1 .. Len(pendingWrites) - 1
        /\ \A i \in 1 .. Len(pendingWrites) - 1 :
             i + 1 \in DOMAIN pendingWrites /\ pendingWrites'[i] = pendingWrites[i + 1]
    BY Zenon, <1>2, <1>9, TailFacts
  <2>3. /\ \A k \in Reply : k # w.id => promise'[k] = promise[k]
        /\ promise'[w.id] = "succeed"
    BY Zenon, <1>2, <1>3, <1>9 DEF FlowIInv, Shape
  <2>4. \A k \in Reply : promise'[k] = "none" <=> promise[k] = "none"
    BY Zenon, <1>5, <2>3
  <2>5. Consecutive'
    <3> SUFFICES ASSUME NEW i \in DOMAIN pendingWrites'
                 PROVE  /\ pendingWrites'[i].left \in 1 .. Replies[pendingWrites'[i].id]
                        /\ pendingWrites'[i].id = pendingWrites'[1].id + i - 1
                        /\ i > 1 => pendingWrites'[i].left = Replies[pendingWrites'[i].id]
      BY Zenon DEF Consecutive
    <3>1. /\ i \in Nat /\ i + 1 > 1 /\ 1 \in 1 .. Len(pendingWrites) - 1 /\ i \in 1 .. Len(pendingWrites) - 1
          /\ 1 + 1 = 2
      <4>1. i \in 1 .. Len(pendingWrites) - 1
        BY Zenon, <2>2
      <4> QED
        BY <1>4, <4>1
    <3>2. pendingWrites'[1] = pendingWrites[2] /\ pendingWrites'[i] = pendingWrites[i + 1]
          /\ 2 \in DOMAIN pendingWrites /\ i + 1 \in DOMAIN pendingWrites
      BY Zenon, <2>2, <3>1
    <3>3. pendingWrites[2].id = w.id + 2 - 1 /\ pendingWrites[i + 1].id = w.id + (i + 1) - 1
      BY Zenon, <1>6, <3>2
    <3>4. /\ pendingWrites[i + 1].left \in 1 .. Replies[pendingWrites[i + 1].id]
          /\ pendingWrites[i + 1].left = Replies[pendingWrites[i + 1].id]
      BY Zenon, <1>6, <3>1, <3>2
    <3>5. w.id + (i + 1) - 1 = (w.id + 2 - 1) + i - 1
      BY <1>3, <3>1
    <3> QED
      BY Zenon, <3>2, <3>3, <3>4, <3>5
  <2>6. /\ Fresh' = Fresh
        /\ IF pendingWrites' = <<>>
           THEN NextByte(stream').at = 1
           ELSE NextByte(stream') = [id |-> pendingWrites'[1].id,
                                     at |-> Replies[pendingWrites'[1].id] - pendingWrites'[1].left + 1]
    <3>1. CASE Len(pendingWrites) = 1
      <4>1. pendingWrites' = <<>>
        BY Zenon, <1>2, <1>9, <3>1, TailFacts
      <4>2. NextByte(stream').id = w.id + 1 /\ NextByte(stream').at = 1
        BY <1>2b, <2>1
      <4> QED
        BY Zenon, <1>5, <3>1, <4>1, <4>2 DEF Fresh
    <3>2. CASE Len(pendingWrites) # 1
      <4>1. /\ pendingWrites' # <<>> /\ pendingWrites'[1] = pendingWrites[2]
            /\ 2 \in DOMAIN pendingWrites
        <5>1. 1 \in 1 .. Len(pendingWrites) - 1 /\ 1 + 1 = 2
          BY <1>4, <3>2
        <5>2. 1 \in DOMAIN pendingWrites'
          BY Zenon, <2>2, <5>1
        <5>3. pendingWrites' # <<>>
          BY <5>2
        <5> QED
          BY Zenon, <2>2, <5>1, <5>3
      <4>2. pendingWrites[2].id = w.id + 1 /\ pendingWrites[2].left = Replies[w.id + 1]
            /\ pendingWrites[2] \in Write
        <5>1. /\ pendingWrites[2].id = w.id + 2 - 1
              /\ pendingWrites[2].left = Replies[pendingWrites[2].id]
          <6>1. 2 > 1
            OBVIOUS
          <6> QED
            BY Zenon, <1>6, <4>1, <6>1
        <5>2. w.id + 2 - 1 = w.id + 1
          BY <1>3
        <5>3. pendingWrites[2] \in Write
          BY <1>2, <4>1
        <5> QED
          BY Zenon, <5>1, <5>2, <5>3
      <4>3. Replies[w.id + 1] \in Nat
        BY Zenon, <4>2 DEF Write
      <4>4. Fresh' = Fresh
        <5>1. Fresh' = pendingWrites[2].id + (Len(pendingWrites) - 1)
          BY Zenon, <2>2, <4>1 DEF Fresh
        <5>2. pendingWrites[2].id = w.id + 1
          BY Zenon, <4>2
        <5> QED
          BY <1>3, <1>4, <1>5, <5>1, <5>2
      <4>5. Replies[w.id + 1] - Replies[w.id + 1] + 1 = 1
        BY <4>3
      <4> QED
        BY Zenon, <1>2b, <2>1, <4>1, <4>2, <4>4, <4>5
    <3> QED
      BY Zenon, <3>1, <3>2
  <2>7. Handed'
    BY Zenon, <1>1, <1>2, <2>4, <2>6 DEF StreamInv, Handed
  <2>8. InTurn'
    <3>1. \A i \in DOMAIN loop : Op(i) = "write" => loop[i].arg \in Reply
      <4> SUFFICES ASSUME NEW i \in DOMAIN loop, Op(i) = "write" PROVE loop[i].arg \in Reply
        BY Zenon
      <4>1. loop[i] \in Work
        BY DEF FlowIInv, Shape
      <4> QED
        BY Zenon, <4>1 DEF Work, Op
    <3> QED
      BY Zenon, <1>1, <2>4, <3>1 DEF StreamInv, InTurn, Op
  <2>9. StreamIsReplies'
    <3> SUFFICES ASSUME NEW k \in Reply, promise'[k] = "succeed"
                 PROVE  \E i \in DOMAIN stream' : stream'[i] = [id |-> k, at |-> Replies[k]]
      BY Zenon, <1>2a DEF StreamIsReplies, Chain
    <3>1. CASE k = w.id
      BY Zenon, <1>2b, <2>1, <3>1
    <3>2. CASE k # w.id
      <4>1. PICK i \in DOMAIN stream : stream[i] = [id |-> k, at |-> Replies[k]]
        BY Zenon, <2>3, <3>2 DEF StreamInv, StreamIsReplies
      <4> QED
        BY Zenon, <1>2a, <4>1
    <3> QED
      BY Zenon, <3>1, <3>2
  <2> QED
    BY Zenon, <1>7, <2>5, <2>7, <2>8, <2>9 DEF StreamInv
<1> QED
  BY Zenon, <1>1, <1>8, <1>9

\* A write that throws may have handed over a piece.
LEMMA StreamThrows ==
  ASSUME FlowIInv, FlowIInv', StreamInv, writeThrows
  PROVE  StreamInv'
<1> USE DEF task
<1> DEFINE first == Head(pendingWrites)
<1>1. turn = "flushing" /\ close0(loop) /\ UNCHANGED <<acked, flow, replies>>
  BY Zenon DEF writeThrows
<1>2. /\ Chain(stream') /\ Free(stream', acked') >= 0
      /\ \A i \in DOMAIN stream : i \in DOMAIN stream' /\ stream'[i] = stream[i]
  <2>1. CASE stream' = stream
    BY Zenon, <1>1, <2>1 DEF StreamInv, StreamIsReplies, Chain, Room, Free
  <2>2. CASE stream' # stream
    <3>1. PICK n \in {0, IF first.left <= Free(stream, acked) THEN first.left ELSE Free(stream, acked)} :
            stream' = stream \o Piece(first, n)
      BY Zenon, <2>2 DEF writeThrows
    <3> QED
      BY Zenon, <1>1, <3>1, HandsOver DEF Continues
  <2> QED
    BY Zenon, <2>1, <2>2
<1>3. flow' # "none"
  BY Zenon, <1>1 DEF FlowIInv, Begin
<1> QED
  BY <1>1, <1>2, <1>3, StreamClosed

\* The other steps leave the writes alone, or close the channel.
LEMMA StreamOthers ==
  ASSUME FlowIInv, FlowIInv', StreamInv,
         \/ Peer \/ channelRead0 \/ registerAlreadyConfigured0 \/ RecvData \/ RecvEnd \/ Sent
         \/ Closed \/ FlowTask \/ Err \/ Closing \/ UNCHANGED flowVars
  PROVE  StreamInv'
<1> USE DEF channel, writes, inbound, task
<1>1. loop \in Seq(Work) /\ acked \in Nat /\ stream \in Seq(Byte) /\ Chain(stream) /\ Free(stream, acked) >= 0
  BY Zenon DEF FlowIInv, Shape, StreamInv, StreamIsReplies, Chain, Room
<1>2. CASE (Err /\ close0(Tail(loop))) \/ Closing
  <2>1. /\ (Turn("rst") \/ Turn("close")) /\ close0(Tail(loop)) /\ UNCHANGED <<stream, acked, replies>>
        /\ flow' = flow \/ flow' = "done"
    BY Zenon, <1>2 DEF Err, Closing
  <2>2. loop # <<>> /\ 1 \in DOMAIN loop /\ Op(1) \in {"rst", "close"}
    BY Zenon, <2>1, HeadOfLoop DEF FlowIInv
  <2>3. flow' # "none"
    BY Zenon, <2>1, <2>2 DEF FlowIInv, Begin
  <2>4. Chain(stream') /\ Free(stream', acked') >= 0
        /\ \A i \in DOMAIN stream : i \in DOMAIN stream' /\ stream'[i] = stream[i]
    BY Zenon, <1>1, <2>1 DEF Chain, Free
  <2> QED
    BY Zenon, <2>1, <2>2, <2>3, <2>4, StreamClosed
<1>3. CASE Peer \/ channelRead0 \/ FlowTask \/ UNCHANGED flowVars
  <2>1. /\ UNCHANGED <<pendingWrites, promise, stream, isOpen, outputClosed, replies, acked>>
        /\ flow' = "none" => flow = "none"
    BY Zenon, <1>3 DEF Peer, PeerSends, PeerAcks, channelRead0, FlowTask, resolve, connect, forward, finish, flowVars
  <2>2. \/ loop' = loop
        \/ \E op \in {"data", "fin", "rst", "register", "close"} :
             loop' = Append(loop, [op |-> op, arg |-> 0])
        \/ \E n \in {0, 1} : loop' = Append(loop, [op |-> "handshake", arg |-> n])
        \/ \E n \in acked + 1 .. Len(stream) : loop' = Append(loop, [op |-> "ack", arg |-> n])
    BY Zenon, <1>3 DEF Peer, PeerSends, PeerAcks, Submit, channelRead0, FlowTask, resolve, connect, forward, finish,
                Close, flowVars
  <2>3. PICK w \in Work : w.op # "write" /\ (loop' = loop \/ loop' = Append(loop, w))
    <3>1. /\ \A op \in {"data", "fin", "rst", "register", "close"} :
               [op |-> op, arg |-> 0] \in Work /\ [op |-> op, arg |-> 0].op # "write"
          /\ \A n \in {0, 1} :
               [op |-> "handshake", arg |-> n] \in Work /\ [op |-> "handshake", arg |-> n].op # "write"
      BY Zenon DEF Work
    <3>2. \A n \in acked + 1 .. Len(stream) :
            [op |-> "ack", arg |-> n] \in Work /\ [op |-> "ack", arg |-> n].op # "write"
      BY <1>1 DEF Work
    <3> QED
      BY Zenon, <2>2, <3>1, <3>2
  <2>4. Passed(0)
    BY Zenon, <1>1, <2>3, PassedSteps
  <2> QED
    BY <1>1, <2>1, <2>4, StreamKept
<1>4. CASE registerAlreadyConfigured0 \/ RecvData \/ RecvEnd \/ Sent \/ Closed \/ (Err /\ ~close0(Tail(loop)))
  <2>1. /\ UNCHANGED <<pendingWrites, promise, stream, isOpen, outputClosed, replies, flow>>
        /\ loop' = Tail(loop) /\ \E op \in {"register", "data", "fin", "ack", "closed", "rst"} : Turn(op)
    BY Zenon, <1>4 DEF registerAlreadyConfigured0, RecvData, RecvEnd, closeInput, Sent, Closed, Err
  <2>2. acked' = acked \/ (acked' = Acknowledged(Head(loop).arg) /\ Turn("ack"))
    BY Zenon, <1>4 DEF registerAlreadyConfigured0, RecvData, RecvEnd, Sent, Closed, Err
  <2>3. loop # <<>> /\ Op(1) # "write" /\ Head(loop) = loop[1] /\ loop[1] \in Work
    BY Zenon, <2>1, HeadOfLoop DEF FlowIInv
  <2>4. Turn("ack") => loop[1].arg \in Nat
    BY Zenon, <2>3 DEF Turn, Work
  <2>5. acked' >= acked
    BY <1>1, <2>2, <2>3, <2>4 DEF Acknowledged
  <2>6. [op |-> "closed", arg |-> 0] \in Work /\ [op |-> "closed", arg |-> 0].op # "write"
    BY Zenon DEF Work
  <2>7. Passed(1)
    BY Zenon, <1>1, <2>1, <2>3, <2>6, PassedSteps
  <2> QED
    BY Zenon, <2>1, <2>3, <2>5, <2>7, StreamKept
<1> QED
  BY Zenon, <1>2, <1>3, <1>4

\* The bytes lwIP is given are those of the replies, whole and in order, however a write is
\* cut by the send buffer, delayed by acknowledgements or ended by a failure.
THEOREM RepliesInOrder == FlowSpec => []StreamIsReplies
<1>1. FlowInit => StreamInv
  <2> SUFFICES ASSUME FlowInit PROVE StreamInv
    BY Zenon
  <2>1. loop = <<>> /\ pendingWrites = <<>> /\ stream = <<>> /\ ~isOpen /\ ~outputClosed /\ replies = 0
    BY Zenon DEF FlowInit
  <2>2. InTurn
    <3>1. \A r \in Reply : promise[r] = "none" /\ r \in Nat \ {0}
      BY ConnectionAssumption DEF FlowInit, Reply
    <3> QED
      BY <2>1, <3>1 DEF InTurn
  <2>3. Room
    BY <2>1, ConnectionAssumption DEF FlowInit, Room, Free
  <2>4. StreamIsReplies
    BY <2>1 DEF FlowInit, StreamIsReplies
  <2> QED
    BY <2>1, <2>2, <2>3, <2>4 DEF StreamInv, Consecutive, Handed, OutputOpen
<1>2. FlowIInv /\ FlowIInv' /\ StreamInv /\ [FlowNext]_flowVars => StreamInv'
  BY Zenon, StreamAccept, StreamReply, StreamWrite, StreamFlush, StreamThrows, StreamOthers
     DEF FlowNext, EventLoop, Idle
<1>3. StreamInv => StreamIsReplies
  BY Zenon DEF StreamInv
<1> QED
  BY <1>1, <1>2, <1>3, Start, Step, PTL DEF FlowSpec
=============================================================================
