----------------------------- MODULE SerialLine ------------------------------
(***************************************************************************)
(* netif/ppp/pppos.c: PPP frames over a serial line.  One end frames what  *)
(* pppos_write and pppos_netif_output are given, the other takes the bytes *)
(* from the line one by one (pppos_input).  The line may lose bytes, the   *)
(* output callback may take a part of a buffer, and the receiver may be    *)
(* out of buffers.                                                         *)
(* A byte is a value v; the exclusive or with PPP_TRANS flips t.  The two  *)
(* bytes of a frame check sequence carry the body they were computed from, *)
(* so that a check is good for exactly that body.                          *)
(***************************************************************************)
EXTENDS Integers, Sequences, FiniteSets, SequencesExt

CONSTANTS
    PAYLOADS,            \* what is sent: sequences of byte values
    PROTOCOLS,           \* <<high, low>>; a high byte "zero" may be compressed
    SERIAL_CONFS,        \* what the peers agreed on
    MaxFrames, MaxSerialFaults

VARIABLES
    sconf,               \* [out, in: accm at the two ends, pcomp, accomp, fcsEscaped]
    idle,                \* last_xmit is long ago or zero: a flag goes first
    serial,              \* bytes on the line
    rcv,                 \* the receiver: in_state, in_escaped, in_fcs, in_protocol, in_data
    framesSent,          \* [proto, payload, ok: the output reported no error]
    framesGot,
    serialFaults,
    damage               \* the most frames the faults so far may have cost

serialVars == <<sconf, idle, serial, rcv, framesSent, framesGot, serialFaults, damage>>

Byte(v) == [v |-> v, t |-> FALSE, k |-> 0, of |-> <<>>]

TransOf(b) == [b EXCEPT !.t = ~b.t]

FLAG == Byte("flag")

ESCAPE == Byte("escape")

(* ESCAPE_P: the flag and the escape themselves and what the map names.    *)
(* The bytes of a frame check sequence may be any value.                   *)
Escaped(accm, b) ==
    \/ b \in {FLAG, ESCAPE}
    \/ ~b.t /\ b.v \in accm
    \/ sconf.fcsEscaped /\ ~b.t /\ b.v = "fcs"

-----------------------------------------------------------------------------
(* pppos_output_append for each byte of a frame *)

Append1(b) == IF Escaped(sconf.out, b) THEN <<ESCAPE, TransOf(b)>> ELSE <<b>>

AppendAll(bytes) ==
    LET f[i \in 0..Len(bytes)] == IF i = 0 THEN <<>> ELSE f[i - 1] \o Append1(bytes[i])
    IN f[Len(bytes)]

Values(s) == [i \in DOMAIN s |-> Byte(s[i])]

(* pppos_netif_output: address and control, then the protocol, may be left *)
(* out once that is agreed.  (pppos_write writes all of them.)             *)
Header(proto, compress) ==
    (IF sconf.accomp /\ compress THEN <<>> ELSE Values(<<"ff", "ui">>))
    \o (IF sconf.pcomp /\ compress /\ proto[1] = "zero" THEN Values(<<proto[2]>>) ELSE Values(proto))

(* pppos_output_last *)
FcsBytes(body) == [i \in 1..2 |-> [v |-> "fcs", t |-> FALSE, k |-> i, of |-> body]]

Frame(proto, payload, compress) ==
    LET body == Header(proto, compress) \o Values(payload)
    IN (IF idle THEN <<FLAG>> ELSE <<>>) \o AppendAll(body \o FcsBytes(body)) \o <<FLAG>>

(* When the callback takes only part of the bytes, the rest is given up    *)
(* and last_xmit is cleared.                                               *)
pppos_output ==
    \E proto \in PROTOCOLS : \E payload \in PAYLOADS : \E compress, silence \in BOOLEAN :
        LET bytes == Frame(proto, payload, compress)
        IN /\ Len(framesSent) < MaxFrames
           /\ serial = <<>>
           /\ silence => ~idle
           /\ compress => sconf.accomp \/ sconf.pcomp
           /\ \/ /\ serial' = bytes
                 /\ idle' = silence
                 /\ framesSent' = Append(framesSent, [proto |-> proto, payload |-> payload, ok |-> TRUE])
                 /\ UNCHANGED serialFaults
              \/ /\ serialFaults < MaxSerialFaults
                 /\ \E n \in 0..Len(bytes) - 1 : serial' = SubSeq(bytes, 1, n)
                 /\ idle' = TRUE
                 /\ serialFaults' = serialFaults + 1
                 /\ framesSent' = Append(framesSent, [proto |-> proto, payload |-> payload, ok |-> FALSE])
           /\ UNCHANGED <<sconf, rcv, framesGot, damage>>

-----------------------------------------------------------------------------
(* pppos_input *)

RcvReset == [in_state |-> "ADDRESS", in_escaped |-> FALSE, in_fcs |-> <<>>,
             in_protocol |-> <<>>, in_data |-> <<>>]

(* in_fcs = PPP_GOODFCS: the last two bytes check what precedes them. *)
GoodFcs(s) ==
    LET n == Len(s) - 2 IN n >= 0 /\ SubSeq(s, n + 1, n + 2) = FcsBytes(SubSeq(s, 1, n))

(* values with the low bit set: the last byte of a protocol number *)
Odd == {"ip", "lcplow", "ui", "ff"}

(* The switch on in_state: a byte that is not the address, or not the      *)
(* control byte, is taken for what may follow a compressed header.         *)
TakeByte(r, b) ==
    LET protocol1 == IF b.v \in Odd THEN [r EXCEPT !.in_protocol = <<"zero", b.v>>, !.in_state = "DATA"]
                     ELSE [r EXCEPT !.in_protocol = <<b.v>>, !.in_state = "PROTOCOL2"]
        control == IF b = Byte("ui") THEN [r EXCEPT !.in_state = "PROTOCOL1"] ELSE protocol1
    IN CASE r.in_state = "ADDRESS" ->
              IF b = Byte("ff") THEN [r EXCEPT !.in_state = "CONTROL"] ELSE control
         [] r.in_state = "CONTROL" -> control
         [] r.in_state = "PROTOCOL1" -> protocol1
         [] r.in_state = "PROTOCOL2" ->
              [r EXCEPT !.in_protocol = Append(@, b.v), !.in_state = "DATA"]
         [] r.in_state = "DATA" -> [r EXCEPT !.in_data = Append(@, b)]
         [] OTHER -> r
\* Faulty variant: the checksum is not compared.
AtFlagUnchecked ==
    LET payload == [i \in 1..(Len(rcv.in_data) - 2) |-> rcv.in_data[i].v]
        good == rcv.in_state = "DATA" /\ rcv.in_data # <<>>
    IN /\ framesGot' = IF good THEN Append(framesGot, [proto |-> rcv.in_protocol, payload |-> payload]) ELSE framesGot
       /\ rcv' = RcvReset
       /\ UNCHANGED <<serialFaults, damage>>

(* At a flag the packet is complete, or dropped. *)
AtFlag ==
    LET n == Len(rcv.in_data) - 2
        good == rcv.in_state = "DATA" /\ GoodFcs(rcv.in_fcs) /\ rcv.in_data # <<>>
        payload == [i \in 1..n |-> rcv.in_data[i].v]
    IN /\ framesGot' = IF good THEN Append(framesGot, [proto |-> rcv.in_protocol, payload |-> payload]) ELSE framesGot
       /\ rcv' = RcvReset
       /\ UNCHANGED <<serialFaults, damage>>

(* mem: a buffer can be had for the first byte of data. *)
AtByte(b, mem) ==
    LET c == IF rcv.in_escaped THEN TransOf(b) ELSE b
        starved == rcv.in_state = "DATA" /\ rcv.in_data = <<>> /\ ~mem
        r == IF starved THEN [rcv EXCEPT !.in_state = "IDLE"] ELSE TakeByte(rcv, c)
        cost == IF starved THEN 1 ELSE 0
    IN /\ rcv' = [r EXCEPT !.in_escaped = FALSE, !.in_fcs = Append(@, c)]
       /\ serialFaults' = serialFaults + cost
       /\ damage' = damage + cost
       /\ UNCHANGED framesGot

pppos_input ==
    /\ serial # <<>>
    /\ serial' = Tail(serial)
    /\ LET b == Head(serial)
       IN CASE b = FLAG -> AtFlag
            [] b = ESCAPE -> rcv' = [rcv EXCEPT !.in_escaped = TRUE] /\ UNCHANGED <<framesGot, serialFaults, damage>>
            [] Escaped(sconf.in, b) -> UNCHANGED <<rcv, framesGot, serialFaults, damage>>
            [] OTHER -> AtByte(b, TRUE) \/ (serialFaults < MaxSerialFaults /\ AtByte(b, FALSE))
    /\ UNCHANGED <<sconf, idle, framesSent>>

LoseByte ==
    /\ serialFaults < MaxSerialFaults
    /\ \E i \in 1..Len(serial) :
          serial' = SubSeq(serial, 1, i - 1) \o SubSeq(serial, i + 1, Len(serial))
    /\ serialFaults' = serialFaults + 1
    /\ damage' = damage + 2
    /\ UNCHANGED <<sconf, idle, rcv, framesSent, framesGot>>

-----------------------------------------------------------------------------
PpposInit ==
    /\ sconf \in SERIAL_CONFS
    /\ idle = TRUE
    /\ serial = <<>>
    /\ rcv = [RcvReset EXCEPT !.in_state = "IDLE"]
    /\ framesSent = <<>>
    /\ framesGot = <<>>
    /\ serialFaults = 0
    /\ damage = 0

PpposNext == pppos_output \/ pppos_input \/ LoseByte

PpposSpec == PpposInit /\ [][PpposNext]_serialVars

(* A frame that pppos_input hands to ppp_input is one that was written,    *)
(* whole, unchanged and in its turn, whatever bytes had to be escaped,     *)
(* however the headers were compressed, whatever the line lost.            *)
FramesIntact ==
    \E f \in [1..Len(framesGot) -> 1..Len(framesSent)] :
        /\ \A i \in DOMAIN f : /\ framesGot[i].proto = framesSent[f[i]].proto
                               /\ framesGot[i].payload = framesSent[f[i]].payload
        /\ \A i \in 2..Len(framesGot) : f[i - 1] < f[i]

(* The receiver finds the frames again after a fault: a lost byte costs at *)
(* most the two frames it may have joined, a missing buffer one frame, and *)
(* a frame given up half way by pppos_output_last costs no other frame.    *)
Resynchronises ==
    serial = <<>> =>
        Len(framesGot) + damage >= Cardinality({i \in DOMAIN framesSent : framesSent[i].ok})

-----------------------------------------------------------------------------

(***************************************************************************)
(* The serial line interface of netif/slipif.c.  slipif_output writes a    *)
(* packet to the line byte by byte; slipif_rxbyte puts the packets         *)
(* together again from bytes that may be lost, in pbufs that may run out.  *)
(* A packet is handed up at once (the receive thread and slipif_poll) or,  *)
(* with SLIP_RX_FROM_ISR, put on a queue that slipif_process_rxqueue       *)
(* empties later.                                                          *)
(***************************************************************************)

CONSTANTS
  SLIP_MAX_SIZE,
  SlipBytes,            \* the payload bytes, SLIP_END and SLIP_ESC among them
  SlipModes,            \* how packets are handed up: "input", "queue", "single"
  MaxSlipPackets,       \* bound on the packets sent
  MaxLostBytes          \* bound on the bytes lost

VARIABLES
  slipMode,             \* "input", SLIP_RX_FROM_ISR with ("queue") or without ("single") SLIP_RX_QUEUE
  priv,                 \* struct slipif_priv: the state, the bytes in its pbufs and the packet they are of
  rxpackets,            \* the packets received in interrupts
  slipLine,             \* bytes on the line, each with the packet it belongs to
  slipSent,             \* the packets sent
  slipDamaged,          \* the packets that lost a byte
  slipDisplaced,        \* the packets lost while another waited for the thread
  slipGot               \* the packets handed up

slipVars == <<slipMode, priv, rxpackets, slipLine, slipSent, slipDamaged, slipDisplaced, slipGot>>

SLIP_END == "END"
SLIP_ESC == "ESC"
SLIP_ESC_END == "ESC_END"
SLIP_ESC_ESC == "ESC_ESC"
Restarted == [state |-> "NORMAL", data |-> <<>>, of |-> 0]

slipif_init ==
  /\ slipMode \in SlipModes
  /\ priv = Restarted
  /\ rxpackets = <<>>
  /\ slipLine = <<>>
  /\ slipSent = <<>>
  /\ slipDamaged = {}
  /\ slipDisplaced = {}
  /\ slipGot = <<>>

\* END, the escaped bytes, END.
slipif_output(p) ==
  LET Stuffed(c) == CASE c = SLIP_END -> <<SLIP_ESC, SLIP_ESC_END>>
                      [] c = SLIP_ESC -> <<SLIP_ESC, SLIP_ESC_ESC>>
                      [] OTHER -> <<c>>
      bytes == <<SLIP_END>> \o FlattenSeq([k \in DOMAIN p |-> Stuffed(p[k])]) \o <<SLIP_END>>
      n == Len(slipSent) + 1
  IN /\ Len(slipSent) < MaxSlipPackets /\ slipLine = <<>>
     /\ slipSent' = Append(slipSent, p)
     /\ slipLine' = [k \in DOMAIN bytes |-> [c |-> bytes[k], of |-> n]]
     /\ UNCHANGED <<slipMode, priv, rxpackets, slipDamaged, slipDisplaced, slipGot>>

(***************************************************************************)
(* One byte is received.  room: a pbuf could be had for it (pbufs of one   *)
(* byte: every data byte may be the first of a new one).                   *)
(***************************************************************************)
\* The data byte an escaped one stands for.
Unescaped(c) ==
  CASE priv.state = "ESCAPE" /\ c = SLIP_ESC_END -> SLIP_END
    [] priv.state = "ESCAPE" /\ c = SLIP_ESC_ESC -> SLIP_ESC
    [] OTHER -> c

slipif_rxbyte(c, room) ==
  CASE priv.state = "NORMAL" /\ c = SLIP_END -> Restarted
    [] priv.state = "NORMAL" /\ c = SLIP_ESC -> [priv EXCEPT !.state = "ESCAPE"]
    [] OTHER -> [state |-> "NORMAL", of |-> Head(slipLine).of,
                 data |-> IF room /\ Len(priv.data) <= SLIP_MAX_SIZE THEN Append(priv.data, Unescaped(c))
                          ELSE priv.data]

Completed(c) == priv.state = "NORMAL" /\ c = SLIP_END /\ priv.data # <<>>

\* The receive thread and slipif_poll.
slipif_rxbyte_input(c) ==
  /\ slipMode = "input"
  /\ slipGot' = IF Completed(c) THEN Append(slipGot, priv.data) ELSE slipGot
  /\ UNCHANGED <<rxpackets, slipDisplaced>>

\* From the interrupt, while a packet may still wait for the thread.  With a queue the new
\* packet is linked to itself, not to the queue; without one it takes the place of the old.
slipif_rxbyte_enqueue(c) ==
  LET waits == Completed(c) /\ rxpackets # <<>>
      new == [data |-> priv.data, of |-> priv.of]
  IN /\ slipMode # "input"
     /\ rxpackets' = IF ~Completed(c) \/ (waits /\ slipMode = "queue") THEN rxpackets ELSE <<new>>
     /\ slipDisplaced' = slipDisplaced \cup
          IF ~waits THEN {} ELSE IF slipMode = "queue" THEN {new.of} ELSE {rxpackets[1].of}
     /\ UNCHANGED slipGot

slipif_received_byte(room) ==
  /\ slipLine # <<>>
  /\ slipLine' = Tail(slipLine)
  /\ priv' = slipif_rxbyte(Head(slipLine).c, room)
  /\ slipDamaged' = IF room THEN slipDamaged ELSE slipDamaged \cup {Head(slipLine).of}
  /\ slipif_rxbyte_input(Head(slipLine).c) \/ slipif_rxbyte_enqueue(Head(slipLine).c)
  /\ UNCHANGED <<slipMode, slipSent>>

slipif_process_rxqueue ==
  /\ rxpackets # <<>>
  /\ rxpackets' = Tail(rxpackets)
  /\ slipGot' = Append(slipGot, Head(rxpackets).data)
  /\ UNCHANGED <<slipMode, priv, slipLine, slipSent, slipDamaged, slipDisplaced>>

SlipLosesByte ==
  /\ slipLine # <<>>
  /\ slipLine' = Tail(slipLine)
  /\ slipDamaged' = slipDamaged \cup {Head(slipLine).of}
  /\ UNCHANGED <<slipMode, priv, rxpackets, slipSent, slipDisplaced, slipGot>>

Losable == Len(slipSent) <= MaxSlipPackets /\ (slipDamaged = {} \/ MaxLostBytes > 1)

Payloads == UNION {[1 .. n -> SlipBytes] : n \in 1 .. SLIP_MAX_SIZE}

SlipNext ==
  \/ \E p \in Payloads : slipif_output(p)
  \/ slipif_received_byte(TRUE)
  \/ Losable /\ (slipif_received_byte(FALSE) \/ SlipLosesByte)
  \/ slipif_process_rxqueue
  \/ Len(slipSent) = MaxSlipPackets /\ slipLine = <<>> /\ rxpackets = <<>> /\ UNCHANGED slipVars

SlipSpec == slipif_init /\ [][SlipNext]_slipVars

(***************************************************************************)
(* Properties.                                                             *)
(***************************************************************************)
Quiet == slipLine = <<>> /\ rxpackets = <<>>
Whole == SelectSeq([k \in DOMAIN slipSent |-> k], LAMBDA k : k \notin slipDamaged \cup slipDisplaced)

\* A byte lost on the line or for want of a pbuf damages the packet it belongs
\* to and no other: every other packet is handed up as it was sent, in the
\* order sent.  Every packet both starts and ends with SLIP_END for that.  The
\* exception is reception from an interrupt (slipif_rxbyte_enqueue): of two
\* packets the thread was too slow to take, one is lost, with SLIP_RX_QUEUE too.
OnlyDamagedPacketsSuffer ==
  Quiet =>
    \E keep \in SUBSET DOMAIN slipGot :
      [k \in DOMAIN Whole |-> slipSent[Whole[k]]] =
        LET kept == SelectSeq([k \in DOMAIN slipGot |-> k], LAMBDA k : k \in keep)
        IN [k \in DOMAIN kept |-> slipGot[kept[k]]]

==============================================================================
