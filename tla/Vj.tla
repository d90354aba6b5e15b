--------------------------------- MODULE Vj ---------------------------------
(***************************************************************************)
(* Van Jacobson's TCP/IP header compression (vj.c).  The sender keeps the  *)
(* last header of each conversation in a slot and sends what changed; the  *)
(* receiver applies the changes to its copy of the slot.  The slot's       *)
(* number may be left out when it is the one last used, which is why the   *)
(* receiver tosses such frames once it knows that one was lost.            *)
(*                                                                         *)
(* A header is [conv, other, seq, ack, wnd, urg, urgp, id, psh, len]:      *)
(* conv stands for the addresses and ports, other for the fields that may  *)
(* not change in a compressed frame; numbers are modulo small powers.      *)
(***************************************************************************)
EXTENDS Integers

CONSTANTS
  CONVS,            \* conversations
  MAX_SLOTS,
  COMPRESS_SLOT,    \* the values of compressSlot the peers may negotiate
  MAX_DELTA,        \* the largest difference a frame can carry (0xffff)
  VjFocuses         \* which inputs a behaviour has: "fields", "slots"

VARIABLES
  tstate, order,    \* the sender's slots, and their numbers from last used to oldest
  last_xmit,
  rstate, last_recv, toss,
  vjWire,           \* the frame on the line with its original, or "idle"
  sync,             \* slots of which no frame was lost since the last full header
  faded,            \* slots whose URG flag was cleared by a frame that cannot say so
  restored,         \* [same, rest, sound, faded]: whether the last frame gave the header
                    \* that was sent, the header but for URG, whether its slot was in
                    \* sync, and whether it is one of faded
  compressSlot, vjFocus

vjVars == <<tstate, order, last_xmit, rstate, last_recv, toss, vjWire, sync, faded, restored, compressSlot, vjFocus>>

ASSUME VjAssumption == MAX_SLOTS \in 1 .. 255 /\ MAX_DELTA \in Nat \ {0} /\ CONVS # {}

SeqSpace == 3 * MAX_DELTA
IdSpace == 2
WndSpace == 2
Slots == 0 .. MAX_SLOTS - 1
NO_SLOT == 255

Blank == [conv |-> "none", other |-> 0, seq |-> 0, ack |-> 0, wnd |-> 0, urg |-> FALSE, urgp |-> 0,
          id |-> 0, psh |-> FALSE, len |-> 0]
Idle == [type |-> "idle"]

vj_compress_init ==
  /\ tstate = [s \in Slots |-> Blank]
  /\ rstate = [s \in Slots |-> Blank]
  /\ order = [k \in 1 .. MAX_SLOTS |-> MAX_SLOTS - k]
  /\ last_xmit = NO_SLOT /\ last_recv = NO_SLOT
  /\ toss = TRUE

VjInit ==
  /\ vj_compress_init
  /\ vjWire = Idle
  /\ sync = {}
  /\ faded = {}
  /\ restored = [same |-> TRUE, rest |-> TRUE, sound |-> TRUE, faded |-> FALSE]
  /\ compressSlot \in COMPRESS_SLOT
  /\ vjFocus \in VjFocuses

(***************************************************************************)
(* Compression.                                                            *)
(***************************************************************************)
\* The slot of the conversation, or the one used longest ago.
SlotFor(h) == IF \E s \in Slots : tstate[s].conv = h.conv
              THEN CHOOSE s \in Slots : tstate[s].conv = h.conv
              ELSE order[MAX_SLOTS]
MoveToFront(s) ==
  LET at == CHOOSE k \in 1 .. MAX_SLOTS : order[k] = s
  IN [k \in 1 .. MAX_SLOTS |-> IF k = 1 THEN s ELSE order[IF k <= at THEN k - 1 ELSE k]]

Delta(a, b, n) == (a - b) % n

\* The fields that changed, each with its difference (the urgent pointer with its value).
Changes(h, o) ==
  [U |-> h.urg,
   W |-> Delta(h.wnd, o.wnd, WndSpace) # 0,
   A |-> Delta(h.ack, o.ack, SeqSpace) # 0,
   S |-> Delta(h.seq, o.seq, SeqSpace) # 0]
Bits(c) == {x \in {"U", "W", "A", "S"} : c[x]}
SPECIAL_I == {"S", "W", "U"}
SPECIAL_D == {"S", "A", "W", "U"}

\* What cannot be told in a compressed frame: fields that never change, an
\* urgent pointer that moved unflagged, large jumps, and changes whose bits mean
\* one of the two special cases.  A frame without changes is only sent for data
\* that follows an acknowledgement; otherwise it is a retransmission.
NeedsFull(h, o) ==
  LET c == Changes(h, o)
  IN \/ h.conv # o.conv
     \/ h.other # o.other
     \/ ~h.urg /\ h.urgp # o.urgp
     \/ Delta(h.ack, o.ack, SeqSpace) > MAX_DELTA
     \/ Delta(h.seq, o.seq, SeqSpace) > MAX_DELTA
     \/ Bits(c) \in {SPECIAL_I, SPECIAL_D}
     \/ Bits(c) = {} /\ ~(h.len # o.len /\ o.len = 0)

\* The special cases: acknowledgement and sequence number, or the latter alone,
\* advance by the length of the last segment.
Special(h, o) ==
  LET c == Changes(h, o)
      dS == Delta(h.seq, o.seq, SeqSpace)
  IN IF Bits(c) = {"S", "A"} /\ dS = Delta(h.ack, o.ack, SeqSpace) /\ dS = o.len THEN SPECIAL_I
     ELSE IF Bits(c) = {"S"} /\ dS = o.len THEN SPECIAL_D
     ELSE Bits(c)

CompressedFrame(h, o, s) ==
  LET bits == Special(h, o)
      plain == bits = Bits(Changes(h, o))
  IN [type |-> "compressed",
      slot |-> IF ~compressSlot \/ last_xmit # s THEN s ELSE NO_SLOT,
      bits |-> bits,
      urgp |-> IF plain /\ h.urg THEN h.urgp ELSE 0,
      dW |-> IF plain THEN Delta(h.wnd, o.wnd, WndSpace) ELSE 0,
      dA |-> IF plain THEN Delta(h.ack, o.ack, SeqSpace) ELSE 0,
      dS |-> IF plain THEN Delta(h.seq, o.seq, SeqSpace) ELSE 0,
      dI |-> Delta(h.id, o.id, IdSpace),
      psh |-> h.psh, len |-> h.len]

\* The special codes use the bit that tells of URG, so a segment that clears the
\* flag and leaves the pointer as it was may be sent without a word of it.
Fades(h, o, s) ==
  /\ ~NeedsFull(h, o)
  /\ Special(h, o) \in {SPECIAL_I, SPECIAL_D}
  /\ o.urg \/ s \in faded

\* A TCP segment with ACK and without SYN, FIN or RST; others are sent as they are.
vj_compress_tcp(h) ==
  LET s == SlotFor(h)
      o == tstate[s]
  IN /\ vjWire' = [type |-> "frame", slot |-> s, sent |-> h,
                   f |-> IF NeedsFull(h, o) THEN [type |-> "uncompressed", slot |-> s, hdr |-> h]
                         ELSE CompressedFrame(h, o, s)]
     /\ tstate' = [tstate EXCEPT ![s] = h]
     /\ order' = MoveToFront(s)
     /\ last_xmit' = s
     /\ faded' = IF Fades(h, o, s) THEN faded \cup {s} ELSE faded \ {s}
     /\ UNCHANGED <<rstate, last_recv, toss, sync, restored, compressSlot, vjFocus>>

(***************************************************************************)
(* Decompression.                                                          *)
(***************************************************************************)
Made(s, h) ==
  restored' = [same |-> h = vjWire.sent, rest |-> [h EXCEPT !.urg = vjWire.sent.urg] = vjWire.sent,
               sound |-> s \in sync', faded |-> vjWire.slot \in faded]

\* A full header says which slot it is for and ends the tossing.
vj_uncompress_uncomp ==
  /\ vjWire # Idle /\ vjWire.f.type = "uncompressed"
  /\ rstate' = [rstate EXCEPT ![vjWire.f.slot] = vjWire.f.hdr]
  /\ last_recv' = vjWire.f.slot
  /\ toss' = FALSE
  /\ sync' = sync \cup {vjWire.f.slot}
  /\ Made(vjWire.f.slot, vjWire.f.hdr)
  /\ vjWire' = Idle
  /\ UNCHANGED <<tstate, order, last_xmit, faded, compressSlot, vjFocus>>

\* The changes, applied to the slot's header.
Apply(f, c) ==
  LET bits == f.bits
      plain == bits \notin {SPECIAL_I, SPECIAL_D}
      U == plain /\ "U" \in bits
      dS == IF plain THEN (IF "S" \in bits THEN f.dS ELSE 0) ELSE c.len
      dA == IF plain THEN (IF "A" \in bits THEN f.dA ELSE 0) ELSE IF bits = SPECIAL_I THEN c.len ELSE 0
  IN [c EXCEPT !.psh = f.psh,
               !.urg = IF plain THEN U ELSE @,
               !.urgp = IF U THEN f.urgp ELSE @,
               !.wnd = IF plain /\ "W" \in bits THEN (@ + f.dW) % WndSpace ELSE @,
               !.ack = (@ + dA) % SeqSpace,
               !.seq = (@ + dS) % SeqSpace,
               !.id = (@ + f.dI) % IdSpace,
               !.len = f.len]

\* Without a slot number the last one is meant, unless frames are being tossed.
vj_uncompress_tcp ==
  /\ vjWire # Idle /\ vjWire.f.type = "compressed"
  /\ LET f == vjWire.f
         s == IF f.slot # NO_SLOT THEN f.slot ELSE last_recv
     IN IF f.slot = NO_SLOT /\ toss
          THEN /\ sync' = sync \ {vjWire.slot}
               /\ UNCHANGED <<rstate, last_recv, toss, restored>>
          ELSE /\ last_recv' = s
               /\ toss' = FALSE
               /\ rstate' = [rstate EXCEPT ![s] = Apply(f, rstate[s])]
               /\ sync' = sync
               /\ Made(s, Apply(f, rstate[s]))
  /\ vjWire' = Idle
  /\ UNCHANGED <<tstate, order, last_xmit, faded, compressSlot, vjFocus>>
\* Faulty variant: frames are not tossed after a damaged one.
ErrWithoutToss ==
  /\ vjFocus = "slots" /\ vjWire # Idle
  /\ sync' = sync \ {vjWire.slot}
  /\ vjWire' = Idle
  /\ UNCHANGED <<tstate, order, last_xmit, rstate, last_recv, toss, faded, restored, compressSlot, vjFocus>>

\* A frame arrives damaged: the line driver reports it.
vj_uncompress_err ==
  /\ vjFocus = "slots" /\ vjWire # Idle
  /\ toss' = TRUE
  /\ sync' = sync \ {vjWire.slot}
  /\ vjWire' = Idle
  /\ UNCHANGED <<tstate, order, last_xmit, rstate, last_recv, faded, restored, compressSlot, vjFocus>>

(***************************************************************************)
(* What TCP sends next in a conversation, from what it sent last.          *)
(***************************************************************************)
LastSent(c) == IF \E s \in Slots : tstate[s].conv = c
               THEN tstate[CHOOSE s \in Slots : tstate[s].conv = c] ELSE [Blank EXCEPT !.conv = c]

VjSend(c) ==
  /\ vjFocus = "slots"
  /\ vj_compress_tcp([LastSent(c) EXCEPT !.seq = (@ + 1) % SeqSpace, !.len = 1])

\* Any segment after o; the urgent pointer may stay when its flag is cleared.
Segment(o, dS, dA, w, u, p, i, l, x) ==
  [o EXCEPT !.seq = (@ + dS) % SeqSpace, !.ack = (@ + dA) % SeqSpace,
            !.wnd = w, !.urg = u, !.urgp = p,
            !.id = (@ + i) % IdSpace, !.psh = (l = 1), !.len = l, !.other = x]

VjSendAny(c) ==
  /\ vjFocus = "fields"
  /\ \E o \in {LastSent(c)} :
     \E dS \in {0, o.len, MAX_DELTA + 1}, dA \in {0, 1, MAX_DELTA + 1}, w \in 0 .. WndSpace - 1,
        u \in BOOLEAN, p \in {0, 1}, i \in {0, 1}, l \in {0, 1}, x \in {0, 1} :
        vj_compress_tcp(Segment(o, dS, dA, w, u, p, i, l, x))

VjNext ==
  \/ vjWire = Idle /\ ((\E c \in CONVS : VjSend(c)) \/ VjSendAny(CHOOSE c \in CONVS : TRUE))
  \/ vj_uncompress_uncomp \/ vj_uncompress_tcp \/ vj_uncompress_err

VjSpec == VjInit /\ [][VjNext]_vjVars

(***************************************************************************)
(* Properties.                                                             *)
(***************************************************************************)
\* A segment comes out of vj_uncompress_tcp with the header it had before
\* vj_compress_tcp, whatever changed in it and whichever other conversations
\* shared the slots, unless a frame of its slot was lost since the last full
\* header; in particular a frame without a slot number is never applied to
\* another slot than the sender's.  The one field excepted is the URG flag: when
\* a segment clears it, leaves the urgent pointer alone (vj.c:303-312) and is sent
\* under a special code (vj.c:363-377, 545-561), the receiver keeps URG set, in
\* that header and in the following ones until a frame of another kind.
HeadersRestored == restored.sound => restored.rest /\ (restored.same <=> ~restored.faded)
=============================================================================
