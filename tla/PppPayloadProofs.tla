------------------------- MODULE PppPayloadProofs -------------------------
(***************************************************************************)
(* What PPP does to the packets it carries.  Header compression, for any   *)
(* conversations, number of slots and range of differences: what comes out *)
(* of a slot whose frames all arrived is the header that went in, but for  *)
(* an URG flag that was cleared under one of the two special codes.  MPPE, *)
(* with the numbers of mppe.c and any number of packets: what is decrypted *)
(* was encrypted with the same key.                                        *)
(***************************************************************************)
EXTENDS Vj, Mppe, TLAPS

\* The headers TCP sends.
TcpHeader ==
  [conv : CONVS \cup {"none"}, other : {0, 1}, seq : 0 .. SeqSpace - 1, ack : 0 .. SeqSpace - 1,
   wnd : 0 .. WndSpace - 1, urg : BOOLEAN, urgp : {0, 1}, id : 0 .. IdSpace - 1, psh : BOOLEAN,
   len : {0, 1}]

\* The header h as the receiver has it: with URG when d says that its clearing went untold.
Shown(h, d) == [h EXCEPT !.urg = h.urg \/ d]

\* The list of slots holds each of them.
OrderInv ==
  /\ order \in [1 .. MAX_SLOTS -> Slots]
  /\ \A s \in Slots : \E k \in 1 .. MAX_SLOTS : order[k] = s

VjTypes ==
  /\ tstate \in [Slots -> TcpHeader] /\ rstate = [s \in Slots |-> rstate[s]]
  /\ toss \in BOOLEAN /\ sync \subseteq Slots /\ faded \subseteq Slots
  /\ \A s \in faded : ~ tstate[s].urg

\* Between frames both ends hold the same header in a slot that is in sync, but for a faded
\* URG, and mean the same slot by the last one unless frames are tossed.
Rests ==
  /\ \A s \in sync : rstate[s] = Shown(tstate[s], s \in faded)
  /\ toss \/ last_recv = last_xmit

\* A frame on the line turns the receiver's header of its slot into the sender's.
Carries(w) ==
  /\ vjWire.slot = w /\ w \in Slots /\ vjWire.sent = tstate[w] /\ last_xmit = w
  /\ \A s \in sync \ {w} : rstate[s] = Shown(tstate[s], s \in faded)
  /\ \/ vjWire.f = [type |-> "uncompressed", slot |-> w, hdr |-> tstate[w]] /\ w \notin faded
     \/ /\ vjWire.f.type = "compressed" /\ vjWire.f.slot \in {w, NO_SLOT}
        /\ w \in sync => Apply(vjWire.f, rstate[w]) = Shown(tstate[w], w \in faded)
        /\ vjWire.f.slot = NO_SLOT => toss \/ last_recv = w

\* The inductive invariant.
VjInv ==
  /\ VjTypes /\ OrderInv
  /\ \/ vjWire = Idle /\ Rests
     \/ vjWire.type = "frame" /\ Carries(vjWire.slot)
  /\ HeadersRestored

\* Arithmetic modulo the size of a field: adding the difference gives the new value.
Differs(a, b, n) ==
  /\ Delta(a, b, n) \in 0 .. n - 1
  /\ (b + Delta(a, b, n)) % n = a
  /\ Delta(a, b, n) = 0 <=> a = b
  /\ (b + 0) % n = b

\* ENCODE and its inverse: adding the difference to the old value gives the new one.
LEMMA DeltaFacts ==
  ASSUME NEW n \in Nat, n > 0, NEW a \in 0 .. n - 1, NEW b \in 0 .. n - 1
  PROVE  Differs(a, b, n)
  <1>1. CASE a >= b
    <2>1. (a - b) \in 0 .. n - 1
      BY <1>1
    <2>2. (a - b) % n = a - b
      BY <2>1
    <2> QED BY <1>1, <2>1, <2>2 DEF Delta, Differs
  <1>2. CASE a < b
    <2>1. (a - b) \in -n .. -1 /\ a - b + n \in 0 .. n - 1
      BY <1>2
    <2>2. (a - b) % n = a - b + n
      BY <2>1
    <2>3. (b + (a - b + n)) % n = a
      <3>1. b + (a - b + n) = a + n
        OBVIOUS
      <3>2. (a + n) % n = a
        OBVIOUS
      <3> QED BY Zenon, <3>1, <3>2
    <2> QED BY <1>2, <2>1, <2>2, <2>3 DEF Delta, Differs
  <1> QED BY <1>1, <1>2

\* The sizes of the fields.
LEMMA Spaces ==
  /\ SeqSpace \in Nat /\ SeqSpace > 0
  /\ WndSpace \in Nat /\ WndSpace > 0
  /\ IdSpace \in Nat /\ IdSpace > 0
  BY VjAssumption DEF SeqSpace, WndSpace, IdSpace

\* The fields of a header.
LEMMA HeaderFields ==
  ASSUME NEW h \in TcpHeader
  PROVE  /\ h.conv \in CONVS \cup {"none"} /\ h.other \in {0, 1} /\ h.seq \in 0 .. SeqSpace - 1
         /\ h.ack \in 0 .. SeqSpace - 1 /\ h.wnd \in 0 .. WndSpace - 1 /\ h.urg \in BOOLEAN
         /\ h.urgp \in {0, 1} /\ h.id \in 0 .. IdSpace - 1 /\ h.psh \in BOOLEAN /\ h.len \in {0, 1}
  BY Zenon DEF TcpHeader

\* Records of these fields are equal when their fields are.
Complete(h) ==
  h = [conv |-> h.conv, other |-> h.other, seq |-> h.seq, ack |-> h.ack, wnd |-> h.wnd,
       urg |-> h.urg, urgp |-> h.urgp, id |-> h.id, psh |-> h.psh, len |-> h.len]

\* Headers with the same fields are the same.
LEMMA SameFields ==
  ASSUME NEW a, NEW b, Complete(a), Complete(b), a.conv = b.conv, a.other = b.other, a.seq = b.seq,
         a.ack = b.ack, a.wnd = b.wnd, a.urg = b.urg, a.urgp = b.urgp, a.id = b.id, a.psh = b.psh,
         a.len = b.len
  PROVE  a = b
  BY Zenon DEF Complete

\* A header has these fields and no other.
LEMMA HeaderComplete == ASSUME NEW h \in TcpHeader PROVE Complete(h)
  BY Zenon DEF TcpHeader, Complete

\* What the receiver has differs from the header in URG at most, and there only when d holds.
LEMMA ShownFacts ==
  ASSUME NEW h \in TcpHeader, NEW d \in BOOLEAN
  PROVE  LET r == Shown(h, d)
         IN /\ Complete(r)
            /\ r.conv = h.conv /\ r.other = h.other /\ r.seq = h.seq /\ r.ack = h.ack /\ r.wnd = h.wnd
            /\ r.urgp = h.urgp /\ r.id = h.id /\ r.psh = h.psh /\ r.len = h.len
            /\ r.urg = (h.urg \/ d)
            /\ [r EXCEPT !.urg = h.urg] = h
            /\ (d => ~ h.urg) => (r = h <=> ~ d)
  <1> DEFINE r == Shown(h, d)
             q == [r EXCEPT !.urg = h.urg]
  <1>1. Complete(h) /\ h.urg \in BOOLEAN
    BY Zenon, HeaderComplete, HeaderFields
  <1>2. DOMAIN h = {"conv", "other", "seq", "ack", "wnd", "urg", "urgp", "id", "psh", "len"}
    BY Zenon, <1>1 DEF Complete
  <1>3. r = [k \in DOMAIN h |-> IF k = "urg" THEN h.urg \/ d ELSE h[k]]
    BY Zenon, <1>2 DEF Shown
  <1>4. /\ r.conv = h.conv /\ r.other = h.other /\ r.seq = h.seq /\ r.ack = h.ack /\ r.wnd = h.wnd
        /\ r.urgp = h.urgp /\ r.id = h.id /\ r.psh = h.psh /\ r.len = h.len
        /\ r.urg = (h.urg \/ d)
    BY Zenon, <1>2 DEF Shown
  <1>5. r = [k \in DOMAIN r |-> r[k]] /\ DOMAIN r = DOMAIN h
    BY Zenon, <1>3
  <1> HIDE DEF r
  <1>6. Complete(r)
    BY ONLY Zenon, <1>2, <1>5 DEF Complete
  <1>7. q = h
    <2>1. q = [k \in DOMAIN h |-> IF k = "urg" THEN h.urg ELSE r[k]]
      BY Zenon, <1>5
    <2>2. /\ q.conv = r.conv /\ q.other = r.other /\ q.seq = r.seq /\ q.ack = r.ack /\ q.wnd = r.wnd
          /\ q.urgp = r.urgp /\ q.id = r.id /\ q.psh = r.psh /\ q.len = r.len /\ q.urg = h.urg
      BY Zenon, <1>2, <1>5
    <2>3. q = [k \in DOMAIN q |-> q[k]] /\ DOMAIN q = DOMAIN h
      BY Zenon, <2>1
    <2> HIDE DEF q
    <2>4. Complete(q)
      BY ONLY Zenon, <1>2, <2>3 DEF Complete
    <2> QED BY Zenon, <2>2, <2>4, <1>1, <1>4, SameFields
  <1>8. ASSUME d => ~ h.urg PROVE r = h <=> ~ d
    <2>1. CASE d
      BY Zenon, <2>1, <1>4, <1>8
    <2>2. CASE ~ d
      <3>1. r.urg = h.urg
        BY Zenon, <2>2, <1>1, <1>4
      <3> QED BY Zenon, <2>2, <3>1, <1>1, <1>4, <1>6, SameFields
    <2> QED BY Zenon, <2>1, <2>2
  <1> QED BY Zenon, <1>4, <1>6, <1>7, <1>8 DEF r

\* The bits of a set of changes.
LEMMA BitsFacts ==
  ASSUME NEW c \in [U : BOOLEAN, W : BOOLEAN, A : BOOLEAN, S : BOOLEAN]
  PROVE  /\ "U" \in Bits(c) <=> c.U
         /\ "W" \in Bits(c) <=> c.W
         /\ "A" \in Bits(c) <=> c.A
         /\ "S" \in Bits(c) <=> c.S
  BY Zenon DEF Bits

\* The two special sets are told apart by the acknowledgement, and hold more than {S, A}.
LEMMA SpecialFacts ==
  /\ SPECIAL_I # SPECIAL_D
  /\ "W" \in SPECIAL_I /\ "W" \in SPECIAL_D
  /\ "W" \notin {"S", "A"} /\ "W" \notin {"S"}
  BY DEF SPECIAL_I, SPECIAL_D

\* What each field becomes.
LEMMA ApplyFields ==
  ASSUME NEW f, NEW c, Complete(c)
  PROVE  LET r == Apply(f, c)
             plain == f.bits # SPECIAL_I /\ f.bits # SPECIAL_D
         IN /\ Complete(r)
            /\ r.conv = c.conv /\ r.other = c.other /\ r.psh = f.psh /\ r.len = f.len
            /\ r.id = (c.id + f.dI) % IdSpace
            /\ plain => /\ r.urg = ("U" \in f.bits)
                        /\ r.urgp = IF "U" \in f.bits THEN f.urgp ELSE c.urgp
                        /\ r.wnd = IF "W" \in f.bits THEN (c.wnd + f.dW) % WndSpace ELSE c.wnd
                        /\ r.ack = (c.ack + (IF "A" \in f.bits THEN f.dA ELSE 0)) % SeqSpace
                        /\ r.seq = (c.seq + (IF "S" \in f.bits THEN f.dS ELSE 0)) % SeqSpace
            /\ ~ plain => /\ r.urg = c.urg /\ r.urgp = c.urgp /\ r.wnd = c.wnd
                          /\ r.ack = (c.ack + (IF f.bits = SPECIAL_I THEN c.len ELSE 0)) % SeqSpace
                          /\ r.seq = (c.seq + c.len) % SeqSpace
  <1> DEFINE r == Apply(f, c)
             d == DOMAIN c
  <1>1. d = {"conv", "other", "seq", "ack", "wnd", "urg", "urgp", "id", "psh", "len"}
    BY Zenon DEF Complete
  <1>2. r.conv = c.conv /\ r.other = c.other /\ r.psh = f.psh /\ r.len = f.len
    BY Zenon, <1>1 DEF Apply
  <1>3. r.id = (c.id + f.dI) % IdSpace
    BY Zenon, <1>1 DEF Apply
  <1>4. Complete(r)
    <2>1. r = [x \in d |-> r[x]]
      BY ZenonT(40) DEF Apply, Complete
    <2> HIDE DEF r, d
    <2> QED BY Zenon, <2>1, <1>1 DEF Complete
  <1>5. ASSUME f.bits # SPECIAL_I /\ f.bits # SPECIAL_D
        PROVE  /\ r.urg = ("U" \in f.bits)
               /\ r.urgp = IF "U" \in f.bits THEN f.urgp ELSE c.urgp
               /\ r.wnd = IF "W" \in f.bits THEN (c.wnd + f.dW) % WndSpace ELSE c.wnd
               /\ r.ack = (c.ack + (IF "A" \in f.bits THEN f.dA ELSE 0)) % SeqSpace
               /\ r.seq = (c.seq + (IF "S" \in f.bits THEN f.dS ELSE 0)) % SeqSpace
    BY <1>1, <1>5 DEF Apply
  <1>6. ASSUME ~ (f.bits # SPECIAL_I /\ f.bits # SPECIAL_D)
        PROVE  /\ r.urg = c.urg /\ r.urgp = c.urgp /\ r.wnd = c.wnd
               /\ r.ack = (c.ack + (IF f.bits = SPECIAL_I THEN c.len ELSE 0)) % SeqSpace
               /\ r.seq = (c.seq + c.len) % SeqSpace
    BY Zenon, <1>1, <1>6 DEF Apply
  <1> HIDE DEF r
  <1> QED BY Zenon, <1>2, <1>3, <1>4, <1>5, <1>6 DEF r

\* A compressed frame, applied to the header it was made against as the receiver has it, gives
\* the header it was made for; only a special code leaves an URG flag that was set.
LEMMA ApplyRestores ==
  ASSUME NEW h \in TcpHeader, NEW o \in TcpHeader, NEW s, ~ NeedsFull(h, o), NEW d \in BOOLEAN
  PROVE  Apply(CompressedFrame(h, o, s), Shown(o, d))
           = Shown(h, Special(h, o) \in {SPECIAL_I, SPECIAL_D} /\ (o.urg \/ d))
  <1> DEFINE c == Changes(h, o)
             b == Bits(c)
             f == CompressedFrame(h, o, s)
             dS == Delta(h.seq, o.seq, SeqSpace)
             dA == Delta(h.ack, o.ack, SeqSpace)
             dW == Delta(h.wnd, o.wnd, WndSpace)
             dI == Delta(h.id, o.id, IdSpace)
  <1>1. /\ h.conv = o.conv /\ h.other = o.other /\ (~ h.urg => h.urgp = o.urgp)
        /\ b # SPECIAL_I /\ b # SPECIAL_D
    BY Zenon DEF NeedsFull
  <1>t. /\ h.seq \in 0 .. SeqSpace - 1 /\ o.seq \in 0 .. SeqSpace - 1
        /\ h.ack \in 0 .. SeqSpace - 1 /\ o.ack \in 0 .. SeqSpace - 1
        /\ h.wnd \in 0 .. WndSpace - 1 /\ o.wnd \in 0 .. WndSpace - 1
        /\ h.id \in 0 .. IdSpace - 1 /\ o.id \in 0 .. IdSpace - 1
    BY Zenon, HeaderFields
  <1>d. /\ Differs(h.seq, o.seq, SeqSpace) /\ Differs(h.ack, o.ack, SeqSpace)
        /\ Differs(h.wnd, o.wnd, WndSpace) /\ Differs(h.id, o.id, IdSpace)
    BY ONLY Zenon, <1>t, DeltaFacts, Spaces
  <1>2. /\ (o.seq + dS) % SeqSpace = h.seq /\ (dS = 0 <=> h.seq = o.seq)
        /\ (o.seq + 0) % SeqSpace = o.seq
    BY Zenon, <1>d DEF Differs
  <1>3. /\ (o.ack + dA) % SeqSpace = h.ack /\ (dA = 0 <=> h.ack = o.ack)
        /\ (o.ack + 0) % SeqSpace = o.ack
    BY Zenon, <1>d DEF Differs
  <1>4. (o.wnd + dW) % WndSpace = h.wnd /\ (dW = 0 <=> h.wnd = o.wnd)
    BY Zenon, <1>d DEF Differs
  <1>5. (o.id + dI) % IdSpace = h.id
    BY Zenon, <1>d DEF Differs
  <1>6. c \in [U : BOOLEAN, W : BOOLEAN, A : BOOLEAN, S : BOOLEAN]
        /\ c.U = h.urg /\ c.W = (dW # 0) /\ c.A = (dA # 0) /\ c.S = (dS # 0)
    BY Zenon, HeaderFields DEF Changes
  <1>7. /\ "U" \in b <=> h.urg
        /\ "W" \in b <=> h.wnd # o.wnd
        /\ "A" \in b <=> h.ack # o.ack
        /\ "S" \in b <=> h.seq # o.seq
    BY Zenon, <1>2, <1>3, <1>4, <1>6, BitsFacts
  <1>f. /\ f.bits = Special(h, o) /\ f.psh = h.psh /\ f.len = h.len /\ f.dI = dI
        /\ Special(h, o) = b =>
             /\ f.dW = dW /\ f.dA = dA /\ f.dS = dS
             /\ h.urg => f.urgp = h.urgp
    BY Zenon DEF CompressedFrame
  <1>s. \/ /\ b = {"S", "A"} /\ dS = dA /\ dS = o.len /\ Special(h, o) = SPECIAL_I
        \/ b = {"S"} /\ dS = o.len /\ Special(h, o) = SPECIAL_D
        \/ Special(h, o) = b
    BY Zenon DEF Special
  <1> DEFINE k == Shown(o, d)
             e == Special(h, o) \in {SPECIAL_I, SPECIAL_D} /\ (o.urg \/ d)
             z == Shown(h, e)
             r == Apply(f, k)
             plain == f.bits # SPECIAL_I /\ f.bits # SPECIAL_D
  <1>k. /\ Complete(k) /\ k.conv = o.conv /\ k.other = o.other /\ k.seq = o.seq /\ k.ack = o.ack
        /\ k.wnd = o.wnd /\ k.urgp = o.urgp /\ k.id = o.id /\ k.len = o.len /\ k.urg = (o.urg \/ d)
    BY ShownFacts
  <1>e. e \in BOOLEAN
    BY Zenon
  <1>z. /\ Complete(z) /\ z.conv = h.conv /\ z.other = h.other /\ z.seq = h.seq /\ z.ack = h.ack
        /\ z.wnd = h.wnd /\ z.urgp = h.urgp /\ z.id = h.id /\ z.psh = h.psh /\ z.len = h.len
        /\ z.urg = (h.urg \/ e)
    BY Zenon, <1>e, ShownFacts
  <1>b. h.urg \in BOOLEAN /\ o.urg \in BOOLEAN
    BY Zenon, HeaderFields
  <1> SUFFICES r = z
    BY Zenon
  <1> HIDE DEF c, b, f, dS, dA, dW, dI, k, z
  <1>8. /\ Complete(r)
        /\ r.conv = o.conv /\ r.other = o.other /\ r.psh = f.psh /\ r.len = f.len
        /\ r.id = (o.id + f.dI) % IdSpace
        /\ plain => /\ r.urg = ("U" \in f.bits)
                    /\ r.urgp = IF "U" \in f.bits THEN f.urgp ELSE o.urgp
                    /\ r.wnd = IF "W" \in f.bits THEN (o.wnd + f.dW) % WndSpace ELSE o.wnd
                    /\ r.ack = (o.ack + (IF "A" \in f.bits THEN f.dA ELSE 0)) % SeqSpace
                    /\ r.seq = (o.seq + (IF "S" \in f.bits THEN f.dS ELSE 0)) % SeqSpace
        /\ ~ plain => /\ r.urg = k.urg /\ r.urgp = o.urgp /\ r.wnd = o.wnd
                      /\ r.ack = (o.ack + (IF f.bits = SPECIAL_I THEN o.len ELSE 0)) % SeqSpace
                      /\ r.seq = (o.seq + o.len) % SeqSpace
    <2>1. /\ Complete(r)
          /\ r.conv = k.conv /\ r.other = k.other /\ r.psh = f.psh /\ r.len = f.len
          /\ r.id = (k.id + f.dI) % IdSpace
          /\ plain => /\ r.urg = ("U" \in f.bits)
                      /\ r.urgp = IF "U" \in f.bits THEN f.urgp ELSE k.urgp
                      /\ r.wnd = IF "W" \in f.bits THEN (k.wnd + f.dW) % WndSpace ELSE k.wnd
                      /\ r.ack = (k.ack + (IF "A" \in f.bits THEN f.dA ELSE 0)) % SeqSpace
                      /\ r.seq = (k.seq + (IF "S" \in f.bits THEN f.dS ELSE 0)) % SeqSpace
          /\ ~ plain => /\ r.urg = k.urg /\ r.urgp = k.urgp /\ r.wnd = k.wnd
                        /\ r.ack = (k.ack + (IF f.bits = SPECIAL_I THEN k.len ELSE 0)) % SeqSpace
                        /\ r.seq = (k.seq + k.len) % SeqSpace
      BY <1>k, ApplyFields
    <2> HIDE DEF r
    <2> QED BY Zenon, <2>1, <1>k
  <1> HIDE DEF r
  <1>u. ~ h.urg => h.urgp = o.urgp
    BY <1>1, HeaderFields
  <1>9. CASE b = {"S", "A"} /\ dS = dA /\ dS = o.len /\ Special(h, o) = SPECIAL_I
    <2>1. ~ h.urg /\ h.wnd = o.wnd
      BY Zenon, <1>7, <1>9
    <2>2. r.urgp = h.urgp /\ r.wnd = h.wnd /\ r.ack = h.ack /\ r.seq = h.seq
      BY <2>1, <1>u, <1>2, <1>3, <1>8, <1>9, <1>f, SpecialFacts
    <2>3. r.urg = z.urg
      <3>1. r.urg = k.urg
        BY Zenon, <1>8, <1>9, <1>f
      <3>2. (h.urg \/ e) = (o.urg \/ d)
        BY Zenon, <2>1, <1>9, <1>b
      <3> QED BY Zenon, <3>1, <3>2, <1>k, <1>z
    <2> QED BY Zenon, <2>2, <2>3, <1>1, <1>5, <1>8, <1>f, <1>z, SameFields
  <1>10. CASE b = {"S"} /\ dS = o.len /\ Special(h, o) = SPECIAL_D
    <2>1. ~ h.urg /\ h.wnd = o.wnd /\ h.ack = o.ack
      BY Zenon, <1>7, <1>10
    <2>2. r.urgp = h.urgp /\ r.wnd = h.wnd /\ r.ack = h.ack /\ r.seq = h.seq
      BY Zenon, <2>1, <1>u, <1>2, <1>3, <1>8, <1>10, <1>f, SpecialFacts
    <2>3. r.urg = z.urg
      <3>1. r.urg = k.urg
        BY Zenon, <1>8, <1>10, <1>f
      <3>2. (h.urg \/ e) = (o.urg \/ d)
        BY Zenon, <2>1, <1>10, <1>b
      <3> QED BY Zenon, <3>1, <3>2, <1>k, <1>z
    <2> QED BY Zenon, <2>2, <2>3, <1>1, <1>5, <1>8, <1>f, <1>z, SameFields
  <1>11. CASE Special(h, o) = b
    <2>1. plain /\ f.bits = b /\ f.dW = dW /\ f.dA = dA /\ f.dS = dS /\ (h.urg => f.urgp = h.urgp)
      BY Zenon, <1>1, <1>11, <1>f
    <2>2. r.urg = h.urg /\ r.urgp = h.urgp
      BY <2>1, <1>8, <1>7, <1>u, <1>b
    <2>3. r.wnd = h.wnd /\ r.ack = h.ack /\ r.seq = h.seq
      BY Zenon, <2>1, <1>8, <1>2, <1>3, <1>4, <1>7
    <2>4. z.urg = h.urg
      <3>1. ~ e
        BY Zenon, <1>1, <1>11
      <3> QED BY Zenon, <3>1, <1>b, <1>z
    <2> QED BY Zenon, <2>2, <2>3, <2>4, <1>1, <1>5, <1>8, <1>f, <1>z, SameFields
  <1> QED BY Zenon, <1>9, <1>10, <1>11, <1>s

-----------------------------------------------------------------------------
\* The slot of a conversation is one of the slots, before and after the list was changed.
LEMMA SlotForFacts ==
  ASSUME OrderInv, NEW h
  PROVE  SlotFor(h) \in Slots
  <1>1. MAX_SLOTS \in 1 .. MAX_SLOTS
    BY VjAssumption
  <1> QED BY Zenon, <1>1 DEF OrderInv, SlotFor

\* Moving a slot to the front of the list keeps every slot in it (vj_compress_tcp).
LEMMA MoveKeepsOrder ==
  ASSUME OrderInv, NEW s \in Slots, order' = MoveToFront(s)
  PROVE  OrderInv'
  <1> DEFINE at == CHOOSE k \in 1 .. MAX_SLOTS : order[k] = s
  <1>1. at \in 1 .. MAX_SLOTS /\ order[at] = s
    BY Zenon DEF OrderInv
  <1>2. order' = [k \in 1 .. MAX_SLOTS |-> IF k = 1 THEN s ELSE order[IF k <= at THEN k - 1 ELSE k]]
    BY Zenon DEF MoveToFront
  <1> HIDE DEF at
  <1>3. \A k \in 1 .. MAX_SLOTS : k # 1 => (IF k <= at THEN k - 1 ELSE k) \in 1 .. MAX_SLOTS
    BY <1>1, VjAssumption
  <1>4. order' \in [1 .. MAX_SLOTS -> Slots]
    BY <1>2, <1>3 DEF OrderInv
  <1>5. ASSUME NEW t \in Slots PROVE \E k \in 1 .. MAX_SLOTS : order'[k] = t
    <2>1. CASE t = s
      <3>1. 1 \in 1 .. MAX_SLOTS
        BY VjAssumption
      <3> QED BY Zenon, <2>1, <3>1, <1>2
    <2>2. CASE t # s
      <3>1. PICK k \in 1 .. MAX_SLOTS : order[k] = t
        BY Zenon DEF OrderInv
      <3>2. CASE k < at
        <4>1. k + 1 \in 1 .. MAX_SLOTS /\ k + 1 # 1 /\ k + 1 <= at /\ (k + 1) - 1 = k
          BY <1>1, <3>2, VjAssumption
        <4>2. order'[k + 1] = order[k]
          BY Zenon, <4>1, <1>2
        <4> QED BY Zenon, <4>1, <4>2, <3>1
      <3>3. CASE k > at
        <4>1. k # 1 /\ ~ (k <= at)
          BY <1>1, <3>3, VjAssumption
        <4>2. order'[k] = order[k]
          BY Zenon, <4>1, <1>2
        <4> QED BY Zenon, <4>2, <3>1
      <3> QED BY <1>1, <2>2, <3>1, <3>2, <3>3, VjAssumption
    <2> QED BY Zenon, <2>1, <2>2
  <1> QED BY Zenon, <1>4, <1>5 DEF OrderInv, Slots

\* What TCP sent last in a conversation is a header, and so is what it sends next.
LEMMA LastSentIsHeader ==
  ASSUME VjTypes, NEW c \in CONVS
  PROVE  LastSent(c) \in TcpHeader
  <1>1. CASE \E s \in Slots : tstate[s].conv = c
    BY Zenon, <1>1 DEF LastSent, VjTypes
  <1>2. CASE ~ \E s \in Slots : tstate[s].conv = c
    <2>1. LastSent(c) = [conv |-> c, other |-> 0, seq |-> 0, ack |-> 0, wnd |-> 0, urg |-> FALSE, urgp |-> 0,
                         id |-> 0, psh |-> FALSE, len |-> 0]
      BY Zenon, <1>2 DEF LastSent, Blank
    <2> QED BY <2>1, VjAssumption DEF TcpHeader, SeqSpace, WndSpace, IdSpace
  <1> QED BY Zenon, <1>1, <1>2

\* A slot number is not the value that stands for none.
LEMMA SlotFacts == NO_SLOT \notin Slots
  BY VjAssumption DEF NO_SLOT, Slots

\* A special code is used only for a segment without URG.
LEMMA SpecialNotUrgent ==
  ASSUME NEW h \in TcpHeader, NEW o \in TcpHeader, ~ NeedsFull(h, o),
         Special(h, o) \in {SPECIAL_I, SPECIAL_D}
  PROVE  ~ h.urg
  <1> DEFINE c == Changes(h, o)
             b == Bits(c)
  <1>1. c \in [U : BOOLEAN, W : BOOLEAN, A : BOOLEAN, S : BOOLEAN] /\ c.U = h.urg
    BY Zenon, HeaderFields DEF Changes
  <1>2. b = {"S", "A"} \/ b = {"S"}
    BY Zenon DEF NeedsFull, Special
  <1> HIDE DEF c
  <1>3. "U" \notin b
    BY <1>2
  <1> QED BY Zenon, <1>1, <1>3, BitsFacts

\* Compression puts a frame on the line that the receiver can apply.
LEMMA CompressStep ==
  ASSUME VjInv, vjWire = Idle, NEW h \in TcpHeader, vj_compress_tcp(h)
  PROVE  VjInv'
  <1>0. PICK w \in Slots : w = SlotFor(h)
    BY Zenon, SlotForFacts DEF VjInv
  <1> DEFINE o == tstate[w]
  <1>1. o \in TcpHeader /\ VjTypes /\ OrderInv /\ Rests
    BY Zenon DEF VjInv, VjTypes, Idle
  <1>2. /\ tstate' = [tstate EXCEPT ![w] = h] /\ order' = MoveToFront(w) /\ last_xmit' = w
        /\ UNCHANGED <<rstate, last_recv, toss, sync, restored>>
        /\ faded' = IF Fades(h, o, w) THEN faded \cup {w} ELSE faded \ {w}
        /\ vjWire' = [type |-> "frame", slot |-> w, sent |-> h,
                      f |-> IF NeedsFull(h, o) THEN [type |-> "uncompressed", slot |-> w, hdr |-> h]
                            ELSE CompressedFrame(h, o, w)]
    BY Zenon, <1>0 DEF vj_compress_tcp
  <1>3. OrderInv'
    BY Zenon, <1>1, <1>2, MoveKeepsOrder
  <1>f. Fades(h, o, w) => ~ h.urg
    BY Zenon, <1>1, SpecialNotUrgent DEF Fades
  <1>4. /\ VjTypes' /\ tstate'[w] = h /\ \A s \in Slots \ {w} : tstate'[s] = tstate[s]
    <2>1. tstate'[w] = h /\ \A s \in Slots \ {w} : tstate'[s] = tstate[s]
      BY Zenon, <1>1, <1>2 DEF VjTypes
    <2>2. faded' \subseteq Slots /\ \A s \in faded' : ~ tstate'[s].urg
      BY Zenon, <2>1, <1>1, <1>2, <1>f DEF VjTypes
    <2> QED BY Zenon, <2>1, <2>2, <1>1, <1>2 DEF VjTypes
  <1>5. \A s \in sync' \ {w} : rstate'[s] = Shown(tstate'[s], s \in faded')
    <2>1. \A s \in Slots \ {w} : (s \in faded') = (s \in faded)
      BY <1>2
    <2> SUFFICES ASSUME NEW s \in sync' \ {w} PROVE rstate'[s] = Shown(tstate'[s], s \in faded')
      OBVIOUS
    <2>2. s \in Slots \ {w} /\ s \in sync
      BY Zenon, <1>1, <1>2 DEF VjTypes
    <2>3. tstate'[s] = tstate[s] /\ (s \in faded') = (s \in faded)
      BY Zenon, <2>1, <2>2, <1>4
    <2>4. rstate'[s] = Shown(tstate[s], s \in faded)
      BY Zenon, <2>2, <1>1, <1>2 DEF Rests
    <2> QED BY Zenon, <2>3, <2>4
  <1>6. CASE NeedsFull(h, o)
    <2>1. /\ vjWire'.f = [type |-> "uncompressed", slot |-> w, hdr |-> tstate'[w]]
          /\ w \notin faded'
      BY Zenon, <1>2, <1>4, <1>6 DEF Fades
    <2>2. Carries(w)'
      BY Zenon, <2>1, <1>1, <1>2, <1>4, <1>5 DEF Carries
    <2> QED BY Zenon, <2>2, <1>2, <1>3, <1>4 DEF VjInv, HeadersRestored
  <1>7. CASE ~ NeedsFull(h, o)
    <2> DEFINE f == CompressedFrame(h, o, w)
    <2>1. vjWire'.f = f
      BY Zenon, <1>2, <1>7
    <2>2. /\ f.type = "compressed" /\ f.slot \in {w, NO_SLOT}
          /\ f.slot = NO_SLOT => last_xmit = w
      BY Zenon, <1>1, SlotFacts DEF CompressedFrame
    <2> DEFINE d == w \in faded
               e == Special(h, o) \in {SPECIAL_I, SPECIAL_D} /\ (o.urg \/ d)
    <2>3. Apply(f, Shown(o, d)) = Shown(h, e)
      <3>1. d \in BOOLEAN
        OBVIOUS
      <3> QED BY Zenon, <3>1, <1>1, <1>7, ApplyRestores
    <2>e. e = (w \in faded')
      BY <1>2, <1>7 DEF Fades
    <2> HIDE DEF f, e
    <2>4. w \in sync => Apply(f, rstate[w]) = Shown(h, w \in faded')
      BY Zenon, <2>3, <2>e, <1>1 DEF Rests
    <2>5. f.slot = NO_SLOT => toss \/ last_recv = w
      BY Zenon, <2>2, <1>1 DEF Rests
    <2>6. Carries(w)'
      <3>1. (w \in sync => Apply(vjWire'.f, rstate'[w]) = Shown(tstate'[w], w \in faded'))
        BY Zenon, <2>1, <2>4, <1>2, <1>4
      <3> QED BY Zenon, <3>1, <2>1, <2>2, <2>5, <1>1, <1>2, <1>4, <1>5 DEF Carries, Slots, NO_SLOT, Apply
    <2> QED BY Zenon, <2>6, <1>2, <1>3, <1>4 DEF VjInv, HeadersRestored
  <1> QED BY Zenon, <1>6, <1>7

\* The segments TCP sends next are headers.
LEMMA SendIsHeader ==
  ASSUME NEW o \in TcpHeader,
         NEW h, Complete(h), h.conv = o.conv, h.other \in {0, 1}, h.seq \in 0 .. SeqSpace - 1,
         h.ack \in 0 .. SeqSpace - 1, h.wnd \in 0 .. WndSpace - 1, h.urg \in BOOLEAN, h.urgp \in {0, 1},
         h.id \in 0 .. IdSpace - 1, h.psh \in BOOLEAN, h.len \in {0, 1}
  PROVE  h \in TcpHeader
  <1>1. o.conv \in CONVS \cup {"none"}
    BY Zenon, HeaderFields
  <1> QED BY Zenon, <1>1 DEF TcpHeader, Complete

\* A remainder is below its modulus.
LEMMA Wraps == ASSUME NEW n \in Nat, n > 0, NEW x \in Nat PROVE x % n \in 0 .. n - 1
  OBVIOUS

\* Compressing the next segment of any conversation keeps the invariant.
LEMMA VjSendStep ==
  ASSUME VjInv, vjWire = Idle, NEW c \in CONVS, VjSend(c)
  PROVE  VjInv'
  <1>1. PICK o \in TcpHeader : o = LastSent(c)
    BY Zenon, LastSentIsHeader DEF VjInv
  <1>2. PICK h : h = [o EXCEPT !.seq = (@ + 1) % SeqSpace, !.len = 1]
    BY Zenon
  <1>c. Complete(h)
    <2>1. /\ DOMAIN h = {"conv", "other", "seq", "ack", "wnd", "urg", "urgp", "id", "psh", "len"}
          /\ h = [k \in DOMAIN h |-> h[k]]
      BY Zenon, <1>2, HeaderComplete DEF Complete
    <2> QED BY ONLY Zenon, <2>1 DEF Complete
  <1>3. /\ h.conv = o.conv /\ h.other = o.other /\ h.seq = (o.seq + 1) % SeqSpace
        /\ h.ack = o.ack /\ h.wnd = o.wnd /\ h.urg = o.urg /\ h.urgp = o.urgp /\ h.id = o.id
        /\ h.psh = o.psh /\ h.len = 1
    BY <1>2, HeaderComplete DEF Complete
  <1>4. h.seq \in 0 .. SeqSpace - 1
    <2>1. o.seq + 1 \in Nat
      BY HeaderFields, Spaces
    <2> QED BY Zenon, <2>1, <1>3, Wraps, Spaces
  <1>5. h \in TcpHeader
    BY Zenon, <1>c, <1>3, <1>4, HeaderFields, SendIsHeader
  <1> QED BY Zenon, <1>1, <1>2, <1>5, CompressStep DEF VjSend

\* Compressing a segment with any changes keeps the invariant.
LEMMA VjSendAnyStep ==
  ASSUME VjInv, vjWire = Idle, NEW c \in CONVS, VjSendAny(c)
  PROVE  VjInv'
  <1>1. PICK o \in TcpHeader : o = LastSent(c)
    BY Zenon, LastSentIsHeader DEF VjInv
  <1>2. PICK dS \in {0, o.len, MAX_DELTA + 1}, dA \in {0, 1, MAX_DELTA + 1}, v \in 0 .. WndSpace - 1,
             u \in BOOLEAN, p \in {0, 1}, i \in {0, 1}, l \in {0, 1}, x \in {0, 1} :
          vj_compress_tcp(Segment(o, dS, dA, v, u, p, i, l, x))
    BY <1>1 DEF VjSendAny
  <1>3. PICK h : h = Segment(o, dS, dA, v, u, p, i, l, x)
    BY Zenon
  <1>4. /\ h.conv = o.conv /\ h.other = x /\ h.seq = (o.seq + dS) % SeqSpace
        /\ h.ack = (o.ack + dA) % SeqSpace /\ h.wnd = v /\ h.urg = u /\ h.urgp = p
        /\ h.id = (o.id + i) % IdSpace /\ h.psh = (l = 1) /\ h.len = l
    BY <1>3, HeaderComplete DEF Complete, Segment
  <1>5. Complete(h)
    <2>1. /\ DOMAIN h = {"conv", "other", "seq", "ack", "wnd", "urg", "urgp", "id", "psh", "len"}
          /\ h = [k \in DOMAIN h |-> h[k]]
      BY <1>3, HeaderComplete DEF Complete, Segment
    <2> QED BY ONLY Zenon, <2>1 DEF Complete
  <1>6. h.seq \in 0 .. SeqSpace - 1 /\ h.ack \in 0 .. SeqSpace - 1 /\ h.id \in 0 .. IdSpace - 1
    <2>1. o.seq + dS \in Nat /\ o.ack + dA \in Nat /\ o.id + i \in Nat
      BY HeaderFields, Spaces, VjAssumption
    <2> QED BY ONLY <2>1, <1>4, Wraps, Spaces
  <1>7. h \in TcpHeader
    <2>1. /\ h.other \in {0, 1} /\ h.wnd \in 0 .. WndSpace - 1 /\ h.urg \in BOOLEAN /\ h.urgp \in {0, 1}
          /\ h.psh \in BOOLEAN /\ h.len \in {0, 1} /\ h.conv = o.conv
      BY <1>4
    <2> QED BY ONLY Zenon, <2>1, <1>5, <1>6, SendIsHeader, o \in TcpHeader
  <1> QED BY Zenon, <1>2, <1>3, <1>7, CompressStep

\* A full header is stored as it is.
LEMMA UncompStep ==
  ASSUME VjInv, vj_uncompress_uncomp
  PROVE  VjInv'
  <1>1. PICK w \in Slots : /\ vjWire.slot = w /\ Carries(w) /\ VjTypes /\ OrderInv
    BY Zenon DEF VjInv, vj_uncompress_uncomp, Carries
  <1>2. /\ vjWire.f.slot = w /\ vjWire.f.hdr = tstate[w] /\ vjWire.sent = tstate[w] /\ last_xmit = w
        /\ w \notin faded
    BY <1>1 DEF Carries, vj_uncompress_uncomp
  <1>3. /\ rstate' = [rstate EXCEPT ![w] = tstate[w]] /\ last_recv' = w /\ toss' = FALSE
        /\ sync' = sync \cup {w} /\ vjWire' = Idle /\ UNCHANGED <<tstate, order, last_xmit, faded>>
        /\ restored' = [same |-> TRUE, rest |-> [tstate[w] EXCEPT !.urg = tstate[w].urg] = tstate[w],
                        sound |-> w \in sync', faded |-> w \in faded]
    BY Zenon, <1>1, <1>2 DEF vj_uncompress_uncomp, Made
  <1>4. VjTypes' /\ OrderInv'
    BY Zenon, <1>1, <1>3 DEF VjTypes, OrderInv
  <1>6. tstate[w] = Shown(tstate[w], w \in faded) /\ [tstate[w] EXCEPT !.urg = tstate[w].urg] = tstate[w]
    <2>1. tstate[w] \in TcpHeader /\ FALSE \in BOOLEAN /\ (w \in faded) = FALSE
      BY <1>1, <1>2 DEF VjTypes
    <2>2. Shown(tstate[w], FALSE) = tstate[w]
      BY Zenon, <2>1, ShownFacts
    <2> QED BY Zenon, <2>1, <2>2, ShownFacts
  <1>5. Rests'
    BY Zenon, <1>1, <1>2, <1>3, <1>6 DEF VjTypes, Carries, Rests
  <1>7. HeadersRestored'
    BY Zenon, <1>2, <1>3, <1>6 DEF HeadersRestored
  <1> QED BY Zenon, <1>3, <1>4, <1>5, <1>7 DEF VjInv, Idle

\* A compressed frame is applied to the slot the sender meant, or tossed.
LEMMA UncompressStep ==
  ASSUME VjInv, vj_uncompress_tcp
  PROVE  VjInv'
  <1>1. PICK w \in Slots : /\ vjWire.slot = w /\ Carries(w) /\ VjTypes /\ OrderInv
    BY Zenon DEF VjInv, vj_uncompress_tcp, Carries
  <1>2. /\ vjWire.f.slot \in {w, NO_SLOT} /\ vjWire.sent = tstate[w] /\ last_xmit = w
        /\ w \in sync => Apply(vjWire.f, rstate[w]) = Shown(tstate[w], w \in faded)
        /\ vjWire.f.slot = NO_SLOT => toss \/ last_recv = w
    BY <1>1 DEF Carries, vj_uncompress_tcp
  <1>3. vjWire' = Idle /\ UNCHANGED <<tstate, order, last_xmit, faded>>
    BY Zenon DEF vj_uncompress_tcp
  <1>4. CASE vjWire.f.slot = NO_SLOT /\ toss
    <2>1. sync' = sync \ {w} /\ UNCHANGED <<rstate, last_recv, toss, restored>>
      BY Zenon, <1>1, <1>4 DEF vj_uncompress_tcp
    <2>2. VjTypes' /\ OrderInv' /\ Rests'
      BY Zenon, <2>1, <1>1, <1>3, <1>4 DEF VjTypes, OrderInv, Rests, Carries
    <2> QED BY Zenon, <2>1, <2>2, <1>3 DEF VjInv, HeadersRestored, Idle
  <1>5. CASE ~ (vjWire.f.slot = NO_SLOT /\ toss)
    <2> DEFINE r == Apply(vjWire.f, rstate[w])
    <2>1. /\ last_recv' = w /\ toss' = FALSE /\ rstate' = [rstate EXCEPT ![w] = r] /\ sync' = sync
          /\ restored' = [same |-> r = tstate[w], rest |-> [r EXCEPT !.urg = tstate[w].urg] = tstate[w],
                          sound |-> w \in sync', faded |-> w \in faded]
      <3>1. (IF vjWire.f.slot # NO_SLOT THEN vjWire.f.slot ELSE last_recv) = w
        BY Zenon, <1>2, <1>5
      <3> QED BY Zenon, <3>1, <1>1, <1>2, <1>5 DEF vj_uncompress_tcp, Made
    <2> HIDE DEF r
    <2>2. w \in sync => r = Shown(tstate[w], w \in faded)
      BY Zenon, <1>2 DEF r
    <2>3. VjTypes' /\ OrderInv'
      BY Zenon, <2>1, <1>1, <1>3 DEF VjTypes, OrderInv
    <2>4. Rests'
      BY Zenon, <2>1, <2>2, <1>1, <1>2, <1>3 DEF VjTypes, Carries, Rests
    <2>5. HeadersRestored'
      <3> DEFINE d == w \in faded
                 h == tstate[w]
      <3>1. h \in TcpHeader /\ d \in BOOLEAN /\ (d => ~ h.urg)
        BY <1>1 DEF VjTypes
      <3> HIDE DEF h, d
      <3>s. [Shown(h, d) EXCEPT !.urg = h.urg] = h /\ (Shown(h, d) = h <=> ~ d)
        BY Zenon, <3>1, ShownFacts
      <3>2. w \in sync => [r EXCEPT !.urg = h.urg] = h /\ (r = h <=> ~ d)
        BY Zenon, <3>s, <2>2 DEF h, d
      <3>3. restored'.sound => w \in sync
        BY Zenon, <2>1
      <3>4. /\ restored'.rest = ([r EXCEPT !.urg = h.urg] = h) /\ restored'.same = (r = h)
            /\ restored'.faded = d
        BY Zenon, <2>1 DEF h, d
      <3> QED BY Zenon, <3>2, <3>3, <3>4 DEF HeadersRestored
    <2> QED BY Zenon, <2>3, <2>4, <2>5, <1>3 DEF VjInv, Idle
  <1> QED BY Zenon, <1>4, <1>5

\* A damaged frame makes the receiver toss.
LEMMA ErrStep ==
  ASSUME VjInv, vj_uncompress_err
  PROVE  VjInv'
  <1>1. PICK w \in Slots : /\ vjWire.slot = w /\ Carries(w) /\ VjTypes /\ OrderInv
    BY Zenon DEF VjInv, vj_uncompress_err, Carries
  <1>2. /\ vjWire' = Idle /\ toss' = TRUE /\ sync' = sync \ {w}
        /\ UNCHANGED <<tstate, order, last_xmit, rstate, last_recv, faded, restored>>
    BY Zenon, <1>1 DEF vj_uncompress_err
  <1>3. VjTypes' /\ OrderInv' /\ Rests'
    BY Zenon, <1>1, <1>2 DEF VjTypes, OrderInv, Rests, Carries
  <1> QED BY Zenon, <1>2, <1>3 DEF VjInv, HeadersRestored, Idle

\* Both ends begin with the same empty slots, of which none is in sync.
LEMMA VjInitInv == VjInit => VjInv
  <1> SUFFICES ASSUME VjInit PROVE VjInv
    BY Zenon
  <1> USE DEF VjInit, vj_compress_init
  <1>1. Blank \in TcpHeader
    BY VjAssumption DEF TcpHeader, Blank, SeqSpace, WndSpace, IdSpace
  <1>2. VjTypes
    BY Zenon, <1>1 DEF VjTypes
  <1>3. OrderInv
    <2>1. order \in [1 .. MAX_SLOTS -> Slots]
      BY VjAssumption DEF Slots
    <2>2. ASSUME NEW s \in Slots PROVE \E k \in 1 .. MAX_SLOTS : order[k] = s
      <3>1. MAX_SLOTS - s \in 1 .. MAX_SLOTS /\ MAX_SLOTS - (MAX_SLOTS - s) = s
        BY VjAssumption DEF Slots
      <3> QED BY Zenon, <3>1
    <2> QED BY Zenon, <2>1, <2>2 DEF OrderInv
  <1> QED BY Zenon, <1>2, <1>3 DEF VjInv, Rests, HeadersRestored, Idle

\* The invariant is inductive.
LEMMA VjNextInv == VjInv /\ [VjNext]_vjVars => VjInv'
  <1> SUFFICES ASSUME VjInv, [VjNext]_vjVars PROVE VjInv'
    BY Zenon
  <1>1. CASE vjWire = Idle /\ \E c \in CONVS : VjSend(c)
    BY Zenon, <1>1, VjSendStep
  <1>2. CASE vjWire = Idle /\ VjSendAny(CHOOSE c \in CONVS : TRUE)
    <2>1. (CHOOSE c \in CONVS : TRUE) \in CONVS
      BY Zenon, VjAssumption
    <2> QED BY Zenon, <1>2, <2>1, VjSendAnyStep
  <1>3. CASE UNCHANGED vjVars
    <2>1. /\ UNCHANGED <<tstate, order, last_xmit, rstate, last_recv, toss>>
          /\ UNCHANGED <<vjWire, sync, faded, restored>>
      BY Zenon, <1>3 DEF vjVars
    <2>2. VjTypes' /\ OrderInv' /\ HeadersRestored'
      BY Zenon, <2>1 DEF VjInv, VjTypes, OrderInv, HeadersRestored
    <2>3. CASE vjWire = Idle /\ Rests
      BY Zenon, <2>1, <2>2, <2>3 DEF VjInv, Rests, Idle
    <2>4. CASE vjWire.type = "frame" /\ Carries(vjWire.slot)
      <3>1. Carries(vjWire.slot)'
        BY <2>1, <2>4 DEF Carries, Apply, Slots, NO_SLOT
      <3> QED BY Zenon, <3>1, <2>1, <2>2, <2>4 DEF VjInv
    <2> QED BY Zenon, <2>3, <2>4 DEF VjInv
  <1> QED BY Zenon, <1>1, <1>2, <1>3, UncompStep, UncompressStep, ErrStep DEF VjNext

\* A segment comes out of vj_uncompress_tcp with the header it had before vj_compress_tcp,
\* unless a frame of its slot was lost since the last full header: for any conversations,
\* number of slots and range of differences, whichever frames the line damages.  Only an URG
\* flag cleared with its pointer unchanged and sent under a special code stays set.
THEOREM VjRestores == VjSpec => []HeadersRestored
  <1>1. VjInv => HeadersRestored
    BY Zenon DEF VjInv
  <1> QED BY <1>1, VjInitInv, VjNextInv, PTL DEF VjSpec

-----------------------------------------------------------------------------
(* MPPE on a line that loses and damages packets and does not overtake.     *)
(* The packets on the line are the last ones sent, so the n-th packet sent  *)
(* is known by its place; the receiver is behind by a gap, and the keys it  *)
(* has to derive are those of the gap.                                      *)

\* The constants of mppe.c, and losses fewer than the receiver can count: by packets in
\* stateless mode, by blocks in stateful mode.
CountReach == MPPE_CCOUNT_SPACE \div 2 - 1
BlockReach == MPPE_CCOUNT_SPACE \div MPPE_BLOCK - 2

MppeNumbers == MPPE_CCOUNT_SPACE = 4096 /\ MPPE_BLOCK = 256

MppeHypothesis ==
  /\ MppeNumbers /\ ~ MppeReorder
  /\ MaxMppeLost \in Nat /\ MaxMppeDamaged \in Nat /\ Stateful \subseteq BOOLEAN
  /\ MaxMppeLost + MaxMppeDamaged <= CountReach
  /\ TRUE \in Stateful => MaxMppeLost + MaxMppeDamaged <= BlockReach

\* The fields of a ppp_mppe_state.
State(rekeys, used, ccount, flushed, discard, errors) ==
  [rekeys |-> rekeys, used |-> used, ccount |-> ccount, flushed |-> flushed, discard |-> discard,
   sanity_errors |-> errors]

IsState(s) ==
  /\ s = State(s.rekeys, s.used, s.ccount, s.flushed, s.discard, s.sanity_errors)
  /\ s.rekeys \in Nat /\ s.used \in Nat /\ s.ccount \in Nat
  /\ s.flushed \in BOOLEAN /\ s.discard \in BOOLEAN

MppePacket == [ccount : Nat, flushed : BOOLEAN, encrypted : BOOLEAN, key : Nat \X Nat]

\* How many packets have left the line.
Gone == sent - Len(line)

\* The count of the n-th packet, and the blocks before it.
CountOf(n) == (n - 1) % MPPE_CCOUNT_SPACE
Block(n) == n \div MPPE_BLOCK

MppeTypes ==
  /\ stateful \in Stateful /\ IsState(comp) /\ IsState(decomp) /\ line \in Seq(MppePacket)
  /\ sent \in Nat /\ lost \in Nat /\ damaged \in Nat /\ flushMissed \in BOOLEAN /\ misread \in BOOLEAN
  /\ lost <= MaxMppeLost /\ damaged <= MaxMppeDamaged
  /\ Gone \in Nat
  /\ comp.ccount = CountOf(sent)

\* A packet is encrypted with the key after r derivations and u uses, or the next key.
Follows(r, u, m) == m.key = IF m.flushed THEN <<r + 1, 0>> ELSE <<r, u>>

\* The sender had that key before the i-th packet of the line.
Before(i, r, u) ==
  IF i <= Len(line) THEN Follows(r, u, line[i]) ELSE comp.rekeys = r /\ comp.used = u

LineInv ==
  \A i \in 1 .. Len(line) :
    /\ line[i].ccount = CountOf(Gone + i)
    /\ ~stateful \/ FlagPacket(line[i].ccount) => line[i].flushed
    /\ i # 1 => line[i].encrypted
    /\ Before(i + 1, line[i].key[1], line[i].key[2] + 1)

\* Whether the next packet is damaged.
HeadDamaged == IF line # <<>> /\ ~ line[1].encrypted THEN 1 ELSE 0

Allowance == lost + damaged - HeadDamaged

\* Stateless: a key for each packet; the receiver has that of packet d, the last it read.
StatelessAt(d, u) ==
  /\ ~ misread
  /\ d <= Gone /\ Gone - d <= Allowance
  /\ decomp.rekeys = d + 1 /\ decomp.ccount = CountOf(d)
  /\ Before(1, Gone + 1, u)

\* Stateful: a key for each block; the receiver has read packet d last.
StatefulAt(d, u) ==
  /\ ~ misread
  /\ d <= Gone
  /\ Before(1, decomp.rekeys + (Block(Gone) - Block(d)), u)
  /\ IF decomp.discard
     THEN decomp.ccount = CountOf(d + 1) /\ Block(Gone) - Block(d) <= Allowance + 1
     ELSE decomp.ccount = CountOf(d) /\ Gone - d <= Allowance /\ (Gone = d => u = decomp.used)
  /\ HeadDamaged = 1 => ~ ResetFlush(line[1])

\* The inductive invariant.
MppeInv ==
  /\ MppeTypes /\ LineInv
  /\ ~ stateful => \E d \in Nat, u \in Nat : StatelessAt(d, u)
  /\ stateful /\ ~ flushMissed => \E d \in Nat, u \in Nat : StatefulAt(d, u)

\* The updates of a state in the model.
WithCount(s, x) == [s EXCEPT !.ccount = x]
WithFlushed(s, y) == [s EXCEPT !.flushed = y]
WithDiscard(s, y) == [s EXCEPT !.discard = y]
WithRekeys(s, x) == [s EXCEPT !.rekeys = x]
HalfErrors(s) == [s EXCEPT !.sanity_errors = @ \div 2]
WithErrors(s, x) == [s EXCEPT !.sanity_errors = @ + x]
WithCountFlushed(s, x, y) == [s EXCEPT !.ccount = x, !.flushed = y]
WithDiscardCount(s, y, x) == [s EXCEPT !.discard = y, !.ccount = x]
WithRekeysCount(s, x, y) == [s EXCEPT !.rekeys = x, !.ccount = y]
CaughtUp(s, missed) == IF missed = 0 THEN s ELSE WithRekeys(mppe_rekey(s), s.rekeys + missed)

\* What they give.
LEMMA StateFields ==
  ASSUME NEW r, NEW u, NEW c, NEW f, NEW d, NEW e, NEW s, s = State(r, u, c, f, d, e)
  PROVE  /\ s.rekeys = r /\ s.used = u /\ s.ccount = c
         /\ s.flushed = f /\ s.discard = d /\ s.sanity_errors = e
  BY Zenon DEF State

\* mppe_rekey: one more derivation, and a key that was not used.
LEMMA RekeyOf ==
  ASSUME NEW r, NEW u, NEW c, NEW f, NEW d, NEW e, NEW s, s = State(r, u, c, f, d, e)
  PROVE  mppe_rekey(s) = State(r + 1, 0, c, f, d, e)
  <1>1. PICK k : k = mppe_rekey(s)
    BY Zenon
  <1>2. /\ k.rekeys = r + 1 /\ k.used = 0 /\ k.ccount = c
        /\ k.flushed = f /\ k.discard = d /\ k.sanity_errors = e
    BY Zenon, <1>1 DEF State, mppe_rekey
  <1>3. k = State(k.rekeys, k.used, k.ccount, k.flushed, k.discard, k.sanity_errors)
    BY Zenon, <1>1 DEF State, mppe_rekey
  <1> QED BY Zenon, <1>1, <1>2, <1>3

\* Encrypting or decrypting a packet uses the key once more.
LEMMA CryptOf ==
  ASSUME NEW r, NEW u, NEW c, NEW f, NEW d, NEW e, NEW s, s = State(r, u, c, f, d, e)
  PROVE  Crypt(s) = State(r, u + 1, c, f, d, e)
  BY DEF State, Crypt

\* Setting the count.
LEMMA CountSet ==
  ASSUME NEW r, NEW u, NEW c, NEW f, NEW d, NEW e, NEW s, s = State(r, u, c, f, d, e), NEW x
  PROVE  WithCount(s, x) = State(r, u, x, f, d, e)
  BY DEF State, WithCount

\* Setting the flushed mark.
LEMMA FlushedSet ==
  ASSUME NEW r, NEW u, NEW c, NEW f, NEW d, NEW e, NEW s, s = State(r, u, c, f, d, e), NEW y
  PROVE  WithFlushed(s, y) = State(r, u, c, y, d, e)
  BY DEF State, WithFlushed

\* Setting the discard mark.
LEMMA DiscardSet ==
  ASSUME NEW r, NEW u, NEW c, NEW f, NEW d, NEW e, NEW s, s = State(r, u, c, f, d, e), NEW y
  PROVE  WithDiscard(s, y) = State(r, u, c, f, y, e)
  BY DEF State, WithDiscard

\* Setting the number of derivations.
LEMMA RekeysSet ==
  ASSUME NEW r, NEW u, NEW c, NEW f, NEW d, NEW e, NEW s, s = State(r, u, c, f, d, e), NEW x
  PROVE  WithRekeys(s, x) = State(x, u, c, f, d, e)
  BY DEF State, WithRekeys

\* Forgiving half of the errors (mppe_decompress).
LEMMA ErrorsHalved ==
  ASSUME NEW r, NEW u, NEW c, NEW f, NEW d, NEW e, NEW s, s = State(r, u, c, f, d, e)
  PROVE  HalfErrors(s) = State(r, u, c, f, d, e \div 2)
  BY DEF State, HalfErrors

\* Counting errors.
LEMMA ErrorsAdded ==
  ASSUME NEW r, NEW u, NEW c, NEW f, NEW d, NEW e, NEW s, s = State(r, u, c, f, d, e), NEW x
  PROVE  WithErrors(s, x) = State(r, u, c, f, d, e + x)
  BY DEF State, WithErrors

\* Setting the count and the flushed mark.
LEMMA CountFlushedSet ==
  ASSUME NEW r, NEW u, NEW c, NEW f, NEW d, NEW e, NEW s, s = State(r, u, c, f, d, e), NEW x, NEW y
  PROVE  WithCountFlushed(s, x, y) = State(r, u, x, y, d, e)
  <1>1. PICK k : k = WithCountFlushed(s, x, y)
    BY Zenon
  <1>2. /\ k.rekeys = r /\ k.used = u /\ k.ccount = x
        /\ k.flushed = y /\ k.discard = d /\ k.sanity_errors = e
    BY Zenon, <1>1 DEF State, WithCountFlushed
  <1>3. k = State(k.rekeys, k.used, k.ccount, k.flushed, k.discard, k.sanity_errors)
    BY Zenon, <1>1 DEF State, WithCountFlushed
  <1> QED BY Zenon, <1>1, <1>2, <1>3

\* Setting the discard mark and the count.
LEMMA DiscardCountSet ==
  ASSUME NEW r, NEW u, NEW c, NEW f, NEW d, NEW e, NEW s, s = State(r, u, c, f, d, e), NEW x, NEW y
  PROVE  WithDiscardCount(s, y, x) = State(r, u, x, f, y, e)
  <1>1. PICK k : k = WithDiscardCount(s, y, x)
    BY Zenon
  <1>2. /\ k.rekeys = r /\ k.used = u /\ k.ccount = x
        /\ k.flushed = f /\ k.discard = y /\ k.sanity_errors = e
    BY Zenon, <1>1 DEF State, WithDiscardCount
  <1>3. k = State(k.rekeys, k.used, k.ccount, k.flushed, k.discard, k.sanity_errors)
    BY Zenon, <1>1 DEF State, WithDiscardCount
  <1> QED BY Zenon, <1>1, <1>2, <1>3

\* Setting the derivations and the count.
LEMMA RekeysCountSet ==
  ASSUME NEW r, NEW u, NEW c, NEW f, NEW d, NEW e, NEW s, s = State(r, u, c, f, d, e), NEW x, NEW y
  PROVE  WithRekeysCount(s, x, y) = State(x, u, y, f, d, e)
  <1>1. PICK k : k = WithRekeysCount(s, x, y)
    BY Zenon
  <1>2. /\ k.rekeys = x /\ k.used = u /\ k.ccount = y
        /\ k.flushed = f /\ k.discard = d /\ k.sanity_errors = e
    BY Zenon, <1>1 DEF State, WithRekeysCount
  <1>3. k = State(k.rekeys, k.used, k.ccount, k.flushed, k.discard, k.sanity_errors)
    BY Zenon, <1>1 DEF State, WithRekeysCount
  <1> QED BY Zenon, <1>1, <1>2, <1>3

\* A record with these fields is a state.
LEMMA StateIsState ==
  ASSUME NEW r \in Nat, NEW u \in Nat, NEW c \in Nat, NEW f \in BOOLEAN, NEW d \in BOOLEAN, NEW e,
         NEW s, s = State(r, u, c, f, d, e)
  PROVE  IsState(s)
  <1>1. /\ s.rekeys = r /\ s.used = u /\ s.ccount = c
        /\ s.flushed = f /\ s.discard = d /\ s.sanity_errors = e
    BY StateFields
  <1> QED BY Zenon, <1>1 DEF IsState

\* A receiver that starts to discard, and a sender told to flush, keep their keys.
LEMMA CountState ==
  ASSUME NEW s, IsState(s), NEW c \in Nat, NEW t, t = WithCount(s, c)
  PROVE  IsState(t) /\ t.rekeys = s.rekeys /\ t.ccount = c
  <1>1. t = State(s.rekeys, s.used, c, s.flushed, s.discard, s.sanity_errors)
    BY CountSet DEF IsState
  <1>2. s.rekeys \in Nat /\ s.used \in Nat /\ s.flushed \in BOOLEAN /\ s.discard \in BOOLEAN
    BY Zenon DEF IsState
  <1>3. IsState(t)
    BY Zenon, <1>1, <1>2, StateIsState
  <1>4. t.rekeys = s.rekeys /\ t.ccount = c
    BY <1>1, StateFields
  <1> QED BY Zenon, <1>3, <1>4

\* A state with another discard mark.
LEMMA DiscardState ==
  ASSUME NEW s, IsState(s), NEW yes \in BOOLEAN, NEW t, t = WithDiscard(s, yes)
  PROVE  IsState(t) /\ t.rekeys = s.rekeys /\ t.ccount = s.ccount /\ t.discard = yes
  <1>1. t = State(s.rekeys, s.used, s.ccount, s.flushed, yes, s.sanity_errors)
    BY DiscardSet DEF IsState
  <1>2. s.rekeys \in Nat /\ s.used \in Nat /\ s.ccount \in Nat /\ s.flushed \in BOOLEAN
    BY Zenon DEF IsState
  <1>3. IsState(t)
    BY Zenon, <1>1, <1>2, StateIsState
  <1>4. t.rekeys = s.rekeys /\ t.ccount = s.ccount /\ t.discard = yes
    BY <1>1, StateFields
  <1> QED BY Zenon, <1>3, <1>4

\* A state with another flushed mark.
LEMMA FlushedState ==
  ASSUME NEW s, IsState(s), NEW yes \in BOOLEAN, NEW t, t = WithFlushed(s, yes)
  PROVE  IsState(t) /\ t.rekeys = s.rekeys /\ t.used = s.used /\ t.ccount = s.ccount
  <1>3. t = State(s.rekeys, s.used, s.ccount, yes, s.discard, s.sanity_errors)
    BY FlushedSet DEF IsState
  <1>4. IsState(t)
    <2>1. s.rekeys \in Nat /\ s.used \in Nat /\ s.ccount \in Nat /\ s.discard \in BOOLEAN
      BY Zenon DEF IsState
    <2> QED BY Zenon, <1>3, <2>1, StateIsState
  <1>5. t.rekeys = s.rekeys /\ t.used = s.used /\ t.ccount = s.ccount
    BY <1>3, StateFields
  <1> QED BY Zenon, <1>4, <1>5

\* A receiver that catches up derives one key for each block it missed and one more.
LEMMA ResyncState ==
  ASSUME NEW s, IsState(s), NEW missed \in Nat, NEW c, NEW no
  PROVE  mppe_rekey(WithDiscardCount(CaughtUp(s, missed), no, c))
           = State(s.rekeys + missed + 1, 0, c, s.flushed, no, s.sanity_errors)
  <1>0. PICK t, caught : caught = CaughtUp(s, missed) /\ t = mppe_rekey(WithDiscardCount(caught, no, c))
    BY Zenon
  <1>1. PICK k : k = s.rekeys + missed
    BY Zenon
  <1>2. PICK w : caught = State(k, w, s.ccount, s.flushed, s.discard, s.sanity_errors)
    <2>1. s = State(s.rekeys, s.used, s.ccount, s.flushed, s.discard, s.sanity_errors) /\ s.rekeys \in Nat
      BY Zenon DEF IsState
    <2>2. CASE missed = 0
      <3>1. k = s.rekeys /\ caught = s
        BY <1>0, <1>1, <2>1, <2>2 DEF CaughtUp
      <3> QED BY Zenon, <2>1, <3>1
    <2>3. CASE missed # 0
      <3>1. PICK q : q = mppe_rekey(s)
        BY Zenon
      <3>2. q = State(s.rekeys + 1, 0, s.ccount, s.flushed, s.discard, s.sanity_errors)
        BY <2>1, <3>1, RekeyOf
      <3>3. caught = WithRekeys(q, k)
        BY Zenon, <1>0, <1>1, <2>3, <3>1 DEF CaughtUp
      <3>4. caught = State(k, 0, s.ccount, s.flushed, s.discard, s.sanity_errors)
        BY <3>2, <3>3, RekeysSet
      <3> QED BY Zenon, <3>4
    <2> QED BY Zenon, <2>2, <2>3
  <1>3. PICK q : q = WithDiscardCount(caught, no, c) /\ t = mppe_rekey(q)
    BY Zenon, <1>0
  <1>4. q = State(k, w, c, s.flushed, no, s.sanity_errors)
    BY <1>2, <1>3, DiscardCountSet
  <1>5. t = State(k + 1, 0, c, s.flushed, no, s.sanity_errors)
    BY <1>3, <1>4, RekeyOf
  <1> QED BY Zenon, <1>0, <1>1, <1>5

\* What Accept leaves behind.
LEMMA Accepted ==
  ASSUME NEW r, NEW u, NEW c, NEW f, NEW d, NEW e, NEW s, s = State(r, u, c, f, d, e), NEW m, Accept(s, m)
  PROVE  /\ decomp' = State(r, u + 1, c, f, d, e \div 2)
         /\ misread' = (misread \/ <<r, u>> # m.key)
  <1>1. PICK t : t = Crypt(s)
    BY Zenon
  <1>2. t = State(r, u + 1, c, f, d, e)
    BY <1>1, CryptOf
  <1>3. decomp' = HalfErrors(t)
    BY Zenon, <1>1 DEF Accept, HalfErrors
  <1>4. HalfErrors(t) = State(r, u + 1, c, f, d, e \div 2)
    BY <1>2, ErrorsHalved
  <1>5. s.rekeys = r /\ s.used = u
    BY Zenon DEF State
  <1> QED BY Zenon, <1>3, <1>4, <1>5 DEF Accept, Key

\* The fields of the receiver that accepted a packet.
LEMMA AcceptedFields ==
  ASSUME NEW r, NEW u, NEW c, NEW f, NEW d, NEW e, NEW s, s = State(r, u, c, f, d, e), NEW m, Accept(s, m)
  PROVE  decomp'.rekeys = r /\ decomp'.used = u + 1 /\ decomp'.ccount = c /\ decomp'.discard = d
  <1>1. decomp' = State(r, u + 1, c, f, d, e \div 2)
    BY Zenon, Accepted
  <1> QED BY <1>1, StateFields

\* Arithmetic of the counts.
LEMMA CountFacts ==
  ASSUME MppeHypothesis, NEW n \in Nat
  PROVE  /\ CountOf(n) \in Nat
         /\ NextCount(CountOf(n)) = CountOf(n + 1)
  BY DEF MppeHypothesis, MppeNumbers, CountOf, NextCount

\* Before the first packet the count is the last one, so that the first packet has count 0.
LEMMA FirstCount ==
  ASSUME MppeHypothesis
  PROVE  CountOf(0) = MPPE_CCOUNT_SPACE - 1 /\ MPPE_CCOUNT_SPACE - 1 \in Nat /\ Block(0) = 0
  <1>1. MPPE_CCOUNT_SPACE = 4096 /\ MPPE_BLOCK = 256
    BY DEF MppeHypothesis, MppeNumbers
  <1>2. PICK n \in Int : n = 0 - 1
    OBVIOUS
  <1>3. n % 4096 \in 0 .. 4095 /\ n \div 4096 \in Int /\ n = 4096 * (n \div 4096) + (n % 4096)
    OBVIOUS
  <1>4. n % 4096 = 4095
    BY <1>2, <1>3
  <1>5. 0 \div 256 = 0
    OBVIOUS
  <1> QED BY <1>1, <1>2, <1>4, <1>5 DEF CountOf, Block

\* What the receiver can tell apart with the numbers of mppe.c.
LEMMA Reaches ==
  ASSUME MppeHypothesis
  PROVE  CountReach \in Nat /\ BlockReach = 14
  BY DEF MppeHypothesis, MppeNumbers, CountReach, BlockReach

\* A flag packet starts a block.
LEMMA BlockFacts ==
  ASSUME MppeHypothesis, NEW n \in Nat
  PROVE  /\ Block(n) \in Nat
         /\ FlagPacket(CountOf(n + 1)) => Block(n + 1) = Block(n) + 1
         /\ ~ FlagPacket(CountOf(n + 1)) => Block(n + 1) = Block(n)
  <1>1. Block(n) = n \div 256 /\ Block(n + 1) = (n + 1) \div 256
    BY DEF MppeHypothesis, MppeNumbers, Block
  <1>2. CountOf(n + 1) = n % 4096
    BY DEF MppeHypothesis, MppeNumbers, CountOf
  <1>3. (n % 4096) % 256 = n % 256
    OBVIOUS
  <1>4. FlagPacket(CountOf(n + 1)) <=> n % 256 = 255
    BY <1>2, <1>3 DEF MppeHypothesis, MppeNumbers, FlagPacket
  <1>5. /\ n % 256 = 255 => (n + 1) \div 256 = n \div 256 + 1
        /\ n % 256 # 255 => (n + 1) \div 256 = n \div 256
    OBVIOUS
  <1>6. n \div 256 \in Nat
    OBVIOUS
  <1> QED BY <1>1, <1>4, <1>5, <1>6

\* Two packets are no more blocks apart than packets.
LEMMA BlocksApart ==
  ASSUME MppeHypothesis, NEW m \in Nat, NEW n \in Nat, n <= m
  PROVE  Block(m) - Block(n) \in Nat /\ Block(m) - Block(n) <= m - n
  <1>1. Block(m) = m \div 256 /\ Block(n) = n \div 256
    BY Zenon DEF MppeHypothesis, MppeNumbers, Block
  <1>2. m \div 256 - n \div 256 \in Nat /\ m \div 256 - n \div 256 <= m - n
    OBVIOUS
  <1> QED BY <1>1, <1>2

\* The keys to catch up on: one for each packet, or one for each block.
LEMMA PacketsMissed ==
  ASSUME MppeHypothesis, NEW g \in Nat, NEW d \in Nat, d <= g, g - d <= CountReach
  PROVE  /\ (CountOf(g + 1) - CountOf(d) + MPPE_CCOUNT_SPACE) % MPPE_CCOUNT_SPACE = g + 1 - d
         /\ ~ (Remainder(CountOf(g + 1) - CountOf(d), MPPE_CCOUNT_SPACE) > MPPE_CCOUNT_SPACE \div 2)
  <1>1. PICK a \in Int : a = g % 4096
    OBVIOUS
  <1>2. PICK b \in Int : b = (d - 1) % 4096
    OBVIOUS
  <1>3. PICK e \in Int : e = g + 1 - d
    OBVIOUS
  <1>4. 1 <= e /\ e <= 2048
    BY <1>3 DEF MppeHypothesis, MppeNumbers, CountReach
  <1>5. a - b = e \/ a - b = e - 4096
    BY <1>1, <1>2, <1>3, <1>4
  <1>6. (a - b + 4096) % 4096 = e /\ ~ (Remainder(a - b, 4096) > 2048)
    <2>1. PICK n \in Int : n = a - b
      OBVIOUS
    <2>2. (n + 4096) % 4096 = e
      BY <2>1, <1>4, <1>5
    <2>3. CASE n >= 0
      BY <1>4, <1>5, <2>1, <2>2, <2>3 DEF Remainder
    <2>4. CASE ~ (n >= 0)
      <3>1. PICK k \in Int : k = 0 - n
        OBVIOUS
      <3>2. k % 4096 >= 0
        BY <3>1
      <3> QED BY <2>1, <2>2, <2>4, <3>1, <3>2 DEF Remainder
    <2> QED BY <2>3, <2>4
  <1>7. CountOf(g + 1) = a /\ CountOf(d) = b
    BY <1>1, <1>2 DEF MppeHypothesis, MppeNumbers, CountOf
  <1>8. MPPE_CCOUNT_SPACE = 4096 /\ MPPE_CCOUNT_SPACE \div 2 = 2048
    BY DEF MppeHypothesis, MppeNumbers
  <1> QED BY <1>3, <1>6, <1>7, <1>8

\* The key of the next packet, counted from the receiver's.
LEMMA KeyBase ==
  ASSUME MppeHypothesis, NEW rk \in Nat, NEW g \in Nat, NEW d \in Nat, d <= g
  PROVE  /\ rk + (Block(g) - Block(d)) \in Nat
         /\ Block(g) \in Nat /\ Block(d) \in Nat
  <1>1. Block(g) - Block(d) \in Nat
    BY Zenon, BlocksApart
  <1> QED BY <1>1, BlockFacts

\* The difference of the counts' blocks is the number of blocks between the packets.
LEMMA BlocksMissed ==
  ASSUME MppeHypothesis, NEW g \in Nat, NEW d \in Nat, d <= g, Block(g) - Block(d) <= 15,
         NEW blocks, blocks = MPPE_CCOUNT_SPACE \div MPPE_BLOCK
  PROVE  (CountOf(g + 1) \div MPPE_BLOCK - CountOf(d + 1) \div MPPE_BLOCK + blocks) % blocks
           = Block(g) - Block(d)
  <1>1. /\ CountOf(g + 1) \div MPPE_BLOCK = (g % 4096) \div 256
        /\ CountOf(d + 1) \div MPPE_BLOCK = (d % 4096) \div 256
        /\ blocks = 16
        /\ Block(g) = g \div 256 /\ Block(d) = d \div 256
    BY DEF MppeHypothesis, MppeNumbers, CountOf, Block
  <1>2. (g % 4096) \div 256 = (g \div 256) % 16
    OBVIOUS
  <1>3. (d % 4096) \div 256 = (d \div 256) % 16
    OBVIOUS
  <1>4. PICK x \in Nat : x = g \div 256
    OBVIOUS
  <1>5. PICK y \in Nat : y = d \div 256
    OBVIOUS
  <1>6. x - y \in Nat /\ x - y <= 15
    BY <1>1, <1>4, <1>5, BlocksApart
  <1>7. ((x % 16) - (y % 16) + 16) % 16 = x - y
    BY ONLY <1>6, x \in Nat, y \in Nat
  <1>8. CountOf(g + 1) \div MPPE_BLOCK = x % 16 /\ CountOf(d + 1) \div MPPE_BLOCK = y % 16
    BY <1>1, <1>2, <1>3, <1>4, <1>5
  <1>9. Block(g) - Block(d) = x - y /\ blocks = 16
    BY <1>1, <1>4, <1>5
  <1> QED BY Zenon, <1>7, <1>8, <1>9

\* Within reach, a packet with the count that is due is the packet that is due.
LEMMA InTurnByCount ==
  ASSUME MppeHypothesis, NEW g \in Nat, NEW d \in Nat, d <= g, g - d <= BlockReach,
         CountOf(g + 1) = CountOf(d + 1)
  PROVE  g = d
  <1>1. g % 4096 = d % 4096
    BY DEF MppeHypothesis, MppeNumbers, CountOf
  <1>2. g - d <= 14
    BY Zenon, Reaches
  <1> QED BY <1>1, <1>2

\* The bounds of the hypothesis.
LEMMA LossBounds ==
  ASSUME MppeHypothesis, MppeTypes
  PROVE  /\ HeadDamaged \in {0, 1} /\ Allowance \in Int /\ Allowance = lost + damaged - HeadDamaged
         /\ Allowance <= CountReach
         /\ stateful => Allowance <= BlockReach
         /\ stateful \in BOOLEAN
  <1>1. HeadDamaged \in {0, 1}
    BY Zenon DEF HeadDamaged
  <1>2. /\ lost \in Nat /\ damaged \in Nat /\ MaxMppeLost \in Nat /\ MaxMppeDamaged \in Nat
        /\ lost <= MaxMppeLost /\ damaged <= MaxMppeDamaged
    BY Zenon DEF MppeTypes, MppeHypothesis
  <1>3. /\ MaxMppeLost + MaxMppeDamaged <= CountReach
        /\ stateful => MaxMppeLost + MaxMppeDamaged <= BlockReach
    <2>1. stateful => TRUE \in Stateful
      BY Zenon DEF MppeTypes, MppeHypothesis
    <2> QED BY Zenon, <2>1 DEF MppeHypothesis
  <1>4. stateful \in BOOLEAN
    BY Zenon DEF MppeTypes, MppeHypothesis
  <1> QED BY <1>1, <1>2, <1>3, <1>4, Reaches DEF Allowance

\* Taking the first packet off the line (mppe_decompress, Lose).
LEMMA HeadTaken ==
  ASSUME MppeTypes, NEW i \in 1 .. Len(line), i = 1,
         line' = SubSeq(line, 1, i - 1) \o SubSeq(line, i + 1, Len(line))
  PROVE  line' = Tail(line) /\ line # <<>>
  BY DEF MppeTypes

\* Taking the first packet off the line keeps what is known of the others.
LEMMA LineShrinks ==
  ASSUME MppeTypes, LineInv, line # <<>>, line' = Tail(line), UNCHANGED <<stateful, comp, sent>>
  PROVE  /\ Gone' = Gone + 1
         /\ line' \in Seq(MppePacket)
         /\ LineInv'
         /\ HeadDamaged' = 0
         /\ \A r, u : Before(2, r, u) => Before(1, r, u)'
  <1>1. /\ Len(line) \in Nat \ {0} /\ Len(line') = Len(line) - 1 /\ line' \in Seq(MppePacket)
        /\ \A i \in 1 .. Len(line') : line'[i] = line[i + 1]
        /\ sent \in Nat /\ sent' = sent /\ comp' = comp /\ stateful' = stateful
    BY DEF MppeTypes
  <1>2. Gone' = Gone + 1
    BY <1>1 DEF Gone
  <1>3. ASSUME NEW i \in Nat, i >= 1, NEW r, NEW u, Before(i + 1, r, u)
        PROVE  Before(i, r, u)'
    BY <1>1, <1>3 DEF Before, Follows
  <1>4. LineInv'
    <2> SUFFICES ASSUME NEW i \in 1 .. Len(line')
                 PROVE  /\ line'[i].ccount = CountOf(Gone' + i)
                        /\ ~stateful' \/ FlagPacket(line'[i].ccount) => line'[i].flushed
                        /\ i # 1 => line'[i].encrypted
                        /\ Before(i + 1, line[i].key[1], line[i].key[2] + 1)'
      BY Zenon DEF LineInv
    <2>1. i + 1 \in 1 .. Len(line) /\ line'[i] = line[i + 1] /\ Gone' + i = Gone + (i + 1)
      BY <1>1, <1>2 DEF Gone
    <2>2. PICK r, u : r = line'[i].key[1] /\ u = line'[i].key[2] + 1
      BY Zenon
    <2>3. Before(i + 1 + 1, r, u)
      BY Zenon, <2>1, <2>2 DEF LineInv
    <2>4. Before(i + 1, r, u)'
      BY <1>3, <2>3
    <2>5. Before(i + 1, line[i].key[1], line[i].key[2] + 1)'
      BY Zenon, <2>2, <2>4 DEF Before
    <2> QED BY <2>1, <2>5, <1>1 DEF LineInv
  <1>5. HeadDamaged' = 0
    <2>1. CASE line' = <<>>
      BY Zenon, <2>1 DEF HeadDamaged
    <2>2. CASE line' # <<>>
      <3>1. 1 \in 1 .. Len(line') /\ 2 \in 1 .. Len(line)
        BY <1>1, <2>2
      <3>2. line'[1].encrypted
        BY <1>1, <3>1 DEF LineInv
      <3> QED BY Zenon, <3>2 DEF HeadDamaged
    <2> QED BY Zenon, <2>1, <2>2
  <1>6. ASSUME NEW r, NEW u, Before(2, r, u)
        PROVE  Before(1, r, u)'
    <2>1. Before(1 + 1, r, u)
      BY <1>6
    <2> QED BY <1>3, <2>1
  <1> QED BY Zenon, <1>1, <1>2, <1>4, <1>5, <1>6

\* What is known of the first packet.
LEMMA HeadFacts ==
  ASSUME MppeTypes, LineInv, line # <<>>
  PROVE  /\ line[1] \in MppePacket
         /\ line[1].key = <<line[1].key[1], line[1].key[2]>>
         /\ line[1].key[1] \in Nat /\ line[1].key[2] \in Nat
         /\ line[1].ccount = CountOf(Gone + 1)
         /\ ~stateful \/ FlagPacket(line[1].ccount) => line[1].flushed
         /\ Before(2, line[1].key[1], line[1].key[2] + 1)
         /\ \A r, u : Before(1, r, u) <=> Follows(r, u, line[1])
         /\ HeadDamaged = IF line[1].encrypted THEN 0 ELSE 1
  <1>1. 1 \in 1 .. Len(line) /\ line[1] \in MppePacket
    BY DEF MppeTypes
  <1>2. line[1].key \in Nat \X Nat
    BY Zenon, <1>1 DEF MppePacket
  <1>3. /\ line[1].key = <<line[1].key[1], line[1].key[2]>>
        /\ line[1].key[1] \in Nat /\ line[1].key[2] \in Nat
    BY <1>2
  <1>4. Before(1 + 1, line[1].key[1], line[1].key[2] + 1)
    BY Zenon, <1>1 DEF LineInv
  <1> QED BY <1>1, <1>3, <1>4 DEF LineInv, Before, HeadDamaged

\* A packet that is not read: the key before the next one is a block further if the packet
\* ended a block, and it was not flushed for another reason.
LEMMA PassedOver ==
  ASSUME MppeHypothesis, MppeTypes, LineInv, line # <<>>, line' = Tail(line),
         UNCHANGED <<stateful, comp, sent>>, stateful, ~ ResetFlush(line[1]),
         NEW g \in Nat, g = Gone, NEW rk \in Nat, NEW d \in Nat, NEW u \in Nat, d <= g,
         Before(1, rk + (Block(g) - Block(d)), u)
  PROVE  \E v \in Nat : Before(1, rk + (Block(g + 1) - Block(d)), v)'
  <1> DEFINE m == line[1]
  <1>1. Block(g) - Block(d) \in Nat /\ Block(g + 1) - Block(d) \in Nat
    <2>1. g + 1 \in Nat /\ d <= g + 1
      OBVIOUS
    <2> QED BY Zenon, <2>1, BlocksApart
  <1>2. PICK b \in Nat : b = rk + (Block(g) - Block(d))
    BY <1>1
  <1>3. PICK c \in Nat : c = rk + (Block(g + 1) - Block(d))
    BY <1>1
  <1>4. c = b + (IF FlagPacket(CountOf(g + 1)) THEN 1 ELSE 0)
    <2>1. /\ FlagPacket(CountOf(g + 1)) => Block(g + 1) = Block(g) + 1
          /\ ~ FlagPacket(CountOf(g + 1)) => Block(g + 1) = Block(g)
          /\ Block(g) \in Nat /\ Block(d) \in Nat
      BY Zenon, BlockFacts
    <2>2. CASE FlagPacket(CountOf(g + 1))
      BY SMTT(20), <1>2, <1>3, <2>1, <2>2
    <2>3. CASE ~ FlagPacket(CountOf(g + 1))
      BY <1>2, <1>3, <2>1, <2>3
    <2> QED BY Zenon, <2>2, <2>3
  <1>5. m.flushed <=> FlagPacket(CountOf(g + 1))
    BY Zenon, HeadFacts DEF ResetFlush, MppePacket
  <1>6. Follows(b, u, m)
    BY Zenon, <1>2, HeadFacts
  <1>7. PICK v \in Nat : v = m.key[2] + 1
    BY HeadFacts
  <1>8. m.key[1] = c
    BY <1>4, <1>5, <1>6, HeadFacts DEF Follows
  <1>9. Before(2, c, v)
    BY Zenon, <1>7, <1>8, HeadFacts
  <1>10. Before(1, c, v)'
    BY Zenon, <1>9, LineShrinks
  <1> QED BY Zenon, <1>3, <1>10

\* The place in the key sequence after a step, from its parts.
LEMMA StatelessPlace ==
  ASSUME NEW d \in Nat, NEW u \in Nat, NEW g \in Nat, NEW al \in Int, Gone' = g, Allowance' = al,
         ~ misread', d <= g, g - d <= al, decomp'.rekeys = d + 1, decomp'.ccount = CountOf(d),
         Before(1, g + 1, u)'
  PROVE  StatelessAt(d, u)'
  <1>1. Before(1, Gone + 1, u)'
    BY Zenon DEF Before
  <1> QED BY Zenon, <1>1 DEF StatelessAt

\* The place of a receiver in stateful mode after a step, from its parts.
LEMMA StatefulPlace ==
  ASSUME NEW d \in Nat, NEW u \in Nat, NEW g \in Nat, NEW al \in Int, NEW b \in Nat,
         Gone' = g, Allowance' = al,
         ~ misread', d <= g, b = decomp'.rekeys + (Block(g) - Block(d)), Before(1, b, u)',
         IF decomp'.discard
         THEN decomp'.ccount = CountOf(d + 1) /\ Block(g) - Block(d) <= al + 1
         ELSE decomp'.ccount = CountOf(d) /\ g - d <= al /\ (g = d => u = decomp'.used),
         HeadDamaged' = 1 => ~ ResetFlush(line'[1])
  PROVE  StatefulAt(d, u)'
  <1>1. Before(1, decomp.rekeys + (Block(Gone) - Block(d)), u)'
    BY Zenon DEF Before
  <1> QED BY Zenon, <1>1 DEF StatefulAt

\* Losses of CCP packets, the rack timer and resets leave keys and counts alone.
LEMMA MppeResetStep ==
  ASSUME MppeHypothesis, MppeInv, IsState(comp'),
         comp'.rekeys = comp.rekeys, comp'.used = comp.used, comp'.ccount = comp.ccount,
         UNCHANGED <<stateful, decomp, line, sent, damaged, flushMissed, misread>>,
         lost' \in {lost, lost + 1}, lost' <= MaxMppeLost
  PROVE  MppeInv'
  <1>1. MppeTypes'
    BY DEF MppeInv, MppeTypes, Gone
  <1>2. /\ Gone' = Gone /\ HeadDamaged' = HeadDamaged
        /\ \A i, r, u : Before(i, r, u) => Before(i, r, u)'
    BY Zenon DEF Gone, HeadDamaged, Before
  <1>3. LineInv'
    <2> SUFFICES ASSUME NEW i \in 1 .. Len(line)
                 PROVE  Before(i + 1, line[i].key[1], line[i].key[2] + 1)'
      BY Zenon, <1>2 DEF MppeInv, LineInv
    <2> QED BY Zenon DEF MppeInv, LineInv, Before
  <1>4. PICK g \in Nat, al \in Int, bl \in Int :
          /\ g = Gone /\ g = Gone' /\ bl = Allowance /\ al = Allowance' /\ al >= bl
          /\ Block(g) \in Nat
    <2>1. Gone \in Nat /\ MppeTypes
      BY Zenon DEF MppeInv, MppeTypes
    <2>2. Block(Gone) \in Nat
      BY Zenon, <2>1, BlockFacts
    <2>3. Allowance \in Int /\ Allowance' \in Int /\ Allowance' >= Allowance
      BY <1>2, <2>1, LossBounds DEF MppeTypes, Allowance
    <2> QED BY Zenon, <1>2, <2>1, <2>2, <2>3
  <1>5. ASSUME ~ stateful
        PROVE  \E d \in Nat, u \in Nat : StatelessAt(d, u)'
    <2>1. PICK d \in Nat, u \in Nat : StatelessAt(d, u)
      BY Zenon, <1>5 DEF MppeInv
    <2>2. Before(1, g + 1, u)'
      BY Zenon, <1>2, <1>4, <2>1 DEF StatelessAt
    <2>3. d <= g /\ g - d <= al
      <3>1. d <= g /\ g - d <= bl /\ bl <= al
        BY Zenon, <1>4, <2>1 DEF StatelessAt
      <3> QED BY <3>1
    <2>4. StatelessAt(d, u)'
      BY Zenon, <1>4, <2>1, <2>2, <2>3, StatelessPlace DEF StatelessAt
    <2> QED BY Zenon, <2>4
  <1>6. ASSUME stateful, ~ flushMissed
        PROVE  \E d \in Nat, u \in Nat : StatefulAt(d, u)'
    <2>1. PICK d \in Nat, u \in Nat : StatefulAt(d, u)
      BY Zenon, <1>6 DEF MppeInv
    <2>2. PICK b \in Nat : b = decomp.rekeys + (Block(g) - Block(d))
      <3>1. decomp.rekeys \in Nat /\ d <= g
        BY Zenon, <1>4, <2>1 DEF StatefulAt, MppeInv, MppeTypes, IsState
      <3> QED BY Zenon, <3>1, KeyBase
    <2>3. Before(1, b, u)'
      BY Zenon, <1>2, <1>4, <2>1, <2>2 DEF StatefulAt
    <2>4. Block(d) \in Nat
      BY Zenon, BlockFacts
    <2>5. StatefulAt(d, u)'
      BY <1>2, <1>4, <2>1, <2>2, <2>3, <2>4, StatefulPlace DEF StatefulAt
    <2> QED BY Zenon, <2>5
  <1> QED BY Zenon, <1>1, <1>3, <1>5, <1>6 DEF MppeInv

\* mppe_compress appends the next packet, with the key that follows.
LEMMA MppeSendStep ==
  ASSUME MppeHypothesis, MppeInv, mppe_compress
  PROVE  MppeInv'
  <1> DEFINE c == NextCount(comp.ccount)
             flush == ~stateful \/ FlagPacket(c) \/ comp.flushed
             m == [ccount |-> c, flushed |-> flush, encrypted |-> TRUE,
                   key |-> IF flush THEN <<comp.rekeys + 1, 0>> ELSE <<comp.rekeys, comp.used>>]
  <1>1. /\ comp.rekeys \in Nat /\ comp.used \in Nat /\ comp.ccount \in Nat /\ comp.flushed \in BOOLEAN
        /\ comp = State(comp.rekeys, comp.used, comp.ccount, comp.flushed, comp.discard,
                        comp.sanity_errors)
        /\ comp.discard \in BOOLEAN
        /\ line \in Seq(MppePacket) /\ sent \in Nat /\ Gone \in Nat /\ comp.ccount = CountOf(sent)
    BY Zenon DEF MppeInv, MppeTypes, IsState
  <1>2. flush \in BOOLEAN /\ c = CountOf(sent + 1) /\ c \in Nat
    <2>1. NextCount(CountOf(sent)) = CountOf(sent + 1) /\ CountOf(sent + 1) \in Nat
      <3>1. sent \in Nat /\ sent + 1 \in Nat
        BY <1>1
      <3> QED BY Zenon, <3>1, CountFacts
    <2>2. flush \in BOOLEAN
      BY Zenon
    <2>3. c = CountOf(sent + 1)
      BY Zenon, <1>1, <2>1
    <2> QED BY Zenon, <2>1, <2>2, <2>3
  <1>3. /\ line' = Append(line, m) /\ sent' = sent + 1 /\ IsState(comp')
        /\ comp'.rekeys = m.key[1] /\ comp'.used = m.key[2] + 1 /\ comp'.ccount = c
        /\ UNCHANGED <<stateful, decomp, lost, damaged, flushMissed, misread>>
    <2>1. PICK R : R = IF flush THEN mppe_rekey(comp) ELSE comp
      BY Zenon
    <2>2. /\ line' = Append(line, [ccount |-> c, flushed |-> flush, encrypted |-> TRUE, key |-> Key(R)])
          /\ comp' = WithCountFlushed(Crypt(R), c, FALSE)
          /\ sent' = sent + 1 /\ UNCHANGED <<stateful, decomp, lost, damaged, flushMissed, misread>>
      BY Zenon, <2>1 DEF mppe_compress, WithCountFlushed
    <2>3. /\ R = State(R.rekeys, R.used, comp.ccount, comp.flushed, comp.discard, comp.sanity_errors)
          /\ R.rekeys = (IF flush THEN comp.rekeys + 1 ELSE comp.rekeys)
          /\ R.used = (IF flush THEN 0 ELSE comp.used)
      <3> HIDE DEF flush
      <3>1. CASE flush
        <4>1. R = State(comp.rekeys + 1, 0, comp.ccount, comp.flushed, comp.discard, comp.sanity_errors)
          BY <1>1, <2>1, <3>1, RekeyOf
        <4> QED BY <3>1, <4>1, StateFields
      <3>2. CASE ~ flush
        BY Zenon, <1>1, <2>1, <3>2
      <3> QED BY Zenon, <3>1, <3>2
    <2>4. Key(R) = m.key
      BY Zenon, <2>3 DEF Key
    <2>5. m = [ccount |-> c, flushed |-> flush, encrypted |-> TRUE, key |-> Key(R)]
      BY Zenon, <2>4
    <2>6. m.key[1] = R.rekeys /\ m.key[2] = R.used
      BY Zenon, <2>4 DEF Key
    <2>7. R.rekeys \in Nat /\ R.used \in Nat
      BY <1>1, <2>3
    <2>y. PICK no \in BOOLEAN : no = FALSE
      BY Zenon
    <2>8. comp' = State(R.rekeys, R.used + 1, c, no, comp.discard, comp.sanity_errors)
      <3> HIDE DEF c
      <3>1. PICK C : C = Crypt(R)
        BY Zenon
      <3>2. C = State(R.rekeys, R.used + 1, comp.ccount, comp.flushed, comp.discard, comp.sanity_errors)
        BY <2>3, <3>1, CryptOf
      <3>3. comp' = WithCountFlushed(C, c, no)
        BY Zenon, <2>2, <2>y, <3>1
      <3> QED BY <3>2, <3>3, CountFlushedSet
    <2>9. IsState(comp')
      <3> HIDE DEF c
      <3>1. R.used + 1 \in Nat
        BY <2>7
      <3> QED BY Zenon, <1>1, <1>2, <2>7, <2>y, <2>8, <3>1, StateIsState
    <2>10. comp'.rekeys = R.rekeys /\ comp'.used = R.used + 1 /\ comp'.ccount = c
      <3> HIDE DEF c
      <3> QED BY <2>8, StateFields
    <2> QED BY Zenon, <2>2, <2>5, <2>6, <2>9, <2>10
  <1>4. m \in MppePacket
    BY <1>1, <1>2 DEF MppePacket
  <1>5. PICK p \in MppePacket : p = m
    BY Zenon, <1>4
  <1>6. /\ p.ccount = CountOf(sent + 1) /\ (~stateful \/ FlagPacket(p.ccount) => p.flushed)
        /\ p.encrypted /\ Follows(comp.rekeys, comp.used, p)
        /\ comp'.rekeys = p.key[1] /\ comp'.used = p.key[2] + 1 /\ comp'.ccount = CountOf(sent + 1)
        /\ line' = Append(line, p)
    BY Zenon, <1>2, <1>3, <1>5 DEF Follows
  <1> HIDE DEF m, flush, c
  <1>7. /\ line' \in Seq(MppePacket) /\ Len(line') = Len(line) + 1 /\ Len(line) \in Nat
        /\ \A i \in 1 .. Len(line) : line'[i] = line[i]
        /\ line'[Len(line) + 1] = p /\ line' # <<>>
    BY <1>1, <1>5, <1>6
  <1>8. Gone' = Gone
    BY <1>1, <1>3, <1>7 DEF Gone
  <1>9. MppeTypes'
    BY <1>1, <1>3, <1>6, <1>7, <1>8 DEF MppeInv, MppeTypes
  <1>10. ASSUME NEW i \in Nat, 1 <= i, i <= Len(line) + 1, NEW r, NEW u, Before(i, r, u)
         PROVE  Before(i, r, u)'
    <2>1. CASE i <= Len(line)
      BY <1>7, <1>10, <2>1 DEF Before, Follows
    <2>2. CASE i = Len(line) + 1
      <3>1. ~ (i <= Len(line)) /\ i <= Len(line') /\ line'[i] = p
        BY <1>7, <2>2
      <3>2. comp.rekeys = r /\ comp.used = u
        BY Zenon, <1>10, <3>1 DEF Before
      <3>3. Follows(r, u, p)
        BY Zenon, <1>6, <3>2
      <3> QED BY Zenon, <3>1, <3>3 DEF Before, Follows
    <2> QED BY <2>1, <2>2, <1>7, <1>10
  <1>11. LineInv'
    <2> SUFFICES ASSUME NEW i \in 1 .. Len(line')
                 PROVE  /\ line'[i].ccount = CountOf(Gone' + i)
                        /\ ~stateful' \/ FlagPacket(line'[i].ccount) => line'[i].flushed
                        /\ i # 1 => line'[i].encrypted
                        /\ Before(i + 1, line[i].key[1], line[i].key[2] + 1)'
      BY Zenon DEF LineInv
    <2>1. CASE i \in 1 .. Len(line)
      <3>1. line'[i] = line[i]
        BY Zenon, <1>7, <2>1
      <3>2. PICK r, u : r = line[i].key[1] /\ u = line[i].key[2] + 1
        BY Zenon
      <3>3. Before(i + 1, r, u)
        BY Zenon, <2>1, <3>2 DEF MppeInv, LineInv
      <3>4. Before(i + 1, r, u)'
        BY <1>10, <2>1, <3>3, <1>7
      <3>5. Before(i + 1, line[i].key[1], line[i].key[2] + 1)'
        BY Zenon, <3>1, <3>2, <3>4 DEF Before
      <3> QED BY Zenon, <1>3, <1>8, <2>1, <3>1, <3>5 DEF MppeInv, LineInv
    <2>2. CASE i = Len(line) + 1
      <3>1. Gone' + i = sent + 1
        BY <1>1, <1>7, <1>8, <2>2 DEF Gone
      <3>2. ~ (i + 1 <= Len(line'))
        BY <1>7, <2>2
      <3>3. Before(i + 1, line[i].key[1], line[i].key[2] + 1)'
        BY Zenon, <1>6, <1>7, <2>2, <3>2 DEF Before
      <3> QED BY Zenon, <1>3, <1>6, <1>7, <2>2, <3>1, <3>3
    <2> QED BY <2>1, <2>2, <1>7
  <1>12. HeadDamaged' = HeadDamaged /\ (HeadDamaged = 1 => line'[1] = line[1])
    <2>1. CASE line = <<>>
      BY <2>1, <1>6, <1>7 DEF HeadDamaged
    <2>2. CASE line # <<>>
      <3>1. 1 \in 1 .. Len(line)
        BY <1>1, <2>2
      <3> QED BY Zenon, <2>2, <3>1, <1>7 DEF HeadDamaged
    <2> QED BY Zenon, <2>1, <2>2
  <1>13. PICK g \in Nat, al \in Int :
           g = Gone /\ g = Gone' /\ al = Allowance /\ al = Allowance' /\ Block(g) \in Nat
    BY Zenon, <1>1, <1>3, <1>8, <1>12, LossBounds, BlockFacts DEF MppeInv, Allowance
  <1>14. \A r, u : Before(1, r, u) => Before(1, r, u)'
    BY <1>7, <1>10
  <1>15. ASSUME ~ stateful
         PROVE  \E d \in Nat, u \in Nat : StatelessAt(d, u)'
    <2>1. PICK d \in Nat, u \in Nat : StatelessAt(d, u)
      BY Zenon, <1>15 DEF MppeInv
    <2>2. Before(1, g + 1, u)'
      BY Zenon, <1>13, <1>14, <2>1 DEF StatelessAt
    <2>3. StatelessAt(d, u)'
      BY Zenon, <1>3, <1>13, <2>1, <2>2, StatelessPlace DEF StatelessAt
    <2> QED BY Zenon, <2>3
  <1>16. ASSUME stateful, ~ flushMissed
         PROVE  \E d \in Nat, u \in Nat : StatefulAt(d, u)'
    <2>1. PICK d \in Nat, u \in Nat : StatefulAt(d, u)
      BY Zenon, <1>16 DEF MppeInv
    <2>2. PICK b \in Nat : b = decomp.rekeys + (Block(g) - Block(d))
      <3>1. decomp.rekeys \in Nat /\ d <= g
        BY Zenon, <1>13, <2>1 DEF StatefulAt, MppeInv, MppeTypes, IsState
      <3> QED BY Zenon, <3>1, KeyBase
    <2>3. Before(1, b, u)'
      BY Zenon, <1>13, <1>14, <2>1, <2>2 DEF StatefulAt
    <2>4. HeadDamaged' = 1 => ~ ResetFlush(line'[1])
      BY Zenon, <1>12, <2>1 DEF StatefulAt
    <2>5. StatefulAt(d, u)'
      BY ZenonT(40), <1>3, <1>13, <2>1, <2>2, <2>3, <2>4, StatefulPlace DEF StatefulAt
    <2> QED BY Zenon, <2>5
  <1> QED BY Zenon, <1>3, <1>9, <1>11, <1>15, <1>16 DEF MppeInv

\* A damaged packet keeps its count, its flushed bit and its place.
LEMMA MppeDamageStep ==
  ASSUME MppeHypothesis, MppeInv, Damage
  PROVE  MppeInv'
  <1>1. /\ line \in Seq(MppePacket) /\ line # <<>> /\ 1 \in 1 .. Len(line) /\ line[1] \in MppePacket
        /\ Len(line) \in Nat
        /\ line' = [line EXCEPT ![1].encrypted = FALSE]
        /\ damaged' = damaged + 1 /\ damaged < MaxMppeDamaged
        /\ flushMissed' = (flushMissed \/ ResetFlush(line[1]))
        /\ UNCHANGED <<stateful, comp, decomp, sent, lost, misread>>
    BY DEF Damage, MppeInv, MppeTypes
  <1>2. PICK p \in MppePacket : p = [line[1] EXCEPT !.encrypted = FALSE]
    BY Zenon, <1>1 DEF MppePacket
  <1>3. p.ccount = line[1].ccount /\ p.flushed = line[1].flushed /\ p.key = line[1].key /\ ~ p.encrypted
    BY Zenon, <1>1, <1>2 DEF MppePacket
  <1>4. line' = [line EXCEPT ![1] = p]
    BY Zenon, <1>1, <1>2
  <1>5. /\ line' \in Seq(MppePacket) /\ Len(line') = Len(line) /\ line' # <<>> /\ line'[1] = p
        /\ \A i \in 1 .. Len(line) : i # 1 => line'[i] = line[i]
    <2>1. PICK s \in Seq(MppePacket) : s = line
      BY Zenon, <1>1
    <2>2. PICK t : t = line'
      BY Zenon
    <2>3. t = [s EXCEPT ![1] = p] /\ 1 \in 1 .. Len(s)
      BY Zenon, <1>1, <1>4, <2>1, <2>2
    <2>4. t \in Seq(MppePacket) /\ Len(t) = Len(s) /\ t[1] = p
      BY <2>3
    <2>5. \A i \in 1 .. Len(s) : i # 1 => t[i] = s[i]
      BY <2>3
    <2> QED BY <1>1, <2>1, <2>2, <2>4, <2>5
  <1>6. Gone' = Gone
    BY Zenon, <1>1, <1>5 DEF Gone
  <1>7. \A i \in 1 .. Len(line) : /\ line'[i].ccount = line[i].ccount
                                  /\ line'[i].flushed = line[i].flushed
                                  /\ line'[i].key = line[i].key
                                  /\ i # 1 => line'[i].encrypted = line[i].encrypted
    BY Zenon, <1>3, <1>5
  <1>8. \A r, u : \A i \in Nat : i >= 1 /\ Before(i, r, u) => Before(i, r, u)'
    BY <1>1, <1>5, <1>7 DEF Before, Follows
  <1>9. MppeTypes'
    <2>1. damaged' \in Nat /\ damaged' <= MaxMppeDamaged
      BY SMTT(20), <1>1 DEF MppeInv, MppeTypes, MppeHypothesis
    <2>2. flushMissed' \in BOOLEAN
      BY Zenon, <1>1
    <2> QED BY Zenon, <1>1, <1>5, <1>6, <2>1, <2>2 DEF MppeInv, MppeTypes
  <1>10. LineInv'
    <2> SUFFICES ASSUME NEW i \in 1 .. Len(line)
                 PROVE  /\ line'[i].ccount = CountOf(Gone' + i)
                        /\ ~stateful' \/ FlagPacket(line'[i].ccount) => line'[i].flushed
                        /\ i # 1 => line'[i].encrypted
                        /\ Before(i + 1, line[i].key[1], line[i].key[2] + 1)'
      BY Zenon, <1>5 DEF LineInv
    <2>1. PICK r, u : r = line[i].key[1] /\ u = line[i].key[2] + 1
      BY Zenon
    <2>2. Before(i + 1, r, u)
      BY Zenon, <2>1 DEF MppeInv, LineInv
    <2>3. Before(i + 1, r, u)'
      BY <1>8, <2>2
    <2>4. Before(i + 1, line[i].key[1], line[i].key[2] + 1)'
      BY Zenon, <1>7, <2>1, <2>3 DEF Before
    <2> QED BY <1>1, <1>6, <1>7, <2>4 DEF MppeInv, LineInv
  <1>11. HeadDamaged' = 1 /\ line'[1] = p
    BY Zenon, <1>3, <1>5 DEF HeadDamaged
  <1>12. PICK g \in Nat, al \in Int, bl \in Int :
           /\ g = Gone /\ g = Gone' /\ bl = Allowance /\ al = Allowance' /\ al >= bl
           /\ Block(g) \in Nat
    <2>1. Gone \in Nat /\ MppeTypes
      BY Zenon DEF MppeInv, MppeTypes
    <2>2. Block(Gone) \in Nat
      BY Zenon, <2>1, BlockFacts
    <2>3. Allowance \in Int /\ Allowance' \in Int /\ Allowance' >= Allowance
      BY SMTT(20), <1>1, <1>11, <2>1, LossBounds DEF MppeTypes, Allowance
    <2> QED BY Zenon, <1>6, <2>1, <2>2, <2>3
  <1>13. \A r, u : Before(1, r, u) => Before(1, r, u)'
    BY <1>8
  <1>14. ASSUME ~ stateful
         PROVE  \E d \in Nat, u \in Nat : StatelessAt(d, u)'
    <2>1. PICK d \in Nat, u \in Nat : StatelessAt(d, u)
      BY Zenon, <1>14 DEF MppeInv
    <2>2. Before(1, g + 1, u)'
      BY Zenon, <1>12, <1>13, <2>1 DEF StatelessAt
    <2>3. StatelessAt(d, u)'
      BY <1>1, <1>12, <2>1, <2>2, StatelessPlace DEF StatelessAt
    <2> QED BY Zenon, <2>3
  <1>15. ASSUME stateful, ~ flushMissed'
         PROVE  \E d \in Nat, u \in Nat : StatefulAt(d, u)'
    <2>1. PICK d \in Nat, u \in Nat : StatefulAt(d, u)
      BY Zenon, <1>1, <1>15 DEF MppeInv
    <2>2. PICK b \in Nat : b = decomp.rekeys + (Block(g) - Block(d))
      <3>1. decomp.rekeys \in Nat /\ d <= g
        BY Zenon, <1>12, <2>1 DEF StatefulAt, MppeInv, MppeTypes, IsState
      <3> QED BY Zenon, <3>1, KeyBase
    <2>3. Before(1, b, u)'
      BY Zenon, <1>12, <1>13, <2>1, <2>2 DEF StatefulAt
    <2>4. ~ ResetFlush(line'[1])
      BY Zenon, <1>1, <1>3, <1>5, <1>15 DEF ResetFlush
    <2>5. Block(d) \in Nat
      BY Zenon, BlockFacts
    <2>6. StatefulAt(d, u)'
      BY SMTT(20), <1>1, <1>12, <2>1, <2>2, <2>3, <2>4, <2>5, StatefulPlace DEF StatefulAt
    <2> QED BY Zenon, <2>6
  <1> QED BY Zenon, <1>1, <1>9, <1>10, <1>14, <1>15 DEF MppeInv

\* The types after the first packet left the line.
LEMMA TakenTypes ==
  ASSUME MppeInv, line # <<>>, line' = Tail(line), UNCHANGED <<stateful, comp, sent, damaged>>,
         IsState(decomp'), flushMissed' \in BOOLEAN, misread' \in BOOLEAN,
         lost' \in Nat, lost' <= MaxMppeLost
  PROVE  MppeTypes'
  <1>1. Gone' \in Nat /\ line' \in Seq(MppePacket)
    BY LineShrinks DEF MppeInv, MppeTypes
  <1> QED BY Zenon, <1>1 DEF MppeInv, MppeTypes

\* A packet that the receiver never reads, lost or refused for its damage, widens the gap by
\* one and is allowed for.
LEMMA MppeSkipStep ==
  ASSUME MppeHypothesis, MppeInv, line # <<>>, line' = Tail(line),
         UNCHANGED <<stateful, comp, sent, damaged, misread>>,
         IsState(decomp'), decomp'.rekeys = decomp.rekeys, decomp'.used = decomp.used,
         decomp'.ccount = decomp.ccount, decomp'.discard = decomp.discard,
         flushMissed' \in BOOLEAN, lost' \in Nat, lost' <= MaxMppeLost,
         lost' >= lost + 1 - HeadDamaged,
         stateful /\ ~ flushMissed' => ~ flushMissed /\ ~ ResetFlush(line[1])
  PROVE  MppeInv'
  <1>1. MppeTypes'
    BY Zenon, TakenTypes DEF MppeInv, MppeTypes
  <1>2. LineInv' /\ HeadDamaged' = 0 /\ \A r, u : Before(2, r, u) => Before(1, r, u)'
    BY Zenon, LineShrinks DEF MppeInv
  <1>3. PICK g \in Nat, al \in Int, bl \in Int :
          /\ g = Gone /\ g + 1 = Gone' /\ bl = Allowance /\ al = Allowance' /\ al >= bl + 1
    <2>1. Gone' = Gone + 1 /\ Gone \in Nat
      BY Zenon, LineShrinks DEF MppeInv, MppeTypes
    <2>2. Allowance \in Int /\ Allowance' \in Int /\ Allowance' >= Allowance + 1
      BY <1>2, LossBounds DEF MppeInv, MppeTypes, Allowance
    <2> QED BY Zenon, <2>1, <2>2
  <1>4. ASSUME ~ stateful
        PROVE  \E d \in Nat, u \in Nat : StatelessAt(d, u)'
    <2>1. PICK d \in Nat, u \in Nat : StatelessAt(d, u)
      BY Zenon, <1>4 DEF MppeInv
    <2>2. Follows(g + 1, u, line[1]) /\ line[1].flushed
      BY Zenon, <1>3, <1>4, <2>1, HeadFacts DEF StatelessAt, MppeInv
    <2>3. line[1].key[1] = g + 1 + 1 /\ line[1].key[2] = 0
      BY <2>2 DEF Follows
    <2>4. Before(2, g + 1 + 1, 1)
      BY <2>3, HeadFacts DEF MppeInv
    <2>5. Before(1, g + 1 + 1, 1)'
      BY Zenon, <2>4, <1>2
    <2>6. StatelessAt(d, 1)'
      BY <1>3, <2>1, <2>5, StatelessPlace DEF StatelessAt
    <2> QED BY Zenon, <2>6
  <1>5. ASSUME stateful, ~ flushMissed'
        PROVE  \E d \in Nat, u \in Nat : StatefulAt(d, u)'
    <2>1. PICK d \in Nat, u \in Nat : StatefulAt(d, u)
      BY Zenon, <1>5 DEF MppeInv
    <2>2. PICK rk \in Nat : rk = decomp.rekeys
      BY Zenon DEF MppeInv, MppeTypes, IsState
    <2>3. d <= g /\ Before(1, rk + (Block(g) - Block(d)), u)
      BY Zenon, <1>3, <2>1, <2>2 DEF StatefulAt
    <2>4. PICK v \in Nat : Before(1, rk + (Block(g + 1) - Block(d)), v)'
      BY Zenon, <1>3, <1>5, <2>3, PassedOver DEF MppeInv
    <2>5. PICK b \in Nat : b = rk + (Block(g + 1) - Block(d))
      <3>1. g + 1 \in Nat /\ d <= g + 1
        BY <2>3
      <3> QED BY Zenon, <3>1, KeyBase
    <2>6. Before(1, b, v)'
      BY Zenon, <2>4, <2>5
    <2>7. Block(g) \in Nat /\ Block(d) \in Nat /\ Block(g + 1) \in Nat /\ Block(g + 1) <= Block(g) + 1
      <3>1. Block(g) \in Nat /\ Block(d) \in Nat
        BY Zenon, BlockFacts
      <3>2. Block(g + 1) = Block(g) + 1 \/ Block(g + 1) = Block(g)
        BY Zenon, BlockFacts
      <3> QED BY <3>1, <3>2
    <2>8. IF decomp'.discard
          THEN decomp'.ccount = CountOf(d + 1) /\ Block(g + 1) - Block(d) <= al + 1
          ELSE decomp'.ccount = CountOf(d) /\ g + 1 - d <= al /\ (g + 1 = d => v = decomp'.used)
      <3>1. CASE decomp.discard
        <4>1. decomp.ccount = CountOf(d + 1) /\ Block(g) - Block(d) <= bl + 1
          BY Zenon, <1>3, <2>1, <3>1 DEF StatefulAt
        <4>2. Block(g + 1) - Block(d) <= al + 1
          BY SMTT(20), <1>3, <2>7, <4>1
        <4> QED BY Zenon, <3>1, <4>1, <4>2
      <3>2. CASE ~ decomp.discard
        <4>1. decomp.ccount = CountOf(d) /\ g - d <= bl
          BY Zenon, <1>3, <2>1, <3>2 DEF StatefulAt
        <4>2. g + 1 - d <= al /\ g + 1 # d
          BY <1>3, <2>3, <4>1
        <4> QED BY Zenon, <3>2, <4>1, <4>2
      <3> QED BY Zenon, <3>1, <3>2
    <2>9. PICK n \in Nat : n = g + 1
      OBVIOUS
    <2>10. Gone' = n /\ d <= n
      BY <1>3, <2>3, <2>9
    <2>11. ~ misread'
      BY Zenon, <2>1 DEF StatefulAt
    <2>12. b = decomp'.rekeys + (Block(n) - Block(d))
      BY Zenon, <2>2, <2>5, <2>9
    <2>13. IF decomp'.discard
           THEN decomp'.ccount = CountOf(d + 1) /\ Block(n) - Block(d) <= al + 1
           ELSE decomp'.ccount = CountOf(d) /\ n - d <= al /\ (n = d => v = decomp'.used)
      BY <2>8, <2>9
    <2>14. HeadDamaged' # 1 /\ Allowance' = al
      BY <1>2, <1>3
    <2>15. StatefulAt(d, v)'
      BY Zenon, <2>6, <2>10, <2>11, <2>12, <2>13, <2>14, StatefulPlace
    <2> QED BY Zenon, <2>15
  <1> QED BY Zenon, <1>1, <1>2, <1>4, <1>5 DEF MppeInv

\* A discarding receiver drops what is not flushed: no block ends there.
LEMMA MppeDropStep ==
  ASSUME MppeHypothesis, MppeInv, line # <<>>, line' = Tail(line), stateful,
         UNCHANGED <<stateful, comp, sent, lost, damaged, decomp, flushMissed, misread>>,
         line[1].encrypted, ~ line[1].flushed, decomp.discard
  PROVE  MppeInv'
  <1>1. MppeTypes'
    BY Zenon, TakenTypes DEF MppeInv, MppeTypes
  <1>2. LineInv' /\ HeadDamaged' = 0 /\ HeadDamaged = 0
    BY Zenon, LineShrinks, HeadFacts DEF MppeInv
  <1>3. PICK g \in Nat, al \in Int : g = Gone /\ g + 1 = Gone' /\ al = Allowance /\ al = Allowance'
    <2>1. Gone' = Gone + 1 /\ Gone \in Nat
      BY Zenon, LineShrinks DEF MppeInv, MppeTypes
    <2>2. Allowance \in Int /\ Allowance' = Allowance
      BY Zenon, <1>2, LossBounds DEF MppeInv, Allowance
    <2> QED BY Zenon, <2>1, <2>2
  <1>4. ASSUME ~ flushMissed
        PROVE  \E d \in Nat, u \in Nat : StatefulAt(d, u)'
    <2>1. PICK d \in Nat, u \in Nat : StatefulAt(d, u)
      BY Zenon, <1>4 DEF MppeInv
    <2>2. PICK rk \in Nat : rk = decomp.rekeys
      BY Zenon DEF MppeInv, MppeTypes, IsState
    <2>3. d <= g /\ Before(1, rk + (Block(g) - Block(d)), u)
      BY Zenon, <1>3, <2>1, <2>2 DEF StatefulAt
    <2>4. PICK v \in Nat : Before(1, rk + (Block(g + 1) - Block(d)), v)'
      BY Zenon, <1>3, <2>3, PassedOver DEF MppeInv, ResetFlush
    <2>5. PICK b \in Nat : b = rk + (Block(g + 1) - Block(d))
      <3>1. g + 1 \in Nat /\ d <= g + 1
        BY <2>3
      <3> QED BY Zenon, <3>1, KeyBase
    <2>6. Before(1, b, v)'
      BY Zenon, <2>4, <2>5
    <2>7. Block(g + 1) = Block(g)
      BY Zenon, <1>3, HeadFacts, BlockFacts DEF MppeInv
    <2>8. StatefulAt(d, v)'
      BY <1>2, <1>3, <2>1, <2>2, <2>3, <2>5, <2>6, <2>7, StatefulPlace DEF StatefulAt
    <2> QED BY Zenon, <2>8
  <1> QED BY Zenon, <1>1, <1>2, <1>4 DEF MppeInv

\* Stateless: the receiver derives a key for each packet of the gap and for this one.
LEMMA MppeStatelessStep ==
  ASSUME MppeHypothesis, MppeInv, line # <<>>, line' = Tail(line), ~ stateful,
         UNCHANGED <<stateful, comp, sent, lost, damaged>>, flushMissed' \in BOOLEAN,
         line[1].encrypted, DecompressStateless(line[1])
  PROVE  MppeInv'
  <1>1. PICK d \in Nat, u \in Nat : StatelessAt(d, u)
    BY Zenon DEF MppeInv
  <1>2. LineInv' /\ HeadDamaged' = 0 /\ HeadDamaged = 0 /\ \A r, w : Before(2, r, w) => Before(1, r, w)'
    BY Zenon, LineShrinks, HeadFacts DEF MppeInv
  <1>3. PICK g \in Nat, al \in Int :
          /\ g = Gone /\ g + 1 = Gone' /\ al = Allowance /\ al = Allowance'
          /\ d <= g /\ g - d <= CountReach /\ al >= 0
    <2>1. Gone' = Gone + 1 /\ Gone \in Nat
      BY Zenon, LineShrinks DEF MppeInv, MppeTypes
    <2>2. Allowance \in Int /\ Allowance' = Allowance /\ Allowance <= CountReach /\ Allowance >= 0
      BY <1>2, LossBounds DEF MppeInv, MppeTypes, Allowance
    <2>3. d <= Gone /\ Gone - d <= Allowance
      BY Zenon, <1>1 DEF StatelessAt
    <2>4. Gone - d <= CountReach
      BY <2>1, <2>2, <2>3, Reaches
    <2> QED BY Zenon, <2>1, <2>2, <2>3, <2>4
  <1>4. PICK m \in MppePacket : m = line[1] /\ m.ccount = CountOf(g + 1)
    BY Zenon, <1>3, HeadFacts DEF MppeInv
  <1>5. m.key = <<g + 2, 0>>
    <2>1. Follows(g + 1, u, m) /\ m.flushed
      BY Zenon, <1>1, <1>3, <1>4, HeadFacts DEF StatelessAt, MppeInv
    <2> QED BY <2>1 DEF Follows
  <1>6. /\ decomp.rekeys = d + 1 /\ decomp.ccount = CountOf(d) /\ IsState(decomp) /\ ~ misread
    BY Zenon, <1>1 DEF StatelessAt, MppeInv, MppeTypes
  <1>7. /\ (m.ccount - decomp.ccount + MPPE_CCOUNT_SPACE) % MPPE_CCOUNT_SPACE = g + 1 - d
        /\ ~ LatePacket(m)
    BY <1>3, <1>4, <1>6, PacketsMissed DEF LatePacket
  <1>8. /\ decomp' = State(g + 2, 0 + 1, m.ccount, decomp.flushed, decomp.discard,
                         decomp.sanity_errors \div 2)
        /\ misread' = (misread \/ <<g + 2, 0>> # m.key)
    <2>1. g + 1 - d # 0 /\ d + 1 + (g + 1 - d) = g + 2
      BY <1>3
    <2>2. PICK t : t = mppe_rekey(decomp)
      BY Zenon
    <2>3. t = State(decomp.rekeys + 1, 0, decomp.ccount, decomp.flushed, decomp.discard,
                    decomp.sanity_errors)
      BY <1>6, <2>2, RekeyOf DEF IsState
    <2>4. PICK s : s = WithRekeysCount(t, decomp.rekeys + (g + 1 - d), m.ccount)
      BY Zenon
    <2>5. s = State(decomp.rekeys + (g + 1 - d), 0, m.ccount, decomp.flushed, decomp.discard,
                    decomp.sanity_errors)
      BY <2>3, <2>4, RekeysCountSet
    <2>6. Accept(s, m)
      BY Zenon, <1>4, <1>7, <2>1, <2>2, <2>4 DEF DecompressStateless, WithRekeysCount
    <2>7. decomp.rekeys + (g + 1 - d) = g + 2
      BY Zenon, <1>6, <2>1
    <2>8. s = State(g + 2, 0, m.ccount, decomp.flushed, decomp.discard, decomp.sanity_errors)
      BY Zenon, <2>5, <2>7
    <2> QED BY Zenon, <2>6, <2>8, Accepted
  <1>9. IsState(decomp') /\ misread' = FALSE
    <2>1. m.ccount \in Nat /\ decomp.flushed \in BOOLEAN /\ decomp.discard \in BOOLEAN
      BY Zenon, <1>6 DEF IsState, MppePacket
    <2>2. g + 2 \in Nat /\ 0 + 1 \in Nat
      OBVIOUS
    <2>3. IsState(decomp')
      BY Zenon, <1>8, <2>1, <2>2, StateIsState
    <2> QED BY Zenon, <1>5, <1>6, <1>8, <2>3
  <1>10. MppeTypes'
    BY Zenon, <1>9, TakenTypes DEF MppeInv, MppeTypes
  <1>11. Before(2, g + 2, 1)
    BY <1>4, <1>5, HeadFacts DEF MppeInv
  <1>12. Before(1, g + 2, 1)'
    BY Zenon, <1>2, <1>11
  <1>13. StatelessAt(g + 1, 1)'
    <2>1. decomp'.rekeys = g + 1 + 1 /\ decomp'.ccount = CountOf(g + 1) /\ g + 2 = g + 1 + 1
      BY <1>4, <1>8, StateFields
    <2> QED BY <1>3, <1>9, <1>12, <2>1, StatelessPlace
  <1> QED BY <1>2, <1>10, <1>13 DEF MppeInv

\* Stateful, in turn: the receiver has the sender's key, or derives it as the sender did.
LEMMA MppeInTurnStep ==
  ASSUME MppeHypothesis, MppeInv, line # <<>>, line' = Tail(line), stateful,
         UNCHANGED <<stateful, comp, sent, lost, damaged>>,
         line[1].encrypted, ~ decomp.discard, line[1].ccount = NextCount(decomp.ccount),
         NEW next, next = WithCount(decomp, NextCount(decomp.ccount)),
         Accept(IF line[1].flushed THEN mppe_rekey(next) ELSE next, line[1]),
         flushMissed' = (flushMissed \/ (ResetFlush(line[1]) /\ decomp'.discard))
  PROVE  MppeInv'
  <1>1. PICK m \in MppePacket : m = line[1]
    BY Zenon, HeadFacts DEF MppeInv
  <1>2. IsState(decomp) /\ flushMissed \in BOOLEAN /\ misread \in BOOLEAN
    BY Zenon DEF MppeInv, MppeTypes
  <1>3. PICK rk \in Nat, us \in Nat : rk = decomp.rekeys /\ us = decomp.used
    BY Zenon, <1>2 DEF IsState
  <1>4. PICK kr \in Nat, ku \in Nat :
          kr = (IF m.flushed THEN rk + 1 ELSE rk) /\ ku = (IF m.flushed THEN 0 ELSE us)
    <2>1. rk + 1 \in Nat
      OBVIOUS
    <2> QED BY Zenon, <2>1
  <1>5. /\ decomp' = State(kr, ku + 1, m.ccount, decomp.flushed, decomp.discard,
                         decomp.sanity_errors \div 2)
        /\ misread' = (misread \/ <<kr, ku>> # m.key)
        /\ decomp'.rekeys = kr /\ decomp'.used = ku + 1 /\ decomp'.ccount = m.ccount
        /\ decomp'.discard = decomp.discard
    <2>2. next = State(rk, us, m.ccount, decomp.flushed, decomp.discard, decomp.sanity_errors)
      <3>1. decomp = State(rk, us, decomp.ccount, decomp.flushed, decomp.discard, decomp.sanity_errors)
        BY Zenon, <1>2, <1>3 DEF IsState
      <3>2. next = WithCount(decomp, m.ccount)
        BY Zenon, <1>1
      <3> QED BY <3>1, <3>2, CountSet
    <2>3. PICK s : s = IF m.flushed THEN mppe_rekey(next) ELSE next
      BY Zenon
    <2>4. Accept(s, m)
      BY Zenon, <1>1, <2>3
    <2>5. s = State(kr, ku, m.ccount, decomp.flushed, decomp.discard, decomp.sanity_errors)
      <3>1. CASE m.flushed
        BY <3>1, <1>4, <2>2, <2>3, RekeyOf
      <3>2. CASE ~ m.flushed
        BY Zenon, <3>2, <1>4, <2>2, <2>3
      <3> QED BY Zenon, <3>1, <3>2
    <2>6. /\ decomp' = State(kr, ku + 1, m.ccount, decomp.flushed, decomp.discard,
                           decomp.sanity_errors \div 2)
          /\ misread' = (misread \/ <<kr, ku>> # m.key)
      BY Zenon, <2>4, <2>5, Accepted
    <2>7. /\ decomp'.rekeys = kr /\ decomp'.used = ku + 1 /\ decomp'.ccount = m.ccount
          /\ decomp'.discard = decomp.discard
      BY Zenon, <2>4, <2>5, AcceptedFields
    <2> QED BY Zenon, <2>6, <2>7
  <1>6. IsState(decomp') /\ misread' \in BOOLEAN /\ flushMissed' = flushMissed /\ ~ decomp'.discard
    <2>1. m.ccount \in Nat /\ decomp.flushed \in BOOLEAN /\ decomp.discard \in BOOLEAN
      BY Zenon, <1>2 DEF IsState, MppePacket
    <2>2. ku + 1 \in Nat
      OBVIOUS
    <2>3. IsState(decomp') /\ decomp'.discard = decomp.discard
      <3>1. IsState(decomp')
        BY Zenon, <1>5, <2>1, <2>2, StateIsState
      <3>2. decomp'.discard = decomp.discard
        BY Zenon, <1>5
      <3> QED BY Zenon, <3>1, <3>2
    <2> QED BY Zenon, <1>2, <1>5, <2>3
  <1>7. MppeTypes'
    BY Zenon, <1>2, <1>6, TakenTypes DEF MppeInv, MppeTypes
  <1>8. LineInv' /\ HeadDamaged' = 0 /\ HeadDamaged = 0 /\ \A r, w : Before(2, r, w) => Before(1, r, w)'
    BY Zenon, LineShrinks, HeadFacts DEF MppeInv
  <1>9. ASSUME ~ flushMissed
        PROVE  \E d \in Nat, u \in Nat : StatefulAt(d, u)'
    <2>1. PICK d \in Nat, u \in Nat : StatefulAt(d, u)
      BY Zenon, <1>9 DEF MppeInv
    <2>2. PICK g \in Nat, al \in Int :
            /\ g = Gone /\ g + 1 = Gone' /\ al = Allowance /\ al = Allowance'
            /\ d <= g /\ g - d <= BlockReach /\ al >= 0
      <3>1. Gone' = Gone + 1 /\ Gone \in Nat
        BY Zenon, LineShrinks DEF MppeInv, MppeTypes
      <3>2. Allowance \in Int /\ Allowance' = Allowance /\ Allowance <= BlockReach /\ Allowance >= 0
        <4>1. Allowance \in Int /\ Allowance <= BlockReach /\ Allowance = lost + damaged - HeadDamaged
          BY Zenon, LossBounds DEF MppeInv
        <4>2. Allowance' = Allowance
          BY Zenon, <1>8 DEF Allowance
        <4>3. lost \in Nat /\ damaged \in Nat
          BY Zenon DEF MppeInv, MppeTypes
        <4>4. lost + damaged - 0 >= 0
          BY <4>3
        <4> QED BY Zenon, <1>8, <4>1, <4>2, <4>4
      <3>3. d <= Gone /\ Gone - d <= Allowance
        BY Zenon, <2>1 DEF StatefulAt
      <3>4. Gone - d <= BlockReach
        BY <3>1, <3>2, <3>3, Reaches
      <3> QED BY Zenon, <3>1, <3>2, <3>3, <3>4
    <2>3. m.ccount = CountOf(g + 1) /\ decomp.ccount = CountOf(d)
      BY Zenon, <1>1, <2>1, <2>2, HeadFacts DEF StatefulAt, MppeInv
    <2>4. g = d
      <3>1. CountOf(g + 1) = CountOf(d + 1)
        BY Zenon, <1>1, <2>3, CountFacts
      <3> QED BY Zenon, <2>2, <3>1, InTurnByCount
    <2>5. Block(g) \in Nat /\ Block(g + 1) \in Nat /\ Block(g + 1) - Block(g + 1) = 0
      <3>1. g + 1 \in Nat
        OBVIOUS
      <3>2. Block(g) \in Nat /\ Block(g + 1) \in Nat
        BY Zenon, <3>1, BlockFacts
      <3> QED BY <3>2
    <2>6. Follows(rk, us, m)
      <3>1. rk + (Block(g) - Block(d)) = rk /\ u = us
        BY <1>3, <2>1, <2>2, <2>4, <2>5 DEF StatefulAt
      <3> QED BY Zenon, <1>1, <1>3, <2>1, <2>2, <3>1, HeadFacts DEF StatefulAt, MppeInv
    <2>7. m.key = <<kr, ku>>
      BY Zenon, <1>4, <2>6 DEF Follows
    <2>8. ~ misread' /\ Before(2, kr, ku + 1)
      <3>1. m.key[1] = kr /\ m.key[2] = ku
        BY <2>7
      <3> QED BY Zenon, <1>1, <1>5, <2>1, <2>7, <3>1, HeadFacts DEF StatefulAt, MppeInv
    <2>9. Before(1, kr, ku + 1)'
      BY Zenon, <1>8, <2>8
    <2>10. decomp'.rekeys = kr /\ decomp'.used = ku + 1 /\ decomp'.ccount = CountOf(g + 1)
      BY Zenon, <1>5, <2>3
    <2>11. PICK n \in Nat, v \in Nat : n = g + 1 /\ v = ku + 1
      OBVIOUS
    <2>12. kr = decomp'.rekeys + (Block(n) - Block(n))
      BY <2>5, <2>10, <2>11
    <2>13. IF decomp'.discard
           THEN decomp'.ccount = CountOf(n + 1) /\ Block(n) - Block(n) <= al + 1
           ELSE decomp'.ccount = CountOf(n) /\ n - n <= al /\ (n = n => v = decomp'.used)
      <3>1. n - n <= al
        BY <2>2
      <3> QED BY Zenon, <1>6, <2>10, <2>11, <3>1
    <2>14. StatefulAt(n, v)'
      <3>1. n <= n /\ Gone' = n /\ Before(1, kr, v)'
        BY <2>2, <2>9, <2>11
      <3>2. HeadDamaged' # 1 /\ Allowance' = al
        BY <1>8, <2>2
      <3> QED BY Zenon, <2>8, <2>12, <2>13, <3>1, <3>2, StatefulPlace
    <2> QED BY Zenon, <2>14
  <1> QED BY Zenon, <1>6, <1>7, <1>8, <1>9 DEF MppeInv

\* Stateful, a gap: the receiver starts to discard and keeps its key.
LEMMA MppeGapStep ==
  ASSUME MppeHypothesis, MppeInv, line # <<>>, line' = Tail(line), stateful,
         UNCHANGED <<stateful, comp, sent, lost, damaged, misread>>,
         line[1].encrypted, ~ decomp.discard,
         IsState(decomp'), decomp'.discard, decomp'.rekeys = decomp.rekeys,
         decomp'.ccount = NextCount(decomp.ccount),
         flushMissed' = (flushMissed \/ (ResetFlush(line[1]) /\ decomp'.discard))
  PROVE  MppeInv'
  <1>1. IsState(decomp) /\ flushMissed \in BOOLEAN /\ misread \in BOOLEAN
    BY Zenon DEF MppeInv, MppeTypes
  <1>4. flushMissed' \in BOOLEAN /\ (~ flushMissed' => ~ flushMissed /\ ~ ResetFlush(line[1]))
    BY Zenon, <1>1, HeadFacts DEF MppeInv, ResetFlush, MppePacket, FlagPacket
  <1>5. MppeTypes'
    BY Zenon, <1>1, <1>4, TakenTypes DEF MppeInv, MppeTypes
  <1>6. LineInv' /\ HeadDamaged' = 0 /\ HeadDamaged = 0
    BY Zenon, LineShrinks, HeadFacts DEF MppeInv
  <1>7. ASSUME ~ flushMissed'
        PROVE  \E d \in Nat, u \in Nat : StatefulAt(d, u)'
    <2>1. PICK d \in Nat, u \in Nat : StatefulAt(d, u)
      BY Zenon, <1>4, <1>7 DEF MppeInv
    <2>2. PICK g \in Nat, al \in Int :
            /\ g = Gone /\ g + 1 = Gone' /\ al = Allowance /\ al = Allowance' /\ d <= g /\ g - d <= al
      <3>1. Gone' = Gone + 1 /\ Gone \in Nat
        BY Zenon, LineShrinks DEF MppeInv, MppeTypes
      <3>2. Allowance \in Int /\ Allowance' = Allowance
        BY Zenon, <1>6, LossBounds DEF MppeInv, MppeTypes, Allowance
      <3>3. d <= Gone /\ Gone - d <= Allowance
        BY Zenon, <2>1 DEF StatefulAt
      <3> QED BY Zenon, <3>1, <3>2, <3>3
    <2>3. PICK rk \in Nat : rk = decomp.rekeys
      BY Zenon, <1>1 DEF IsState
    <2>4. Before(1, rk + (Block(g) - Block(d)), u)
      BY Zenon, <2>1, <2>2, <2>3 DEF StatefulAt
    <2>5. PICK v \in Nat : Before(1, rk + (Block(g + 1) - Block(d)), v)'
      BY Zenon, <1>4, <1>7, <2>2, <2>4, PassedOver DEF MppeInv
    <2>6. PICK b \in Nat : b = rk + (Block(g + 1) - Block(d))
      <3>1. g + 1 \in Nat /\ d <= g + 1
        BY <2>2
      <3> QED BY Zenon, <3>1, KeyBase
    <2>7. Before(1, b, v)'
      BY Zenon, <2>5, <2>6
    <2>8. Block(g + 1) - Block(d) <= al + 1
      <3>1. Block(g) \in Nat /\ Block(d) \in Nat /\ Block(g) - Block(d) <= g - d
        BY Zenon, <2>2, BlocksApart, BlockFacts
      <3>2. Block(g + 1) = Block(g) + 1 \/ Block(g + 1) = Block(g)
        BY Zenon, BlockFacts
      <3>3. g - d <= al
        BY Zenon, <2>2
      <3> QED BY <3>1, <3>2, <3>3
    <2>9. decomp'.ccount = CountOf(d + 1)
      BY Zenon, <2>1, CountFacts DEF StatefulAt
    <2>10. PICK n \in Nat : n = g + 1
      OBVIOUS
    <2>11. Gone' = n /\ d <= n
      BY <2>2, <2>10
    <2>12. ~ misread'
      BY Zenon, <2>1 DEF StatefulAt
    <2>13. b = decomp'.rekeys + (Block(n) - Block(d))
      BY Zenon, <2>3, <2>6, <2>10
    <2>14. IF decomp'.discard
           THEN decomp'.ccount = CountOf(d + 1) /\ Block(n) - Block(d) <= al + 1
           ELSE decomp'.ccount = CountOf(d) /\ n - d <= al /\ (n = d => v = decomp'.used)
      BY Zenon, <2>8, <2>9, <2>10
    <2>15. HeadDamaged' # 1 /\ Allowance' = al
      BY <1>6, <2>2
    <2>16. StatefulAt(d, v)'
      BY Zenon, <2>7, <2>11, <2>12, <2>13, <2>14, <2>15, StatefulPlace
    <2> QED BY Zenon, <2>16
  <1> QED BY Zenon, <1>5, <1>6, <1>7 DEF MppeInv

\* Stateful, a flushed packet after a gap: the receiver derives a key for each block it
\* missed and the one of this packet.
LEMMA MppeResyncStep ==
  ASSUME MppeHypothesis, MppeInv, line # <<>>, line' = Tail(line), stateful,
         UNCHANGED <<stateful, comp, sent, lost, damaged>>,
         line[1].encrypted, decomp.discard, line[1].flushed,
         NEW blocks, blocks = MPPE_CCOUNT_SPACE \div MPPE_BLOCK, NEW missed, NEW caught,
         missed = (line[1].ccount \div MPPE_BLOCK - decomp.ccount \div MPPE_BLOCK + blocks) % blocks,
         caught = CaughtUp(decomp, missed),
         Accept(mppe_rekey(WithDiscardCount(caught, FALSE, line[1].ccount)), line[1]),
         flushMissed' = (flushMissed \/ (ResetFlush(line[1]) /\ decomp'.discard))
  PROVE  MppeInv'
  <1>1. PICK m \in MppePacket : m = line[1]
    BY Zenon, HeadFacts DEF MppeInv
  <1>2. IsState(decomp) /\ flushMissed \in BOOLEAN /\ misread \in BOOLEAN
    BY Zenon DEF MppeInv, MppeTypes
  <1>3. missed \in Nat
    <2>1. m.ccount \in Nat /\ decomp.ccount \in Nat
      BY <1>2 DEF IsState, MppePacket
    <2>2. PICK x \in Int : x = m.ccount \div MPPE_BLOCK - decomp.ccount \div MPPE_BLOCK + blocks /\ blocks = 16
      BY <2>1 DEF MppeHypothesis, MppeNumbers
    <2>3. missed = x % 16
      BY Zenon, <1>1, <2>2
    <2> QED BY <2>2, <2>3
  <1>4. PICK kr \in Nat : kr = decomp.rekeys + missed + 1
    BY <1>2, <1>3 DEF IsState
  <1>5. PICK no \in BOOLEAN : no = FALSE
    BY Zenon
  <1>6. /\ decomp' = State(kr, 0 + 1, m.ccount, decomp.flushed, no, decomp.sanity_errors \div 2)
        /\ misread' = (misread \/ <<kr, 0>> # m.key)
        /\ decomp'.rekeys = kr /\ decomp'.used = 0 + 1 /\ decomp'.ccount = m.ccount /\ decomp'.discard = no
    <2>1. PICK s : s = mppe_rekey(WithDiscardCount(caught, no, m.ccount))
      BY Zenon
    <2>2. s = State(decomp.rekeys + missed + 1, 0, m.ccount, decomp.flushed, no, decomp.sanity_errors)
      BY <1>2, <1>3, <2>1, ResyncState
    <2>3. s = State(kr, 0, m.ccount, decomp.flushed, no, decomp.sanity_errors)
      BY Zenon, <1>4, <2>2
    <2>4. Accept(s, m)
      BY Zenon, <1>1, <1>5, <2>1
    <2>5. /\ decomp' = State(kr, 0 + 1, m.ccount, decomp.flushed, no, decomp.sanity_errors \div 2)
          /\ misread' = (misread \/ <<kr, 0>> # m.key)
      BY Zenon, <2>3, <2>4, Accepted
    <2>6. decomp'.rekeys = kr /\ decomp'.used = 0 + 1 /\ decomp'.ccount = m.ccount /\ decomp'.discard = no
      BY Zenon, <2>3, <2>4, AcceptedFields
    <2> QED BY Zenon, <2>5, <2>6
  <1>f. /\ IsState(decomp') /\ misread' \in BOOLEAN /\ flushMissed' = flushMissed /\ ~ decomp'.discard
        /\ decomp'.rekeys = kr /\ decomp'.used = 0 + 1 /\ decomp'.ccount = m.ccount
    <2>1. m.ccount \in Nat /\ 0 + 1 \in Nat
      BY DEF MppePacket
    <2>2. decomp.flushed \in BOOLEAN
      BY Zenon, <1>2 DEF IsState
    <2>3. IsState(decomp')
      BY ZenonT(40), <1>5, <1>6, <2>1, <2>2, StateIsState
    <2>4. decomp'.discard = no /\ decomp'.rekeys = kr /\ decomp'.used = 0 + 1 /\ decomp'.ccount = m.ccount
      BY Zenon, <1>6
    <2> QED BY Zenon, <1>2, <1>5, <1>6, <2>3, <2>4
  <1>7. MppeTypes'
    BY Zenon, <1>2, <1>f, TakenTypes DEF MppeInv, MppeTypes
  <1>8. LineInv' /\ HeadDamaged' = 0 /\ HeadDamaged = 0 /\ \A r, w : Before(2, r, w) => Before(1, r, w)'
    BY Zenon, LineShrinks, HeadFacts DEF MppeInv
  <1>9. ASSUME ~ flushMissed
        PROVE  \E d \in Nat, u \in Nat : StatefulAt(d, u)'
    <2>1. PICK d \in Nat, u \in Nat : StatefulAt(d, u)
      BY Zenon, <1>9 DEF MppeInv
    <2>2. PICK g \in Nat, al \in Int :
            /\ g = Gone /\ g + 1 = Gone' /\ al = Allowance /\ al = Allowance'
            /\ d <= g /\ al >= 0 /\ al <= BlockReach
      <3>1. Gone' = Gone + 1 /\ Gone \in Nat
        BY Zenon, LineShrinks DEF MppeInv, MppeTypes
      <3>2. Allowance \in Int /\ Allowance' = Allowance /\ Allowance <= BlockReach /\ Allowance >= 0
        <4>1. Allowance \in Int /\ Allowance <= BlockReach /\ Allowance = lost + damaged - HeadDamaged
          BY Zenon, LossBounds DEF MppeInv
        <4>2. Allowance' = Allowance
          BY Zenon, <1>8 DEF Allowance
        <4>3. lost \in Nat /\ damaged \in Nat
          BY Zenon DEF MppeInv, MppeTypes
        <4>4. lost + damaged - 0 >= 0
          BY <4>3
        <4> QED BY Zenon, <1>8, <4>1, <4>2, <4>4
      <3>3. d <= Gone
        BY Zenon, <2>1 DEF StatefulAt
      <3> QED BY Zenon, <3>1, <3>2, <3>3
    <2>3. m.ccount = CountOf(g + 1) /\ decomp.ccount = CountOf(d + 1)
      BY Zenon, <1>1, <2>1, <2>2, HeadFacts DEF StatefulAt, MppeInv
    <2>4. missed = Block(g) - Block(d)
      <3>1. Block(g) - Block(d) <= 15
        <4>1. Block(g) - Block(d) <= al + 1
          BY Zenon, <2>1, <2>2 DEF StatefulAt
        <4>2. Block(g) \in Nat /\ Block(d) \in Nat /\ BlockReach = 14
          BY Zenon, BlockFacts, Reaches
        <4>3. al <= BlockReach
          BY Zenon, <2>2
        <4> QED BY <4>1, <4>2, <4>3
      <3>2. missed = (CountOf(g + 1) \div MPPE_BLOCK - CountOf(d + 1) \div MPPE_BLOCK + blocks) % blocks
        BY Zenon, <1>1, <2>3
      <3> QED BY Zenon, <2>2, <3>1, <3>2, BlocksMissed
    <2>5. m.key = <<kr, 0>>
      <3>1. PICK b : b = decomp.rekeys + (Block(g) - Block(d))
        BY Zenon
      <3>2. Follows(b, u, m)
        BY Zenon, <1>1, <2>1, <2>2, <3>1, HeadFacts DEF StatefulAt, MppeInv
      <3>3. kr = b + 1
        BY Zenon, <1>2, <1>4, <2>4, <3>1 DEF IsState
      <3> QED BY Zenon, <1>1, <3>2, <3>3 DEF Follows
    <2>6. ~ misread' /\ Before(2, kr, 1)
      <3>1. m.key[1] = kr /\ m.key[2] + 1 = 1
        BY <2>5
      <3> QED BY Zenon, <1>1, <1>6, <2>1, <2>5, <3>1, HeadFacts DEF StatefulAt, MppeInv
    <2>7. Before(1, kr, 1)'
      BY Zenon, <1>8, <2>6
    <2>8. Block(g + 1) - Block(g + 1) = 0
      <3>1. g + 1 \in Nat
        OBVIOUS
      <3>2. Block(g + 1) \in Nat
        BY Zenon, <3>1, BlockFacts
      <3> QED BY <3>2
    <2>9. decomp'.rekeys = kr /\ decomp'.used = 0 + 1 /\ decomp'.ccount = CountOf(g + 1)
      BY Zenon, <1>f, <2>3
    <2>10. PICK n \in Nat : n = g + 1
      OBVIOUS
    <2>11. kr = decomp'.rekeys + (Block(n) - Block(n))
      BY <2>8, <2>9, <2>10
    <2>12. IF decomp'.discard
           THEN decomp'.ccount = CountOf(n + 1) /\ Block(n) - Block(n) <= al + 1
           ELSE decomp'.ccount = CountOf(n) /\ n - n <= al /\ (n = n => 1 = decomp'.used)
      <3>1. n - n <= al /\ 0 + 1 = 1
        BY <2>2
      <3> QED BY Zenon, <1>f, <2>9, <2>10, <3>1
    <2>13. StatefulAt(n, 1)'
      <3>1. n <= n /\ Gone' = n /\ 1 \in Nat
        BY <2>2, <2>10
      <3>2. HeadDamaged' # 1 /\ Allowance' = al
        BY <1>8, <2>2
      <3> QED BY Zenon, <2>6, <2>7, <2>11, <2>12, <3>1, <3>2, StatefulPlace
    <2> QED BY Zenon, <2>13
  <1> QED BY Zenon, <1>f, <1>7, <1>8, <1>9 DEF MppeInv

\* mppe_decompress: the first packet of the line is refused, or read, or dropped.
LEMMA MppeReceiveStep ==
  ASSUME MppeHypothesis, MppeInv, mppe_decompress
  PROVE  MppeInv'
  <1>1. /\ line' = Tail(line) /\ line # <<>> /\ UNCHANGED <<stateful, comp, sent, lost, damaged>>
        /\ flushMissed' = (flushMissed \/ (ResetFlush(line[1]) /\ decomp'.discard))
        /\ \/ ~ line[1].encrypted /\ SanityError(SANITY_BAD)
           \/ line[1].encrypted /\ ~ stateful /\ DecompressStateless(line[1])
           \/ line[1].encrypted /\ stateful /\ DecompressStateful(line[1])
    <2>1. PICK i \in 1 .. Len(line) :
            /\ i = 1
            /\ line' = SubSeq(line, 1, i - 1) \o SubSeq(line, i + 1, Len(line))
            /\ UNCHANGED <<stateful, comp, sent, lost, damaged>>
            /\ flushMissed' = (flushMissed \/ (ResetFlush(line[1]) /\ decomp'.discard))
            /\ LET insane == ~ line[1].encrypted \/ (~stateful /\ ~ line[1].flushed)
                             \/ (stateful /\ FlagPacket(line[1].ccount) /\ ~ line[1].flushed)
               IN \/ insane /\ SanityError(SANITY_BAD)
                  \/ ~insane /\ ~stateful /\ DecompressStateless(line[1])
                  \/ ~insane /\ stateful /\ DecompressStateful(line[1])
      BY Zenon DEF mppe_decompress, MppeHypothesis
    <2>2. line' = Tail(line) /\ line # <<>>
      BY Zenon, <2>1, HeadTaken DEF MppeInv
    <2>3. ~stateful \/ FlagPacket(line[1].ccount) => line[1].flushed
      BY Zenon, <2>2, HeadFacts DEF MppeInv
    <2> QED BY Zenon, <2>1, <2>2, <2>3
  <1>2. /\ IsState(decomp) /\ decomp.discard \in BOOLEAN /\ flushMissed \in BOOLEAN /\ lost \in Nat
        /\ lost <= MaxMppeLost /\ line[1] \in MppePacket
    BY Zenon, <1>1, HeadFacts DEF MppeInv, MppeTypes, IsState
  <1>3. CASE ~ line[1].encrypted /\ SanityError(SANITY_BAD)
    <2>1. /\ IsState(decomp') /\ decomp'.rekeys = decomp.rekeys /\ decomp'.used = decomp.used
          /\ decomp'.ccount = decomp.ccount /\ decomp'.discard = decomp.discard /\ UNCHANGED misread
      <3>1. decomp = State(decomp.rekeys, decomp.used, decomp.ccount, decomp.flushed, decomp.discard,
                           decomp.sanity_errors)
        BY Zenon, <1>2 DEF IsState
      <3>2. decomp' = WithErrors(decomp, SANITY_BAD) /\ UNCHANGED misread
        BY Zenon, <1>3 DEF SanityError, WithErrors
      <3>3. decomp' = State(decomp.rekeys, decomp.used, decomp.ccount, decomp.flushed, decomp.discard,
                            decomp.sanity_errors + SANITY_BAD)
        BY <3>1, <3>2, ErrorsAdded
      <3>4. /\ decomp.rekeys \in Nat /\ decomp.used \in Nat /\ decomp.ccount \in Nat
            /\ decomp.flushed \in BOOLEAN /\ decomp.discard \in BOOLEAN
        BY Zenon, <1>2 DEF IsState
      <3>5. IsState(decomp')
        BY Zenon, <3>3, <3>4, StateIsState
      <3>6. /\ decomp'.rekeys = decomp.rekeys /\ decomp'.used = decomp.used
            /\ decomp'.ccount = decomp.ccount /\ decomp'.discard = decomp.discard
        BY <3>3, StateFields
      <3> QED BY Zenon, <3>2, <3>5, <3>6
    <2>2. HeadDamaged = 1
      BY Zenon, <1>1, <1>3, HeadFacts DEF MppeInv
    <2>3. flushMissed' \in BOOLEAN /\ (~ flushMissed' => ~ flushMissed)
      BY Zenon, <1>1, <1>2, <2>1 DEF ResetFlush, MppePacket, FlagPacket
    <2>4. lost >= lost + 1 - HeadDamaged
      BY <1>2, <2>2
    <2>5. stateful /\ ~ flushMissed' => ~ flushMissed /\ ~ ResetFlush(line[1])
      BY Zenon, <2>2, <2>3 DEF MppeInv, StatefulAt
    <2> QED BY Zenon, <1>1, <1>2, <2>1, <2>3, <2>4, <2>5, MppeSkipStep
  <1>4. CASE line[1].encrypted /\ ~ stateful /\ DecompressStateless(line[1])
    <2>1. flushMissed' \in BOOLEAN
      BY Zenon, <1>1
    <2> QED BY Zenon, <1>1, <1>4, <2>1, MppeStatelessStep
  <1>5. CASE line[1].encrypted /\ stateful /\ DecompressStateful(line[1])
    <2>1. CASE ~ decomp.discard /\ line[1].ccount = NextCount(decomp.ccount)
      <3>1. PICK next : next = WithCount(decomp, NextCount(decomp.ccount))
        BY Zenon
      <3>2. next.ccount = NextCount(decomp.ccount)
        BY Zenon, <1>2, <3>1 DEF IsState, State, WithCount
      <3>3. Accept(IF line[1].flushed THEN mppe_rekey(next) ELSE next, line[1])
        BY Zenon, <1>5, <2>1, <3>1, <3>2 DEF DecompressStateful, WithCount
      <3> QED BY Zenon, <1>1, <1>5, <2>1, <3>1, <3>3, MppeInTurnStep
    <2>2. CASE ~ decomp.discard /\ line[1].ccount # NextCount(decomp.ccount)
      <3>1. PICK next : next = WithCount(decomp, NextCount(decomp.ccount))
        BY Zenon
      <3>2. next.ccount = NextCount(decomp.ccount)
        BY Zenon, <1>2, <3>1 DEF IsState, State, WithCount
      <3>3. decomp' = WithDiscard(next, TRUE) /\ UNCHANGED misread
        BY Zenon, <1>5, <2>2, <3>1, <3>2 DEF DecompressStateful, WithCount, WithDiscard
      <3>4. PICK yes \in BOOLEAN : yes = TRUE
        BY Zenon
      <3>5. PICK c \in Nat : c = NextCount(decomp.ccount)
        BY <1>2 DEF IsState, NextCount, MppeHypothesis, MppeNumbers
      <3>6. next = WithCount(decomp, c) /\ decomp' = WithDiscard(next, yes)
        BY Zenon, <3>1, <3>3, <3>4, <3>5
      <3>9. IsState(next) /\ next.rekeys = decomp.rekeys /\ next.ccount = c
        <4>1. IsState(decomp)
          BY Zenon, <1>2
        <4>2. next = WithCount(decomp, c)
          BY Zenon, <3>6
        <4> QED BY <4>1, <4>2, CountState
      <3>10. /\ IsState(decomp') /\ decomp'.rekeys = next.rekeys
             /\ decomp'.ccount = next.ccount /\ decomp'.discard = yes
        BY ZenonT(40), <3>6, <3>9, DiscardState
      <3>7. IsState(decomp') /\ decomp'.discard = yes /\ decomp'.rekeys = decomp.rekeys /\ decomp'.ccount = c
        BY Zenon, <3>9, <3>10
      <3>8. decomp'.discard /\ decomp'.ccount = NextCount(decomp.ccount)
        BY Zenon, <3>4, <3>5, <3>7
      <3> QED BY Zenon, <1>1, <1>5, <2>2, <3>3, <3>7, <3>8, MppeGapStep
    <2>3. CASE decomp.discard /\ ~ line[1].flushed
      <3>1. UNCHANGED <<decomp, misread>>
        BY Zenon, <1>5, <2>3 DEF DecompressStateful
      <3>2. flushMissed' = flushMissed
        BY Zenon, <1>1, <1>2, <2>3 DEF ResetFlush
      <3> QED BY Zenon, <1>1, <1>5, <2>3, <3>1, <3>2, MppeDropStep
    <2>4. CASE decomp.discard /\ line[1].flushed
      <3>4. PICK blocks : blocks = MPPE_CCOUNT_SPACE \div MPPE_BLOCK
        BY Zenon
      <3>1. PICK missed : missed = (line[1].ccount \div MPPE_BLOCK - decomp.ccount \div MPPE_BLOCK + blocks) % blocks
        BY Zenon
      <3>2. PICK caught : caught = CaughtUp(decomp, missed)
        BY Zenon
      <3>3. Accept(mppe_rekey(WithDiscardCount(caught, FALSE, line[1].ccount)), line[1])
        BY Zenon, <1>5, <2>4, <3>1, <3>2, <3>4 DEF DecompressStateful, CaughtUp, WithRekeys, WithDiscardCount
      <3> QED BY Zenon, <1>1, <1>5, <2>4, <3>1, <3>2, <3>3, <3>4, MppeResyncStep
    <2> QED BY Zenon, <1>2, <2>1, <2>2, <2>3, <2>4
  <1> QED BY Zenon, <1>1, <1>3, <1>4, <1>5

\* The invariant holds initially (mppe_init).
LEMMA MppeInitInv ==
  ASSUME MppeHypothesis, MppeInit
  PROVE  MppeInv
  <1>n. PICK no \in BOOLEAN : no = FALSE
    BY Zenon
  <1>m. PICK c : c = MPPE_CCOUNT_SPACE - 1
    BY Zenon
  <1>1. comp = State(0 + 1, 0, c, no, no, 0) /\ decomp = comp
    <2>1. PICK s : s = State(0, 0, c, no, no, 0)
      BY Zenon
    <2>2. mppe_init = mppe_rekey(s)
      BY Zenon, <1>n, <1>m, <2>1 DEF mppe_init, State
    <2>3. mppe_init = State(0 + 1, 0, c, no, no, 0)
      BY <2>1, <2>2, RekeyOf
    <2> QED BY Zenon, <2>3 DEF MppeInit
  <1>2. /\ line = <<>> /\ sent = 0 /\ lost = 0 /\ damaged = 0
        /\ flushMissed = FALSE /\ misread = FALSE /\ stateful \in Stateful
    BY Zenon DEF MppeInit
  <1>3. Len(line) = 0 /\ line \in Seq(MppePacket) /\ Gone = 0
    <2>1. PICK q : q = <<>> /\ q = line
      BY Zenon, <1>2
    <2>2. Len(q) = 0 /\ q \in Seq(MppePacket)
      BY <2>1
    <2>3. Len(line) = 0 /\ line \in Seq(MppePacket)
      BY Zenon, <2>1, <2>2
    <2>5. sent = 0
      BY Zenon, <1>2
    <2>4. sent - Len(line) = 0
      BY <2>3, <2>5
    <2> QED BY Zenon, <2>3, <2>4 DEF Gone
  <1>f. comp.rekeys = 0 + 1 /\ comp.used = 0 /\ comp.ccount = c /\ comp.discard = no
    BY <1>1, StateFields
  <1>c. CountOf(0) = c /\ c \in Nat /\ Block(0) = 0
    BY Zenon, <1>m, FirstCount
  <1>4. MppeTypes
    <2>1. IsState(comp) /\ IsState(decomp)
      <3>1. 0 + 1 \in Nat /\ 0 \in Nat /\ FALSE \in BOOLEAN
        OBVIOUS
      <3> QED BY Zenon, <1>n, <1>1, <1>c, <3>1, StateIsState
    <2>2. lost <= MaxMppeLost /\ damaged <= MaxMppeDamaged /\ lost \in Nat /\ damaged \in Nat /\ sent \in Nat
      BY <1>2 DEF MppeHypothesis
    <2>3. Gone \in Nat /\ comp.ccount = CountOf(sent)
      BY Zenon, <1>2, <1>3, <1>f, <1>c
    <2>4. flushMissed \in BOOLEAN /\ misread \in BOOLEAN
      BY Zenon, <1>2
    <2> QED BY Zenon, <1>2, <1>3, <2>1, <2>2, <2>3, <2>4 DEF MppeTypes
  <1>5. LineInv
    BY <1>3 DEF LineInv
  <1>6. HeadDamaged = 0 /\ Allowance = 0
    BY <1>2 DEF HeadDamaged, Allowance
  <1>7. Before(1, 1, 0)
    BY <1>3, <1>f DEF Before
  <1>8. StatelessAt(0, 0)
    <2>1. 0 <= 0 /\ 0 - 0 <= 0 /\ 0 + 1 = 1
      OBVIOUS
    <2> QED BY Zenon, <1>1, <1>2, <1>3, <1>6, <1>7, <1>f, <1>c, <2>1 DEF StatelessAt
  <1>9. StatefulAt(0, 0)
    <2>1. decomp.rekeys = 0 + 1 /\ Block(Gone) = 0
      BY Zenon, <1>1, <1>3, <1>f, <1>c
    <2>3. decomp.rekeys + (Block(Gone) - Block(0)) = 1
      BY <1>c, <2>1
    <2>2. 0 <= 0 /\ 0 - 0 <= 0 /\ 0 # 1
      OBVIOUS
    <2> QED BY Zenon, <1>1, <1>2, <1>3, <1>6, <1>7, <1>f, <1>c, <1>n, <2>2, <2>3 DEF StatefulAt
  <1>10. 0 \in Nat
    BY Zenon
  <1> QED BY Zenon, <1>4, <1>5, <1>8, <1>9, <1>10 DEF MppeInv

\* The invariant is inductive.
LEMMA MppeNextInv ==
  ASSUME MppeHypothesis, MppeInv, [MppeNext]_mppeVars
  PROVE  MppeInv'
  <1>1. IsState(comp) /\ lost \in Nat /\ MaxMppeLost \in Nat /\ lost <= MaxMppeLost
    BY Zenon DEF MppeInv, MppeTypes, MppeHypothesis
  <1>2. CASE mppe_compress
    BY Zenon, <1>2, MppeSendStep
  <1>3. CASE mppe_decompress
    BY Zenon, <1>3, MppeReceiveStep
  <1>4. CASE Lose
    <2>1. /\ line # <<>> /\ line' = Tail(line) /\ lost' = lost + 1 /\ lost < MaxMppeLost
          /\ UNCHANGED <<stateful, comp, decomp, sent, damaged, misread>>
          /\ flushMissed' = (flushMissed \/ ResetFlush(line[1]))
      BY <1>4 DEF Lose, MppeInv, MppeTypes
    <2>2. flushMissed' \in BOOLEAN
      BY Zenon, <2>1, HeadFacts DEF MppeInv, MppeTypes, ResetFlush, MppePacket, FlagPacket
    <2>3. HeadDamaged \in {0, 1}
      BY Zenon DEF HeadDamaged
    <2>4. IsState(decomp') /\ IsState(decomp)
      BY Zenon, <2>1 DEF MppeInv, MppeTypes
    <2>5. lost' >= lost + 1 - HeadDamaged /\ lost' <= MaxMppeLost /\ lost' \in Nat
      BY <1>1, <2>1, <2>3
    <2> QED BY Zenon, <1>1, <2>1, <2>2, <2>4, <2>5, MppeSkipStep
  <1>5. CASE Damage
    BY Zenon, <1>5, MppeDamageStep
  <1>6. CASE ccp_extcode
    <2>1. /\ IsState(comp') /\ comp'.rekeys = comp.rekeys /\ comp'.used = comp.used /\ comp'.ccount = comp.ccount
          /\ UNCHANGED <<stateful, decomp, line, sent, lost, damaged, flushMissed, misread>>
      <3>1. /\ comp' = comp \/ comp' = WithFlushed(comp, TRUE)
            /\ UNCHANGED <<stateful, decomp, line, sent, lost, damaged, flushMissed, misread>>
        BY Zenon, <1>6 DEF ccp_extcode, WithFlushed
      <3>2. CASE comp' = comp
        BY Zenon, <1>1, <3>1, <3>2
      <3>3. CASE comp' = WithFlushed(comp, TRUE)
        <4>1. PICK yes \in BOOLEAN : yes = TRUE
          BY Zenon
        <4>2. comp' = WithFlushed(comp, yes)
          BY Zenon, <3>3, <4>1
        <4>3. IsState(comp') /\ comp'.rekeys = comp.rekeys /\ comp'.used = comp.used /\ comp'.ccount = comp.ccount
          BY Zenon, <1>1, <4>2, FlushedState
        <4> QED BY Zenon, <3>1, <4>3
      <3> QED BY Zenon, <3>1, <3>2, <3>3
    <2> QED BY Zenon, <1>1, <2>1, MppeResetStep
  <1>7. CASE LoseReset
    BY <1>1, <1>7, MppeResetStep DEF LoseReset
  <1>8. CASE ccp_rack_timeout
    BY Zenon, <1>1, <1>8, MppeResetStep DEF ccp_rack_timeout
  <1>9. CASE UNCHANGED mppeVars
    BY Zenon, <1>1, <1>9, MppeResetStep DEF mppeVars
  <1> QED BY Zenon, <1>2, <1>3, <1>4, <1>5, <1>6, <1>7, <1>8, <1>9 DEF MppeNext

\* Whatever is lost or damaged, a packet that mppe_decompress accepts is decrypted with the
\* key it was encrypted with, unless a packet flushed for a reset was itself missed in
\* stateful mode: with the 4096 counts and blocks of 256 of mppe.c, on a line that does not
\* overtake, for fewer losses than the receiver's count can tell apart, and for any number
\* of packets.
THEOREM MppeDecrypts ==
  ASSUME MppeHypothesis
  PROVE  MppeSpec => []DecryptsRight
  <1>1. MppeInv => DecryptsRight
    BY Zenon, LossBounds DEF MppeInv, StatelessAt, StatefulAt, DecryptsRight
  <1>2. MppeInit => MppeInv
    BY Zenon, MppeInitInv
  <1>3. MppeInv /\ [MppeNext]_mppeVars => MppeInv'
    BY Zenon, MppeNextInv
  <1> QED BY <1>1, <1>2, <1>3, PTL DEF MppeSpec
=============================================================================
