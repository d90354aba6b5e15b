-------------------------------- MODULE Pbuf --------------------------------
(***************************************************************************)
(* Packet buffers (src/core/pbuf.c).  buf maps the address of a buffer to  *)
(* [next, data, tot, ref, type, room]: data is its payload, room the free  *)
(* header space in front of it.  held counts the references the            *)
(* application has to a buffer.  The code's u16_t lengths count modulo     *)
(* U16.                                                                    *)
(***************************************************************************)
EXTENDS Integers, SequencesExt

CONSTANTS
  PBUFS,            \* addresses of buffers
  U16,
  POOL_BUFSIZE,     \* payload of a buffer of the pool
  Packets,          \* types and lengths the application allocates
  HeaderRoom,       \* header space of a new buffer
  MaxHeld,          \* bound on the references the application keeps
  MaxPbufSteps      \* bound on the length of a behaviour

VARIABLES buf, held, pbufSteps

pbufVars == <<buf, held, pbufSteps>>

NoPbuf == [next |-> 0, data |-> << >>, tot |-> 0, ref |-> 0, type |-> "free", room |-> 0]

PbufInit == buf = [p \in PBUFS |-> NoPbuf] /\ held = [p \in PBUFS |-> 0] /\ pbufSteps = 0

FreeBufs(B) == {p \in PBUFS : B[p].type = "free"}

len(B, p) == Len(B[p].data)

\* The buffers of a chain, first one first.
RECURSIVE ChainOf(_, _)
ChainOf(B, p) == IF p = 0 THEN << >> ELSE <<p>> \o ChainOf(B, B[p].next)

pbuf_clen(B, p) == Len(ChainOf(B, p))

Bytes(B, p) == FlattenSeq([k \in 1 .. pbuf_clen(B, p) |-> B[ChainOf(B, p)[k]].data])

pbuf_init_alloced_pbuf(data, tot, type, room) ==
  [next |-> 0, data |-> data, tot |-> tot, ref |-> 1, type |-> type, room |-> room]

\* Gives back p and every buffer behind it whose last reference goes with it.
RECURSIVE pbuf_free(_, _)
pbuf_free(B, p) ==
  IF p = 0 THEN B
  ELSE IF B[p].ref > 1 THEN [B EXCEPT ![p].ref = @ - 1]
  ELSE pbuf_free([B EXCEPT ![p] = NoPbuf], B[p].next)

\* The chain of pool buffers for bytes; [buf, p |-> 0] when the pool runs out, after
\* what was taken is given back.
RECURSIVE AllocPool(_, _, _, _, _)
AllocPool(B, first, last, bytes, room) ==
  LET q == CHOOSE q \in FreeBufs(B) : \A r \in FreeBufs(B) : q <= r
      qlen == IF Len(bytes) < POOL_BUFSIZE - room THEN Len(bytes) ELSE POOL_BUFSIZE - room
      B1 == [B EXCEPT ![q] = pbuf_init_alloced_pbuf(SubSeq(bytes, 1, qlen), Len(bytes), "POOL", room)]
      B2 == IF first = 0 THEN B1 ELSE [B1 EXCEPT ![last].next = q]
      head == IF first = 0 THEN q ELSE first
  IN  IF FreeBufs(B) = {} THEN [buf |-> pbuf_free(B, first), p |-> 0]
      ELSE IF qlen = Len(bytes) THEN [buf |-> B2, p |-> head]
      ELSE AllocPool(B2, head, q, SubSeq(bytes, qlen + 1, Len(bytes)), 0)

\* The payload of REF and ROM buffers lies elsewhere, without header space.
pbuf_alloc(B, type, bytes, room) ==
  LET q == CHOOSE q \in FreeBufs(B) : \A r \in FreeBufs(B) : q <= r
  IN  IF type = "POOL" THEN AllocPool(B, 0, 0, bytes, room)
      ELSE IF FreeBufs(B) = {} THEN [buf |-> B, p |-> 0]
      ELSE [buf |-> [B EXCEPT ![q] = pbuf_init_alloced_pbuf(bytes, Len(bytes), type,
                                         IF type = "RAM" THEN room ELSE 0)],
            p |-> q]

\* Shrinks a packet; the buffers behind the new end are given back.
RECURSIVE ReallocFrom(_, _, _, _)
ReallocFrom(B, q, rem, shrink) ==
  IF rem > len(B, q)
  THEN ReallocFrom([B EXCEPT ![q].tot = (@ - shrink) % U16], B[q].next, rem - len(B, q), shrink)
  ELSE pbuf_free([B EXCEPT ![q].data = SubSeq(@, 1, rem), ![q].tot = rem, ![q].next = 0],
                 B[q].next)

pbuf_realloc(B, p, new) ==
  IF new >= B[p].tot THEN B ELSE ReallocFrom(B, p, new, B[p].tot - new)

\* Header bytes are written as 1.
pbuf_add_header(B, p, n) ==
  IF B[p].type \notin {"RAM", "POOL"} \/ B[p].room < n \/ (n + B[p].tot) % U16 < n
  THEN [buf |-> B, ok |-> FALSE]
  ELSE [buf |-> [B EXCEPT ![p].data = [k \in 1 .. n |-> 1] \o @, ![p].tot = @ + n,
                          ![p].room = @ - n],
        ok |-> TRUE]

pbuf_remove_header(B, p, n) ==
  IF n > len(B, p) THEN [buf |-> B, ok |-> FALSE]
  ELSE [buf |-> [B EXCEPT ![p].data = SubSeq(@, n + 1, Len(@)), ![p].tot = (@ - n) % U16,
                          ![p].room = IF B[p].type \in {"RAM", "POOL"} THEN @ + n ELSE @],
        ok |-> TRUE]

\* Whole buffers of the header are given back; the new first buffer is returned.
RECURSIVE pbuf_free_header(_, _, _)
pbuf_free_header(B, p, left) ==
  IF left = 0 \/ p = 0 THEN [buf |-> B, p |-> p]
  ELSE IF left >= len(B, p)
  THEN pbuf_free_header(pbuf_free([B EXCEPT ![p].next = 0], p), B[p].next, left - len(B, p))
  ELSE [buf |-> pbuf_remove_header(B, p, left).buf, p |-> p]

pbuf_ref(B, p) == [B EXCEPT ![p].ref = @ + 1]

pbuf_cat(B, h, t) ==
  LET c == ChainOf(B, h)
  IN  [q \in PBUFS |-> IF q \notin Range(c) THEN B[q]
                       ELSE [B[q] EXCEPT !.tot = (@ + B[t].tot) % U16,
                                         !.next = IF q = Last(c) THEN t ELSE @]]

pbuf_chain(B, h, t) == pbuf_ref(pbuf_cat(B, h, t), t)

\* Takes the first buffer off its chain; the rest loses its reference.
pbuf_dechain(B, p) ==
  LET q == B[p].next
  IN  IF q = 0 THEN B
      ELSE pbuf_free([B EXCEPT ![q].tot = (B[p].tot - len(B, p)) % U16, ![p].next = 0,
                               ![p].tot = len(B, p)], q)

\* The buffers of p from the first one that no longer fits in 16 bits go to rest.
pbuf_split_64k(B, p) ==
  LET c == ChainOf(B, p)
      Sum(k) == FoldLeft(LAMBDA a, q: a + len(B, q), 0, SubSeq(c, 1, k))
      over == {k \in 2 .. Len(c) : Sum(k) >= U16}
      k == CHOOSE k \in over : \A j \in over : k <= j
      front == SubSeq(c, 1, k - 1)
      r == c[k]
  IN  IF over = {} THEN [buf |-> B, rest |-> 0]
      ELSE [buf |-> [q \in PBUFS |->
                       IF q \notin Range(front) THEN B[q]
                       ELSE [B[q] EXCEPT !.tot = (@ - B[r].tot) % U16,
                                         !.next = IF q = Last(front) THEN 0 ELSE @]],
            rest |-> r]

\* The buffer and the place in it of the byte at offset; [q |-> 0] behind the end.
RECURSIVE pbuf_skip(_, _, _)
pbuf_skip(B, q, offset) ==
  IF q # 0 /\ len(B, q) <= offset THEN pbuf_skip(B, B[q].next, offset - len(B, q))
  ELSE [q |-> q, at |-> offset]

pbuf_try_get_at(B, p, offset) ==
  LET s == pbuf_skip(B, p, offset)
  IN  IF s.q = 0 THEN -1 ELSE B[s.q].data[s.at + 1]

pbuf_put_at(B, p, offset, byte) ==
  LET s == pbuf_skip(B, p, offset)
  IN  IF s.q = 0 THEN B ELSE [B EXCEPT ![s.q].data[s.at + 1] = byte]

\* What ends up in the destination: at most n bytes from offset on.
RECURSIVE pbuf_copy_partial(_, _, _, _)
pbuf_copy_partial(B, p, n, offset) ==
  LET left == len(B, p) - offset
      k == IF left < n THEN left ELSE n
  IN  IF n = 0 \/ p = 0 THEN << >>
      ELSE IF offset # 0 /\ offset >= len(B, p)
      THEN pbuf_copy_partial(B, B[p].next, n, offset - len(B, p))
      ELSE SubSeq(B[p].data, offset + 1, offset + k) \o pbuf_copy_partial(B, B[p].next, n - k, 0)

\* In place when one buffer holds it all, else copied.
pbuf_get_contiguous(B, p, n, offset) ==
  LET s == pbuf_skip(B, p, offset)
      copied == pbuf_copy_partial(B, s.q, n, s.at)
  IN  IF s.q = 0 THEN << >>
      ELSE IF len(B, s.q) >= s.at + n THEN SubSeq(B[s.q].data, s.at + 1, s.at + n)
      ELSE IF Len(copied) = n THEN copied ELSE << >>

\* Writes bytes over the start of the chain.
RECURSIVE pbuf_take(_, _, _)
pbuf_take(B, p, bytes) ==
  LET n == len(B, p)
      k == IF Len(bytes) < n THEN Len(bytes) ELSE n
  IN  IF bytes = << >> THEN B
      ELSE pbuf_take([B EXCEPT ![p].data = SubSeq(bytes, 1, k) \o SubSeq(@, k + 1, n)],
                     B[p].next, SubSeq(bytes, k + 1, Len(bytes)))

pbuf_take_at(B, p, bytes, offset) ==
  LET s == pbuf_skip(B, p, offset)
      k == IF len(B, s.q) - s.at < Len(bytes) THEN len(B, s.q) - s.at ELSE Len(bytes)
      B1 == [B EXCEPT ![s.q].data = SubSeq(@, 1, s.at) \o SubSeq(bytes, 1, k)
                                    \o SubSeq(@, s.at + k + 1, Len(@))]
  IN  IF s.q = 0 THEN B
      ELSE IF B[s.q].tot < s.at + Len(bytes) THEN B
      ELSE pbuf_take(B1, B[s.q].next, SubSeq(bytes, k + 1, Len(bytes)))

\* pbuf_copy_partial_pbuf from the start of both packets: the two chains need not
\* be cut at the same places.
RECURSIVE CopyChain(_, _, _, _, _, _)
CopyChain(B, to, offTo, from, offFrom, n) ==
  LET a == len(B, to) - offTo
      b == len(B, from) - offFrom
      fit == IF a >= b THEN b ELSE a
      k == IF n < fit THEN n ELSE fit
      B1 == [B EXCEPT ![to].data = SubSeq(@, 1, offTo) \o SubSeq(B[from].data, offFrom + 1, offFrom + k)
                                   \o SubSeq(@, offTo + k + 1, Len(@))]
  IN  IF n = 0 THEN B
      ELSE CopyChain(B1, IF offTo + k = len(B, to) THEN B[to].next ELSE to,
                     IF offTo + k = len(B, to) THEN 0 ELSE offTo + k,
                     IF offFrom + k >= len(B, from) THEN B[from].next ELSE from,
                     IF offFrom + k >= len(B, from) THEN 0 ELSE offFrom + k, n - k)

pbuf_copy(B, to, from) ==
  IF B[to].tot < B[from].tot THEN B ELSE CopyChain(B, to, 0, from, 0, B[from].tot)

pbuf_clone(B, type, p) ==
  LET r == pbuf_alloc(B, type, [k \in 1 .. B[p].tot |-> 9], 0)
  IN  IF r.p = 0 THEN r ELSE [r EXCEPT !.buf = pbuf_copy(r.buf, r.p, p)]

pbuf_coalesce(B, p) ==
  LET r == pbuf_clone(B, "RAM", p)
  IN  IF B[p].next = 0 \/ r.p = 0 THEN [buf |-> B, p |-> p]
      ELSE [r EXCEPT !.buf = pbuf_free(@, p)]

\* 0 when equal, else one more than the offset of the first difference; U16 - 1
\* when the packet is too short.
pbuf_memcmp(B, p, offset, bytes) ==
  LET s == pbuf_skip(B, p, offset)
      diff == {k \in 1 .. Len(bytes) : pbuf_try_get_at(B, s.q, s.at + k - 1) # bytes[k]}
  IN  IF B[p].tot < offset + Len(bytes) THEN U16 - 1
      ELSE IF diff = {} THEN 0 ELSE CHOOSE k \in diff : \A j \in diff : k <= j

pbuf_memfind(B, p, bytes, start) ==
  LET hits == {k \in start .. B[p].tot - Len(bytes) : pbuf_memcmp(B, p, k, bytes) = 0}
  IN  IF B[p].tot < Len(bytes) + start \/ hits = {} THEN U16 - 1
      ELSE CHOOSE k \in hits : \A j \in hits : k <= j

pbuf_strstr(B, p, bytes) == IF bytes = << >> THEN U16 - 1 ELSE pbuf_memfind(B, p, bytes, 0)
-----------------------------------------------------------------------------
Preds(B, p) == {q \in PBUFS : B[q].type # "free" /\ B[q].next = p}

\* Packets the application may work on: it holds the first buffer and the others
\* only belong to this chain.
Heads == {p \in PBUFS : held[p] > 0 /\ Preds(buf, p) = {}}
Sole == {p \in Heads : buf[p].ref = 1 /\ \A q \in Range(ChainOf(buf, p)) \ {p} : held[q] = 0}

Step(B) == buf' = B /\ UNCHANGED held

Pattern(n) == [k \in 1 .. n |-> 1 + (k % 2)]

Alloc ==
  \E k \in Packets :
    LET r == pbuf_alloc(buf, k.type, Pattern(k.len), HeaderRoom)
    IN  buf' = r.buf /\ held' = IF r.p = 0 THEN held ELSE [held EXCEPT ![r.p] = 1]

Ref == \E p \in PBUFS : held[p] \in 1 .. MaxHeld - 1
         /\ buf' = pbuf_ref(buf, p) /\ held' = [held EXCEPT ![p] = @ + 1]

Free == \E p \in PBUFS : held[p] > 0 /\ buf' = pbuf_free(buf, p) /\ held' = [held EXCEPT ![p] = @ - 1]

\* The caller's reference to t moves into the chain.
Cat ==
  \E h, t \in Heads :
    /\ h # t /\ Last(ChainOf(buf, h)) # Last(ChainOf(buf, t))
    /\ buf[h].tot + buf[t].tot < 2 * U16
    /\ buf' = pbuf_cat(buf, h, t) /\ held' = [held EXCEPT ![t] = @ - 1]

ChainUp ==
  \E h, t \in Heads :
    /\ h # t /\ Last(ChainOf(buf, h)) # Last(ChainOf(buf, t))
    /\ buf[h].tot + buf[t].tot < U16
    /\ Step(pbuf_chain(buf, h, t))

Dechain == \E p \in Heads : buf[p].next # 0 /\ Step(pbuf_dechain(buf, p))

Realloc == \E p \in Heads, n \in 0 .. 2 : n < buf[p].tot /\ Step(pbuf_realloc(buf, p, n))

AddHeader == \E p \in Heads : buf[p].room > 0 /\ Step(pbuf_add_header(buf, p, 1).buf)

RemoveHeader == \E p \in Heads : len(buf, p) > 0 /\ Step(pbuf_remove_header(buf, p, 1).buf)

FreeHeader ==
  \E p \in Sole, n \in 1 .. 2 :
    LET r == pbuf_free_header(buf, p, n)
    IN  buf' = r.buf /\ held' = [q \in PBUFS |-> IF q = r.p THEN 1 ELSE IF q = p THEN 0 ELSE held[q]]

Split64k ==
  \E p \in Sole :
    LET r == pbuf_split_64k(buf, p)
    IN  r.rest # 0 /\ buf' = r.buf /\ held' = [held EXCEPT ![r.rest] = 1]

Coalesce ==
  \E p \in Sole :
    LET r == pbuf_coalesce(buf, p)
    IN  r.p # p /\ buf' = r.buf /\ held' = [q \in PBUFS |-> IF q = r.p THEN 1 ELSE IF q = p THEN 0 ELSE held[q]]

PbufOps == Alloc \/ Ref \/ Free \/ Cat \/ ChainUp \/ Dechain \/ Realloc \/ AddHeader
           \/ RemoveHeader \/ FreeHeader \/ Split64k \/ Coalesce

PbufNext == pbufSteps < MaxPbufSteps /\ pbufSteps' = pbufSteps + 1 /\ PbufOps

PbufSpec == PbufInit /\ [][PbufNext]_pbufVars
-----------------------------------------------------------------------------
\* pbuf.c: a buffer's count is the number of references to it, the application's
\* and those of the buffers in front of it, so that no buffer is given back while
\* one of them is left, and none is lost.
RefsCounted ==
  \A p \in PBUFS : IF buf[p].type = "free" THEN held[p] = 0 /\ Preds(buf, p) = {}
                   ELSE buf[p].ref = held[p] + Cardinality(Preds(buf, p)) /\ buf[p].ref > 0

\* pbuf.h, "p->tot_len == p->len + (p->next? p->next->tot_len: 0)", in 16 bits, in
\* every buffer of every chain.
TotLenAddsUp ==
  \A p \in PBUFS : buf[p].type # "free" =>
    buf[p].tot = (len(buf, p) + (IF buf[p].next = 0 THEN 0 ELSE buf[buf[p].next].tot)) % U16

Window(s, n, offset) == SubSeq(s, offset + 1, IF offset + n < Len(s) THEN offset + n ELSE Len(s))

\* The readers and writers that walk a chain see its bytes as one string, wherever
\* it is cut: they agree with the same operation on the concatenated payloads.
WalksAgree ==
  \A p \in Heads :
    LET s == Bytes(buf, p)
        small == Len(s) < U16
    IN  small =>
        /\ \A offset \in 0 .. Len(s) :
             /\ pbuf_try_get_at(buf, p, offset) = IF offset < Len(s) THEN s[offset + 1] ELSE -1
             /\ offset < Len(s) => Bytes(pbuf_put_at(buf, p, offset, 7), p)
                                     = [s EXCEPT ![offset + 1] = 7]
             /\ \A n \in 1 .. 3 :
                  /\ pbuf_copy_partial(buf, p, n, offset) = Window(s, n, offset)
                  /\ offset + n <= Len(s) =>
                       /\ pbuf_get_contiguous(buf, p, n, offset) = Window(s, n, offset)
                       /\ Bytes(pbuf_take_at(buf, p, [k \in 1 .. n |-> 7], offset), p)
                            = [k \in 1 .. Len(s) |-> IF k \in offset + 1 .. offset + n THEN 7 ELSE s[k]]
        /\ \A bytes \in {<<1>>, <<2, 1>>, <<2, 2, 1>>} :
             LET at == {k \in 0 .. Len(s) - Len(bytes) : Window(s, Len(bytes), k) = bytes}
             IN  pbuf_strstr(buf, p, bytes) = IF at = {} THEN U16 - 1
                                              ELSE CHOOSE k \in at : \A j \in at : k <= j
        /\ LET r == pbuf_clone(buf, "POOL", p)
           IN  r.p # 0 => Bytes(r.buf, r.p) = s
=============================================================================
