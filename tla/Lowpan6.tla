------------------------------ MODULE Lowpan6 -------------------------------
(***************************************************************************)
(* IPv6 over IEEE 802.15.4: the header compression of                      *)
(* netif/lowpan6_common.c and the fragmentation and reassembly of          *)
(* netif/lowpan6.c.  Nodes send datagrams to a receiver through a medium   *)
(* that loses, repeats and reorders frames.                                *)
(*                                                                         *)
(* An IPv6 address is <<prefix, interface identifier>>, its identifier     *)
(* <<"short", n>> or <<"eui", n>> when it is made from link address n; a   *)
(* multicast address is <<"mc", <<class, n>>>> by the bytes it leaves       *)
(* after compression.  Lengths count half blocks: the 8 octets fragment    *)
(* offsets are counted in are BLOCK.                                       *)
(***************************************************************************)
EXTENDS Integers, Sequences, FiniteSets, SequencesExt, FiniteSetsExt

CONSTANTS
  SENDERS,              \* the senders, each with a short and an extended link address
  RECEIVER,             \* the receiver
  CONTEXTS,             \* lowpan6_context: the prefixes, the same at every node
  LowpanFocuses,        \* "headers": every header, "fragments": long datagrams
  FRAME,                \* room in a frame after the IEEE 802.15.4 header
  MaxDatagram,          \* the longest payload
  MaxLowpanSent,        \* bound on the datagrams sent
  MaxRepeats            \* bound on the frames repeated

VARIABLES
  lowpanFocus,
  tx_datagram_tag,      \* sender -> the tag used last
  reass_list,           \* the datagrams being put together
  lowpanAir,                 \* the frames in the air
  lowpanSent,           \* the datagrams sent
  lowpanUp,             \* the datagrams handed to ip6_input
  repeats

lowpanVars == <<lowpanFocus, tx_datagram_tag, reass_list, lowpanAir, lowpanSent, lowpanUp, repeats>>

NIL == "nil"
BLOCK == 2
IP6_HLEN == 2 * BLOCK
UDP_HLEN == BLOCK
HdrLen == 1                                  \* a compressed header
FragHdrLen == 1
UNSPECIFIED == <<"zero", <<"zero", 0>>>>
NoPorts == [src |-> <<>>, dst |-> <<>>]
Short(n) == [len |-> 2, id |-> n]
Ext(n) == [len |-> 8, id |-> n]
ieee_802154_broadcast == Short(65535)

(***************************************************************************)
(* Addresses.                                                              *)
(***************************************************************************)
Iid(mac) == IF mac.len = 2 THEN <<"short", mac.id>> ELSE <<"eui", mac.id>>

lowpan6_get_address_mode(a, mac) ==
  CASE a[2] = Iid(mac) -> 3
    [] a[2] # Iid(mac) /\ a[2][1] = "short" -> 2
    [] OTHER -> 1

lowpan6_get_address_mode_mc(a) ==
  CASE a[2][1] = "m8" -> 3
    [] a[2][1] = "m32" -> 2
    [] a[2][1] = "m48" -> 1
    [] OTHER -> 0

\* The first context with the prefix, counted from 0.
lowpan6_context_lookup(a) ==
  LET fit == {k \in DOMAIN CONTEXTS : CONTEXTS[k] = a[1]}
  IN IF fit = {} THEN -1 ELSE Min(fit) - 1

(***************************************************************************)
(* Compression.  Flags choose what follows inline; NIL: nothing does.      *)
(***************************************************************************)
CompressTraffic(h) ==
  CASE h.fl = 0 /\ h.tc = <<0, 0>> -> [tf |-> 3, in |-> NIL]
    [] h.fl = 0 /\ h.tc # <<0, 0>> -> [tf |-> 2, in |-> <<h.tc>>]
    [] h.fl # 0 /\ h.tc[2] = 0 -> [tf |-> 1, in |-> <<h.tc[1], h.fl>>]
    [] OTHER -> [tf |-> 0, in |-> <<h.tc, h.fl>>]

\* A unicast address whose prefix needs not be sent.
CompressIid(a, mac) ==
  LET mode == lowpan6_get_address_mode(a, mac)
  IN [mode |-> mode, in |-> CASE mode = 1 -> a[2] [] mode = 2 -> a[2][2] [] OTHER -> NIL]

CompressSource(a, mac) ==
  LET c == lowpan6_context_lookup(a)
  IN IF c >= 0 THEN [sac |-> TRUE, cid |-> c, addr |-> CompressIid(a, mac)]
     ELSE IF a[1] = "ll" THEN [sac |-> FALSE, cid |-> 0, addr |-> CompressIid(a, mac)]
     ELSE IF a = UNSPECIFIED THEN [sac |-> TRUE, cid |-> 0, addr |-> [mode |-> 0, in |-> NIL]]
     ELSE [sac |-> FALSE, cid |-> 0, addr |-> [mode |-> 0, in |-> a]]

CompressDest(a, mac) ==
  LET c == lowpan6_context_lookup(a)
      mc == lowpan6_get_address_mode_mc(a)
  IN IF a[1] = "mc"
       THEN [m |-> TRUE, dac |-> c >= 0, cid |-> IF c >= 0 THEN c ELSE 0,
             addr |-> [mode |-> mc, in |-> IF mc = 0 THEN a ELSE a[2][2]]]
     ELSE IF c >= 0 \/ a[1] = "ll"
       THEN [m |-> FALSE, dac |-> c >= 0, cid |-> IF c >= 0 THEN c ELSE 0, addr |-> CompressIid(a, mac)]
     ELSE [m |-> FALSE, dac |-> FALSE, cid |-> 0, addr |-> [mode |-> 0, in |-> a]]

\* A port is <<first octet, upper half of the second, lower half>>.
CompressUdp(u) ==
  CASE u.src[1] = "f0" /\ u.src[2] = "b" /\ u.dst[1] = "f0" /\ u.dst[2] = "b"
         -> [p |-> 3, in |-> <<u.src[3], u.dst[3]>>]
    [] u.src[1] = "f0" /\ ~(u.src[2] = "b" /\ u.dst[1] = "f0" /\ u.dst[2] = "b")
         -> [p |-> 2, in |-> <<Tail(u.src), u.dst>>]
    [] u.src[1] # "f0" /\ u.dst[1] = "f0" -> [p |-> 1, in |-> <<u.src, Tail(u.dst)>>]
    [] OTHER -> [p |-> 0, in |-> <<u.src, u.dst>>]

lowpan6_compress_headers(h, src, dst) ==
  LET s == CompressSource(h.src, src)
      d == CompressDest(h.dst, dst)
  IN [t |-> CompressTraffic(h),
      cidByte |-> s.cid # 0 \/ d.cid # 0,
      nh |-> IF h.nexth = "udp" THEN NIL ELSE h.nexth,
      hl |-> IF h.hoplim \in {1, 64, 255} THEN [code |-> h.hoplim, in |-> NIL] ELSE [code |-> 0, in |-> h.hoplim],
      s |-> s, d |-> d,
      udp |-> IF h.nexth = "udp" THEN CompressUdp(h.udp) ELSE [p |-> 0, in |-> <<>>]]

HiddenLen(h) == IF h.nexth = "udp" THEN IP6_HLEN + UDP_HLEN ELSE IP6_HLEN

(***************************************************************************)
(* Decompression, with the link addresses of the frame.                    *)
(***************************************************************************)
DecompressTraffic(t) ==
  CASE t.tf = 0 -> <<t.in[1], t.in[2]>>
    [] t.tf = 1 -> <<<<t.in[1], 0>>, t.in[2]>>
    [] t.tf = 2 -> <<t.in[1], 0>>
    [] OTHER -> <<<<0, 0>>, 0>>

DecompressIid(c, mac) ==
  CASE c.mode = 1 -> c.in
    [] c.mode = 2 -> <<"short", c.in>>
    [] OTHER -> Iid(mac)

\* The context octet is there for both addresses or not at all.
ContextOf(z, cid) == CONTEXTS[(IF z.cidByte THEN cid ELSE 0) + 1]

DecompressSource(z, mac) ==
  CASE ~z.s.sac /\ z.s.addr.mode = 0 -> z.s.addr.in
    [] ~z.s.sac /\ z.s.addr.mode # 0 -> <<"ll", DecompressIid(z.s.addr, mac)>>
    [] z.s.sac /\ z.s.addr.mode = 0 -> UNSPECIFIED
    [] OTHER -> <<ContextOf(z, z.s.cid), DecompressIid(z.s.addr, mac)>>

\* A multicast address with a context is refused (see lowpan6_decompress).
DecompressDest(z, mac) ==
  LET class == CASE z.d.addr.mode = 1 -> "m48" [] z.d.addr.mode = 2 -> "m32" [] OTHER -> "m8"
  IN IF z.d.m
       THEN IF z.d.dac THEN UNSPECIFIED ELSE IF z.d.addr.mode = 0 THEN z.d.addr.in ELSE <<"mc", <<class, z.d.addr.in>>>>
     ELSE IF z.d.addr.mode = 0 THEN z.d.addr.in
     ELSE <<IF z.d.dac THEN ContextOf(z, z.d.cid) ELSE "ll", DecompressIid(z.d.addr, mac)>>

DecompressUdp(u) ==
  CASE u.p = 0 -> [src |-> u.in[1], dst |-> u.in[2]]
    [] u.p = 1 -> [src |-> u.in[1], dst |-> <<"f0">> \o u.in[2]]
    [] u.p = 2 -> [src |-> <<"f0">> \o u.in[1], dst |-> u.in[2]]
    [] OTHER -> [src |-> <<"f0", "b", u.in[1]>>, dst |-> <<"f0", "b", u.in[2]>>]

\* size: the size of the whole datagram, from the fragment header, or 0;
\* data: what follows the compressed header in this frame.
lowpan6_decompress_hdr(z, size, data, src, dst) ==
  LET t == DecompressTraffic(z.t)
      hidden == IF z.nh = NIL THEN IP6_HLEN + UDP_HLEN ELSE IP6_HLEN
  IN [tc |-> t[1], fl |-> t[2],
      nexth |-> IF z.nh = NIL THEN "udp" ELSE z.nh,
      hoplim |-> IF z.hl.code = 0 THEN z.hl.in ELSE z.hl.code,
      src |-> DecompressSource(z, src), dst |-> DecompressDest(z, dst),
      udp |-> IF z.nh = NIL THEN DecompressUdp(z.udp) ELSE NoPorts,
      plen |-> (IF size = 0 THEN data + hidden ELSE size) - IP6_HLEN]

lowpan6_decompress(z, size, data, src, dst) ==
  IF z.d.m /\ z.d.dac THEN {}
  ELSE LET h == lowpan6_decompress_hdr(z, size, data, src, dst)
       IN {[h |-> h, len |-> data + (IF h.nexth = "udp" THEN IP6_HLEN + UDP_HLEN ELSE IP6_HLEN)]}

(***************************************************************************)
(* Sending.                                                                *)
(***************************************************************************)
\* A piece of a datagram's payload.
Piece(n, from, len) == [of |-> n, from |-> from, len |-> len]

\* One frame, or a first fragment and the ones after it.  n: the datagram's
\* number, h its headers, tot_len what follows them.
lowpan6_frag(n, h, tot_len, src, dst, tag) ==
  LET z == lowpan6_compress_headers(h, src, dst)
      hidden == HiddenLen(h)
      max_data_len == FRAME - HdrLen
      data_len == ((max_data_len - FragHdrLen) \div BLOCK) * BLOCK
      step == ((FRAME - FragHdrLen) \div BLOCK) * BLOCK
      rest == tot_len - data_len
      Frame(kind, t, size, off, piece) ==
        [kind |-> kind, src |-> src, dst |-> dst, tag |-> t, size |-> size, off |-> off, z |-> z, piece |-> piece]
      Nth(k) == Frame("next", tag, tot_len + hidden, data_len + hidden + k * step,
                      Piece(n, data_len + k * step, Min({step, rest - k * step})))
  IN IF tot_len <= max_data_len THEN {Frame("whole", 0, 0, 0, Piece(n, 0, tot_len))}
     ELSE {Frame("first", tag, tot_len + hidden, 0, Piece(n, 0, data_len))}
            \cup {Nth(k) : k \in {k \in 0 .. rest : k * step < rest}}

\* The link addresses: short ones when the IPv6 addresses are made from them,
\* the extended address neighbour discovery knows otherwise.
lowpan6_output(s, h, tot_len) ==
  LET src == IF lowpan6_get_address_mode(h.src, Short(s)) = 3 THEN Short(s) ELSE Ext(s)
      dst == IF h.dst[1] = "mc" THEN ieee_802154_broadcast
             ELSE IF src.len = 2 /\ h.src[1] = h.dst[1] /\ h.dst[2][1] = "short" THEN Short(h.dst[2][2])
             ELSE Ext(RECEIVER)
      tag == tx_datagram_tag[s] + 1
      n == Len(lowpanSent) + 1
  IN /\ n <= MaxLowpanSent
     /\ lowpanAir' = lowpanAir \cup lowpan6_frag(n, h, tot_len, src, dst, tag)
     /\ tx_datagram_tag' = IF tot_len > FRAME - HdrLen THEN [tx_datagram_tag EXCEPT ![s] = tag] ELSE tx_datagram_tag
     /\ lowpanSent' = Append(lowpanSent, [h |-> [h EXCEPT !.plen = tot_len + HiddenLen(h) - IP6_HLEN], len |-> tot_len])
     /\ UNCHANGED <<lowpanFocus, reass_list, lowpanUp, repeats>>

(***************************************************************************)
(* Receiving.                                                              *)
(***************************************************************************)
Without(k) == SubSeq(reass_list, 1, k - 1) \o SubSeq(reass_list, k + 1, Len(reass_list))

\* A new datagram from a sender ends its older ones; the same one again is dropped.
ReceiveFirst(f) ==
  LET q == lowpan6_decompress(f.z, f.size, f.piece.len, f.src, f.dst)
      Same(r) == r.sender = f.src /\ r.tag = f.tag /\ r.size = f.size
      others == SelectSeq(reass_list, LAMBDA r : r.sender # f.src)
  IN IF \E k \in DOMAIN reass_list : Same(reass_list[k]) THEN UNCHANGED <<reass_list, lowpanUp>>
     ELSE /\ reass_list' = IF q = {} THEN others
                           ELSE <<[sender |-> f.src, tag |-> f.tag, size |-> f.size, timer |-> 2, frags |-> <<>>,
                                   reass |-> CHOOSE r \in q : TRUE, head |-> f.piece]>> \o others
          /\ UNCHANGED lowpanUp

\* Puts the fragment in its place; an overlap ends the datagram, a repeat is
\* dropped, the last missing one completes it.
ReceiveNext(f) ==
  LET match == {k \in DOMAIN reass_list : /\ reass_list[k].sender = f.src
                                         /\ reass_list[k].tag = f.tag /\ reass_list[k].size = f.size}
      k == Min(match)
      r == reass_list[k]
      after == {j \in DOMAIN r.frags : f.off < r.frags[j].off}
      at == IF after = {} THEN Len(r.frags) + 1 ELSE Min(after)
      repeated == {j \in DOMAIN r.frags : r.frags[j].off = f.off}
      overlap == \/ f.off < r.reass.len
                 \/ repeated = {} /\ after # {} /\ f.off + f.piece.len > r.frags[at].off
                 \/ \E j \in repeated : r.frags[j].piece.len # f.piece.len
      new == [off |-> f.off, piece |-> f.piece]
      frags == SubSeq(r.frags, 1, at - 1) \o <<new>> \o SubSeq(r.frags, at, Len(r.frags))
      End(j) == IF j = 0 THEN r.reass.len ELSE frags[j].off + frags[j].piece.len
      whole == (\A j \in DOMAIN frags : frags[j].off = End(j - 1)) /\ End(Len(frags)) = r.size
  IN IF match = {} \/ (~overlap /\ repeated # {}) THEN UNCHANGED <<reass_list, lowpanUp>>
     ELSE IF overlap THEN reass_list' = Without(k) /\ UNCHANGED lowpanUp
     ELSE IF whole
       THEN /\ reass_list' = Without(k)
            /\ lowpanUp' = {[h |-> r.reass.h, pieces |-> <<r.head>> \o [j \in DOMAIN frags |-> frags[j].piece]]}
     ELSE reass_list' = [reass_list EXCEPT ![k].frags = frags] /\ UNCHANGED lowpanUp

ReceiveWhole(f) ==
  /\ lowpanUp' = {[h |-> q.h, pieces |-> <<f.piece>>] : q \in lowpan6_decompress(f.z, 0, f.piece.len, f.src, f.dst)}
  /\ UNCHANGED reass_list

lowpan6_input(f) ==
  \/ f.kind = "first" /\ ReceiveFirst(f)
  \/ f.kind = "next" /\ ReceiveNext(f)
  \/ f.kind = "whole" /\ ReceiveWhole(f)

\* A frame arrives, and may arrive again later.
Arrive(f, again) ==
  /\ lowpan6_input(f)
  /\ lowpanAir' = IF again THEN lowpanAir ELSE lowpanAir \ {f}
  /\ repeats' = IF again THEN repeats + 1 ELSE repeats
  /\ repeats' <= MaxRepeats
  /\ UNCHANGED <<lowpanFocus, tx_datagram_tag, lowpanSent>>

LoseFrame(f) ==
  /\ lowpanAir' = lowpanAir \ {f}
  /\ UNCHANGED <<lowpanFocus, tx_datagram_tag, reass_list, lowpanSent, lowpanUp, repeats>>

lowpan6_tmr ==
  /\ reass_list # <<>>
  /\ reass_list' = [k \in DOMAIN SelectSeq(reass_list, LAMBDA r : r.timer > 1) |->
                      [SelectSeq(reass_list, LAMBDA r : r.timer > 1)[k] EXCEPT !.timer = @ - 1]]
  /\ UNCHANGED <<lowpanFocus, tx_datagram_tag, lowpanAir, lowpanSent, lowpanUp, repeats>>

lowpan6_if_init ==
  /\ lowpanFocus \in LowpanFocuses
  /\ tx_datagram_tag = [s \in SENDERS |-> 0]
  /\ reass_list = <<>>
  /\ lowpanAir = {}
  /\ lowpanSent = <<>>
  /\ lowpanUp = {}
  /\ repeats = 0

(***************************************************************************)
(* What is sent: all combinations of headers, or a few long datagrams.     *)
(***************************************************************************)
Sources(s) == {UNSPECIFIED} \cup
  {<<p, i>> : p \in {"ll", "far"} \cup ToSet(CONTEXTS), i \in {<<"short", s>>, <<"eui", s>>, <<"short", s + 5>>, <<"other", 1>>}}
Destinations == {<<"mc", <<c, 1>>>> : c \in {"m8", "m32", "m48", "m128"}} \cup
  {<<p, i>> : p \in {"ll", "far"} \cup ToSet(CONTEXTS), i \in {<<"short", RECEIVER>>, <<"eui", RECEIVER>>, <<"other", 1>>}}
Ports == {<<"f0", "b", 1>>, <<"f0", "y", 2>>, <<"xx", "b", 3>>}
Ip6Header(tc, fl, nexth, hoplim, src, dst, udp) ==
  [tc |-> tc, fl |-> fl, nexth |-> nexth, hoplim |-> hoplim, src |-> src, dst |-> dst, udp |-> udp, plen |-> 0]

SendHeader(s) ==
  \E src \in Sources(s), dst \in Destinations :
    \/ \E p, q \in Ports :
         lowpan6_output(s, Ip6Header(<<0, 0>>, 0, "udp", 64, src, dst, [src |-> p, dst |-> q]), 1)
    \/ \E tc \in {<<0, 0>>, <<1, 0>>, <<0, 1>>, <<1, 1>>}, fl \in {0, 1}, hoplim \in {1, 7, 64, 255} :
         lowpan6_output(s, Ip6Header(tc, fl, "icmp6", hoplim, src, dst, NoPorts), 1)

SendLong(s) ==
  \E len \in 1 .. MaxDatagram : \E nexth \in {"udp", "icmp6"} :
    /\ len \in {FRAME - HdrLen, FRAME - HdrLen + 1, MaxDatagram - 1, MaxDatagram}
    /\ lowpan6_output(s, Ip6Header(<<0, 0>>, 0, nexth, 64, <<"ll", <<"short", s>>>>, <<"ll", <<"eui", RECEIVER>>>>,
                                IF nexth = "udp" THEN [src |-> <<"f0", "b", 1>>, dst |-> <<"f0", "b", 1>>] ELSE NoPorts), len)

LowpanNext ==
  \/ lowpanFocus = "headers" /\ lowpanSent = <<>> /\ \E s \in SENDERS : SendHeader(s)
  \/ lowpanFocus = "fragments" /\ \E s \in SENDERS : SendLong(s)
  \/ \E f \in lowpanAir : LoseFrame(f) \/ \E again \in BOOLEAN : Arrive(f, again)
  \/ lowpan6_tmr

LowpanSpec == lowpan6_if_init /\ [][LowpanNext]_lowpanVars

(***************************************************************************)
(* Properties.                                                             *)
(***************************************************************************)
\* Every datagram handed to ip6_input is one that was sent: its headers are
\* what lowpan6_compress_headers was given, whatever was elided, and its
\* payload is all of that datagram's, in order, whatever fragments were lost,
\* repeated, overtaken or still there of others.
DatagramsRestored ==
  \A d \in lowpanUp :
    \E n \in DOMAIN lowpanSent :
      /\ d.h = lowpanSent[n].h
      /\ \A k \in DOMAIN d.pieces :
           /\ d.pieces[k].of = n
           /\ d.pieces[k].from = IF k = 1 THEN 0 ELSE d.pieces[k - 1].from + d.pieces[k - 1].len
      /\ d.pieces[Len(d.pieces)].from + d.pieces[Len(d.pieces)].len = lowpanSent[n].len
=============================================================================
