-------------------------------- MODULE Mppe --------------------------------
(***************************************************************************)
(* MPPE encryption of one direction of a PPP link (netif/ppp/mppe.c), with *)
(* the CCP reset exchange of ccp.c that goes the other way.  The keys are  *)
(* abstract: a session key is the number of times mppe_rekey derived it,   *)
(* and the position in the RC4 stream is the number of packets encrypted   *)
(* since.  A packet carries the key it was encrypted with; the receiver    *)
(* reads it right when it decrypts with the same key.                      *)
(***************************************************************************)
EXTENDS Integers, Sequences

CONSTANTS
    MPPE_CCOUNT_SPACE,   \* size of the coherency count
    MPPE_BLOCK,          \* a flag packet is the last of each block of counts
    SANITY_BAD, SANITY_MAX,
    Stateful,            \* the modes to consider, a set of booleans
    MppeReorder,         \* whether the line may overtake
    MaxMppeSends, MaxMppeLost, MaxMppeDamaged

VARIABLES
    stateful,            \* the mode negotiated by CCP
    comp,                \* the sender's ppp_mppe_state
    decomp,              \* the receiver's ppp_mppe_state
    line,                \* encrypted packets on their way
    ccpLine,             \* RESETREQ and RESETACK on their way
    rack,                \* the receiver's ccp_localstate, reqid and rack timer
    sent, lost, damaged, \* counts of packets, for the bounds
    flushMissed,         \* a packet flushed for a reset was never decrypted
    misread              \* a packet was decrypted with the wrong key

mppeVars == <<stateful, comp, decomp, line, ccpLine, rack, sent, lost, damaged, flushMissed, misread>>

Key(s) == <<s.rekeys, s.used>>

mppe_rekey(s) == [s EXCEPT !.rekeys = @ + 1, !.used = 0]

Crypt(s) == [s EXCEPT !.used = @ + 1]

mppe_init ==
    mppe_rekey([rekeys |-> 0, used |-> 0, ccount |-> MPPE_CCOUNT_SPACE - 1, flushed |-> FALSE,
                discard |-> FALSE, sanity_errors |-> 0])

FlagPacket(ccount) == ccount % MPPE_BLOCK = MPPE_BLOCK - 1

NextCount(c) == (c + 1) % MPPE_CCOUNT_SPACE

(* Flushed by mppe_comp_reset, not because the count ends a block. *)
ResetFlush(m) == m.flushed /\ ~FlagPacket(m.ccount)

(* C's remainder takes the sign of the dividend. *)
Remainder(a, b) == IF a >= 0 THEN a % b ELSE 0 - ((0 - a) % b)

-----------------------------------------------------------------------------
MppeInit ==
    /\ stateful \in Stateful
    /\ comp = mppe_init /\ decomp = mppe_init
    /\ line = <<>>
    /\ ccpLine = {}
    /\ rack = [pending |-> FALSE, repeat |-> FALSE, reqid |-> 0, timer |-> FALSE, closed |-> FALSE]
    /\ sent = 0 /\ lost = 0 /\ damaged = 0
    /\ flushMissed = FALSE /\ misread = FALSE

(* The flushed bit of the previous reset or rekey goes out with the packet. *)
mppe_compress ==
    LET c == NextCount(comp.ccount)
        flush == ~stateful \/ FlagPacket(c) \/ comp.flushed
        R == IF flush THEN mppe_rekey(comp) ELSE comp
    IN /\ sent < MaxMppeSends
       /\ line' = Append(line, [ccount |-> c, flushed |-> flush, encrypted |-> TRUE, key |-> Key(R)])
       /\ comp' = [Crypt(R) EXCEPT !.ccount = c, !.flushed = FALSE]
       /\ sent' = sent + 1
       /\ UNCHANGED <<stateful, decomp, ccpLine, rack, lost, damaged, flushMissed, misread>>

(* Too many errors close LCP, which ends the session of this model. *)
SanityError(by) ==
    /\ decomp' = [decomp EXCEPT !.sanity_errors = @ + by]
    /\ rack' = [rack EXCEPT !.closed = @ \/ decomp.sanity_errors + by >= SANITY_MAX]
    /\ UNCHANGED <<ccpLine, misread>>

(* The packet is decrypted; s is the state once the key is chosen. *)
Accept(s, m) ==
    /\ decomp' = [Crypt(s) EXCEPT !.sanity_errors = @ \div 2]
    /\ misread' = (misread \/ Key(s) # m.key)
    /\ UNCHANGED <<ccpLine, rack>>

(* Catch up on the keys of the packets that were lost: one for each count. *)
LatePacket(m) == Remainder(m.ccount - decomp.ccount, MPPE_CCOUNT_SPACE) > MPPE_CCOUNT_SPACE \div 2
\* Faulty variant: the key changes once, however many packets are missing.
RekeyOnce(m) ==
    LET s == IF m.ccount = decomp.ccount THEN decomp
             ELSE [mppe_rekey(decomp) EXCEPT !.ccount = m.ccount]
    IN IF LatePacket(m) THEN SanityError(1) ELSE Accept(s, m)

DecompressStateless(m) ==
    LET missed == (m.ccount - decomp.ccount + MPPE_CCOUNT_SPACE) % MPPE_CCOUNT_SPACE
        s == IF missed = 0 THEN decomp
             ELSE [mppe_rekey(decomp) EXCEPT !.rekeys = decomp.rekeys + missed, !.ccount = m.ccount]
    IN IF LatePacket(m) THEN SanityError(1) ELSE Accept(s, m)

ccp_resetrequest ==
    IF rack.pending
    THEN rack' = [rack EXCEPT !.repeat = TRUE] /\ UNCHANGED ccpLine
    ELSE /\ rack' = [rack EXCEPT !.pending = TRUE, !.timer = TRUE, !.reqid = @ + 1]
         /\ ccpLine' = ccpLine \cup {[code |-> "RESETREQ", id |-> rack.reqid + 1]}

(* A gap makes the receiver discard until a flushed packet, for which it   *)
(* catches up on the key of every flag packet it missed.                   *)
DecompressStateful(m) ==
    LET next == [decomp EXCEPT !.ccount = NextCount(decomp.ccount)]
        blocks == MPPE_CCOUNT_SPACE \div MPPE_BLOCK
        missed == (m.ccount \div MPPE_BLOCK - decomp.ccount \div MPPE_BLOCK + blocks) % blocks
        caught == IF missed = 0 THEN decomp
                  ELSE [mppe_rekey(decomp) EXCEPT !.rekeys = decomp.rekeys + missed]
        TakeIt(s) == Accept(IF m.flushed THEN mppe_rekey(s) ELSE s, m)
    IN \/ ~decomp.discard /\ m.ccount = next.ccount /\ TakeIt(next)
       \/ /\ ~decomp.discard /\ m.ccount # next.ccount
          /\ decomp' = [next EXCEPT !.discard = TRUE]
          /\ ccp_resetrequest
          /\ UNCHANGED misread
       \/ /\ decomp.discard /\ ~m.flushed
          /\ UNCHANGED <<decomp, ccpLine, rack, misread>>
       \/ /\ decomp.discard /\ m.flushed
          /\ TakeIt([caught EXCEPT !.discard = FALSE, !.ccount = m.ccount])

mppe_decompress ==
    \E i \in 1 .. Len(line) :
       LET m == line[i]
           insane == ~m.encrypted \/ (~stateful /\ ~m.flushed)
                     \/ (stateful /\ FlagPacket(m.ccount) /\ ~m.flushed)
       IN /\ MppeReorder \/ i = 1
          /\ line' = SubSeq(line, 1, i - 1) \o SubSeq(line, i + 1, Len(line))
          /\ \/ insane /\ SanityError(SANITY_BAD)
             \/ ~insane /\ ~stateful /\ DecompressStateless(m)
             \/ ~insane /\ stateful /\ DecompressStateful(m)
          /\ flushMissed' = (flushMissed \/ (ResetFlush(m) /\ decomp'.discard))
          /\ UNCHANGED <<stateful, comp, sent, lost, damaged>>

Lose ==
    /\ lost < MaxMppeLost /\ line # <<>>
    /\ line' = Tail(line)
    /\ lost' = lost + 1
    /\ flushMissed' = (flushMissed \/ ResetFlush(Head(line)))
    /\ UNCHANGED <<stateful, comp, decomp, ccpLine, rack, sent, damaged, misread>>

(* A packet that is not what a peer running this code would send. *)
Damage ==
    /\ damaged < MaxMppeDamaged /\ line # <<>>
    /\ line' = [line EXCEPT ![1].encrypted = FALSE]
    /\ damaged' = damaged + 1
    /\ flushMissed' = (flushMissed \/ ResetFlush(Head(line)))
    /\ UNCHANGED <<stateful, comp, decomp, ccpLine, rack, sent, lost, misread>>

(* mppe_comp_reset at the sender, mppe_decomp_reset (nothing) at the       *)
(* receiver.                                                               *)
ccp_extcode ==
    \E m \in ccpLine :
       \/ /\ m.code = "RESETREQ"
          /\ comp' = [comp EXCEPT !.flushed = TRUE]
          /\ ccpLine' = (ccpLine \ {m}) \cup {[code |-> "RESETACK", id |-> m.id]}
          /\ UNCHANGED <<stateful, decomp, line, rack, sent, lost, damaged, flushMissed, misread>>
       \/ /\ m.code = "RESETACK"
          /\ rack' = IF rack.pending /\ m.id = rack.reqid
                     THEN [rack EXCEPT !.pending = FALSE, !.repeat = FALSE, !.timer = FALSE]
                     ELSE rack
          /\ ccpLine' = ccpLine \ {m}
          /\ UNCHANGED <<stateful, comp, decomp, line, sent, lost, damaged, flushMissed, misread>>

LoseReset ==
    /\ lost < MaxMppeLost
    /\ \E m \in ccpLine : ccpLine' = ccpLine \ {m}
    /\ lost' = lost + 1
    /\ UNCHANGED <<stateful, comp, decomp, line, rack, sent, damaged, flushMissed, misread>>

ccp_rack_timeout ==
    /\ rack.timer
    /\ IF rack.repeat
       THEN /\ rack' = [rack EXCEPT !.repeat = FALSE]
            /\ ccpLine' = ccpLine \cup {[code |-> "RESETREQ", id |-> rack.reqid]}
       ELSE rack' = [rack EXCEPT !.pending = FALSE, !.timer = FALSE] /\ UNCHANGED ccpLine
    /\ UNCHANGED <<stateful, comp, decomp, line, sent, lost, damaged, flushMissed, misread>>

MppeNext ==
    /\ ~rack.closed
    /\ \/ mppe_compress \/ mppe_decompress \/ Lose \/ Damage
       \/ ccp_extcode \/ LoseReset \/ ccp_rack_timeout

MppeSpec == MppeInit /\ [][MppeNext]_mppeVars

-----------------------------------------------------------------------------
(* A packet the receiver accepts is decrypted with the key it was          *)
(* encrypted with, whatever was lost before it.  In stateful mode this     *)
(* needs that no packet flushed for a reset was lost or itself revealed a  *)
(* gap: it derives a key the receiver of mppe_decompress cannot count.     *)
DecryptsRight == misread => stateful /\ flushMissed

=============================================================================
