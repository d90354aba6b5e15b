--------------------------- MODULE EthernetProofs ---------------------------
(***************************************************************************)
(* The ARP cache and the bridge for every value of their constants.  ARP:  *)
(* an address has one entry, packets wait at the pending entry of their    *)
(* next hop, and a frame is sent to an outdated hardware address only      *)
(* within ARP_MAXAGE ticks of the change.  Bridge: the learning table names *)
(* the port a host was last heard on, and frames follow it.                *)
(***************************************************************************)
EXTENDS Etharp, Bridge, WellFoundedInduction, SequenceTheorems, TLAPS

\* Types of an entry of the table.
Macs == (ARPHOSTS \X {0, 1}) \cup {NoMac}
ArpStates == {"EMPTY", "PENDING", "STABLE", "REREQUESTING_1", "REREQUESTING_2", "STATIC"}
ArpEntry == [state : ArpStates, ip : ARPHOSTS \cup {"any"}, eth : Macs, ctime : Nat,
             q : Seq(ARPHOSTS \cup {FAR})]

\* An entry in use is younger than ARP_MAXAGE, and while it is pending than ARP_MAXPENDING; packets
\* wait at pending entries for their next hop; a resolved entry holds the host's hardware address,
\* or is at least as old as the host's last change of it and not static.
EntryOK(e, macs, ages) ==
  /\ e.state # "EMPTY" => e.ip \in ARPHOSTS /\ e.ctime < ARP_MAXAGE
  /\ e.state = "PENDING" => e.ctime < ARP_MAXPENDING
  /\ e.state # "PENDING" => e.q = <<>>
  /\ Len(e.q) <= ARP_QUEUE_LEN
  /\ \A k \in DOMAIN e.q : NextHop(e.q[k]) = e.ip
  /\ IsStable(e) => \/ e.eth = macs[e.ip]
                    \/ e.state # "STATIC" /\ e.ctime >= ages[e.ip]

\* An address has one entry at most.
OneEntry(T) ==
  \A i, j \in Slots : T[i].state # "EMPTY" /\ T[j].state # "EMPTY" /\ T[i].ip = T[j].ip => i = j

TableOK(T, macs, ages) ==
  /\ T \in [Slots -> ArpEntry]
  /\ \A i \in Slots : EntryOK(T[i], macs, ages)
  /\ OneEntry(T)

\* The inductive invariant.
EtharpInv ==
  /\ hostMac \in [ARPHOSTS -> Macs]
  /\ moved \in [ARPHOSTS -> 0 .. ARP_MAXAGE]
  /\ TableOK(arp_table, hostMac, moved)
  /\ FramesReachTheHop

-----------------------------------------------------------------------------
\* Every non-empty set of naturals has a least element.
LEMMA LeastExists ==
  ASSUME NEW S \in SUBSET Nat, S # {}
  PROVE  \E k \in S : \A m \in S : k <= m
<1>1. PICK k \in S : \A m \in S : ~(<<m, k>> \in OpToRel(<, Nat))
  BY Zenon, NatLessThanWellFounded, WFMin
<1>2. \A m \in S : <<m, k>> \in OpToRel(<, Nat) <=> m < k
  BY Zenon DEF OpToRel
<1>3. \A m \in S : ~(m < k)
  BY <1>1, <1>2, Zenon
<1> QED BY <1>3

\* The first slot that a search of the table accepts is one it accepts.
LEMMA LeastInSet ==
  ASSUME NEW S \in SUBSET Slots, S # {}
  PROVE  Least(S) \in S
<1>1. S \in SUBSET Nat
  BY DEF Slots
<1> QED BY Zenon, <1>1, LeastExists DEF Least

\* The slot that is recycled, the oldest of its kind, exists.
LEMMA OldestInSet ==
  ASSUME NEW T \in [Slots -> ArpEntry], NEW S \in SUBSET Slots, S # {},
         \A i \in S : T[i].ctime < ARP_MAXAGE
  PROVE  Oldest(T, S) \in S
<1> DEFINE A == {ARP_MAXAGE - T[i].ctime : i \in S}
<1>1. \A i \in S : T[i].ctime \in Nat /\ i \in Nat /\ i < ARP_TABLE_SIZE
  BY EtharpAssumption DEF Slots, ArpEntry
<1>2. ARP_MAXAGE \in Nat /\ ARP_TABLE_SIZE \in Nat
  BY Zenon, EtharpAssumption
<1>3. A \in SUBSET Nat /\ A # {}
  BY <1>1, <1>2
<1>4. PICK a \in A : \A m \in A : a <= m
  <2> HIDE DEF A
  <2> QED BY Zenon, <1>3, LeastExists
<1>5. PICK x \in S : a = ARP_MAXAGE - T[x].ctime
  BY Zenon, <1>4
<1>6. \A j \in S : T[j].ctime <= T[x].ctime
  BY <1>1, <1>2, <1>4, <1>5
<1> DEFINE O == {i \in S : T[i].ctime = T[x].ctime}
           B == {ARP_TABLE_SIZE - i : i \in O}
<1>7. B \in SUBSET Nat /\ B # {}
  BY <1>1, <1>2, <1>5
<1>8. PICK b \in B : \A m \in B : b <= m
  <2> HIDE DEF B
  <2> QED BY Zenon, <1>7, LeastExists
<1>9. PICK y \in O : b = ARP_TABLE_SIZE - y
  BY Zenon, <1>8
<1>10. \A j \in O : j <= y
  BY <1>1, <1>2, <1>8, <1>9
<1>11. \A j \in S : T[j].ctime < T[y].ctime \/ (T[j].ctime = T[y].ctime /\ j <= y)
  BY <1>1, <1>6, <1>9, <1>10
<1> QED BY Zenon, <1>9, <1>11 DEF Oldest

\* A table stays sound when an entry is replaced by a sound one for an address no other entry has.
LEMMA PutEntry ==
  ASSUME NEW macs, NEW ages, NEW T, TableOK(T, macs, ages), NEW i \in Slots, NEW e \in ArpEntry,
         EntryOK(e, macs, ages),
         \A j \in Slots : j # i /\ T[j].state # "EMPTY" => T[j].ip # e.ip
  PROVE  TableOK([T EXCEPT ![i] = e], macs, ages)
<1> DEFINE R == [T EXCEPT ![i] = e]
<1>1. T \in [Slots -> ArpEntry] /\ OneEntry(T) /\ \A j \in Slots : EntryOK(T[j], macs, ages)
  BY Zenon DEF TableOK
<1>2. R \in [Slots -> ArpEntry] /\ \A j \in Slots : R[j] = IF j = i THEN e ELSE T[j]
  BY Zenon, <1>1
<1> HIDE DEF R
<1>3. \A j \in Slots : EntryOK(R[j], macs, ages)
  BY Zenon, <1>1, <1>2
<1>4. OneEntry(R)
  BY <1>1, <1>2 DEF OneEntry
<1>5. TableOK(R, macs, ages)
  BY Zenon, <1>2, <1>3, <1>4 DEF TableOK
<1> QED BY Zenon, <1>5 DEF R

\* What etharp_find_entry returns: the one entry of the address, or a slot emptied for it.
Fresh(ip) == [ARP_EMPTY EXCEPT !.ip = ip]
Finds(r, T, ip) ==
  \/ r.i = -1 /\ r.T = T
  \/ /\ r.i \in Slots
     /\ \A j \in Slots : j # r.i /\ T[j].state # "EMPTY" => T[j].ip # ip
     /\ \A e : [r.T EXCEPT ![r.i] = e] = [T EXCEPT ![r.i] = e]
     /\ \/ r.T = T /\ T[r.i].state # "EMPTY" /\ T[r.i].ip = ip
        \/ r.T[r.i] = Fresh(ip)

\* etharp_find_entry in a sound table.
LEMMA FindEntry ==
  ASSUME NEW macs, NEW ages, NEW T, TableOK(T, macs, ages), NEW ip \in ARPHOSTS, NEW flags
  PROVE  Finds(etharp_find_entry(T, ip, flags), T, ip)
<1> DEFINE found == {i \in Slots : T[i].state # "EMPTY" /\ T[i].ip = ip}
           empty == {i \in Slots : T[i].state = "EMPTY"}
           old == Recyclable(T)
           n == IF empty # {} THEN Least(empty) ELSE Oldest(T, old)
           r == etharp_find_entry(T, ip, flags)
<1> SUFFICES Finds(r, T, ip)
  BY Zenon
<1>1. T \in [Slots -> ArpEntry] /\ OneEntry(T) /\ \A j \in Slots : EntryOK(T[j], macs, ages)
  BY Zenon DEF TableOK
<1>2. CASE found # {}
  <2>1. r.i = Least(found) /\ r.T = T
    BY Zenon, <1>2 DEF etharp_find_entry
  <2>2. Least(found) \in found
    BY Zenon, <1>2, LeastInSet
  <2>3. r.i \in Slots /\ T[r.i].state # "EMPTY" /\ T[r.i].ip = ip
    BY Zenon, <2>1, <2>2
  <2>4. \A j \in Slots : j # r.i /\ T[j].state # "EMPTY" => T[j].ip # ip
    BY Zenon, <1>1, <2>3 DEF OneEntry
  <2>5. \A e : [r.T EXCEPT ![r.i] = e] = [T EXCEPT ![r.i] = e]
    BY Zenon, <2>1
  <2> HIDE DEF r
  <2> QED BY Zenon, <2>1, <2>3, <2>4, <2>5 DEF Finds
<1>3. CASE found = {} /\ ("FIND_ONLY" \in flags \/ (empty = {} /\ ("TRY_HARD" \notin flags \/ old = {})))
  BY Zenon, <1>3 DEF etharp_find_entry, Finds
<1>4. CASE found = {} /\ ~("FIND_ONLY" \in flags \/ (empty = {} /\ ("TRY_HARD" \notin flags \/ old = {})))
  <2>1. r.i = n /\ r.T = [T EXCEPT ![n] = Fresh(ip)]
    BY Zenon, <1>4 DEF etharp_find_entry, Fresh
  <2>2. n \in Slots
    <3>1. CASE empty # {}
      BY Zenon, <3>1, LeastInSet
    <3>2. CASE empty = {}
      <4>1. old \in SUBSET Slots /\ old # {}
        BY Zenon, <1>4, <3>2 DEF Recyclable
      <4>2. \A i \in old : T[i].ctime < ARP_MAXAGE
        BY Zenon, <1>1, <3>2, <4>1 DEF EntryOK
      <4> HIDE DEF old
      <4>3. Oldest(T, old) \in old
        BY Zenon, <1>1, <4>1, <4>2, OldestInSet
      <4> QED BY Zenon, <3>2, <4>1, <4>3
    <3> QED BY Zenon, <3>1, <3>2
  <2>3. \A j \in Slots : T[j].state # "EMPTY" => T[j].ip # ip
    BY Zenon, <1>4
  <2> HIDE DEF n
  <2>4. \A e : [r.T EXCEPT ![n] = e] = [T EXCEPT ![n] = e]
    BY Zenon, <1>1, <2>1, <2>2
  <2>5. r.T[n] = Fresh(ip)
    BY Zenon, <1>1, <2>1, <2>2
  <2> HIDE DEF r
  <2> QED BY Zenon, <2>1, <2>2, <2>3, <2>4, <2>5 DEF Finds
<1> QED BY Zenon, <1>2, <1>3, <1>4

\* A new entry is one, and is empty but for its address.
LEMMA FreshEntry ==
  ASSUME NEW ip \in ARPHOSTS
  PROVE  /\ Fresh(ip) \in ArpEntry /\ Fresh(ip).state = "EMPTY" /\ Fresh(ip).ip = ip
         /\ Fresh(ip).ctime = 0 /\ Fresh(ip).q = <<>>
<1>1. ARP_EMPTY \in ArpEntry
  BY Zenon, EmptySeq DEF ARP_EMPTY, ArpEntry, ArpStates, Macs, NoMac
<1>2. ARP_EMPTY.state = "EMPTY" /\ ARP_EMPTY.ctime = 0 /\ ARP_EMPTY.q = <<>>
  BY Zenon DEF ARP_EMPTY
<1> QED BY Zenon, <1>1, <1>2 DEF Fresh, ArpEntry

\* The fields of an entry.
LEMMA EntryFields ==
  ASSUME NEW e \in ArpEntry
  PROVE  /\ e.state \in ArpStates /\ e.ip \in ARPHOSTS \cup {"any"} /\ e.eth \in Macs
         /\ e.ctime \in Nat /\ e.q \in Seq(ARPHOSTS \cup {FAR})
BY Zenon DEF ArpEntry

\* An entry whose hardware address has been heard.
Resolved(e, state, eth) == [e EXCEPT !.state = state, !.eth = eth, !.ctime = 0, !.q = <<>>]

\* It is an entry.
LEMMA ResolvedEntry ==
  ASSUME NEW e \in ArpEntry, NEW state \in ArpStates, NEW eth \in Macs
  PROVE  Resolved(e, state, eth) \in ArpEntry
<1>1. <<>> \in Seq(ARPHOSTS \cup {FAR})
  BY Zenon, EmptySeq
<1> QED BY Zenon, <1>1 DEF Resolved, ArpEntry

\* Its fields: the address heard, no age, no queue.
LEMMA ResolvedFields ==
  ASSUME NEW e \in ArpEntry, NEW state, NEW eth
  PROVE  /\ Resolved(e, state, eth).state = state /\ Resolved(e, state, eth).eth = eth
         /\ Resolved(e, state, eth).ctime = 0 /\ Resolved(e, state, eth).q = <<>>
         /\ Resolved(e, state, eth).ip = e.ip
BY Zenon DEF Resolved, ArpEntry

\* etharp_update_arp_entry with the host's hardware address keeps the table sound and sends what
\* waited to that address.
LEMMA UpdateEntry ==
  ASSUME NEW macs \in [ARPHOSTS -> Macs], NEW ages, NEW T, TableOK(T, macs, ages),
         NEW ip \in ARPHOSTS, NEW flags,
         NEW u, u = etharp_update_arp_entry(T, ip, macs[ip], flags)
  PROVE  /\ TableOK(u.T, macs, ages)
         /\ \A f \in u.sent : f[2] = macs[f[1]]
<1> DEFINE r == etharp_find_entry(T, ip, flags)
           e == r.T[r.i]
           state == IF "STATIC_ENTRY" \in flags THEN "STATIC" ELSE "STABLE"
<1>1. ip # "any" /\ ARP_QUEUE_LEN \in Nat /\ ARP_MAXAGE \in Nat \ {0}
  BY Zenon, EtharpAssumption
<1>2. IF r.i < 0 \/ (e.state = "STATIC" /\ "STATIC_ENTRY" \notin flags)
      THEN u = [T |-> r.T, sent |-> {}]
      ELSE u = [T |-> [r.T EXCEPT ![r.i] = Resolved(e, state, macs[ip])],
                sent |-> IF e.q = <<>> THEN {} ELSE {<<ip, macs[ip]>>}]
  BY Zenon, <1>1 DEF etharp_update_arp_entry, Resolved
<1>3. Finds(r, T, ip)
  BY Zenon, FindEntry
<1> HIDE DEF r
<1>4. CASE r.i < 0 \/ (e.state = "STATIC" /\ "STATIC_ENTRY" \notin flags)
  <2>1. r.T = T
    BY <1>3, <1>4, FreshEntry DEF Slots, Finds
  <2>2. u.T = T /\ u.sent = {}
    BY <1>2, <1>4, <2>1
  <2> QED BY Zenon, <2>2
<1>5. CASE ~(r.i < 0 \/ (e.state = "STATIC" /\ "STATIC_ENTRY" \notin flags))
  <2> DEFINE x == Resolved(e, state, macs[ip])
  <2>1. r.i \in Slots /\ e \in ArpEntry /\ e.ip = ip
    BY <1>3, <1>5, FreshEntry DEF TableOK, Finds
  <2>2. state \in ArpStates /\ state \in {"STATIC", "STABLE"} /\ macs[ip] \in Macs
    BY Zenon DEF ArpStates
  <2> HIDE DEF e, state
  <2>3. x \in ArpEntry /\ x.state = state /\ x.eth = macs[ip] /\ x.ctime = 0 /\ x.q = <<>> /\ x.ip = ip
    BY <2>1, <2>2, ResolvedEntry, ResolvedFields
  <2> HIDE DEF x
  <2>4. EntryOK(x, macs, ages)
    BY <1>1, <2>2, <2>3 DEF EntryOK
  <2>5. u.T = [T EXCEPT ![r.i] = x]
    <3>1. u.T = [r.T EXCEPT ![r.i] = x]
      BY <1>2, <1>5 DEF x, e, state
    <3> QED BY Zenon, <1>3, <1>5, <3>1 DEF Finds
  <2>6. TableOK(u.T, macs, ages)
    BY <1>3, <1>5, <2>1, <2>3, <2>4, <2>5, PutEntry DEF Finds
  <2>7. \A f \in u.sent : f[2] = macs[f[1]]
    <3>1. u.sent \subseteq {<<ip, macs[ip]>>}
      BY <1>2, <1>5 DEF e, state
    <3> QED BY <3>1
  <2> QED BY Zenon, <2>6, <2>7
<1> QED BY Zenon, <1>4, <1>5

\* etharp_tmr on one entry: it ages with the host's last change of address, and is dropped in time.
LEMMA AgedEntry ==
  ASSUME NEW macs, NEW ages, NEW older, NEW e \in ArpEntry, EntryOK(e, macs, ages),
         \A h \in ARPHOSTS : ages[h] \in Nat /\ older[h] \in Nat /\ older[h] <= ages[h] + 1
  PROVE  /\ Aged(e) \in ArpEntry /\ EntryOK(Aged(e), macs, older)
         /\ Aged(e).state # "EMPTY" => e.state # "EMPTY" /\ Aged(e).ip = e.ip
<1> DEFINE n == e.ctime + 1
           s == IF e.state = "REREQUESTING_1" THEN "REREQUESTING_2"
                ELSE IF e.state = "REREQUESTING_2" THEN "STABLE" ELSE e.state
           g == [e EXCEPT !.ctime = n, !.state = s]
           expires == n >= ARP_MAXAGE \/ (e.state = "PENDING" /\ n >= ARP_MAXPENDING)
<1>1. /\ e.ctime \in Nat /\ n \in Nat /\ e.state \in ArpStates
      /\ ARP_MAXAGE \in Nat /\ ARP_MAXPENDING \in Nat /\ ARP_QUEUE_LEN \in Nat
  BY EtharpAssumption, EntryFields
<1>2. Aged(e) = IF e.state \in {"EMPTY", "STATIC"} THEN e ELSE IF expires THEN ARP_EMPTY ELSE g
  BY Zenon DEF Aged
<1>3. CASE e.state \in {"EMPTY", "STATIC"}
  <2>1. Aged(e) = e
    BY Zenon, <1>2, <1>3
  <2>2. EntryOK(e, macs, older)
    BY Zenon, <1>3 DEF EntryOK, IsStable
  <2> QED BY Zenon, <2>1, <2>2
<1>4. CASE e.state \notin {"EMPTY", "STATIC"} /\ expires
  <2>1. Aged(e) = ARP_EMPTY
    BY Zenon, <1>2, <1>4
  <2>2. ARP_EMPTY \in ArpEntry /\ ARP_EMPTY.state = "EMPTY" /\ ARP_EMPTY.q = <<>>
    BY Zenon, EmptySeq DEF ARP_EMPTY, ArpEntry, ArpStates, Macs, NoMac
  <2>3. EntryOK(ARP_EMPTY, macs, older)
    BY <1>1, <2>2 DEF EntryOK, IsStable
  <2> QED BY Zenon, <2>1, <2>2, <2>3
<1>5. CASE e.state \notin {"EMPTY", "STATIC"} /\ ~expires
  <2>1. Aged(e) = g
    BY Zenon, <1>2, <1>5
  <2>2. /\ s \in ArpStates /\ s # "EMPTY" /\ s # "STATIC" /\ (s = "PENDING") = (e.state = "PENDING")
        /\ e.ip \in ARPHOSTS
    BY Zenon, <1>1, <1>5 DEF ArpStates, EntryOK
  <2>3. e.state # "PENDING" => e.eth = macs[e.ip] \/ n >= older[e.ip]
    BY <1>1, <1>5, <2>2 DEF EntryOK, IsStable
  <2> HIDE DEF s
  <2>4. g \in ArpEntry /\ g.state = s /\ g.ctime = n /\ g.ip = e.ip /\ g.eth = e.eth /\ g.q = e.q
    BY Zenon, <1>1, <2>2 DEF ArpEntry
  <2> HIDE DEF g
  <2>5. EntryOK(g, macs, older)
    BY <1>1, <1>5, <2>2, <2>3, <2>4 DEF EntryOK, IsStable
  <2> QED BY Zenon, <1>5, <2>1, <2>2, <2>4, <2>5
<1> QED BY Zenon, <1>3, <1>4, <1>5

-----------------------------------------------------------------------------
\* A packet joins the queue of its entry; when the queue is full the oldest leaves it.
LEMMA QueueFacts ==
  ASSUME NEW X, NEW q \in Seq(X), NEW p \in X, Len(q) <= ARP_QUEUE_LEN
  PROVE  /\ QueueFor(q, p) \in Seq(X) /\ Len(QueueFor(q, p)) <= ARP_QUEUE_LEN
         /\ \A k \in DOMAIN QueueFor(q, p) :
              QueueFor(q, p)[k] = p \/ \E m \in DOMAIN q : QueueFor(q, p)[k] = q[m]
<1> DEFINE r == Append(q, p)
<1>1. ARP_QUEUE_LEN \in Nat /\ Len(q) \in Nat
  BY EtharpAssumption
<1>2. /\ r \in Seq(X) /\ Len(r) = Len(q) + 1 /\ r # <<>>
      /\ \A k \in 1 .. Len(r) : r[k] = p \/ \E m \in DOMAIN q : r[k] = q[m]
  BY AppendProperties
<1>3. QueueFor(q, p) = IF Len(q) >= ARP_QUEUE_LEN THEN Tail(r) ELSE r
  BY Zenon DEF QueueFor
<1> HIDE DEF r
<1>4. /\ Tail(r) \in Seq(X) /\ Len(Tail(r)) = Len(r) - 1
      /\ \A k \in 1 .. Len(Tail(r)) : Tail(r)[k] = r[k + 1]
  BY Zenon, <1>2, HeadTailProperties
<1>5. CASE Len(q) >= ARP_QUEUE_LEN
  <2>1. QueueFor(q, p) = Tail(r)
    BY Zenon, <1>3, <1>5
  <2>2. DOMAIN Tail(r) = 1 .. Len(Tail(r)) /\ \A k \in 1 .. Len(Tail(r)) : k + 1 \in 1 .. Len(r)
    BY <1>1, <1>2, <1>4
  <2> QED BY <1>1, <1>2, <1>4, <2>1, <2>2
<1>6. CASE ~(Len(q) >= ARP_QUEUE_LEN)
  BY <1>1, <1>2, <1>3, <1>6
<1> QED BY Zenon, <1>5, <1>6

\* A new pending entry, one whose request was repeated, and one that a packet has joined are sound.
LEMMA PendingEntry ==
  ASSUME NEW macs, NEW ages, NEW ip \in ARPHOSTS, NEW e, e = [Fresh(ip) EXCEPT !.state = "PENDING"]
  PROVE  e \in ArpEntry /\ e.ip = ip /\ e.state = "PENDING" /\ EntryOK(e, macs, ages)
<1> DEFINE f == Fresh(ip)
<1>1. f \in ArpEntry /\ f.ip = ip /\ f.ctime = 0 /\ f.q = <<>> /\ e = [f EXCEPT !.state = "PENDING"]
  BY Zenon, FreshEntry
<1> HIDE DEF f
<1>2. e \in ArpEntry /\ e.ip = ip /\ e.state = "PENDING" /\ e.ctime = 0 /\ e.q = <<>>
  BY Zenon, <1>1 DEF ArpEntry, ArpStates
<1> QED BY <1>2, EtharpAssumption DEF EntryOK, IsStable

\* etharp_query without a packet: the pending entry's time starts again.
LEMMA RestartedEntry ==
  ASSUME NEW macs, NEW ages, NEW e \in ArpEntry, EntryOK(e, macs, ages), e.state = "PENDING",
         NEW f, f = [e EXCEPT !.ctime = 0]
  PROVE  f \in ArpEntry /\ f.ip = e.ip /\ f.state = "PENDING" /\ EntryOK(f, macs, ages)
<1>1. f \in ArpEntry /\ f.ip = e.ip /\ f.state = "PENDING" /\ f.ctime = 0 /\ f.q = e.q
  BY Zenon DEF ArpEntry
<1> QED BY <1>1, EtharpAssumption DEF EntryOK, IsStable

\* etharp_query with a packet for a pending entry.
LEMMA QueuedEntry ==
  ASSUME NEW macs, NEW ages, NEW e \in ArpEntry, EntryOK(e, macs, ages), e.state = "PENDING",
         NEW p \in ARPHOSTS \cup {FAR}, NextHop(p) = e.ip,
         NEW f, f = [e EXCEPT !.q = QueueFor(@, p)]
  PROVE  f \in ArpEntry /\ f.ip = e.ip /\ EntryOK(f, macs, ages)
<1> DEFINE q == QueueFor(e.q, p)
<1>1. e.q \in Seq(ARPHOSTS \cup {FAR}) /\ Len(e.q) <= ARP_QUEUE_LEN
  BY Zenon, EntryFields DEF EntryOK
<1>2. /\ q \in Seq(ARPHOSTS \cup {FAR}) /\ Len(q) <= ARP_QUEUE_LEN
      /\ \A k \in DOMAIN q : q[k] = p \/ \E m \in DOMAIN e.q : q[k] = e.q[m]
  BY <1>1, QueueFacts
<1>3. \A k \in DOMAIN q : NextHop(q[k]) = e.ip
  BY Zenon, <1>2 DEF EntryOK
<1> HIDE DEF q
<1>4. f = [e EXCEPT !.q = q]
  BY Zenon DEF q
<1>5. f \in ArpEntry /\ f.ip = e.ip /\ f.state = "PENDING" /\ f.ctime = e.ctime /\ f.q = q
  BY Zenon, <1>2, <1>4 DEF ArpEntry
<1> QED BY Zenon, <1>2, <1>3, <1>5 DEF EntryOK, IsStable

\* What a resolved entry says is right, or the host moved a short time ago.
Recent(ip, eth, macs, ages) == eth = macs[ip] \/ ages[ip] < ARP_MAXAGE

\* An entry ARP sends to is right, or its host moved less than ARP_MAXAGE ticks ago.
LEMMA StableIsRecent ==
  ASSUME NEW macs, NEW ages \in [ARPHOSTS -> 0 .. ARP_MAXAGE], NEW e \in ArpEntry,
         EntryOK(e, macs, ages), IsStable(e)
  PROVE  e.ip \in ARPHOSTS /\ Recent(e.ip, e.eth, macs, ages)
<1>1. e.ip \in ARPHOSTS /\ e.ctime < ARP_MAXAGE /\ e.ctime \in Nat /\ ARP_MAXAGE \in Nat
  BY Zenon, EtharpAssumption, EntryFields DEF EntryOK, IsStable
<1>2. ages[e.ip] \in Nat
  BY <1>1
<1> QED BY <1>1, <1>2 DEF EntryOK, Recent

\* etharp_query: the entry found or made is pending, or its address is used at once.
LEMMA QueryStep ==
  ASSUME EtharpInv, NEW ip \in ARPHOSTS, NEW p, NEW mem, NEW qmem, etharp_query(ip, p, mem, qmem),
         p # "none" => p \in ARPHOSTS \cup {FAR} /\ NextHop(p) = ip
  PROVE  /\ TableOK(arp_table', hostMac, moved)
         /\ \A f \in frames' : Recent(f[1], f[2], hostMac, moved)
<1> DEFINE r == etharp_find_entry(arp_table, ip, {"TRY_HARD"})
           New(x) == x.T[x.i].state = "EMPTY"
           Made(x) == IF New(x) THEN [x.T[x.i] EXCEPT !.state = "PENDING"] ELSE x.T[x.i]
           Restarted(x) == IF p = "none" /\ mem /\ Made(x).state = "PENDING" /\ ~New(x)
                           THEN [Made(x) EXCEPT !.ctime = 0] ELSE Made(x)
           Queued(x) == IF p # "none" /\ Made(x).state = "PENDING" /\ qmem
                        THEN [Restarted(x) EXCEPT !.q = QueueFor(@, p)] ELSE Restarted(x)
           new == r.T[r.i].state = "EMPTY"
           e == IF new THEN [r.T[r.i] EXCEPT !.state = "PENDING"] ELSE r.T[r.i]
           restarted == IF p = "none" /\ mem /\ e.state = "PENDING" /\ ~new
                        THEN [e EXCEPT !.ctime = 0] ELSE e
           queued == IF p # "none" /\ e.state = "PENDING" /\ qmem
                     THEN [restarted EXCEPT !.q = QueueFor(@, p)] ELSE restarted
<1>1. IF r.i < 0 THEN arp_table' = r.T /\ frames' = {}
      ELSE /\ arp_table' = [r.T EXCEPT ![r.i] = queued]
           /\ \A f \in frames' : f = <<ip, e.eth>> /\ IsStable(e)
  <2>1. PICK x \in {r} : IF x.i < 0
                          THEN arp_table' = x.T /\ frames' = {} /\ UNCHANGED etharp_cached_entry
                          ELSE /\ arp_table' = [x.T EXCEPT ![x.i] = Queued(x)]
                               /\ IF p # "none" /\ IsStable(Made(x))
                                  THEN frames' = {<<ip, Made(x).eth>>} /\ etharp_cached_entry' = x.i
                                  ELSE frames' = {} /\ UNCHANGED etharp_cached_entry
    BY Zenon DEF etharp_query
  <2> HIDE DEF Made, Queued, r
  <2>2. x = r
    BY Zenon
  <2>3. IF r.i < 0 THEN arp_table' = r.T /\ frames' = {}
        ELSE /\ arp_table' = [r.T EXCEPT ![r.i] = Queued(r)]
             /\ \A f \in frames' : f = <<ip, Made(r).eth>> /\ IsStable(Made(r))
    BY Zenon, <2>1, <2>2
  <2> QED BY Zenon, <2>3 DEF Made, Queued
<1>2. Finds(r, arp_table, ip) /\ TableOK(arp_table, hostMac, moved) /\ moved \in [ARPHOSTS -> 0 .. ARP_MAXAGE]
  BY Zenon, FindEntry DEF EtharpInv
<1> HIDE DEF r
<1>3. CASE r.i < 0
  BY <1>1, <1>2, <1>3 DEF Finds, Slots
<1>4. CASE ~(r.i < 0)
  <2>1. /\ r.i \in Slots
        /\ \A j \in Slots : j # r.i /\ arp_table[j].state # "EMPTY" => arp_table[j].ip # ip
        /\ \A x : [r.T EXCEPT ![r.i] = x] = [arp_table EXCEPT ![r.i] = x]
    BY <1>2, <1>4 DEF Finds
  <2>2. e \in ArpEntry /\ e.ip = ip /\ EntryOK(e, hostMac, moved)
    <3>1. CASE new
      <4>1. r.T[r.i] = Fresh(ip)
        BY <1>2, <1>4, <3>1 DEF Finds
      <4>2. e = [Fresh(ip) EXCEPT !.state = "PENDING"]
        BY Zenon, <3>1, <4>1
      <4> HIDE DEF e, new
      <4> QED BY Zenon, <4>2, PendingEntry
    <3>2. CASE ~new
      <4>1. e = arp_table[r.i] /\ arp_table[r.i].ip = ip
        BY <1>2, <1>4, <3>2, FreshEntry DEF Finds
      <4> HIDE DEF e, new
      <4> QED BY Zenon, <1>2, <2>1, <4>1 DEF TableOK
    <3> QED BY Zenon, <3>1, <3>2
  <2> HIDE DEF e, new
  <2>3. restarted \in ArpEntry /\ restarted.ip = ip /\ EntryOK(restarted, hostMac, moved)
        /\ (e.state = "PENDING" => restarted.state = "PENDING")
    <3>1. CASE p = "none" /\ mem /\ e.state = "PENDING" /\ ~new
      BY <2>2, <3>1, RestartedEntry
    <3>2. CASE ~(p = "none" /\ mem /\ e.state = "PENDING" /\ ~new)
      BY Zenon, <2>2, <3>2
    <3> QED BY Zenon, <3>1, <3>2
  <2> HIDE DEF restarted
  <2>4. queued \in ArpEntry /\ queued.ip = ip /\ EntryOK(queued, hostMac, moved)
    <3>1. CASE p # "none" /\ e.state = "PENDING" /\ qmem
      BY <2>3, <3>1, QueuedEntry
    <3>2. CASE ~(p # "none" /\ e.state = "PENDING" /\ qmem)
      BY Zenon, <2>3, <3>2
    <3> QED BY Zenon, <3>1, <3>2
  <2>5. arp_table' = [arp_table EXCEPT ![r.i] = queued]
    BY Zenon, <1>1, <1>4, <2>1 DEF restarted, e, new
  <2> HIDE DEF queued
  <2>6. TableOK(arp_table', hostMac, moved)
    BY Zenon, <1>2, <2>1, <2>4, <2>5, PutEntry
  <2>7. \A f \in frames' : Recent(f[1], f[2], hostMac, moved)
    <3> SUFFICES ASSUME NEW f \in frames' PROVE Recent(f[1], f[2], hostMac, moved)
      BY Zenon
    <3>1. f = <<ip, e.eth>> /\ IsStable(e)
      BY Zenon, <1>1, <1>4 DEF e, new
    <3>2. Recent(ip, e.eth, hostMac, moved)
      BY Zenon, <1>2, <2>2, <3>1, StableIsRecent
    <3> QED BY Zenon, <3>1, <3>2
  <2> QED BY Zenon, <2>6, <2>7
<1> QED BY Zenon, <1>3, <1>4

\* etharp_tmr: entries and changes of address age together.
LEMMA TimerStep == EtharpInv /\ etharp_tmr => EtharpInv'
<1> SUFFICES ASSUME EtharpInv, etharp_tmr PROVE EtharpInv'
  BY Zenon
<1>1. ARP_MAXAGE \in Nat /\ moved \in [ARPHOSTS -> 0 .. ARP_MAXAGE] /\ hostMac \in [ARPHOSTS -> Macs]
  BY Zenon, EtharpAssumption DEF EtharpInv
<1>2. \A h \in ARPHOSTS : moved[h] \in Nat /\ moved'[h] \in 0 .. ARP_MAXAGE /\ moved'[h] <= moved[h] + 1
  BY <1>1 DEF etharp_tmr
<1>3. moved' \in [ARPHOSTS -> 0 .. ARP_MAXAGE] /\ hostMac' = hostMac /\ frames' = {}
  BY Zenon, <1>2 DEF etharp_tmr
<1>4. arp_table \in [Slots -> ArpEntry] /\ OneEntry(arp_table)
      /\ \A i \in Slots : EntryOK(arp_table[i], hostMac, moved)
  BY Zenon DEF EtharpInv, TableOK
<1>5. \A i \in Slots : arp_table'[i] = Aged(arp_table[i])
  BY Zenon DEF etharp_tmr
<1>6. \A i \in Slots :
         /\ arp_table'[i] \in ArpEntry /\ EntryOK(arp_table'[i], hostMac, moved')
         /\ arp_table'[i].state # "EMPTY" => /\ arp_table[i].state # "EMPTY"
                                             /\ arp_table'[i].ip = arp_table[i].ip
  <2> TAKE i \in Slots
  <2> DEFINE e == arp_table[i]
             macs == hostMac
             ages == moved
             older == moved'
  <2>1. e \in ArpEntry /\ EntryOK(e, macs, ages) /\ arp_table'[i] = Aged(e)
    BY Zenon, <1>4, <1>5
  <2>2. \A h \in ARPHOSTS : ages[h] \in Nat /\ older[h] \in Nat /\ older[h] <= ages[h] + 1
    BY <1>1, <1>2
  <2> HIDE DEF e, macs, ages, older
  <2>3. /\ Aged(e) \in ArpEntry /\ EntryOK(Aged(e), macs, older)
        /\ Aged(e).state # "EMPTY" => e.state # "EMPTY" /\ Aged(e).ip = e.ip
    BY <2>1, <2>2, AgedEntry
  <2> QED BY Zenon, <2>1, <2>3 DEF e, macs, older
<1>7. arp_table' \in [Slots -> ArpEntry]
  BY Zenon, <1>5, <1>6 DEF etharp_tmr
<1>8. OneEntry(arp_table')
  BY <1>4, <1>6 DEF OneEntry
<1>9. TableOK(arp_table', hostMac', moved')
  BY Zenon, <1>3, <1>6, <1>7, <1>8 DEF TableOK
<1> QED BY Zenon, <1>1, <1>3, <1>9 DEF EtharpInv, FramesReachTheHop

\* A step that leaves hosts alone, with a sound table and right frames after it, keeps the invariant.
LEMMA SendStep ==
  ASSUME EtharpInv, UNCHANGED <<hostMac, moved>>, TableOK(arp_table', hostMac, moved),
         \A f \in frames' : Recent(f[1], f[2], hostMac, moved)
  PROVE  EtharpInv'
BY Zenon DEF EtharpInv, FramesReachTheHop, Recent

\* etharp_output: the cached entry, the table's, or a query.
LEMMA OutputStep ==
  ASSUME EtharpInv, NEW ip \in ARPHOSTS \cup {FAR}, NEW mem \in BOOLEAN, NEW qmem \in BOOLEAN,
         etharp_output(ip, mem, qmem)
  PROVE  EtharpInv'
<1> DEFINE dst == NextHop(ip)
           stable == {i \in Slots : IsStable(arp_table[i]) /\ arp_table[i].ip = dst}
           i == IF etharp_cached_entry \in stable THEN etharp_cached_entry ELSE Least(stable)
<1>1. dst \in ARPHOSTS /\ UNCHANGED <<hostMac, moved>>
  BY Zenon, EtharpAssumption DEF etharp_output, NextHop
<1>2. IF stable = {} THEN etharp_query(dst, ip, mem, qmem) ELSE etharp_output_to_arp_index(i, mem)
  BY Zenon DEF etharp_output
<1>3. CASE stable = {}
  <2>1. etharp_query(dst, ip, mem, qmem)
    BY Zenon, <1>2, <1>3
  <2>2. /\ TableOK(arp_table', hostMac, moved)
        /\ \A f \in frames' : Recent(f[1], f[2], hostMac, moved)
    BY Zenon, <1>1, <2>1, QueryStep
  <2> QED BY Zenon, <1>1, <2>2, SendStep
<1>4. CASE stable # {}
  <2> DEFINE e == arp_table[i]
             asks == e.state = "STABLE" /\ e.ctime >= ARP_AGE_REREQUEST /\ mem
  <2>1. i \in stable
    BY Zenon, <1>4, LeastInSet
  <2>2. i \in Slots /\ IsStable(e) /\ e.ip = dst
    BY Zenon, <2>1
  <2>3. /\ arp_table' = IF asks THEN [arp_table EXCEPT ![i].state = "REREQUESTING_1"] ELSE arp_table
        /\ frames' = {<<e.ip, e.eth>>}
    BY Zenon, <1>2, <1>4 DEF etharp_output_to_arp_index
  <2>4. /\ TableOK(arp_table, hostMac, moved) /\ moved \in [ARPHOSTS -> 0 .. ARP_MAXAGE]
        /\ arp_table \in [Slots -> ArpEntry] /\ OneEntry(arp_table)
    BY Zenon DEF EtharpInv, TableOK
  <2> HIDE DEF i, dst, stable
  <2>5. e \in ArpEntry /\ EntryOK(e, hostMac, moved)
    BY Zenon, <2>2, <2>4 DEF TableOK
  <2>6. Recent(e.ip, e.eth, hostMac, moved) /\ e.ip \in ARPHOSTS
    BY Zenon, <2>2, <2>4, <2>5, StableIsRecent
  <2>7. TableOK(arp_table', hostMac, moved)
    <3>1. CASE ~asks
      BY Zenon, <2>3, <2>4, <3>1
    <3>2. CASE asks
      <4> DEFINE x == [e EXCEPT !.state = "REREQUESTING_1"]
      <4>1. /\ x \in ArpEntry /\ x.state = "REREQUESTING_1" /\ x.ip = e.ip /\ x.eth = e.eth
            /\ x.ctime = e.ctime /\ x.q = e.q
        BY Zenon, <2>5 DEF ArpEntry, ArpStates
      <4>2. arp_table' = [arp_table EXCEPT ![i] = x]
        BY Zenon, <2>2, <2>3, <2>4, <3>2
      <4>3. e.state = "STABLE"
        BY Zenon, <3>2
      <4> HIDE DEF x
      <4>4. EntryOK(x, hostMac, moved)
        BY Zenon, <2>5, <4>1, <4>3 DEF EntryOK, IsStable
      <4>5. \A j \in Slots : j # i /\ arp_table[j].state # "EMPTY" => arp_table[j].ip # x.ip
        BY Zenon, <2>2, <2>4, <4>1, <4>3 DEF OneEntry
      <4> QED BY Zenon, <2>2, <2>4, <4>1, <4>2, <4>4, <4>5, PutEntry
    <3> QED BY Zenon, <3>1, <3>2
  <2>8. \A f \in frames' : Recent(f[1], f[2], hostMac, moved)
    BY <2>3, <2>6
  <2> QED BY Zenon, <1>1, <2>7, <2>8, SendStep
<1> QED BY Zenon, <1>3, <1>4

\* etharp_input and etharp_add_static_entry: the host's own address is entered.
LEMMA HeardStep ==
  ASSUME EtharpInv, NEW h \in ARPHOSTS, NEW flags,
         arp_table' = etharp_update_arp_entry(arp_table, h, hostMac[h], flags).T,
         frames' = etharp_update_arp_entry(arp_table, h, hostMac[h], flags).sent,
         UNCHANGED <<hostMac, moved>>
  PROVE  EtharpInv'
<1> DEFINE u == etharp_update_arp_entry(arp_table, h, hostMac[h], flags)
<1>1. hostMac \in [ARPHOSTS -> Macs] /\ TableOK(arp_table, hostMac, moved)
  BY Zenon DEF EtharpInv
<1>2. TableOK(u.T, hostMac, moved) /\ \A f \in u.sent : f[2] = hostMac[f[1]]
  BY <1>1, UpdateEntry
<1> HIDE DEF u
<1>3. arp_table' = u.T /\ frames' = u.sent
  BY Zenon DEF u
<1> QED BY Zenon, <1>2, <1>3, SendStep DEF Recent

\* etharp_free_entry and etharp_cleanup_netif: a table with entries emptied is sound.
LEMMA EmptiedTable ==
  ASSUME NEW macs, NEW ages, NEW T, TableOK(T, macs, ages), NEW R, DOMAIN R = Slots,
         R = [i \in Slots |-> R[i]], \A i \in Slots : R[i] = T[i] \/ R[i] = ARP_EMPTY
  PROVE  TableOK(R, macs, ages)
<1>1. ARP_EMPTY \in ArpEntry /\ ARP_EMPTY.state = "EMPTY" /\ ARP_EMPTY.q = <<>>
  BY Zenon, EmptySeq DEF ARP_EMPTY, ArpEntry, ArpStates, Macs, NoMac
<1>2. EntryOK(ARP_EMPTY, macs, ages)
  BY <1>1, EtharpAssumption DEF EntryOK, IsStable
<1>3. R \in [Slots -> ArpEntry] /\ \A i \in Slots : EntryOK(R[i], macs, ages)
  BY Zenon, <1>1, <1>2 DEF TableOK
<1>4. OneEntry(R)
  BY <1>1 DEF TableOK, OneEntry
<1> QED BY Zenon, <1>3, <1>4 DEF TableOK

\* etharp_remove_static_entry and etharp_cleanup_netif.
LEMMA EmptyStep ==
  ASSUME EtharpInv, etharp_cleanup_netif \/ \E h \in ARPHOSTS : etharp_remove_static_entry(h)
  PROVE  EtharpInv'
<1>1. frames' = {} /\ UNCHANGED <<hostMac, moved>>
  BY Zenon DEF etharp_cleanup_netif, etharp_remove_static_entry
<1>2. TableOK(arp_table, hostMac, moved) /\ arp_table \in [Slots -> ArpEntry]
  BY Zenon DEF EtharpInv, TableOK
<1> DEFINE R == arp_table'
<1>3. /\ DOMAIN R = Slots /\ R = [i \in Slots |-> R[i]]
      /\ \A i \in Slots : R[i] = arp_table[i] \/ R[i] = ARP_EMPTY
  <2>1. CASE etharp_cleanup_netif
    BY Zenon, <2>1 DEF etharp_cleanup_netif
  <2>2. CASE \E h \in ARPHOSTS : etharp_remove_static_entry(h)
    <3>1. PICK n : R = [arp_table EXCEPT ![n] = ARP_EMPTY]
      BY Zenon, <2>2 DEF etharp_remove_static_entry, etharp_free_entry
    <3> QED BY Zenon, <1>2, <3>1
  <2> QED BY Zenon, <2>1, <2>2
<1> HIDE DEF R
<1>4. TableOK(R, hostMac, moved)
  BY Zenon, <1>2, <1>3, EmptiedTable
<1> QED BY Zenon, <1>1, <1>4, SendStep DEF R

\* A host changes its hardware address: its entry becomes older than the change.
LEMMA MoveStep == ASSUME EtharpInv, NEW h \in ARPHOSTS, HostMoves(h) PROVE EtharpInv'
<1>1. /\ hostMac \in [ARPHOSTS -> Macs] /\ moved \in [ARPHOSTS -> 0 .. ARP_MAXAGE]
      /\ TableOK(arp_table, hostMac, moved) /\ ARP_MAXAGE \in Nat
  BY Zenon, EtharpAssumption DEF EtharpInv
<1>2. /\ hostMac' = [hostMac EXCEPT ![h] = <<h, 1 - hostMac[h][2]>>] /\ moved' = [moved EXCEPT ![h] = 0]
      /\ arp_table' = arp_table /\ frames' = {}
      /\ \A i \in Slots : arp_table[i].ip = h => arp_table[i].state # "STATIC"
  BY Zenon DEF HostMoves
<1>3. <<h, 1 - hostMac[h][2]>> \in Macs
  <2>1. hostMac[h][2] \in {0, 1}
    BY <1>1 DEF Macs, NoMac
  <2>2. 1 - hostMac[h][2] \in {0, 1}
    BY <2>1
  <2> QED BY Zenon, <2>2 DEF Macs
<1>4. hostMac' \in [ARPHOSTS -> Macs] /\ moved' \in [ARPHOSTS -> 0 .. ARP_MAXAGE]
  BY <1>1, <1>2, <1>3
<1>5. \A i \in Slots : EntryOK(arp_table[i], hostMac', moved')
  <2> TAKE i \in Slots
  <2> DEFINE e == arp_table[i]
  <2>1. e \in ArpEntry /\ EntryOK(e, hostMac, moved)
    BY Zenon, <1>1 DEF TableOK
  <2>2. e.ctime \in Nat
    BY Zenon, <2>1, EntryFields
  <2>3. e.ip = h => e.state # "STATIC" /\ moved'[e.ip] = 0
    BY Zenon, <1>1, <1>2
  <2>4. e.ip \in ARPHOSTS /\ e.ip # h => hostMac'[e.ip] = hostMac[e.ip] /\ moved'[e.ip] = moved[e.ip]
    BY Zenon, <1>1, <1>2
  <2> HIDE DEF e
  <2>5. EntryOK(e, hostMac', moved')
    BY <2>1, <2>2, <2>3, <2>4 DEF EntryOK, IsStable
  <2> QED BY Zenon, <2>5 DEF e
<1>6. TableOK(arp_table', hostMac', moved')
  BY Zenon, <1>1, <1>2, <1>5 DEF TableOK
<1> QED BY Zenon, <1>2, <1>4, <1>6 DEF EtharpInv, FramesReachTheHop

-----------------------------------------------------------------------------
\* An empty table and hosts that never moved.
LEMMA EtharpStarts == EtharpInit => EtharpInv
<1> SUFFICES ASSUME EtharpInit PROVE EtharpInv
  BY Zenon
<1>1. ARP_EMPTY \in ArpEntry /\ ARP_EMPTY.state = "EMPTY" /\ ARP_EMPTY.q = <<>>
  BY Zenon, EmptySeq DEF ARP_EMPTY, ArpEntry, ArpStates, Macs, NoMac
<1>2. EntryOK(ARP_EMPTY, hostMac, moved)
  BY <1>1, EtharpAssumption DEF EntryOK, IsStable
<1>3. TableOK(arp_table, hostMac, moved)
  BY Zenon, <1>1, <1>2 DEF EtharpInit, TableOK, OneEntry
<1>4. hostMac \in [ARPHOSTS -> Macs] /\ moved \in [ARPHOSTS -> 0 .. ARP_MAXAGE]
  BY EtharpAssumption DEF EtharpInit, Macs
<1> QED BY Zenon, <1>3, <1>4 DEF EtharpInit, EtharpInv, FramesReachTheHop

\* Every step keeps the invariant.
LEMMA EtharpKeeps == EtharpInv /\ [EtharpNext]_arpVars => EtharpInv'
<1> SUFFICES ASSUME EtharpInv, [EtharpNext]_arpVars PROVE EtharpInv'
  BY Zenon
<1>1. CASE etharp_tmr
  BY Zenon, <1>1, TimerStep
<1>2. CASE \E ip \in ARPHOSTS \cup {FAR} : \E mem, qmem \in BOOLEAN : etharp_output(ip, mem, qmem)
  BY Zenon, <1>2, OutputStep
<1>3. CASE QueryOnly
  <2>1. PICK ip \in ARPHOSTS : \E mem \in BOOLEAN : etharp_query(ip, "none", mem, FALSE)
    BY Zenon, <1>3 DEF QueryOnly
  <2>2. PICK mem \in BOOLEAN : etharp_query(ip, "none", mem, FALSE)
    BY Zenon, <2>1
  <2>3. /\ TableOK(arp_table', hostMac, moved)
        /\ \A f \in frames' : Recent(f[1], f[2], hostMac, moved)
    BY Zenon, <2>2, QueryStep
  <2>4. UNCHANGED <<hostMac, moved>>
    BY Zenon, <1>3 DEF QueryOnly
  <2> QED BY Zenon, <2>3, <2>4, SendStep
<1>4. ASSUME NEW h \in ARPHOSTS, NEW toUs \in BOOLEAN, etharp_input(h, toUs) PROVE EtharpInv'
  BY Zenon, <1>4, HeardStep DEF etharp_input
<1>5. ASSUME NEW h \in ARPHOSTS, etharp_add_static_entry(h) PROVE EtharpInv'
  BY Zenon, <1>5, HeardStep DEF etharp_add_static_entry
<1>6. CASE etharp_cleanup_netif \/ \E h \in ARPHOSTS : etharp_remove_static_entry(h)
  BY Zenon, <1>6, EmptyStep
<1>7. CASE \E h \in MOVERS : HostMoves(h)
  BY Zenon, <1>7, MoveStep, EtharpAssumption
<1>8. CASE SetOurIp
  <2>1. UNCHANGED <<arp_table, hostMac, moved>> /\ frames' = {}
    BY Zenon, <1>8 DEF SetOurIp
  <2> QED BY Zenon, <2>1, SendStep DEF EtharpInv
<1>9. CASE UNCHANGED arpVars
  BY Zenon, <1>9 DEF arpVars, EtharpInv, FramesReachTheHop
<1> QED BY Zenon, <1>1, <1>2, <1>3, <1>4, <1>5, <1>6, <1>7, <1>8, <1>9 DEF EtharpNext

\* For any hosts, table size, queue length and ages, with entries recycled, cached, made static and
\* removed in any order: etharp.c's table has one entry per address, packets wait only where their
\* next hop is being resolved and not too many or too long, and a frame goes to the hardware address
\* of its next hop unless that changed less than ARP_MAXAGE ticks ago.
THEOREM ArpIsRight == EtharpSpec => []ArpDelivers
<1>1. EtharpInv => ArpDelivers
  BY Zenon DEF EtharpInv, TableOK, EntryOK, OneEntry, ArpDelivers, ArpTableSound
<1> QED BY <1>1, EtharpStarts, EtharpKeeps, PTL DEF EtharpSpec

-----------------------------------------------------------------------------
\* The first entry of a table that a search accepts is one of the entries it accepts.
LEMMA LowestInSet ==
  ASSUME NEW S \in SUBSET Nat, S # {}
  PROVE  Lowest(S) \in S
BY Zenon, LeastExists DEF Lowest

\* The types of a learned entry, a configured entry, what the history holds of a host, and a frame.
Entry == [used : BOOLEAN, ts : Nat, port : Nat, addr : HOSTS \cup {NOPORT}]
StaticEntry == [used : BOOLEAN, dst_ports : SUBSET (1 .. MAX_PORTS), addr : HOSTS \cup {NOPORT}]
Heard == [port : Nat, since : 0 .. BR_FDB_TIMEOUT_SEC]
Frame == [src : HOSTS, dst : HOSTS \cup {GROUP, BRIDGE}, in : PortSet]

\* Types of the bridge: no more ports than bridgeif_init made room for.
BridgeTypeOK ==
  /\ ports \in Seq(PortSet) /\ Len(ports) <= MAX_PORTS
  /\ portUp \in [PortSet -> BOOLEAN]
  /\ fdbs \in [1 .. FDBS -> StaticEntry]
  /\ fdbd \in [1 .. FDBD -> Entry]
  /\ inbox \in Seq(Frame)
  /\ at \in [HOSTS -> PortSet]
  /\ heard \in [HOSTS -> Heard]

\* A frame waiting for the tcpip thread came in on a port that has been added; a host heard within
\* the timeout was heard on one; a live entry is that of a host.
FramesFromPorts == \A i \in 1 .. Len(inbox) : \E k \in DOMAIN ports : ports[k] = inbox[i].in
HeardOnPorts == \A h \in HOSTS : heard[h].since < BR_FDB_TIMEOUT_SEC => heard[h].port \in DOMAIN ports
LiveAreHosts == \A k \in DOMAIN fdbd : Live(fdbd[k]) => fdbd[k].addr \in HOSTS

\* The inductive invariant. The second part of BridgeForwards is a consequence: a live entry names
\* the port its host was last heard on.
BridgeInv == BridgeTypeOK /\ FramesFromPorts /\ HeardOnPorts /\ LiveAreHosts /\ FdbIsRecent

\* bridgeif_fdb_update_src rewrites at most one entry, leaves no second live entry for the address,
\* and changes no other: the entry of the address if it has one, else the first free one.
LEMMA UpdateFacts ==
  ASSUME NEW fdb \in [1 .. FDBD -> Entry], NEW a \in HOSTS, NEW port \in Nat,
         \A k, m \in 1 .. FDBD : Live(fdb[k]) /\ Live(fdb[m]) /\ fdb[k].addr = fdb[m].addr => k = m
  PROVE  LET new == bridgeif_fdb_update_src(fdb, a, port)
         IN /\ new \in [1 .. FDBD -> Entry]
            /\ \A k \in 1 .. FDBD :
                 \/ new[k] = [used |-> TRUE, ts |-> BR_FDB_TIMEOUT_SEC, port |-> port, addr |-> a]
                 \/ new[k] = fdb[k] /\ ~(Live(fdb[k]) /\ fdb[k].addr = a)
            /\ \A k, m \in 1 .. FDBD :
                 Live(new[k]) /\ Live(new[m]) /\ new[k].addr = new[m].addr => k = m
<1> DEFINE known == {k \in DOMAIN fdb : Live(fdb[k]) /\ fdb[k].addr = a}
           free == {k \in DOMAIN fdb : ~Live(fdb[k])}
           entry == [used |-> TRUE, ts |-> BR_FDB_TIMEOUT_SEC, port |-> port, addr |-> a]
           new == bridgeif_fdb_update_src(fdb, a, port)
<1>1. new = IF known # {} THEN [fdb EXCEPT ![Lowest(known)] = entry]
            ELSE IF free # {} THEN [fdb EXCEPT ![Lowest(free)] = entry]
            ELSE fdb
  BY Zenon DEF bridgeif_fdb_update_src, SetAt
<1>2. entry \in Entry
  BY Zenon, BridgeAssumption DEF Entry
<1>3. DOMAIN fdb = 1 .. FDBD /\ FDBD \in Nat
  BY Zenon, BridgeAssumption
<1>4. known \in SUBSET Nat /\ free \in SUBSET Nat /\ known \subseteq 1 .. FDBD /\ free \subseteq 1 .. FDBD
  BY <1>3
<1>5. /\ known # {} => Lowest(known) \in known
      /\ free # {} => Lowest(free) \in free
  BY Zenon, <1>4, LowestInSet
<1>6. Live(entry) => entry.addr = a
  BY Zenon
<1>7. \A k, m \in known : k = m
  BY Zenon, <1>3
<1> HIDE DEF entry, new
<1>8. CASE known # {}
  <2> DEFINE n == Lowest(known)
  <2>1. n \in known /\ n \in 1 .. FDBD
    BY Zenon, <1>4, <1>5, <1>8
  <2> HIDE DEF n
  <2>2. new = [fdb EXCEPT ![n] = entry]
    BY Zenon, <1>1, <1>8 DEF n
  <2>3. \A k \in 1 .. FDBD : IF k = n THEN new[k] = entry ELSE new[k] = fdb[k]
    BY Zenon, <2>1, <2>2, <1>3
  <2>4. \A k \in 1 .. FDBD : k # n => ~(Live(fdb[k]) /\ fdb[k].addr = a)
    BY Zenon, <2>1, <1>3, <1>7
  <2>5. new \in [1 .. FDBD -> Entry]
    BY Zenon, <2>2, <1>2
  <2>6. \A k, m \in 1 .. FDBD : Live(new[k]) /\ Live(new[m]) /\ new[k].addr = new[m].addr => k = m
    BY <2>3, <2>4, <1>6
  <2> QED BY Zenon, <2>3, <2>4, <2>5, <2>6 DEF new, entry
<1>9. CASE known = {} /\ free # {}
  <2> DEFINE n == Lowest(free)
  <2>1. n \in free /\ n \in 1 .. FDBD
    BY Zenon, <1>4, <1>5, <1>9
  <2> HIDE DEF n
  <2>2. new = [fdb EXCEPT ![n] = entry]
    BY Zenon, <1>1, <1>9 DEF n
  <2>3. \A k \in 1 .. FDBD : IF k = n THEN new[k] = entry ELSE new[k] = fdb[k]
    BY Zenon, <2>1, <2>2, <1>3
  <2>4. \A k \in 1 .. FDBD : ~(Live(fdb[k]) /\ fdb[k].addr = a)
    BY Zenon, <1>9, <1>3
  <2>5. new \in [1 .. FDBD -> Entry]
    BY Zenon, <2>2, <1>2
  <2>6. \A k, m \in 1 .. FDBD : Live(new[k]) /\ Live(new[m]) /\ new[k].addr = new[m].addr => k = m
    BY <2>3, <2>4, <1>6
  <2> QED BY Zenon, <2>3, <2>4, <2>5, <2>6 DEF new, entry
<1>10. CASE known = {} /\ free = {}
  <2>1. new = fdb
    BY Zenon, <1>1, <1>10
  <2>2. \A k \in 1 .. FDBD : ~(Live(fdb[k]) /\ fdb[k].addr = a)
    BY Zenon, <1>10, <1>3
  <2> QED BY Zenon, <2>1, <2>2 DEF new
<1> QED BY Zenon, <1>8, <1>9, <1>10

\* bridgeif_init: empty tables, one port.
LEMMA BridgeStarts == bridgeif_init => BridgeInv
<1> SUFFICES ASSUME bridgeif_init PROVE BridgeInv
  BY Zenon
<1>1. Unused \in Entry /\ UnusedStatic \in StaticEntry /\ Silent \in Heard
  BY BridgeAssumption DEF Unused, UnusedStatic, Silent, Entry, StaticEntry, Heard
<1>2. PORTS[1] \in PortSet
  BY BridgeAssumption DEF PortSet
<1>3. BridgeTypeOK
  BY <1>1, <1>2, BridgeAssumption, EmptySeq DEF bridgeif_init, bridgeif_fdb_init, BridgeTypeOK
<1>4. FramesFromPorts /\ HeardOnPorts
  BY BridgeAssumption DEF bridgeif_init, FramesFromPorts, HeardOnPorts, Silent
<1>5. LiveAreHosts /\ FdbIsRecent
  BY Zenon, BridgeAssumption DEF bridgeif_init, bridgeif_fdb_init, LiveAreHosts, FdbIsRecent, Live, Unused
<1> QED BY Zenon, <1>3, <1>4, <1>5 DEF BridgeInv

\* An entry whose time has run out is an entry.
LEMMA ExpiredEntry ==
  ASSUME NEW e \in Entry
  PROVE  [e EXCEPT !.ts = 0, !.used = FALSE] \in Entry
BY Zenon DEF Entry

\* bridgeif_fdb_age_one_second: entries and silences age together.
LEMMA AgeStep == BridgeInv /\ bridgeif_age_tmr => BridgeInv'
<1> SUFFICES ASSUME BridgeInv, bridgeif_age_tmr PROVE BridgeInv'
  BY Zenon
<1> DEFINE T == BR_FDB_TIMEOUT_SEC
<1>1. T \in Nat /\ FDBD \in Nat
  BY Zenon, BridgeAssumption
<1>2. \A k \in 1 .. FDBD :
         /\ fdbd'[k] \in Entry /\ fdbd'[k].port = fdbd[k].port /\ fdbd'[k].addr = fdbd[k].addr
         /\ Live(fdbd'[k]) => Live(fdbd[k]) /\ fdbd'[k].ts = fdbd[k].ts - 1
  <2> TAKE k \in 1 .. FDBD
  <2>1. fdbd[k] \in Entry /\ DOMAIN fdbd = 1 .. FDBD
    BY Zenon DEF BridgeInv, BridgeTypeOK
  <2>2. fdbd'[k] = IF ~Live(fdbd[k]) THEN fdbd[k]
                   ELSE IF fdbd[k].ts > 1 THEN [fdbd[k] EXCEPT !.ts = @ - 1]
                   ELSE [fdbd[k] EXCEPT !.ts = 0, !.used = FALSE]
    BY Zenon, <2>1 DEF bridgeif_age_tmr, bridgeif_fdb_age_one_second
  <2>3. CASE ~Live(fdbd[k])
    BY Zenon, <2>1, <2>2, <2>3
  <2>4. CASE Live(fdbd[k])
    <3>1. fdbd[k].ts \in Nat /\ fdbd[k].ts > 0
      BY Zenon, <2>1, <2>4 DEF Entry, Live
    <3>2. CASE fdbd[k].ts > 1
      <4>1. fdbd'[k] = [fdbd[k] EXCEPT !.ts = @ - 1]
        BY Zenon, <2>2, <2>4, <3>2
      <4>2. fdbd'[k] \in Entry
        BY <4>1, <2>1, <3>1 DEF Entry
      <4>3. /\ fdbd'[k].port = fdbd[k].port /\ fdbd'[k].addr = fdbd[k].addr
            /\ fdbd'[k].ts = fdbd[k].ts - 1
        BY Zenon, <4>1, <2>1 DEF Entry
      <4> QED BY Zenon, <4>2, <4>3, <2>4
    <3>3. CASE ~(fdbd[k].ts > 1)
      <4>1. fdbd'[k] = [fdbd[k] EXCEPT !.ts = 0, !.used = FALSE]
        BY Zenon, <2>2, <2>4, <3>3
      <4>2. fdbd'[k] \in Entry
        BY Zenon, <4>1, <2>1, ExpiredEntry
      <4>3. fdbd'[k].port = fdbd[k].port /\ fdbd'[k].addr = fdbd[k].addr /\ fdbd'[k].ts = 0
        BY Zenon, <4>1, <2>1 DEF Entry
      <4> QED BY <4>2, <4>3 DEF Live
    <3> QED BY Zenon, <3>2, <3>3
  <2> QED BY Zenon, <2>3, <2>4
<1>3. DOMAIN fdbd = 1 .. FDBD /\ fdbd' \in [1 .. FDBD -> Entry]
  <2>1. DOMAIN fdbd = 1 .. FDBD
    BY Zenon DEF BridgeInv, BridgeTypeOK
  <2>2. fdbd' = [k \in 1 .. FDBD |-> fdbd'[k]]
    BY Zenon, <2>1 DEF bridgeif_age_tmr, bridgeif_fdb_age_one_second
  <2> QED BY Zenon, <2>1, <2>2, <1>2
<1>4. \A h \in HOSTS :
         /\ heard'[h] \in Heard
         /\ heard'[h].since < T => heard'[h].port = heard[h].port /\ heard'[h].since = heard[h].since + 1
         /\ heard[h].since + 1 < T => heard'[h].port = heard[h].port /\ heard'[h].since = heard[h].since + 1
  <2> TAKE h \in HOSTS
  <2>1. heard[h] \in Heard
    BY Zenon DEF BridgeInv, BridgeTypeOK
  <2>2. heard'[h] = IF heard[h].since + 1 >= T THEN Silent ELSE [heard[h] EXCEPT !.since = @ + 1]
    BY Zenon DEF bridgeif_age_tmr
  <2> QED BY <2>1, <2>2, <1>1 DEF Heard, Silent
<1>5. heard' \in [HOSTS -> Heard]
  BY Zenon, <1>4 DEF bridgeif_age_tmr
<1>6. BridgeTypeOK'
  BY Zenon, <1>3, <1>5 DEF BridgeInv, BridgeTypeOK, bridgeif_age_tmr
<1>7. FramesFromPorts'
  BY Zenon DEF BridgeInv, FramesFromPorts, bridgeif_age_tmr
<1>8. HeardOnPorts'
  <2> SUFFICES ASSUME NEW h \in HOSTS, heard'[h].since < T PROVE heard'[h].port \in DOMAIN ports
    BY Zenon DEF HeardOnPorts, bridgeif_age_tmr
  <2>1. heard[h].since < T
    BY <1>1, <1>4 DEF BridgeInv, BridgeTypeOK, Heard
  <2> QED BY Zenon, <2>1, <1>4 DEF BridgeInv, HeardOnPorts
<1>9. LiveAreHosts'
  BY Zenon, <1>2, <1>3 DEF BridgeInv, LiveAreHosts
<1>10. FdbIsRecent'
  <2> SUFFICES ASSUME NEW k \in 1 .. FDBD, Live(fdbd'[k])
               PROVE  /\ fdbd'[k].port = heard'[fdbd'[k].addr].port
                      /\ heard'[fdbd'[k].addr].since + fdbd'[k].ts = T
                      /\ \A m \in 1 .. FDBD : Live(fdbd'[m]) /\ fdbd'[m].addr = fdbd'[k].addr => m = k
    BY Zenon, <1>3 DEF FdbIsRecent
  <2> DEFINE h == fdbd[k].addr
  <2>1. Live(fdbd[k]) /\ fdbd'[k].addr = h /\ fdbd'[k].ts = fdbd[k].ts - 1 /\ h \in HOSTS
    BY Zenon, <1>2, <1>3 DEF BridgeInv, LiveAreHosts
  <2>2. fdbd[k].port = heard[h].port /\ heard[h].since + fdbd[k].ts = T
    BY Zenon, <2>1, <1>3 DEF BridgeInv, FdbIsRecent
  <2>3. heard[h].since \in Nat /\ fdbd[k].ts \in Nat /\ fdbd'[k].ts > 0
    BY <2>1, <1>1 DEF BridgeInv, BridgeTypeOK, Heard, Entry, Live
  <2>4. heard[h].since + 1 < T
    BY <2>1, <2>2, <2>3, <1>1
  <2>5. fdbd'[k].port = heard'[h].port /\ heard'[h].since + fdbd'[k].ts = T
    BY <2>1, <2>2, <2>3, <2>4, <1>1, <1>2, <1>4
  <2>6. \A m \in 1 .. FDBD : Live(fdbd'[m]) /\ fdbd'[m].addr = h => m = k
    BY Zenon, <2>1, <1>2, <1>3 DEF BridgeInv, FdbIsRecent
  <2> QED BY Zenon, <2>1, <2>5, <2>6
<1> QED BY Zenon, <1>6, <1>7, <1>8, <1>9, <1>10 DEF BridgeInv

\* bridgeif_input: the entry learned is the port the frame came in on.
LEMMA BridgeInputStep == ASSUME NEW type, BridgeInv, bridgeif_input(type) PROVE BridgeInv'
<1> DEFINE T == BR_FDB_TIMEOUT_SEC
           f == Head(inbox)
           port == CHOOSE k \in DOMAIN ports : ports[k] = f.in
<1>1. T \in Nat /\ FDBD \in Nat /\ DOMAIN fdbd = 1 .. FDBD
  BY Zenon, BridgeAssumption DEF BridgeInv, BridgeTypeOK
<1>2. /\ inbox # <<>> /\ inbox' = Tail(inbox)
      /\ fdbd' = bridgeif_fdb_update_src(fdbd, f.src, port)
      /\ heard' = [heard EXCEPT ![f.src] = [port |-> port, since |-> 0]]
      /\ UNCHANGED <<ports, portUp, fdbs, at>>
  BY Zenon DEF bridgeif_input
<1>3. /\ f \in Frame /\ f = inbox[1] /\ 1 \in 1 .. Len(inbox)
      /\ inbox' \in Seq(Frame) /\ Len(inbox') = Len(inbox) - 1
      /\ \A i \in 1 .. Len(inbox') : inbox'[i] = inbox[i + 1] /\ i + 1 \in 1 .. Len(inbox)
  BY <1>2, HeadTailProperties DEF BridgeInv, BridgeTypeOK
<1>4. f.src \in HOSTS /\ port \in DOMAIN ports /\ port \in Nat
  <2>1. f.src \in HOSTS
    BY Zenon, <1>3 DEF Frame
  <2>2. \E k \in DOMAIN ports : ports[k] = f.in
    BY Zenon, <1>3 DEF BridgeInv, FramesFromPorts
  <2>3. port \in DOMAIN ports
    BY Zenon, <2>2
  <2>4. DOMAIN ports \subseteq Nat
    BY DEF BridgeInv, BridgeTypeOK
  <2> QED BY Zenon, <2>1, <2>3, <2>4
<1> HIDE DEF f, port
<1>5. \A k, m \in 1 .. FDBD : Live(fdbd[k]) /\ Live(fdbd[m]) /\ fdbd[k].addr = fdbd[m].addr => k = m
  BY Zenon, <1>1 DEF BridgeInv, FdbIsRecent
<1>6. /\ fdbd' \in [1 .. FDBD -> Entry]
      /\ \A k \in 1 .. FDBD :
           \/ fdbd'[k] = [used |-> TRUE, ts |-> T, port |-> port, addr |-> f.src]
           \/ fdbd'[k] = fdbd[k] /\ ~(Live(fdbd[k]) /\ fdbd[k].addr = f.src)
      /\ \A k, m \in 1 .. FDBD :
           Live(fdbd'[k]) /\ Live(fdbd'[m]) /\ fdbd'[k].addr = fdbd'[m].addr => k = m
  <2>1. fdbd \in [1 .. FDBD -> Entry]
    BY Zenon DEF BridgeInv, BridgeTypeOK
  <2> DEFINE fdb == fdbd
  <2>2. fdb \in [1 .. FDBD -> Entry] /\ fdbd' = bridgeif_fdb_update_src(fdb, f.src, port)
    BY Zenon, <2>1, <1>2 DEF f, port
  <2>3. \A k, m \in 1 .. FDBD : Live(fdb[k]) /\ Live(fdb[m]) /\ fdb[k].addr = fdb[m].addr => k = m
    BY Zenon, <1>5
  <2> HIDE DEF fdb
  <2> DEFINE new == bridgeif_fdb_update_src(fdb, f.src, port)
  <2>4. /\ new \in [1 .. FDBD -> Entry]
        /\ \A k \in 1 .. FDBD :
             \/ new[k] = [used |-> TRUE, ts |-> BR_FDB_TIMEOUT_SEC, port |-> port, addr |-> f.src]
             \/ new[k] = fdb[k] /\ ~(Live(fdb[k]) /\ fdb[k].addr = f.src)
        /\ \A k, m \in 1 .. FDBD :
             Live(new[k]) /\ Live(new[m]) /\ new[k].addr = new[m].addr => k = m
    BY Zenon, <2>2, <2>3, <1>4, UpdateFacts
  <2> HIDE DEF new
  <2>5. fdbd' = new
    BY Zenon, <2>2 DEF new
  <2> QED BY Zenon, <2>4, <2>5 DEF fdb
<1>7. /\ heard' \in [HOSTS -> Heard]
      /\ heard'[f.src].port = port /\ heard'[f.src].since = 0
      /\ \A h \in HOSTS : h # f.src => heard'[h] = heard[h]
  <2>1. [port |-> port, since |-> 0] \in Heard
    BY <1>1, <1>4 DEF Heard
  <2> QED BY Zenon, <2>1, <1>2, <1>4 DEF BridgeInv, BridgeTypeOK
<1>8. BridgeTypeOK'
  BY Zenon, <1>2, <1>3, <1>6, <1>7 DEF BridgeInv, BridgeTypeOK
<1>9. FramesFromPorts'
  BY <1>2, <1>3 DEF BridgeInv, FramesFromPorts
<1>10. HeardOnPorts'
  BY Zenon, <1>2, <1>4, <1>7 DEF BridgeInv, HeardOnPorts
<1>11. LiveAreHosts'
  BY <1>1, <1>4, <1>6 DEF BridgeInv, LiveAreHosts
<1>12. FdbIsRecent'
  <2> SUFFICES ASSUME NEW k \in 1 .. FDBD, Live(fdbd'[k])
               PROVE  /\ fdbd'[k].port = heard'[fdbd'[k].addr].port
                      /\ heard'[fdbd'[k].addr].since + fdbd'[k].ts = T
    BY Zenon, <1>6 DEF FdbIsRecent
  <2>1. CASE fdbd'[k] = [used |-> TRUE, ts |-> T, port |-> port, addr |-> f.src]
    BY <2>1, <1>1, <1>7
  <2>2. CASE fdbd'[k] = fdbd[k] /\ ~(Live(fdbd[k]) /\ fdbd[k].addr = f.src)
    <3>1. fdbd[k].addr \in HOSTS /\ fdbd[k].addr # f.src
      BY Zenon, <2>2, <1>1 DEF BridgeInv, LiveAreHosts
    <3> QED BY <2>2, <3>1, <1>1, <1>7 DEF BridgeInv, FdbIsRecent
  <2> QED BY Zenon, <2>1, <2>2, <1>6
<1> QED BY Zenon, <1>8, <1>9, <1>10, <1>11, <1>12 DEF BridgeInv

\* bridgeif_fdb_add and bridgeif_fdb_remove touch the configured table only.
LEMMA StaticStep ==
  ASSUME BridgeInv, NEW h \in STATICS,
         \/ bridgeif_fdb_remove(h)
         \/ \E k \in 1 .. MAX_PORTS : bridgeif_fdb_add(h, {k})
  PROVE  BridgeInv'
<1>1. fdbs \in [1 .. FDBS -> StaticEntry] /\ FDBS \in Nat /\ h \in HOSTS
  BY Zenon, BridgeAssumption DEF BridgeInv, BridgeTypeOK
<1>2. UNCHANGED <<ports, portUp, fdbd, inbox, at, heard>>
  BY Zenon DEF bridgeif_fdb_remove, bridgeif_fdb_add
<1>3. \E n, e : fdbs' = [fdbs EXCEPT ![n] = e] /\ e \in StaticEntry
  <2>1. UnusedStatic \in StaticEntry
    BY Zenon DEF UnusedStatic, StaticEntry
  <2>2. \A k \in 1 .. MAX_PORTS : [used |-> TRUE, dst_ports |-> {k}, addr |-> h] \in StaticEntry
    BY Zenon, <1>1 DEF StaticEntry
  <2> QED BY Zenon, <2>1, <2>2 DEF bridgeif_fdb_remove, bridgeif_fdb_add
<1>4. fdbs' \in [1 .. FDBS -> StaticEntry]
  BY Zenon, <1>1, <1>3
<1>5. BridgeTypeOK'
  BY Zenon, <1>2, <1>4 DEF BridgeInv, BridgeTypeOK
<1> QED BY Zenon, <1>2, <1>5 DEF BridgeInv, FramesFromPorts, HeardOnPorts, LiveAreHosts, FdbIsRecent

\* bridgeif_add_port appends: port numbers already learned keep their meaning.
LEMMA AddPortStep == ASSUME BridgeInv, NEW n \in PortSet, bridgeif_add_port(n) PROVE BridgeInv'
<1>1. /\ ports \in Seq(PortSet) /\ Len(ports) < MAX_PORTS /\ ports' = Append(ports, n)
      /\ UNCHANGED <<portUp, fdbs, fdbd, inbox, at, heard>>
  BY Zenon DEF BridgeInv, BridgeTypeOK, bridgeif_add_port
<1>2. /\ ports' \in Seq(PortSet) /\ Len(ports') = Len(ports) + 1
      /\ DOMAIN ports = 1 .. Len(ports) /\ DOMAIN ports' = 1 .. Len(ports')
      /\ \A k \in 1 .. Len(ports) : ports'[k] = ports[k] /\ k \in 1 .. Len(ports')
  BY <1>1, AppendProperties
<1>3. Len(ports') <= MAX_PORTS
  BY <1>1, <1>2, BridgeAssumption
<1>4. BridgeTypeOK'
  BY Zenon, <1>1, <1>2, <1>3 DEF BridgeInv, BridgeTypeOK
<1>5. FramesFromPorts' /\ HeardOnPorts'
  BY <1>1, <1>2 DEF BridgeInv, FramesFromPorts, HeardOnPorts
<1>6. LiveAreHosts' /\ FdbIsRecent'
  BY Zenon, <1>1 DEF BridgeInv, LiveAreHosts, FdbIsRecent
<1> QED BY Zenon, <1>4, <1>5, <1>6 DEF BridgeInv

\* A frame is posted to the tcpip thread by a port that has been added.
LEMMA ArrivalStep ==
  ASSUME BridgeInv, NEW h \in HOSTS, NEW dst \in (HOSTS \ {h}) \cup {GROUP, BRIDGE},
         bridgeif_tcpip_input(h, dst)
  PROVE  BridgeInv'
<1> DEFINE f == [src |-> h, dst |-> dst, in |-> at[h]]
<1>1. /\ inbox \in Seq(Frame) /\ inbox' = Append(inbox, f) /\ at[h] \in PortSet
      /\ \E k \in DOMAIN ports : ports[k] = at[h]
      /\ UNCHANGED <<ports, portUp, fdbs, fdbd, at, heard>>
  BY Zenon DEF BridgeInv, BridgeTypeOK, bridgeif_tcpip_input
<1>2. f \in Frame /\ f.in = at[h]
  BY Zenon, <1>1 DEF Frame
<1> HIDE DEF f
<1>3. /\ inbox' \in Seq(Frame) /\ Len(inbox') = Len(inbox) + 1
      /\ \A i \in 1 .. Len(inbox') : inbox'[i] = IF i <= Len(inbox) THEN inbox[i] ELSE f
  BY <1>1, <1>2, AppendProperties
<1>4. FramesFromPorts'
  <2> SUFFICES ASSUME NEW i \in 1 .. Len(inbox') PROVE \E k \in DOMAIN ports : ports[k] = inbox'[i].in
    BY Zenon, <1>1 DEF FramesFromPorts
  <2>1. CASE i <= Len(inbox)
    <3>1. i \in 1 .. Len(inbox)
      BY <2>1, <1>1
    <3> QED BY Zenon, <2>1, <3>1, <1>3 DEF BridgeInv, FramesFromPorts
  <2>2. CASE ~(i <= Len(inbox))
    BY Zenon, <2>2, <1>1, <1>2, <1>3
  <2> QED BY Zenon, <2>1, <2>2
<1>5. BridgeTypeOK'
  BY Zenon, <1>1, <1>3 DEF BridgeInv, BridgeTypeOK
<1> QED BY Zenon, <1>1, <1>4, <1>5 DEF BridgeInv, HeardOnPorts, LiveAreHosts, FdbIsRecent

\* Hosts move, links change and the bridge itself sends: the tables stand.
LEMMA WorldStep ==
  ASSUME BridgeInv,
         \/ \E h \in HOSTS, n \in PortSet : Move(h, n)
         \/ \E n \in PortSet : LinkChanges(n)
         \/ \E dst \in HOSTS \cup {GROUP} : bridgeif_output(dst)
         \/ UNCHANGED bridgeVars
  PROVE  BridgeInv'
<1>1. UNCHANGED <<ports, fdbs, fdbd, inbox, heard>>
  BY Zenon DEF Move, LinkChanges, bridgeif_output, bridgeVars
<1>2. at' \in [HOSTS -> PortSet]
  BY Zenon DEF BridgeInv, BridgeTypeOK, Move, LinkChanges, bridgeif_output, bridgeVars
<1>3. portUp' \in [PortSet -> BOOLEAN]
  <2>1. portUp \in [PortSet -> BOOLEAN]
    BY Zenon DEF BridgeInv, BridgeTypeOK
  <2>2. \A n \in PortSet : [portUp EXCEPT ![n] = ~@] \in [PortSet -> BOOLEAN]
    BY Zenon, <2>1
  <2> QED BY Zenon, <2>1, <2>2 DEF Move, LinkChanges, bridgeif_output, bridgeVars
<1>4. BridgeTypeOK'
  BY Zenon, <1>1, <1>2, <1>3 DEF BridgeInv, BridgeTypeOK
<1> QED BY Zenon, <1>1, <1>4 DEF BridgeInv, FramesFromPorts, HeardOnPorts, LiveAreHosts, FdbIsRecent

\* Every step of the bridge keeps its invariant.
LEMMA BridgeKeeps == BridgeInv /\ [BridgeNext]_bridgeVars => BridgeInv'
<1> SUFFICES ASSUME BridgeInv, [BridgeNext]_bridgeVars PROVE BridgeInv'
  BY Zenon
<1>1. CASE bridgeif_age_tmr
  BY Zenon, <1>1, AgeStep
<1>2. CASE \E t \in ETHTYPES : bridgeif_input(<<t>>) \/ bridgeif_input(<<"vlan", t>>)
  BY Zenon, <1>2, BridgeInputStep
<1>3. ASSUME NEW n \in PortSet, bridgeif_add_port(n) PROVE BridgeInv'
  BY Zenon, <1>3, AddPortStep
<1>4. CASE \E h \in HOSTS : \E dst \in (HOSTS \ {h}) \cup {GROUP, BRIDGE} : bridgeif_tcpip_input(h, dst)
  BY Zenon, <1>4, ArrivalStep
<1>5. CASE \E h \in STATICS : bridgeif_fdb_remove(h) \/ \E k \in 1 .. MAX_PORTS : bridgeif_fdb_add(h, {k})
  BY Zenon, <1>5, StaticStep
<1>6. CASE \/ \E h \in HOSTS, n \in PortSet : Move(h, n)
           \/ \E n \in PortSet : LinkChanges(n)
           \/ \E dst \in HOSTS \cup {GROUP} : bridgeif_output(dst)
           \/ UNCHANGED bridgeVars
  BY Zenon, <1>6, WorldStep
<1> QED BY Zenon, <1>1, <1>2, <1>3, <1>4, <1>5, <1>6 DEF BridgeNext

\* What the table says is enough for a frame to reach its host, and no port sends back what came
\* in on it.
LEMMA FramesFollowTheTable == BridgeInv => FramesReachTheirHost
<1> SUFFICES ASSUME BridgeInv, NEW in \in PortSet \cup {NOPORT}
             PROVE  /\ in \notin UNION {Route(in, fdbd, dst) : dst \in HOSTS \cup {GROUP}}
                    /\ \A h \in HOSTS :
                         /\ heard[h] = Silent \/ ports[heard[h].port] = at[h]
                         /\ SetAt(fdbs, LAMBDA e : e.used /\ e.addr = h) = {}
                         /\ in # at[h] /\ portUp[at[h]] /\ (\E k \in DOMAIN ports : ports[k] = at[h])
                         => at[h] \in Route(in, fdbd, h)
  BY Zenon DEF FramesReachTheirHost
<1>1. \A mask : in \notin bridgeif_send_to_ports(in, mask)
  BY Zenon DEF bridgeif_send_to_ports, bridgeif_send_to_port
<1>2. in \notin UNION {Route(in, fdbd, dst) : dst \in HOSTS \cup {GROUP}}
  BY Zenon, <1>1 DEF Route
<1>3. ASSUME NEW h \in HOSTS,
             heard[h] = Silent \/ ports[heard[h].port] = at[h],
             SetAt(fdbs, LAMBDA e : e.used /\ e.addr = h) = {},
             in # at[h], portUp[at[h]], NEW j \in DOMAIN ports, ports[j] = at[h]
      PROVE  at[h] \in Route(in, fdbd, h)
  <2> DEFINE known == {k \in DOMAIN fdbd : Live(fdbd[k]) /\ fdbd[k].addr = h}
  <2>1. /\ DOMAIN ports = 1 .. Len(ports) /\ Len(ports) \in Nat /\ Len(ports) <= MAX_PORTS /\ MAX_PORTS \in Nat
        /\ DOMAIN fdbd = 1 .. FDBD /\ FDBD \in Nat /\ h # GROUP
    BY BridgeAssumption DEF BridgeInv, BridgeTypeOK, GROUP
  <2>2. \A k \in DOMAIN ports : ports[k] = at[h] => bridgeif_send_to_port(in, k) = {at[h]} /\ k # CPU /\ k \in BR_FLOOD
    BY <2>1, <1>3 DEF bridgeif_send_to_port, CPU, BR_FLOOD
  <2>3. bridgeif_find_dst_ports(fdbd, h) = IF known # {} THEN {fdbd[Lowest(known)].port} ELSE BR_FLOOD
    BY Zenon, <2>1, <1>3 DEF bridgeif_find_dst_ports, bridgeif_fdb_get_dst_ports, SetAt
  <2>4. \E k \in DOMAIN ports : ports[k] = at[h] /\ k \in bridgeif_find_dst_ports(fdbd, h)
    <3>1. CASE known = {}
      BY Zenon, <3>1, <2>2, <2>3, <1>3
    <3>2. CASE known # {}
      <4> DEFINE n == Lowest(known)
      <4>1. n \in known
        <5>1. known \in SUBSET Nat
          BY <2>1
        <5> HIDE DEF known
        <5> QED BY Zenon, <3>2, <5>1, LowestInSet
      <4>2. /\ fdbd[n].port = heard[h].port /\ heard[h].since + fdbd[n].ts = BR_FDB_TIMEOUT_SEC
            /\ fdbd[n].ts \in Nat /\ fdbd[n].ts > 0 /\ heard[h] \in Heard
        BY Zenon, <4>1 DEF BridgeInv, BridgeTypeOK, FdbIsRecent, Live, Entry
      <4>3. heard[h].since < BR_FDB_TIMEOUT_SEC
        BY <4>2, BridgeAssumption DEF Heard
      <4>4. heard[h] # Silent
        <5>1. Silent.since = BR_FDB_TIMEOUT_SEC
          BY Zenon DEF Silent
        <5>2. heard[h].since # BR_FDB_TIMEOUT_SEC
          BY <4>2, <4>3, BridgeAssumption DEF Heard
        <5> QED BY Zenon, <5>1, <5>2
      <4>5. heard[h].port \in DOMAIN ports
        BY Zenon, <4>3 DEF BridgeInv, HeardOnPorts
      <4> QED BY Zenon, <3>2, <4>2, <4>4, <4>5, <2>3, <1>3
    <3> QED BY Zenon, <3>1, <3>2
  <2>5. PICK k \in DOMAIN ports : ports[k] = at[h] /\ k \in bridgeif_find_dst_ports(fdbd, h)
    BY Zenon, <2>4
  <2>6. k \in bridgeif_find_dst_ports(fdbd, h) \ {CPU} /\ at[h] \in bridgeif_send_to_port(in, k)
    BY Zenon, <2>2, <2>5
  <2> QED BY Zenon, <2>6 DEF Route, bridgeif_send_to_ports
<1> QED BY Zenon, <1>2, <1>3

\* For any ports, hosts and table sizes: the bridge's table names, for every address in it, the port
\* the address was last heard on, and a frame for a host that has not moved since reaches its port.
THEOREM BridgeIsRight == BridgeSpec => []BridgeForwards
<1>1. BridgeInv => BridgeForwards
  BY Zenon, FramesFollowTheTable DEF BridgeInv, BridgeForwards
<1> QED BY <1>1, BridgeStarts, BridgeKeeps, PTL DEF BridgeSpec
=============================================================================
