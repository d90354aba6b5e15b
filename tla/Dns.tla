-------------------------------- MODULE Dns --------------------------------
(***************************************************************************)
(* The DNS resolver of lwIP (src/core/dns.c), with the three protections   *)
(* of LWIP_DNS_SECURE on (their default): random transaction ids, random   *)
(* source ports, one outstanding query per name.  dns_table holds the      *)
(* queries and the cached answers, dns_requests the callbacks waiting for  *)
(* them, dns_pcbs the UDP control blocks the queries are sent from.        *)
(* The resolver is a state D that every operation maps to a new one; the   *)
(* fields of an entry that its state gives no meaning are reset.           *)
(***************************************************************************)
EXTENDS Integers, Sequences, FiniteSets, SequencesExt

CONSTANTS
  NAMES,              \* host names (letter case is ignored by the code)
  USES,               \* what differs between behaviours: the LWIP_DNS_ADDRTYPE_* asked for (types,
                      \* of "4", "6", "46" and "64"), the names the application may enter in the
                      \* local host list (local), the servers that are configured or withdrawn
                      \* while running (changing) and the names a callback asks for (requery)
  DNS_TABLE_SIZE, DNS_MAX_SOURCE_PORTS, DNS_MAX_RETRIES, DNS_MAX_TTL,
  DNS_MAX_SERVERS,
  SEQNO_MOD,          \* 2^8 in the code
  TXIDS               \* 0 .. 2^16 - 1 in the code

VARIABLES
  resolver,           \* D, below
  told                \* the answers handed out in the last step

dnsVars == <<resolver, told>>

DNS_MAX_REQUESTS == DNS_TABLE_SIZE
Entries == 1 .. DNS_TABLE_SIZE
Requests == 1 .. DNS_MAX_REQUESTS
Ports == 0 .. DNS_MAX_SOURCE_PORTS - 1
NONE == [name |-> "none", v |-> "none"]
IsV6(t) == t \in {"6", "64"}
Family(t) == IF IsV6(t) THEN "6" ELSE "4"
Fallback(t) == IF t = "46" THEN "6" ELSE "4"

NoEntry == [state |-> "unused", name |-> "none", type |-> "4", age |-> 0, server |-> 0, tmr |-> 0,
            retries |-> 0, txid |-> 0, ttl |-> 0, ip |-> NONE, pcb |-> DNS_MAX_SOURCE_PORTS]
NoRequest == [name |-> "none", type |-> "4", idx |-> 0]

\* stray, reused and leaked are history: the requests a callback left at the
\* entry it was called for, the entries in which it started a query of its own,
\* and the ports those entries had before.
dns_init(use) ==
  [use |-> use, stray |-> {}, reused |-> {}, leaked |-> {}, tab |-> [i \in Entries |-> NoEntry], req |-> [r \in Requests |-> NoRequest],
   pcbs |-> {}, last |-> 0, servers |-> [s \in 0 .. DNS_MAX_SERVERS - 1 |-> TRUE],
   hosts |-> {}, told |-> {}]

Asking(D) == {i \in Entries : D.tab[i].state = "asking"}
Waiting(D) == {r \in Requests : D.req[r].name # "none"}
Tell(D, name, type, ip, stray) ==
  [D EXCEPT !.told = @ \cup {[name |-> name, type |-> type, ip |-> ip, stray |-> stray]}]

(***************************************************************************)
(* Looking a name up in the local host list and in the cached answers.     *)
(***************************************************************************)
dns_lookup_local(D, name, type) == {h \in D.hosts : h.name = name /\ h.v = Family(type)}

dns_lookup(D, name, type) ==
  dns_lookup_local(D, name, type)
    \cup {D.tab[i].ip : i \in {j \in Entries : /\ D.tab[j].state = "done"
                                               /\ D.tab[j].name = name
                                               /\ D.tab[j].ip.v = Family(type)}}

Known(D, name, type) ==
  IF dns_lookup(D, name, type) # {} \/ type \notin {"46", "64"}
    THEN dns_lookup(D, name, type)
    ELSE dns_lookup(D, name, Fallback(type))

(***************************************************************************)
(* Starting a query.  dns_alloc_pcb opens a port while one is free and     *)
(* there is memory, and otherwise shares the next open one.  Ask is the    *)
(* DNS_STATE_NEW case of dns_check_entry up to the sending; dns_enqueue    *)
(* runs it when the first server is known to be set, so that the sending   *)
(* cannot fail for want of one.                                            *)
(***************************************************************************)
dns_alloc_pcb(D, memory) ==
  IF memory /\ D.pcbs # Ports
    THEN LET i == CHOOSE p \in Ports \ D.pcbs : \A q \in Ports \ D.pcbs : p <= q
         IN [D EXCEPT !.pcbs = @ \cup {i}, !.last = i]
    ELSE IF D.pcbs = {}
    THEN D
    ELSE LET Distance(p) == (p - D.last - 1) % DNS_MAX_SOURCE_PORTS
         IN [D EXCEPT !.last = CHOOSE p \in D.pcbs : \A q \in D.pcbs : Distance(p) <= Distance(q)]

dns_create_txid(D) ==
  CHOOSE x \in TXIDS : \A i \in Asking(D) : D.tab[i].txid # x

Ask(D, i) ==
  [D EXCEPT !.tab[i] = [@ EXCEPT !.txid = dns_create_txid(D), !.state = "asking",
                                 !.server = 0, !.tmr = 1, !.retries = 0]]

\* The first unused entry, else the cached answer that was asked longest ago.
Slot(D) ==
  LET unused == {i \in Entries : D.tab[i].state = "unused"}
      done == {i \in Entries : D.tab[i].state = "done" /\ D.tab[i].age > 0}
  IN IF unused # {}
       THEN {CHOOSE i \in unused : \A j \in unused : i <= j}
       ELSE {i \in done : \A j \in done : \/ D.tab[j].age < D.tab[i].age
                                          \/ D.tab[j].age = D.tab[i].age /\ i <= j}

FreeRequests(D) == {r \in Requests \ Waiting(D) : \A q \in Requests \ Waiting(D) : r <= q}

\* dns_seqno++: an entry holds its age, dns_seqno - seqno, in place of its seqno.
NextSeqno(tab) ==
  [i \in Entries |-> [tab[i] EXCEPT !.age = IF tab[i] = NoEntry THEN 0 ELSE (@ + 1) % SEQNO_MOD]]

AllocatePcb(D, i, r, memory) ==
  LET E == dns_alloc_pcb(D, memory)
  IN IF E.pcbs = {}
       THEN [D EXCEPT !.tab[i] = NoEntry, !.req[r] = NoRequest]
       ELSE Ask([E EXCEPT !.tab = NextSeqno([@ EXCEPT ![i].pcb = E.last])], i)

dns_enqueue(D, name, type, memory) ==
  LET asked == {i \in Asking(D) : D.tab[i].name = name /\ D.tab[i].type = type}
      i == IF asked # {} THEN CHOOSE j \in asked : \A k \in asked : j <= k
           ELSE CHOOSE j \in Slot(D) : TRUE
      r == CHOOSE q \in FreeRequests(D) : TRUE
      E == [D EXCEPT !.req[r] = [name |-> name, type |-> type, idx |-> i]]
  IN IF FreeRequests(D) = {} \/ (asked = {} /\ Slot(D) = {})
       THEN D
       ELSE IF asked # {}
       THEN E
       ELSE AllocatePcb([E EXCEPT !.tab[i] = [@ EXCEPT !.state = "new", !.age = 0,
                                                       !.type = type, !.name = name]],
                        i, r, memory)

dns_gethostbyname_addrtype(D, name, type, memory) ==
  LET known == Known(D, name, type)
  IN IF known # {}
       THEN Tell(D, name, type, CHOOSE ip \in known : TRUE, FALSE)
       ELSE IF ~D.servers[0]
       THEN D
       ELSE dns_enqueue(D, name, type, memory)

(***************************************************************************)
(* The end of a query.  `again' is what the callback asks for, or "none".  *)
(* The callback runs before its request is released, and the port is       *)
(* released after all the callbacks, unless another query shares it.       *)
(***************************************************************************)
CallBack(D, r, idx, found, again) ==
  LET Q == D.req[r]
      E == Tell(D, Q.name, Q.type, IF found THEN D.tab[idx].ip ELSE NONE, r \in D.stray)
      F == IF again = "none" THEN E ELSE dns_gethostbyname_addrtype(E, again, Q.type, TRUE)
  IN IF Q.name = "none" \/ Q.idx # idx
       THEN D
       ELSE [F EXCEPT !.req[r] = NoRequest,
                      !.stray = (@ \cup {q \in Waiting(F) \ Waiting(E) : F.req[q].idx = idx}) \ {r}]

ReleasePort(D, idx) ==
  LET p == D.tab[idx].pcb
      shared == \E i \in Asking(D) \ {idx} : D.tab[i].pcb = p
  IN [D EXCEPT !.pcbs = IF shared THEN @ ELSE @ \ {p}, !.tab[idx].pcb = DNS_MAX_SOURCE_PORTS]

dns_call_found(D, idx, found, again) ==
  LET E == IF found THEN [D EXCEPT !.tab[idx].type = D.tab[idx].ip.v] ELSE D
      F == FoldLeft(LAMBDA S, r : CallBack(S, r, idx, found, again), E, [r \in Requests |-> r])
  IN ReleasePort(IF found /\ idx \in Asking(F)
                   THEN [F EXCEPT !.reused = @ \cup {idx}, !.stray = {r \in @ : F.req[r].idx # idx},
                                  !.leaked = @ \cup {D.tab[idx].pcb}]
                   ELSE [F EXCEPT !.reused = @ \ {idx}], idx)

Fail(D, idx, again) ==
  [dns_call_found(D, idx, FALSE, again) EXCEPT !.tab[idx] = NoEntry]

dns_send(D, idx, again) ==
  IF D.servers[D.tab[idx].server] THEN D ELSE Fail(D, idx, again)

dns_backupserver_available(D, i) ==
  D.tab[i].server + 1 < DNS_MAX_SERVERS /\ D.servers[D.tab[i].server + 1]

(***************************************************************************)
(* dns_check_entry: one second of one entry.                               *)
(***************************************************************************)
RetryEntry(D, i, again) ==
  LET e == D.tab[i]
  IN IF e.retries + 1 # DNS_MAX_RETRIES
       THEN dns_send([D EXCEPT !.tab[i].retries = @ + 1, !.tab[i].tmr = e.retries + 1], i, again)
       ELSE IF dns_backupserver_available(D, i)
       THEN dns_send([D EXCEPT !.tab[i] = [@ EXCEPT !.server = @ + 1, !.tmr = 1, !.retries = 0]],
                     i, again)
       ELSE Fail([D EXCEPT !.tab[i].retries = @ + 1, !.tab[i].tmr = 0], i, again)

dns_check_entry(D, i, again) ==
  LET e == D.tab[i]
  IN CASE e.state = "new" -> dns_send(Ask(D, i), i, again)
       [] e.state = "asking" -> IF e.tmr = 1 THEN RetryEntry(D, i, again)
                                ELSE [D EXCEPT !.tab[i].tmr = @ - 1]
       [] e.state = "done" -> IF e.ttl <= 1
                                THEN [D EXCEPT !.tab[i] = NoEntry]
                                ELSE [D EXCEPT !.tab[i].ttl = @ - 1]
       [] OTHER -> D

(***************************************************************************)
(* An answer.  It is taken for the query with its transaction id, when it  *)
(* repeats the query's question and comes from the server that was asked;  *)
(* rr is what its answer section has: a record of the type asked for, no   *)
(* such record, or an error code instead.                                  *)
(***************************************************************************)
dns_correct_response(D, i, ttl, again) ==
  LET E == dns_call_found([D EXCEPT !.tab[i] = [@ EXCEPT !.state = "done", !.ttl = ttl, !.txid = 0,
                                                       !.server = 0, !.tmr = 0, !.retries = 0]],
                          i, TRUE, again)
  IN IF E.tab[i].ttl = 0 /\ E.tab[i].state = "done" THEN [E EXCEPT !.tab[i] = NoEntry] ELSE E
\* Faulty variant: the question in the answer is not compared.
MatchesTxid(D, i, answer) ==
  D.tab[i].txid = answer.txid /\ D.tab[i].server = answer.server

Matches(D, i, answer) ==
  /\ D.tab[i].txid = answer.txid
  /\ D.tab[i].server = answer.server
  /\ D.tab[i].name = answer.name
  /\ Family(D.tab[i].type) = answer.v

dns_recv(D, i, answer, rr, ttl, again) ==
  CASE rr = "error" /\ dns_backupserver_available(D, i) ->
         dns_check_entry([D EXCEPT !.tab[i].retries = DNS_MAX_RETRIES - 1, !.tab[i].tmr = 1], i, again)
    [] rr = "match" ->
         dns_correct_response([D EXCEPT !.tab[i].ip = [name |-> answer.name, v |-> answer.v]],
                              i, ttl, again)
    [] rr = "none" /\ D.tab[i].type \in {"46", "64"} ->
         dns_check_entry([D EXCEPT !.tab[i].type = Fallback(@), !.tab[i].state = "new"], i, again)
    [] OTHER -> Fail(D, i, again)

(***************************************************************************)
(* The steps: a call of the application, a second of the timer, an answer  *)
(* arriving (whichever question it repeats: late and misdirected answers   *)
(* are among them), a server configured or withdrawn.                      *)
(***************************************************************************)
Commits(D) == resolver' = [D EXCEPT !.told = {}] /\ told' = D.told
Again == {"none"} \cup resolver.use.requery

GetHostByName ==
  \E name \in NAMES, type \in resolver.use.types, memory \in BOOLEAN :
    Commits(dns_gethostbyname_addrtype(resolver, name, type, memory))

dns_tmr ==
  \E again \in Again :
    Commits(FoldLeft(LAMBDA D, i : dns_check_entry(D, i, again), resolver, [i \in Entries |-> i]))

AnswerArrives ==
  \E i \in Asking(resolver), name \in NAMES, v \in {"4", "6"}, server \in DOMAIN resolver.servers :
    LET answer == [txid |-> resolver.tab[i].txid, name |-> name, v |-> v, server |-> server]
    IN /\ Matches(resolver, i, answer)
       /\ resolver.servers[server]
       /\ \E rr \in {"match", "none", "error"}, again \in Again :
            \E ttl \in IF rr = "match" THEN 0 .. DNS_MAX_TTL ELSE {0} :
              Commits(dns_recv(resolver, i, answer, rr, ttl, again))

dns_setserver ==
  \E s \in resolver.use.changing : Commits([resolver EXCEPT !.servers[s] = ~@])

dns_local_addhost ==
  \E name \in resolver.use.local : Commits([resolver EXCEPT !.hosts = @ \cup {[name |-> name, v |-> "4"]}])

dns_local_removehost ==
  \E name \in resolver.use.local : Commits([resolver EXCEPT !.hosts = {h \in @ : h.name # name}])

DnsInit == (\E use \in USES : resolver = dns_init(use)) /\ told = {}

DnsNext ==
  \/ GetHostByName
  \/ dns_tmr
  \/ AnswerArrives
  \/ dns_setserver
  \/ dns_local_addhost
  \/ dns_local_removehost

DnsSpec == DnsInit /\ [][DnsNext]_dnsVars

-----------------------------------------------------------------------------
\* Whatever address the resolver hands out, from the host list, from the
\* cache or from an answer, is an address of the name that was asked for and
\* of a family the caller accepts (dns_found_callback in dns.h).  The
\* exception is a stray request: a callback that is told of a failure and asks
\* for the same name again is attached to the query that is just ending, which
\* is still in DNS_STATE_ASKING (dns.c:1104-1106, 1371-1372), and stays behind
\* to be told of whatever the entry is used for next.
AnswersFit ==
  \A t \in told : t.ip # NONE /\ ~t.stray => /\ t.ip.name = t.name
                                             /\ t.type \in {"4", "6"} => t.ip.v = t.type

\* Every request that waits and is not such a stray one, waits for a query
\* that is under way for its name; the queries under way have distinct
\* transaction ids and open ports, and no port stays open when the queries
\* that use it have ended.  The exception is a query that a callback started
\* in the entry it was called for (reused): dns_call_found closes the port of
\* that query (dns.c:988-1007) and leaves the one the entry had before open.
RequestsArePending ==
  /\ \A r \in Waiting(resolver) \ resolver.stray :
       /\ resolver.req[r].idx \in Asking(resolver)
       /\ resolver.tab[resolver.req[r].idx].name = resolver.req[r].name
  /\ \A i, j \in Asking(resolver) : i # j => resolver.tab[i].txid # resolver.tab[j].txid
  /\ LET used == {resolver.tab[i].pcb : i \in Asking(resolver) \ resolver.reused}
     IN used \subseteq resolver.pcbs /\ resolver.pcbs \subseteq used \cup resolver.leaked
=============================================================================
