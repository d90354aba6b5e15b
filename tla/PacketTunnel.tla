---------------------------- MODULE PacketTunnel ----------------------------
(***************************************************************************)
(* The packet tunnel (LwIP.swift, LocalDNSProxy+LwIP.swift): a loop reads  *)
(* packets in batches.  DNS queries of a batch are answered one after the  *)
(* other, A queries with a disguised address of the pool that is kept in   *)
(* an LRU cache (queryDisguisedA); the replies are written when the last   *)
(* query is through.  TCP packets of the batch are input meanwhile, and    *)
(* open flows whose task finds the name of a disguised destination again   *)
(* by searching that cache (handleNewFlow, queryPTR).                      *)
(*                                                                         *)
(* Composes the pool, with the loop as its one caller, and the abstract    *)
(* cache that LRUCache implements.                                         *)
(***************************************************************************)
EXTENDS Naturals, Sequences, FiniteSets

CONSTANTS
  Name,       \* domain names
  Pools,      \* the [lower, upper] the pool may have
  Modulus,    \* number of addresses
  RecordCapacity,   \* of the cache of disguised records
  MaxBatch,   \* bound: packets of one read
  MaxReads,   \* bound: reads that return packets
  Flow        \* bound: the flows that may be opened

VARIABLES
  bounds, storage, poolPc, address, overtaken,   \* availableIPPool
  content, older, answer,                    \* disguisedARecords
  queries,    \* DNS packets of the batch not yet handled
  segments,   \* TCP packets of the batch not yet input
  step,       \* where the task that handles the DNS packets is
  value,      \* the address of the record under way
  handled,    \* the replies made so far
  flows,      \* what became of each flow
  reads, cancelled,
  told,       \* history: the address last written to the application for a name, ...
  toldDraw,   \* ... and which draw of the pool it was
  draw,       \* history: which draw the last address of a name was
  drawn,      \* history: the addresses drawn, each with the name it was drawn for
  since,      \* history: the names asked for since a name was last asked for
  asked       \* history: the A queries of the batch

resolver == "resolver"
NoAddress == Modulus

Pool == INSTANCE AvailableIPPool WITH
          Caller <- {resolver}, MaxOvertaken <- 0, pc <- poolPc, given <- {}
Cache == INSTANCE RecencyCache WITH
           Key <- Name, Value <- 0 .. Modulus - 1, NoValue <- NoAddress, Capacity <- RecordCapacity

poolVars == <<bounds, storage, poolPc, address, overtaken>>
cacheVars == <<content, older, answer>>
batchVars == <<queries, segments, step, value, handled>>
history == <<told, toldDraw, draw, drawn, since, asked>>
tunnelVars == <<poolVars, cacheVars, batchVars, flows, reads, cancelled, history>>

\* own and other: history, the draws of the address meant and of the address found.
Unopened == [want |-> "none", to |-> NoAddress, state |-> "none", found |-> "none",
             own |-> 0, other |-> 0]

TunnelInit ==
  /\ Pool!PoolInit /\ Cache!Init
  /\ queries = <<>> /\ segments = <<>> /\ step = "done" /\ value = NoAddress /\ handled = <<>>
  /\ flows = [f \in Flow |-> Unopened]
  /\ reads = 0 /\ cancelled = FALSE
  /\ told = [n \in Name |-> NoAddress] /\ toldDraw = [n \in Name |-> 0]
  /\ draw = [n \in Name |-> 0] /\ drawn = <<>> /\ since = [n \in Name |-> {}]
  /\ asked = <<>>

-----------------------------------------------------------------------------
(* Reading.                                                                 *)

\* DNS packets that handlePacket accepts: an A query, a query of another type, and one
\* that cannot be parsed or has no payload.
Query == [type : {"a"}, name : Name] \cup [type : {"other", "malformed"}]

\* TCP packets that open a flow: to the address the application was told for a name, or
\* to an address that is not of the pool.  Everything else is left out by both parts.
Segment ==
  {[want |-> n, to |-> told[n], own |-> toldDraw[n]] : n \in {m \in Name : told[m] # NoAddress}}
    \cup [want : {"address"}, to : {a \in {0} : ~Pool!Contains(a)}, own : {0}]

Batches(S, k) == UNION {[1 .. i -> S] : i \in 0 .. k}

\* readPacketsIfActive: the next batch is read when both parts of the last one are done.
readPacketsIfActive ==
  /\ step = "done" /\ segments = <<>> /\ ~cancelled /\ reads < MaxReads
  /\ \E k \in 0 .. MaxBatch :
       /\ queries' \in Batches(Query, k)
       /\ segments' \in Batches(Segment, MaxBatch - k)
  /\ asked' = SelectSeq(queries', LAMBDA q : q.type = "a")
  /\ step' = "next" /\ reads' = reads + 1
  /\ UNCHANGED <<poolVars, cacheVars, value, handled, flows, cancelled, told, toldDraw, draw, drawn,
                 since>>

Cancel ==
  /\ ~cancelled /\ cancelled' = TRUE
  /\ UNCHANGED <<poolVars, cacheVars, batchVars, flows, reads, history>>

-----------------------------------------------------------------------------
(* The DNS packets: handleNewPackets of LocalDNSProxy+LwIP.                 *)

First == Head(queries)
Asks(type) == step = "next" /\ queries # <<>> /\ First.type = type

\* queryDisguisedA: the record the cache has for the name, if it has one.
FetchRecord ==
  /\ Asks("a")
  /\ Cache!Fetch(First.name)
  /\ step' = IF answer' = NoAddress THEN "draw" ELSE "store"
  /\ value' = answer'
  /\ UNCHANGED <<poolVars, queries, segments, handled, flows, reads, cancelled, history>>

\* Otherwise the next address of the pool, in as many atomic steps as it takes.
DrawAddress ==
  /\ step = "draw"
  /\ Pool!Step(resolver)
  /\ IF poolPc'[resolver] = "idle"
     THEN /\ step' = "store" /\ value' = address'[resolver]
          /\ drawn' = Append(drawn, [name |-> First.name, address |-> address'[resolver]])
          /\ draw' = [draw EXCEPT ![First.name] = Len(drawn) + 1]
     ELSE UNCHANGED <<step, value, drawn, draw>>
  /\ UNCHANGED <<cacheVars, queries, segments, handled, flows, reads, cancelled, told, toldDraw,
                 since, asked>>

AskedFor(n) == since' = [m \in Name |-> IF m = n THEN {} ELSE since[m] \cup {n}]

\* Faulty variant: only a record that was in the cache is stored, with its new time.
RefreshRecord ==
  /\ step = "store"
  /\ IF content[First.name] # NoAddress THEN Cache!Store(First.name, value)
                                        ELSE UNCHANGED cacheVars
  /\ handled' = Append(handled, [name |-> First.name, address |-> value])
  /\ queries' = Tail(queries) /\ step' = "next"
  /\ AskedFor(First.name)
  /\ UNCHANGED <<poolVars, segments, value, flows, reads, cancelled, told, toldDraw, draw, drawn,
                 asked>>

\* The record is stored under the name and its address put into the reply.
StoreRecord ==
  /\ step = "store"
  /\ Cache!Store(First.name, value)
  /\ handled' = Append(handled, [name |-> First.name, address |-> value])
  /\ queries' = Tail(queries) /\ step' = "next"
  /\ AskedFor(First.name)
  /\ UNCHANGED <<poolVars, segments, value, flows, reads, cancelled, told, toldDraw, draw, drawn,
                 asked>>

\* A query of another type is sent on and ends with a reply or an error; a message that
\* cannot be parsed is dropped.  Neither touches the cache, and neither ends the batch.
PassOn ==
  /\ Asks("other") \/ Asks("malformed")
  /\ queries' = Tail(queries) /\ step' = "next"
  /\ UNCHANGED <<poolVars, cacheVars, segments, value, handled, flows, reads, cancelled, history>>

\* The replies of the batch are written together when the last query is through.
writePacketObjects ==
  /\ step = "next" /\ queries = <<>>
  /\ LET last(n) == CHOOSE i \in DOMAIN handled :
                      /\ handled[i].name = n
                      /\ \A j \in DOMAIN handled : handled[j].name = n => j <= i
         answered == {handled[i].name : i \in DOMAIN handled}
     IN /\ told' = [n \in Name |-> IF n \in answered THEN handled[last(n)].address ELSE told[n]]
        /\ toldDraw' = [n \in Name |-> IF n \in answered THEN draw[n] ELSE toldDraw[n]]
  /\ handled' = <<>> /\ step' = "done"
  /\ UNCHANGED <<poolVars, cacheVars, queries, segments, value, flows, reads, cancelled, draw,
                 drawn, since, asked>>

-----------------------------------------------------------------------------
(* The TCP packets and the flows they open.                                 *)

input ==
  /\ segments # <<>> /\ segments' = Tail(segments)
  /\ LET s == Head(segments)
         free == {f \in Flow : flows[f].state = "none"}
     IN IF free = {} THEN UNCHANGED flows
        ELSE flows' = [flows EXCEPT ![CHOOSE f \in free : TRUE] =
                         [Unopened EXCEPT !.want = s.want, !.to = s.to, !.own = s.own,
                                          !.state = "opened"]]
  /\ UNCHANGED <<poolVars, cacheVars, queries, step, value, handled, reads, cancelled, history>>

Named(a) == {n \in Name : content[n] = a}

\* handleNewFlow: a destination of the pool is replaced by the name queryPTR finds, the
\* first of the cached records with that address; without one the flow is closed.  Another
\* destination is taken as it is.
handleNewFlow(f) ==
  /\ flows[f].state = "opened"
  /\ IF Pool!Contains(flows[f].to)
     THEN /\ Cache!Search(Named(flows[f].to))
          /\ flows' = [flows EXCEPT ![f] =
               IF answer' = NoAddress
               THEN [@ EXCEPT !.state = "closed"]
               ELSE [@ EXCEPT !.state = "connected", !.found = answer', !.other = draw[answer']]]
     ELSE /\ flows' = [flows EXCEPT ![f].state = "connected", ![f].found = "address"]
          /\ UNCHANGED cacheVars
  /\ UNCHANGED <<poolVars, batchVars, reads, cancelled, history>>

-----------------------------------------------------------------------------
Handle == FetchRecord \/ DrawAddress \/ StoreRecord \/ PassOn \/ writePacketObjects
Flows == \E f \in Flow : handleNewFlow(f)

\* The loop may wait for packets for ever, and stops when it is cancelled.
Wait == step = "done" /\ segments = <<>> /\ UNCHANGED tunnelVars

TunnelNext == readPacketsIfActive \/ Cancel \/ Handle \/ input \/ Flows \/ Wait

TunnelSpec == TunnelInit /\ [][TunnelNext]_tunnelVars

-----------------------------------------------------------------------------
(* Properties.                                                              *)

\* Types of the pool, the record cache, the batch in hand and the flows.
TunnelTypeOK ==
  /\ Pool!PoolTypeOK
  /\ content \in [Name -> 0 .. Modulus] /\ Cardinality(Cache!Live) <= RecordCapacity
  /\ queries \in Batches(Query, MaxBatch) /\ step \in {"next", "draw", "store", "done"}
  /\ value \in 0 .. Modulus /\ told \in [Name -> 0 .. Modulus]
  /\ \A n \in Name : draw[n] \in DOMAIN drawn \cup {0} /\ toldDraw[n] \in DOMAIN drawn \cup {0}
  /\ \A f \in Flow : flows[f].state \in {"none", "opened", "connected", "closed"}

Distance(i, j) == IF i < j THEN j - i ELSE i - j

\* A flow reaches the name its application asked for: handleNewFlow finds another name for
\* the address only when the two names' addresses were drawn at least a full pass of the
\* pool apart, so that both of them are cached under the one address.
FlowGetsItsName ==
  \A f \in Flow :
    flows[f].state = "connected" /\ flows[f].found # flows[f].want
      => Distance(flows[f].own, flows[f].other) >= Cardinality(Pool!Usable)

\* A name keeps its disguised address: queryDisguisedA draws a second address for it only
\* after as many other names were asked for as the cache has room for.
KeepsAddresses ==
  \A n \in Name : draw[n] # 0 /\ draw'[n] # draw[n] => Cardinality(since[n]) >= RecordCapacity

\* A flow to an address the application was told is closed only when the name was forgotten:
\* the name's record is stored before the reply is written, and stays while fewer other
\* names are asked for than the cache has room for.
ClosesForgottenOnly ==
  \A f \in Flow : flows[f].state = "opened" /\ flows'[f].state = "closed"
    => \/ Cardinality(since[flows[f].want]) >= RecordCapacity
       \/ draw[flows[f].want] # flows[f].own

\* Each A query of a batch is answered once, in the order of the batch, whatever becomes of
\* the other queries in it, and before the next batch is read.
AnswersInOrder ==
  step = "next" /\ step' = "done"
    => /\ Len(handled) = Len(asked)
       /\ \A i \in DOMAIN handled : handled[i].name = asked[i].name

\* What an application may rely on: every query of a batch is answered in its turn, with the
\* address the name had before, and a flow to that address is served, until as many other
\* names were asked for as the record cache holds.
QueriesAnswered == [][AnswersInOrder /\ KeepsAddresses /\ ClosesForgottenOnly]_tunnelVars

\* "every reserved IPs should be able to query PTR records": a flow to an address that was
\* told to the application is not closed for want of a name.
ReservedAddressesHaveNames == \A f \in Flow : flows[f].state # "closed"
=============================================================================
