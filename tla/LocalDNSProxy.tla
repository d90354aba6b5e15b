--------------------------- MODULE LocalDNSProxy ---------------------------
(***************************************************************************)
(* The query engine of LocalDNSProxy: calls of query(msg:) from many tasks *)
(* share one table, keyed by upstream server, of the stream that feeds the *)
(* server's UDP channel and of the promises waiting for an answer, keyed   *)
(* by transaction ID.  The table is locked for each access, not for an     *)
(* operation: tasks, channels, timers and the cancellation of run() take   *)
(* their steps in any order.                                               *)
(*                                                                         *)
(* A promise is named by the call that made it and the attempt it made it  *)
(* in; the stream and the channel made together with a promise share its   *)
(* name.  A datagram stays on the wire for ever: it may be answered late,  *)
(* twice or never, which is what UDP allows.                               *)
(***************************************************************************)
EXTENDS Naturals, Sequences, FiniteSets

CONSTANTS
    Query,             \* calls of query(msg:)
    Message,           \* what each call asks: a function on Query
    AdditionalServers, \* options.additionalServers, a sequence
    Mappings,          \* options.mappings, a sequence
    MaxRetryAttempts,  \* options.maxRetryAttempts
    Server,            \* the addresses that convert to a socket address
    MaxFaults,         \* bound on the connects, writes and channels that fail
    IPv4, IPv6,        \* the mapping values that parse as an address
    Nil,
    Pending            \* the value of a promise that is not fulfilled

VARIABLES
    continuation, \* queries[server].continuation, Nil without an entry
    queries,      \* queries[server].queries: the promise of a transaction ID
    promise,      \* what each promise is fulfilled with
    buffer,       \* messages yielded to a stream and not yet written
    finished,     \* the streams that are finished
    channel,      \* the state of the channel made with each stream
    wire,         \* datagrams written: the channel and the call
    pc, attempt, waiting, result, \* the calls
    faults,       \* how many connects, writes and channels have failed
    cancelled     \* whether run() was cancelled

table == <<continuation, queries>>
links == <<buffer, finished, channel, wire>>
calls == <<pc, attempt, waiting, result>>
vars  == <<table, promise, links, calls, faults, cancelled>>

Question(q) == Message[q].questions[1]

TransactionID(q) == Message[q].transactionID

Txid == {TransactionID(q) : q \in Query}

(***************************************************************************)
(* Answers given without a server.                                         *)
(***************************************************************************)
Reply(q, code, records) ==
    [transactionID |-> TransactionID(q), questions |-> Message[q].questions,
     code |-> code, records |-> records]

\* The first mapping of the name asked for: a set of at most one.
Mapping(q) ==
    {Mappings[i] : i \in {j \in DOMAIN Mappings :
        /\ Mappings[j].domainName = Question(q).name
        /\ \A k \in 1..(j - 1) : Mappings[k].domainName # Question(q).name}}

\* The three guards at the top of query(msg:).
Rejection(q) ==
    CASE Message[q].isResponse           -> "formErr"
      [] ~ Message[q].isQuery            -> "notImp"
      [] Len(Message[q].questions) # 1   -> "formErr"
      [] OTHER                           -> "none"

\* A mapping answers by itself when it is an alias, or an address of the
\* family asked for.
MappedReplies(q) ==
    {Reply(q, "noError", m.value) : m \in {n \in Mapping(q) :
        \/ n.strategy = "cname"
        \/ n.strategy = "mapping" /\ Question(q).type = "a"    /\ n.value \in IPv4
        \/ n.strategy = "mapping" /\ Question(q).type = "aaaa" /\ n.value \in IPv6}}

LocalReplies(q) ==
    IF Rejection(q) # "none" THEN {Reply(q, Rejection(q), Nil)} ELSE MappedReplies(q)

(***************************************************************************)
(* Attempts: every server in turn, MaxRetryAttempts times.                 *)
(***************************************************************************)
Upstream ==
    [q \in Query |-> IF Rejection(q) = "none" /\ \E m \in Mapping(q) : m.strategy = "dns"
                     THEN <<(CHOOSE m \in Mapping(q) : TRUE).value>>
                     ELSE AdditionalServers]

LastAttempt(q) == MaxRetryAttempts * Len(Upstream[q])

MaxAttempt == MaxRetryAttempts * (IF Len(AdditionalServers) = 0 THEN 1 ELSE Len(AdditionalServers))

Promise == Query \X (1..MaxAttempt)

ServerOf(p) == Upstream[p[1]][1 + ((p[2] - 1) % Len(Upstream[p[1]]))]

Own(q) == <<q, attempt[q]>>

TargetOf(q) == ServerOf(Own(q))

Throw(e) == [error |-> e]

\* What a promise fails with: its timer, a closed channel, a failed write
\* and, in the catch clause, a failed connect.
Errors == {Throw(e) : e \in {"timeout", "ioOnClosedChannel", "write", "connect"}}

\* Upstream servers, from how the reader uses them: an answer carries the
\* transaction ID and the question of the query.
Answer(q) == Reply(q, "noError", "upstream")

ASSUME ProxyAssumption ==
    /\ MaxRetryAttempts \in Nat /\ Len(AdditionalServers) \in Nat
    /\ Nil \notin Promise /\ Nil # Pending
    /\ {Nil, Pending} \cap (Errors \cup {Answer(q) : q \in Query}) = {}

\* NIO ignores every completion of a promise but the first.
Fulfil(ps, value) ==
    promise' = [p \in Promise |-> IF p \in ps /\ promise[p] = Pending THEN value ELSE promise[p]]

\* A connect, a write or a channel fails.
Fault == faults < MaxFaults /\ faults' = faults + 1

\* The promise the table holds for a transaction, as a set.
Registered(s, t) ==
    {queries[s][t]} \ {Nil}

Empty == [t \in Txid |-> Nil]

Init ==
    /\ continuation = [s \in Server |-> Nil]
    /\ queries = [s \in Server |-> Empty]
    /\ promise = [p \in Promise |-> Nil]
    /\ buffer = [p \in Promise |-> {}]
    /\ finished = {}
    /\ channel = [p \in Promise |-> "none"]
    /\ wire = {}
    /\ pc = [q \in Query |-> "idle"]
    /\ attempt = [q \in Query |-> 0]
    /\ waiting = [q \in Query |-> Nil]
    /\ result = [q \in Query |-> Nil]
    /\ faults = 0
    /\ cancelled = FALSE

\* The next turn of the loop of query(msg:), or its end: an address that
\* is no socket address throws out of the loop, the last error after it.
Turn(q, error) ==
    LET n == attempt[q] + 1
        stops == n > LastAttempt(q)
        bad == ~ stops /\ ServerOf(<<q, n>>) \notin Server
    IN  /\ attempt' = [attempt EXCEPT ![q] = IF stops THEN @ ELSE n]
        /\ pc' = [pc EXCEPT ![q] = IF stops \/ bad THEN "done" ELSE "lookup"]
        /\ result' = [result EXCEPT ![q] =
                          IF stops THEN error ELSE IF bad THEN Throw("unsupported") ELSE @]
        /\ waiting' = [waiting EXCEPT ![q] = Nil]

\* query(msg:) up to the first turn of its loop.
Call(q) ==
    /\ pc[q] = "idle"
    /\ \/ /\ LocalReplies(q) # {}
          /\ \E r \in LocalReplies(q) : result' = [result EXCEPT ![q] = r]
          /\ pc' = [pc EXCEPT ![q] = "done"]
          /\ UNCHANGED <<attempt, waiting>>
       \/ LocalReplies(q) = {} /\ Turn(q, Throw("operationRefused"))
    /\ UNCHANGED <<table, promise, links, faults, cancelled>>

(***************************************************************************)
(* startDNSq.                                                              *)
(***************************************************************************)
\* The entry is read under one lock: a promise of the same transaction is
\* shared, a missing one is made.
Lookup(q) ==
    LET s == TargetOf(q) IN
    /\ pc[q] = "lookup"
    /\ \/ /\ continuation[s] = Nil
          /\ pc' = [pc EXCEPT ![q] = "create"]
          /\ UNCHANGED <<promise, waiting>>
       \/ /\ continuation[s] # Nil
          /\ queries[s][TransactionID(q)] # Nil
          /\ waiting' = [waiting EXCEPT ![q] =
                 [promise |-> queries[s][TransactionID(q)], stream |-> continuation[s]]]
          /\ pc' = [pc EXCEPT ![q] = "send"]
          /\ UNCHANGED promise
       \/ /\ continuation[s] # Nil
          /\ queries[s][TransactionID(q)] = Nil
          /\ promise' = [promise EXCEPT ![Own(q)] = Pending]
          /\ waiting' = [waiting EXCEPT ![q] = [promise |-> Own(q), stream |-> continuation[s]]]
          /\ pc' = [pc EXCEPT ![q] = "insert"]
    /\ UNCHANGED <<table, links, attempt, result, faults, cancelled>>

\* The new promise goes into the entry there is now, if there is one.
Insert(q) ==
    LET s == TargetOf(q) IN
    /\ pc[q] = "insert"
    /\ queries' = IF continuation[s] = Nil THEN queries
                  ELSE [queries EXCEPT ![s][TransactionID(q)] = Own(q)]
    /\ pc' = [pc EXCEPT ![q] = "send"]
    /\ UNCHANGED <<continuation, promise, links, attempt, waiting, result, faults, cancelled>>

\* A stream, a promise and an entry, which replaces the one another task
\* may have stored since the lookup.
Create(q) ==
    LET s == TargetOf(q) IN
    /\ pc[q] = "create"
    /\ promise' = [promise EXCEPT ![Own(q)] = Pending]
    /\ continuation' = [continuation EXCEPT ![s] = Own(q)]
    /\ queries' = [queries EXCEPT ![s] = [Empty EXCEPT ![TransactionID(q)] = Own(q)]]
    /\ channel' = [channel EXCEPT ![Own(q)] = "connecting"]
    /\ waiting' = [waiting EXCEPT ![q] = [promise |-> Own(q), stream |-> Own(q)]]
    /\ pc' = [pc EXCEPT ![q] = "connect"]
    /\ UNCHANGED <<buffer, finished, wire, attempt, result, faults, cancelled>>

\* The datagram channel is open; its tasks run and its close is watched.
Connected(q) ==
    /\ pc[q] = "connect"
    /\ channel' = [channel EXCEPT ![Own(q)] = "open"]
    /\ pc' = [pc EXCEPT ![q] = "send"]
    /\ UNCHANGED <<table, promise, buffer, finished, wire, attempt, waiting, result, faults, cancelled>>

(***************************************************************************)
(* The rest of a turn of the loop.                                         *)
(***************************************************************************)
\* A mutant: the promise is removed and not failed.
CatchSilently(q, error) ==
    /\ queries' = [queries EXCEPT ![TargetOf(q)][TransactionID(q)] = Nil]
    /\ Turn(q, error)
    /\ UNCHANGED <<continuation, promise, cancelled>>

\* The catch clause: what the table holds for the transaction is removed
\* and failed, and the loop goes on.
Catch(q, error) ==
    LET s == TargetOf(q) IN
    /\ queries' = [queries EXCEPT ![s][TransactionID(q)] = Nil]
    /\ Fulfil(Registered(s, TransactionID(q)), error)
    /\ Turn(q, error)
    /\ UNCHANGED <<continuation, cancelled>>

ConnectFails(q) ==
    /\ Fault
    /\ pc[q] = "connect"
    /\ channel' = [channel EXCEPT ![Own(q)] = "failed"]
    /\ Catch(q, Throw("connect"))
    /\ UNCHANGED <<buffer, finished, wire>>

\* The timer is armed and the message yielded; a finished stream drops it.
Send(q) ==
    /\ pc[q] = "send"
    /\ buffer' = IF waiting[q].stream \in finished THEN buffer
                 ELSE [buffer EXCEPT ![waiting[q].stream] = @ \cup {q}]
    /\ pc' = [pc EXCEPT ![q] = "await"]
    /\ UNCHANGED <<table, promise, finished, channel, wire, attempt, waiting, result, faults, cancelled>>

\* A mutant: the timer fails the promise the table holds.
TimeoutRegistered(q) ==
    /\ pc[q] = "await"
    /\ promise[waiting[q].promise] = Pending
    /\ Fulfil(Registered(TargetOf(q), TransactionID(q)), Throw("timeout"))
    /\ UNCHANGED <<table, links, calls, faults, cancelled>>

\* The timer of the attempt.  Only success cancels it; one that is left
\* over finds its promise fulfilled.
Timeout(q) ==
    /\ pc[q] = "await"
    /\ promise[waiting[q].promise] = Pending
    /\ Fulfil({waiting[q].promise}, Throw("timeout"))
    /\ UNCHANGED <<table, links, calls, faults, cancelled>>

\* The answer is returned.  The promise stays in the table.
Succeed(q) ==
    LET v == promise[waiting[q].promise] IN
    /\ pc[q] = "await"
    /\ v # Pending /\ v \notin Errors
    /\ result' = [result EXCEPT ![q] = v]
    /\ waiting' = [waiting EXCEPT ![q] = Nil]
    /\ pc' = [pc EXCEPT ![q] = "done"]
    /\ UNCHANGED <<table, promise, links, attempt, faults, cancelled>>

Retry(q) ==
    LET v == promise[waiting[q].promise] IN
    /\ pc[q] = "await"
    /\ v \in Errors
    /\ Catch(q, v)
    /\ UNCHANGED <<links, faults>>

(***************************************************************************)
(* The tasks of a channel, its close, and the cancellation of run().       *)
(***************************************************************************)
\* Outbound: one yielded message becomes a datagram.
Write(c, q) ==
    /\ channel[c] = "open"
    /\ q \in buffer[c]
    /\ buffer' = [buffer EXCEPT ![c] = @ \ {q}]
    /\ wire' = wire \cup {<<c, q>>}
    /\ UNCHANGED <<table, promise, finished, channel, calls, faults, cancelled>>

\* Outbound: a failed write fails whatever the table holds for the
\* transaction now.
WriteFails(c, q) ==
    /\ Fault
    /\ channel[c] \in {"open", "closed"}
    /\ q \in buffer[c]
    /\ buffer' = [buffer EXCEPT ![c] = @ \ {q}]
    /\ Fulfil(Registered(ServerOf(c), TransactionID(q)), Throw("write"))
    /\ UNCHANGED <<table, finished, channel, wire, calls, cancelled>>

\* A mutant: an answer goes to every promise of the server.
ReceiveForAll(c, q) ==
    /\ channel[c] = "open"
    /\ <<c, q>> \in wire
    /\ Fulfil(UNION {Registered(ServerOf(c), t) : t \in Txid}, Answer(q))
    /\ UNCHANGED <<table, links, calls, faults, cancelled>>

\* Inbound: an answer goes to whatever the table holds for its transaction.
Receive(c, q) ==
    /\ channel[c] = "open"
    /\ <<c, q>> \in wire
    /\ \E p \in Registered(ServerOf(c), TransactionID(q)) : promise[p] = Pending
    /\ Fulfil(Registered(ServerOf(c), TransactionID(q)), Answer(q))
    /\ UNCHANGED <<table, links, calls, faults, cancelled>>

\* A mutant: the promises are failed and the entry is kept.
CloseKeepsEntry(c) ==
    /\ Fault
    /\ channel[c] = "open"
    /\ channel' = [channel EXCEPT ![c] = "closed"]
    /\ Fulfil(UNION {Registered(ServerOf(c), t) : t \in Txid}, Throw("ioOnClosedChannel"))
    /\ UNCHANGED <<table, buffer, finished, wire, calls, cancelled>>

\* closeFuture: the entry the server has now is removed, its stream
\* finished and its promises failed.
Close(c) ==
    LET s == ServerOf(c) IN
    /\ Fault
    /\ channel[c] = "open"
    /\ channel' = [channel EXCEPT ![c] = "closed"]
    /\ continuation' = [continuation EXCEPT ![s] = Nil]
    /\ queries' = [queries EXCEPT ![s] = Empty]
    /\ finished' = finished \cup ({continuation[s]} \ {Nil})
    /\ Fulfil(UNION {Registered(s, t) : t \in Txid}, Throw("ioOnClosedChannel"))
    /\ UNCHANGED <<buffer, wire, calls, cancelled>>

\* onCancel of run().
Cancel ==
    /\ ~cancelled
    /\ continuation' = [s \in Server |-> Nil]
    /\ queries' = [s \in Server |-> Empty]
    /\ finished' = finished \cup ({continuation[s] : s \in Server} \ {Nil})
    /\ Fulfil(UNION {Registered(s, t) : s \in Server, t \in Txid}, Throw("ioOnClosedChannel"))
    /\ cancelled' = TRUE
    /\ UNCHANGED <<buffer, channel, wire, calls, faults>>

\* Every call has ended and the proxy is idle.
Idle == (\A q \in Query : pc[q] = "done") /\ UNCHANGED vars

Step(q) ==
    \/ Call(q) \/ Lookup(q) \/ Insert(q) \/ Create(q) \/ Connected(q) \/ ConnectFails(q)
    \/ Send(q) \/ Timeout(q) \/ Succeed(q) \/ Retry(q)

Next ==
    \/ \E q \in Query : Step(q)
    \/ \E c \in Promise, q \in Query : Write(c, q) \/ WriteFails(c, q) \/ Receive(c, q)
    \/ \E c \in Promise : Close(c)
    \/ Cancel
    \/ Idle

Spec == Init /\ [][Next]_vars

\* Tasks are scheduled, connecting a datagram socket ends and timers fire.
\* Nothing is assumed of the network or of the channels.
FairSpec == Spec /\ \A q \in Query : WF_vars(Step(q))

(***************************************************************************)
(* Properties.                                                             *)
(***************************************************************************)
\* What a call can end with besides an answer.
Failures == Errors \cup {Throw("operationRefused"), Throw("unsupported")}

Answers == {Answer(q) : q \in Query} \cup UNION {LocalReplies(q) : q \in Query}

\* Types of the table, the promises, the channels and the calls.
TypeOK ==
    /\ continuation \in [Server -> Promise \cup {Nil}]
    /\ queries \in [Server -> [Txid -> Promise \cup {Nil}]]
    /\ promise \in [Promise -> Answers \cup Errors \cup {Pending, Nil}]
    /\ buffer \in [Promise -> SUBSET Query]
    /\ finished \subseteq Promise
    /\ channel \in [Promise -> {"none", "connecting", "open", "closed", "failed"}]
    /\ wire \subseteq Promise \X Query
    /\ pc \in [Query -> {"idle", "lookup", "insert", "create", "connect", "send", "await", "done"}]
    /\ attempt \in [Query -> 0..MaxAttempt]
    /\ waiting \in [Query -> [promise : Promise, stream : Promise] \cup {Nil}]
    /\ result \in [Query -> Answers \cup Failures \cup {Nil}]
    /\ faults \in 0..MaxFaults
    /\ cancelled \in BOOLEAN

\* An answered call holds the answer to its own question under its own
\* transaction ID, however calls, retries, late answers and replaced
\* entries interleave (query(msg:), "let result = try await").
AnswerMatchesQuestion ==
    \A q \in Query :
        pc[q] = "done" /\ result[q] \notin Failures =>
            /\ result[q].transactionID = TransactionID(q)
            /\ result[q].questions = Message[q].questions

\* Which of two mappings comes first for a name.
MapsFirst(m, name) ==
    \E i \in DOMAIN Mappings :
        Mappings[i] = m /\ m.domainName = name
            /\ \A j \in DOMAIN Mappings : Mappings[j].domainName = name => i <= j

\* Only well-formed queries leave the proxy, and each goes to the server
\* its mapping names or, without one, to an additional server, although the
\* channels are shared by all calls.
RoutedAsMapped ==
    \A d \in wire :
        LET c == d[1]
            m == Message[d[2]]
        IN  /\ ~ m.isResponse /\ m.isQuery /\ Len(m.questions) = 1
            /\ \A i \in DOMAIN Mappings : MapsFirst(Mappings[i], m.questions[1].name) =>
                   \/ Mappings[i].strategy = "dns" /\ ServerOf(c) = Mappings[i].value
                   \/ /\ Mappings[i].strategy = "mapping"
                      /\ Mappings[i].value \notin (CASE m.questions[1].type = "a" -> IPv4
                                                     [] m.questions[1].type = "aaaa" -> IPv6
                                                     [] OTHER -> {})
                      /\ \E k \in DOMAIN AdditionalServers : ServerOf(c) = AdditionalServers[k]
            /\ (\A i \in DOMAIN Mappings : Mappings[i].domainName # m.questions[1].name) =>
                   \E k \in DOMAIN AdditionalServers : ServerOf(c) = AdditionalServers[k]

\* The entry of a server leads somewhere: its stream is not finished and
\* its channel is connecting or open, except after a failed connect, which
\* startDNSq leaves in the table.
EntryIsServed ==
    \A s \in Server : continuation[s] # Nil =>
        /\ continuation[s] \notin finished
        /\ channel[continuation[s]] \in {"connecting", "open", "failed"}

\* The call that made a promise has moved on from the attempt.
Abandoned(p) == attempt[p[1]] > p[2] \/ pc[p[1]] = "done"

\* No promise is dropped unfulfilled (NIO traps that in debug builds),
\* except when its connect failed after another task's first query of the
\* server had replaced its entry: query's catch clause then finds nothing.
NoPromiseLost ==
    \A p \in Promise : promise[p] = Pending /\ Abandoned(p) =>
        /\ channel[p] = "failed"
        /\ \E c \in Promise \ {p} : ServerOf(c) = ServerOf(p) /\ channel[c] # "none"

\* Every call returns or throws: the timer holds the promise itself, so
\* nothing done to the table keeps a call waiting.
QueriesEnd ==
    \A q \in Query : pc[q] # "idle" ~> pc[q] = "done"
=============================================================================
