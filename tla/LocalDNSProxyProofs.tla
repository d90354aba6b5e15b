------------------------ MODULE LocalDNSProxyProofs ------------------------
(***************************************************************************)
(* The query engine for any calls, servers, mappings and numbers of        *)
(* attempts and faults: calls get the answer to their own question when    *)
(* transaction IDs identify questions, the entries of the table lead to a  *)
(* channel, and no promise is dropped unfulfilled but in one race.         *)
(***************************************************************************)
EXTENDS LocalDNSProxy, TLAPS

\* The functions the state is made of.
Shape ==
    /\ continuation \in [Server -> Promise \cup {Nil}]
    /\ queries \in [Server -> [Txid -> Promise \cup {Nil}]]
    /\ promise = [p \in Promise |-> promise[p]]
    /\ channel \in [Promise -> {"none", "connecting", "open", "closed", "failed"}]
    /\ finished \subseteq Promise
    /\ pc \in [Query -> {"idle", "lookup", "insert", "create", "connect", "send", "await", "done"}]
    /\ attempt \in [Query -> 0..MaxAttempt]
    /\ waiting = [q \in Query |-> waiting[q]]
    /\ result = [q \in Query |-> result[q]]

\* A call in its loop tries a promise name and a server that exist.
CallsAreOnTheWay ==
    \A q \in Query : pc[q] \notin {"idle", "done"} =>
        /\ Own(q) \in Promise /\ TargetOf(q) \in Server
        /\ pc[q] = "connect" => channel[Own(q)] = "connecting"

\* Nothing is made under a name before the attempt it belongs to.
NamesAreFresh ==
    \A p \in Promise :
        \/ p[2] > attempt[p[1]]
        \/ p[2] = attempt[p[1]] /\ pc[p[1]] \in {"lookup", "create"}
        => promise[p] = Nil /\ channel[p] = "none"

\* The table holds promises that were made, under their transaction ID.
TableByTransaction ==
    \A s \in Server, t \in Txid : queries[s][t] # Nil =>
        promise[queries[s][t]] # Nil /\ TransactionID(queries[s][t][1]) = t

\* A call waits for a promise of its transaction.
WaitsByTransaction ==
    \A q \in Query : pc[q] \in {"insert", "connect", "send", "await"} =>
        /\ waiting[q].promise \in Promise
        /\ promise[waiting[q].promise] # Nil
        /\ TransactionID(waiting[q].promise[1]) = TransactionID(q)
        /\ pc[q] = "insert" => waiting[q].promise = Own(q)

\* Transaction IDs identify what is asked: two calls under one ID repeat
\* one query.
TransactionsIdentify ==
    \A q, r \in Query :
        TransactionID(q) = TransactionID(r) => Message[q].questions = Message[r].questions

Matches(v, q) ==
    v.transactionID = TransactionID(q) /\ v.questions = Message[q].questions

\* Promises are fulfilled, and calls end, with errors or matching answers, when transaction
\* IDs identify questions.
ValuesMatch == TransactionsIdentify =>
    /\ \A p \in Promise : promise[p] \in Errors \cup {Nil, Pending} \/ Matches(promise[p], p[1])
    /\ \A q \in Query : pc[q] = "done" => result[q] \in Failures \/ Matches(result[q], q)

\* Streams are used after their channel was made; an entry's stream is of
\* its server.
EntriesLead ==
    /\ \A c \in finished : channel[c] # "none"
    /\ \A c \in Promise : channel[c] # "none" => ServerOf(c) \in Server
    /\ \A s \in Server : continuation[s] # Nil => ServerOf(continuation[s]) = s

\* The inductive invariant.
IInv ==
    /\ Shape /\ CallsAreOnTheWay /\ NamesAreFresh /\ TableByTransaction /\ WaitsByTransaction
    /\ ValuesMatch /\ EntriesLead /\ EntryIsServed

\* Arithmetic of the attempts: no call has more than there are names for.
LEMMA Times ==
    ASSUME NEW m \in Nat, NEW n \in Nat, n > 0
    PROVE  m * n \in Nat /\ m <= m * n
  OBVIOUS

\* The number of attempts of query(msg:) is bounded by that of the servers and retries.
LEMMA Attempts ==
    /\ MaxAttempt \in Nat
    /\ \A q \in Query : LastAttempt(q) \in Nat /\ LastAttempt(q) <= MaxAttempt
  <1> DEFINE n == Len(AdditionalServers)
  <1>0. MaxRetryAttempts \in Nat /\ n \in Nat
    BY Zenon, ProxyAssumption
  <1>1. MaxRetryAttempts * 0 = 0 /\ MaxRetryAttempts * 1 = MaxRetryAttempts
    BY <1>0
  <1>2. n > 0 => MaxRetryAttempts * n \in Nat /\ MaxRetryAttempts <= MaxRetryAttempts * n
    BY Zenon, <1>0, Times
  <1>3. MaxAttempt = IF n = 0 THEN MaxRetryAttempts ELSE MaxRetryAttempts * n
    BY Zenon, <1>0, <1>1 DEF MaxAttempt
  <1>4. MaxAttempt \in Nat
    BY <1>0, <1>2, <1>3
  <1>5. ASSUME NEW q \in Query
        PROVE  LastAttempt(q) \in Nat /\ LastAttempt(q) <= MaxAttempt
    <2>1. Len(Upstream[q]) = 1 \/ Len(Upstream[q]) = n
      BY Zenon DEF Upstream
    <2>2. LastAttempt(q) = MaxRetryAttempts \/ LastAttempt(q) = MaxRetryAttempts * n
      BY Zenon, <2>1, <1>1 DEF LastAttempt
    <2>3. CASE n = 0
      BY <2>2, <2>3, <1>0, <1>1, <1>3
    <2>4. CASE n > 0
      BY <2>2, <2>4, <1>0, <1>2, <1>3
    <2> QED BY <2>3, <2>4, <1>0
  <1> QED BY Zenon, <1>4, <1>5

\* Fulfilling promises fulfils pending ones only, and makes none.
LEMMA FulfilFacts ==
    ASSUME Shape, NEW ps, NEW v, v # Nil, Fulfil(ps, v)
    PROVE  /\ promise' = [p \in Promise |-> promise'[p]]
           /\ \A p \in Promise : promise'[p] # Nil <=> promise[p] # Nil
           /\ \A p \in Promise : promise'[p] = promise[p] \/ (p \in ps /\ promise'[p] = v)
  BY Zenon, ProxyAssumption DEF Fulfil, Shape

\* Errors and answers are neither missing nor pending.
LEMMA ValueFacts ==
    /\ \A e \in Errors : e # Nil /\ e # Pending /\ e \in Failures
    /\ \A q \in Query : Answer(q) # Nil /\ Answer(q) # Pending /\ Matches(Answer(q), q)
    /\ Pending # Nil
    /\ Throw("timeout") \in Errors /\ Throw("write") \in Errors
    /\ Throw("connect") \in Errors /\ Throw("ioOnClosedChannel") \in Errors
    /\ Throw("operationRefused") \in Failures /\ Throw("unsupported") \in Failures
  <1>1. \A q \in Query : Matches(Answer(q), q)
    BY Zenon DEF Matches, Answer, Reply
  <1> QED BY Zenon, <1>1, ProxyAssumption DEF Errors, Failures

\* An assignment to the variables of one call.
LEMMA CallUpdate ==
    ASSUME Shape, NEW q \in Query, NEW a \in 0..MaxAttempt,
           NEW k \in {"idle", "lookup", "insert", "create", "connect", "send", "await", "done"},
           NEW v, NEW w,
           attempt' = [attempt EXCEPT ![q] = a], pc' = [pc EXCEPT ![q] = k],
           result' = [result EXCEPT ![q] = v], waiting' = [waiting EXCEPT ![q] = w]
    PROVE  /\ attempt' \in [Query -> 0..MaxAttempt]
           /\ pc' \in [Query -> {"idle", "lookup", "insert", "create", "connect", "send", "await", "done"}]
           /\ result' = [r \in Query |-> result'[r]]
           /\ waiting' = [r \in Query |-> waiting'[r]]
           /\ \A r \in Query \ {q} : /\ pc'[r] = pc[r] /\ attempt'[r] = attempt[r]
                                     /\ waiting'[r] = waiting[r] /\ result'[r] = result[r]
           /\ attempt'[q] = a /\ pc'[q] = k /\ result'[q] = v /\ waiting'[q] = w
  <1>1. attempt' \in [Query -> 0..MaxAttempt]
    BY Zenon DEF Shape
  <1>2. pc' \in [Query -> {"idle", "lookup", "insert", "create", "connect", "send", "await", "done"}]
    BY Zenon DEF Shape
  <1>3. result' = [r \in Query |-> result'[r]] /\ waiting' = [r \in Query |-> waiting'[r]]
    BY Zenon DEF Shape
  <1>4. \A r \in Query \ {q} : /\ pc'[r] = pc[r] /\ attempt'[r] = attempt[r]
                               /\ waiting'[r] = waiting[r] /\ result'[r] = result[r]
    BY Zenon DEF Shape
  <1>5. attempt'[q] = a /\ pc'[q] = k /\ result'[q] = v /\ waiting'[q] = w
    BY Zenon DEF Shape
  <1> QED BY Zenon, <1>1, <1>2, <1>3, <1>4, <1>5

\* A turn of the loop ends the call, or moves it to a fresh attempt.
LEMMA TurnFacts ==
    ASSUME Shape, NEW q \in Query, NEW e \in Failures, Turn(q, e)
    PROVE  /\ attempt' \in [Query -> 0..MaxAttempt]
           /\ pc' \in [Query -> {"idle", "lookup", "insert", "create", "connect", "send", "await", "done"}]
           /\ result' = [r \in Query |-> result'[r]]
           /\ waiting' = [r \in Query |-> waiting'[r]]
           /\ \A r \in Query \ {q} : /\ pc'[r] = pc[r] /\ attempt'[r] = attempt[r]
                                     /\ waiting'[r] = waiting[r] /\ result'[r] = result[r]
           /\ \/ /\ pc'[q] = "lookup" /\ attempt'[q] = attempt[q] + 1
                 /\ <<q, attempt'[q]>> \in Promise /\ ServerOf(<<q, attempt'[q]>>) \in Server
              \/ pc'[q] = "done" /\ attempt'[q] \in {attempt[q], attempt[q] + 1} /\ result'[q] \in Failures
  <1> DEFINE n == attempt[q] + 1
  <1>1. /\ attempt[q] \in 0..MaxAttempt /\ MaxAttempt \in Nat
        /\ LastAttempt(q) \in Nat /\ LastAttempt(q) <= MaxAttempt
    BY Zenon, Attempts DEF Shape
  <1>2. ~ (n > LastAttempt(q)) => n \in 0..MaxAttempt /\ n \in 1..MaxAttempt
    BY <1>1
  <1>3. ~ (n > LastAttempt(q)) => <<q, n>> \in Promise
    BY Zenon, <1>2 DEF Promise
  <1>4. CASE n > LastAttempt(q)
    <2>1. /\ attempt' = [attempt EXCEPT ![q] = attempt[q]] /\ pc' = [pc EXCEPT ![q] = "done"]
          /\ result' = [result EXCEPT ![q] = e] /\ waiting' = [waiting EXCEPT ![q] = Nil]
      BY Zenon, <1>4 DEF Turn
    <2> QED BY ONLY ZenonT(40), <2>1, <1>1, CallUpdate, Shape, q \in Query, e \in Failures
  <1>5. CASE ~ (n > LastAttempt(q)) /\ ServerOf(<<q, n>>) \notin Server
    <2>1. /\ attempt' = [attempt EXCEPT ![q] = n] /\ pc' = [pc EXCEPT ![q] = "done"]
          /\ result' = [result EXCEPT ![q] = Throw("unsupported")] /\ waiting' = [waiting EXCEPT ![q] = Nil]
      BY Zenon, <1>5 DEF Turn
    <2> QED BY ONLY ZenonT(40), <2>1, <1>1, <1>2, <1>5, CallUpdate, Shape, q \in Query, ValueFacts
  <1>6. CASE ~ (n > LastAttempt(q)) /\ ServerOf(<<q, n>>) \in Server
    <2>1. /\ attempt' = [attempt EXCEPT ![q] = n] /\ pc' = [pc EXCEPT ![q] = "lookup"]
          /\ result' = [result EXCEPT ![q] = result[q]] /\ waiting' = [waiting EXCEPT ![q] = Nil]
      BY Zenon, <1>6 DEF Turn
    <2> QED BY ONLY Zenon, <2>1, <1>2, <1>3, <1>6, CallUpdate, Shape, q \in Query
  <1> QED BY Zenon, <1>4, <1>5, <1>6

\* Steps that fulfil promises, drop entries or close channels and leave the
\* calls alone.
LEMMA EnvironmentStep ==
    ASSUME IInv, NEW ps, NEW v, v # Nil, Fulfil(ps, v), UNCHANGED calls,
           TransactionsIdentify => v \in Errors \/ \A p \in Promise \cap ps : Matches(v, p[1]),
           continuation' \in [Server -> Promise \cup {Nil}],
           queries' \in [Server -> [Txid -> Promise \cup {Nil}]],
           \A s \in Server, t \in Txid : queries'[s][t] \in {Nil, queries[s][t]},
           finished' \subseteq Promise,
           channel' \in [Promise -> {"none", "connecting", "open", "closed", "failed"}],
           \A c \in Promise : channel'[c] = channel[c] \/ (channel[c] = "open" /\ channel'[c] = "closed"),
           EntriesLead', EntryIsServed'
    PROVE  IInv'
  <1> USE DEF calls
  <1>0. /\ promise' = [p \in Promise |-> promise'[p]]
        /\ \A p \in Promise : promise'[p] # Nil <=> promise[p] # Nil
        /\ \A p \in Promise : promise'[p] = promise[p] \/ (p \in ps /\ promise'[p] = v)
    BY FulfilFacts DEF IInv
  <1>1. Shape'
    BY Zenon, <1>0 DEF IInv, Shape
  <1>2. CallsAreOnTheWay'
    BY Zenon DEF IInv, CallsAreOnTheWay, Own, TargetOf
  <1>3. NamesAreFresh'
    BY <1>0 DEF IInv, NamesAreFresh
  <1>4. TableByTransaction'
    BY <1>0 DEF IInv, Shape, TableByTransaction
  <1>5. WaitsByTransaction'
    BY Zenon, <1>0 DEF IInv, WaitsByTransaction, Own
  <1>6. ValuesMatch'
    <2> SUFFICES ASSUME TransactionsIdentify PROVE ValuesMatch'
      BY Zenon DEF ValuesMatch, TransactionsIdentify
    <2>1. \A p \in Promise : promise'[p] \in Errors \cup {Nil, Pending} \/ Matches(promise'[p], p[1])
      BY <1>0 DEF IInv, ValuesMatch
    <2>2. \A q \in Query : pc'[q] = "done" => result'[q] \in Failures \/ Matches(result'[q], q)
      BY Zenon DEF IInv, ValuesMatch
    <2> QED BY Zenon, <2>1, <2>2 DEF ValuesMatch, Matches
  <1> QED BY Zenon, <1>1, <1>2, <1>3, <1>4, <1>5, <1>6 DEF IInv

\* The timer fails the promise the call waits for.
LEMMA TimeoutStep ==
    ASSUME IInv, NEW q \in Query, Timeout(q)
    PROVE  IInv'
  <1>1. EntriesLead' /\ EntryIsServed'
    BY Zenon DEF IInv, EntriesLead, EntryIsServed, Timeout, table, links
  <1> QED BY Zenon, <1>1, EnvironmentStep, ValueFacts DEF Timeout, table, links, IInv, Shape

\* What the table holds is a promise of the transaction.
LEMMA RegisteredFacts ==
    ASSUME IInv, NEW s \in Server, NEW t \in Txid, NEW p \in Registered(s, t)
    PROVE  p = queries[s][t] /\ p \in Promise /\ promise[p] # Nil /\ TransactionID(p[1]) = t
  BY DEF Registered, IInv, Shape, TableByTransaction

\* A failed write fails what the table holds.
LEMMA WriteFailsStep ==
    ASSUME IInv, NEW c \in Promise, NEW q \in Query, WriteFails(c, q)
    PROVE  IInv'
  <1>1. EntriesLead' /\ EntryIsServed'
    BY Zenon DEF IInv, EntriesLead, EntryIsServed, WriteFails, table
  <1> QED BY Zenon, <1>1, EnvironmentStep, ValueFacts DEF WriteFails, table, IInv, Shape

\* An answer fulfils a promise made for the same question.
LEMMA ReceiveStep ==
    ASSUME IInv, NEW c \in Promise, NEW q \in Query, Receive(c, q)
    PROVE  IInv'
  <1> DEFINE t == TransactionID(q)
  <1>1. EntriesLead' /\ EntryIsServed'
    BY Zenon DEF IInv, EntriesLead, EntryIsServed, Receive, table, links
  <1>2. ServerOf(c) \in Server /\ t \in Txid
    BY Zenon DEF IInv, EntriesLead, Receive, Txid
  <1>3. ASSUME TransactionsIdentify, NEW p \in Promise \cap Registered(ServerOf(c), t)
        PROVE  Matches(Answer(q), p[1])
    <2>1. TransactionID(p[1]) = t /\ p[1] \in Query
      BY <1>2, RegisteredFacts DEF Promise
    <2>2. Message[p[1]].questions = Message[q].questions
      BY Zenon, <1>3, <2>1 DEF TransactionsIdentify
    <2> QED BY Zenon, <2>1, <2>2, ValueFacts DEF Matches
  <1> QED BY Zenon, <1>1, <1>3, EnvironmentStep, ValueFacts DEF Receive, table, links, IInv, Shape

\* A closing channel takes the entry of its server with it.
LEMMA CloseStep ==
    ASSUME IInv, NEW c \in Promise, Close(c)
    PROVE  IInv'
  <1> DEFINE s == ServerOf(c)
  <1>1. s \in Server /\ channel[c] = "open"
    BY Zenon DEF IInv, EntriesLead, Close
  <1>2. /\ continuation' \in [Server -> Promise \cup {Nil}]
        /\ queries' \in [Server -> [Txid -> Promise \cup {Nil}]]
        /\ \A r \in Server, t \in Txid : queries'[r][t] \in {Nil, queries[r][t]}
        /\ finished' \subseteq Promise
    BY <1>1 DEF IInv, Shape, Close, Empty
  <1>3. channel' \in [Promise -> {"none", "connecting", "open", "closed", "failed"}]
    BY Zenon DEF IInv, Shape, Close
  <1>4. \A d \in Promise : /\ channel'[d] = channel[d] \/ (channel[d] = "open" /\ channel'[d] = "closed")
                           /\ d # c => channel'[d] = channel[d]
    BY Zenon, <1>1 DEF IInv, Shape, Close
  <1>5. \A r \in Server : continuation'[r] # Nil => r # s /\ continuation'[r] = continuation[r]
    BY Zenon, <1>1 DEF IInv, Shape, Close
  <1>6. finished' = finished \cup ({continuation[s]} \ {Nil})
    BY Zenon DEF Close
  <1>7. EntriesLead'
    <2>1. \A d \in finished : d \in Promise /\ channel[d] # "none"
      BY Zenon DEF IInv, Shape, EntriesLead
    <2>2. continuation[s] # Nil => continuation[s] \in Promise /\ channel[continuation[s]] # "none"
      BY Zenon, <1>1 DEF IInv, Shape, EntryIsServed
    <2>3. \A d \in finished' : channel'[d] # "none"
      BY Zenon, <2>1, <2>2, <1>4, <1>6
    <2> QED BY Zenon, <2>3, <1>4, <1>5 DEF IInv, EntriesLead
  <1>8. EntryIsServed'
    BY <1>1, <1>2, <1>4, <1>5, <1>6 DEF IInv, Shape, EntriesLead, EntryIsServed
  <1> QED BY Zenon, <1>2, <1>3, <1>4, <1>7, <1>8, EnvironmentStep, ValueFacts DEF Close

\* Cancelling run() empties the table.
LEMMA CancelStep ==
    ASSUME IInv, Cancel
    PROVE  IInv'
  <1>1. /\ continuation' \in [Server -> Promise \cup {Nil}]
        /\ queries' \in [Server -> [Txid -> Promise \cup {Nil}]]
        /\ \A r \in Server, t \in Txid : queries'[r][t] \in {Nil, queries[r][t]}
        /\ finished' \subseteq Promise
    BY DEF IInv, Shape, Cancel, Empty
  <1>2. \A r \in Server : continuation'[r] = Nil
    BY Zenon DEF Cancel
  <1>3. \A c \in finished' : channel[c] # "none"
    <2>1. finished' = finished \cup ({continuation[r] : r \in Server} \ {Nil})
      BY Zenon DEF Cancel
    <2>2. \A r \in Server : continuation[r] # Nil => channel[continuation[r]] # "none"
      BY Zenon DEF IInv, EntryIsServed
    <2> QED BY Zenon, <2>1, <2>2 DEF IInv, EntriesLead
  <1>4. EntriesLead' /\ EntryIsServed'
    BY Zenon, <1>2, <1>3 DEF IInv, EntriesLead, EntryIsServed, Cancel
  <1> QED BY <1>1, <1>4, EnvironmentStep, ValueFacts DEF Cancel, IInv, Shape

\* A turn of the loop, with what the catch clause does before it.
LEMMA TurnStep ==
    ASSUME IInv, NEW q \in Query, NEW e \in Failures, Turn(q, e),
           NEW ps, NEW v \in Errors, Fulfil(ps, v),
           queries' \in [Server -> [Txid -> Promise \cup {Nil}]],
           \A s \in Server, t \in Txid : queries'[s][t] \in {Nil, queries[s][t]},
           UNCHANGED <<continuation, finished>>,
           channel' \in [Promise -> {"none", "connecting", "open", "closed", "failed"}],
           \A c \in Promise : channel'[c] = channel[c]
                                \/ (c = Own(q) /\ channel[c] = "connecting" /\ channel'[c] = "failed")
    PROVE  IInv'
  <1>0. /\ promise' = [p \in Promise |-> promise'[p]]
        /\ \A p \in Promise : promise'[p] # Nil <=> promise[p] # Nil
        /\ \A p \in Promise : promise'[p] = promise[p] \/ promise'[p] = v
    BY FulfilFacts, ValueFacts DEF IInv
  <1>t. /\ attempt' \in [Query -> 0..MaxAttempt]
        /\ pc' \in [Query -> {"idle", "lookup", "insert", "create", "connect", "send", "await", "done"}]
        /\ result' = [r \in Query |-> result'[r]]
        /\ waiting' = [r \in Query |-> waiting'[r]]
        /\ \A r \in Query \ {q} : /\ pc'[r] = pc[r] /\ attempt'[r] = attempt[r]
                                  /\ waiting'[r] = waiting[r] /\ result'[r] = result[r]
        /\ \/ /\ pc'[q] = "lookup" /\ attempt'[q] = attempt[q] + 1
              /\ <<q, attempt'[q]>> \in Promise /\ ServerOf(<<q, attempt'[q]>>) \in Server
           \/ pc'[q] = "done" /\ attempt'[q] \in {attempt[q], attempt[q] + 1} /\ result'[q] \in Failures
    BY Zenon, TurnFacts DEF IInv
  <1>1. Shape'
    BY Zenon, <1>0, <1>t DEF IInv, Shape
  <1>2. CallsAreOnTheWay'
    <2>1. ASSUME NEW r \in Query \ {q}, pc'[r] \notin {"idle", "done"}
          PROVE  /\ <<r, attempt'[r]>> \in Promise /\ ServerOf(<<r, attempt'[r]>>) \in Server
                 /\ pc'[r] = "connect" => channel'[<<r, attempt'[r]>>] = "connecting"
      BY <1>t, <2>1 DEF IInv, CallsAreOnTheWay, Own, TargetOf
    <2> QED BY Zenon, <2>1, <1>t DEF CallsAreOnTheWay, Own, TargetOf
  <1>3. NamesAreFresh'
    <2> SUFFICES ASSUME NEW p \in Promise,
                        p[2] > attempt'[p[1]] \/ (p[2] = attempt'[p[1]] /\ pc'[p[1]] \in {"lookup", "create"})
                 PROVE  promise'[p] = Nil /\ channel'[p] = "none"
      BY Zenon DEF NamesAreFresh
    <2>1. p[1] \in Query /\ p[2] \in Nat /\ attempt[p[1]] \in Nat /\ attempt'[p[1]] \in Nat
      BY <1>t, Attempts DEF Promise, IInv, Shape
    <2>2. p[2] > attempt[p[1]] \/ (p[2] = attempt[p[1]] /\ pc[p[1]] \in {"lookup", "create"})
      BY <2>1, <1>t
    <2>3. promise[p] = Nil /\ channel[p] = "none"
      BY Zenon, <2>2 DEF IInv, NamesAreFresh
    <2> QED BY Zenon, <2>3, <1>0
  <1>4. TableByTransaction'
    BY <1>0 DEF IInv, Shape, TableByTransaction
  <1>5. WaitsByTransaction'
    BY <1>0, <1>t DEF IInv, WaitsByTransaction, Own
  <1>6. ValuesMatch'
    <2> SUFFICES ASSUME TransactionsIdentify PROVE ValuesMatch'
      BY Zenon DEF ValuesMatch, TransactionsIdentify
    <2>1. \A p \in Promise : promise'[p] \in Errors \cup {Nil, Pending} \/ Matches(promise'[p], p[1])
      BY Zenon, <1>0 DEF IInv, ValuesMatch
    <2>2. \A r \in Query : pc'[r] = "done" => result'[r] \in Failures \/ Matches(result'[r], r)
      BY Zenon, <1>t DEF IInv, ValuesMatch
    <2> QED BY Zenon, <2>1, <2>2 DEF ValuesMatch, Matches
  <1>7. EntriesLead'
    BY Zenon DEF IInv, Shape, EntriesLead
  <1>8. EntryIsServed'
    BY DEF IInv, Shape, EntryIsServed
  <1> QED BY Zenon, <1>1, <1>2, <1>3, <1>4, <1>5, <1>6, <1>7, <1>8 DEF IInv

\* A call ends with a reply to its message.
LEMMA EndStep ==
    ASSUME IInv, NEW q \in Query, NEW v, TransactionsIdentify => Matches(v, q),
           UNCHANGED <<table, promise, links, attempt>>,
           pc' = [pc EXCEPT ![q] = "done"], result' = [result EXCEPT ![q] = v],
           NEW w, waiting' = [waiting EXCEPT ![q] = w], pc[q] \notin {"lookup", "create"}
    PROVE  IInv'
  <1> USE DEF table, links
  <1>t. /\ attempt' \in [Query -> 0..MaxAttempt]
        /\ pc' \in [Query -> {"idle", "lookup", "insert", "create", "connect", "send", "await", "done"}]
        /\ result' = [r \in Query |-> result'[r]]
        /\ waiting' = [r \in Query |-> waiting'[r]]
        /\ \A r \in Query \ {q} : pc'[r] = pc[r] /\ waiting'[r] = waiting[r] /\ result'[r] = result[r]
        /\ pc'[q] = "done" /\ result'[q] = v
    <2>1. /\ pc' \in [Query -> {"idle", "lookup", "insert", "create", "connect", "send", "await", "done"}]
          /\ pc'[q] = "done" /\ \A r \in Query \ {q} : pc'[r] = pc[r]
      BY Zenon DEF IInv, Shape
    <2>2. /\ result' = [r \in Query |-> result'[r]] /\ waiting' = [r \in Query |-> waiting'[r]]
          /\ result'[q] = v /\ \A r \in Query \ {q} : waiting'[r] = waiting[r] /\ result'[r] = result[r]
      BY Zenon DEF IInv, Shape
    <2> QED BY Zenon, <2>1, <2>2 DEF IInv, Shape
  <1>1. Shape'
    BY Zenon, <1>t DEF IInv, Shape
  <1>2. CallsAreOnTheWay'
    BY <1>t DEF IInv, CallsAreOnTheWay, Own, TargetOf
  <1>3. NamesAreFresh'
    BY Zenon, <1>t DEF IInv, NamesAreFresh, Promise
  <1>4. TableByTransaction' /\ EntriesLead' /\ EntryIsServed'
    BY Zenon DEF IInv, TableByTransaction, EntriesLead, EntryIsServed
  <1>5. WaitsByTransaction'
    BY <1>t DEF IInv, WaitsByTransaction, Own
  <1>6. ValuesMatch'
    <2> SUFFICES ASSUME TransactionsIdentify PROVE ValuesMatch'
      BY Zenon DEF ValuesMatch, TransactionsIdentify
    <2>1. \A r \in Query : pc'[r] = "done" => result'[r] \in Failures \/ Matches(result'[r], r)
      BY Zenon, <1>t DEF IInv, ValuesMatch
    <2> QED BY Zenon, <2>1 DEF IInv, ValuesMatch, Matches
  <1> QED BY Zenon, <1>1, <1>2, <1>3, <1>4, <1>5, <1>6 DEF IInv

\* A call is answered in place, or enters the loop.
LEMMA CallStep ==
    ASSUME IInv, NEW q \in Query, Call(q)
    PROVE  IInv'
  <1>1. CASE LocalReplies(q) = {}
    <2>1. Turn(q, Throw("operationRefused")) /\ UNCHANGED <<table, promise, links>>
      BY Zenon, <1>1 DEF Call
    <2>2. Fulfil({}, Throw("timeout"))
      BY Zenon, <2>1 DEF Fulfil, IInv, Shape
    <2> QED BY Zenon, <2>1, <2>2, TurnStep, ValueFacts DEF table, links, IInv, Shape
  <1>2. CASE LocalReplies(q) # {}
    <2>1. PICK r \in LocalReplies(q) : result' = [result EXCEPT ![q] = r]
      BY Zenon, <1>2 DEF Call
    <2>2. Matches(r, q)
      BY DEF LocalReplies, MappedReplies, Reply, Matches
    <2>3. /\ pc' = [pc EXCEPT ![q] = "done"] /\ pc[q] = "idle"
          /\ UNCHANGED <<table, promise, links, attempt, waiting>>
      BY Zenon, <1>2 DEF Call
    <2>4. waiting' = [waiting EXCEPT ![q] = waiting[q]]
      BY Zenon, <2>3 DEF IInv, Shape
    <2> QED BY Zenon, <2>1, <2>2, <2>3, <2>4, EndStep
  <1> QED BY Zenon, <1>1, <1>2

\* An answered promise ends the calls that wait for it, all of one question.
LEMMA SucceedStep ==
    ASSUME IInv, NEW q \in Query, Succeed(q)
    PROVE  IInv'
  <1> DEFINE p == waiting[q].promise
  <1>1. p \in Promise /\ promise[p] # Nil /\ TransactionID(p[1]) = TransactionID(q) /\ p[1] \in Query
    BY Zenon DEF IInv, WaitsByTransaction, Succeed, Promise
  <1>2. TransactionsIdentify => Matches(promise[p], p[1])
    BY Zenon, <1>1 DEF IInv, ValuesMatch, Succeed
  <1>3. TransactionsIdentify => Message[p[1]].questions = Message[q].questions
    BY Zenon, <1>1 DEF TransactionsIdentify
  <1>4. TransactionsIdentify => Matches(promise[p], q)
    BY Zenon, <1>1, <1>2, <1>3 DEF Matches
  <1> QED BY Zenon, <1>4, EndStep DEF Succeed

\* The catch clause removes the promise of the transaction.
LEMMA CatchFacts ==
    ASSUME IInv, NEW q \in Query, pc[q] \notin {"idle", "done"}, NEW e \in Errors, Catch(q, e)
    PROVE  /\ queries' \in [Server -> [Txid -> Promise \cup {Nil}]]
           /\ \A s \in Server, t \in Txid : queries'[s][t] \in {Nil, queries[s][t]}
           /\ UNCHANGED continuation /\ Turn(q, e) /\ e \in Failures
           /\ Fulfil(Registered(TargetOf(q), TransactionID(q)), e)
  <1>1. TargetOf(q) \in Server /\ TransactionID(q) \in Txid
    BY Zenon DEF IInv, CallsAreOnTheWay, Txid
  <1>2. queries' = [queries EXCEPT ![TargetOf(q)] = [queries[TargetOf(q)] EXCEPT ![TransactionID(q)] = Nil]]
    BY Zenon DEF Catch
  <1> QED BY <1>1, <1>2, ValueFacts DEF Catch, IInv, Shape

\* A call that tries again keeps the invariant (the catch clause of query(msg:)).
LEMMA RetryStep ==
    ASSUME IInv, NEW q \in Query, Retry(q)
    PROVE  IInv'
  BY Zenon, CatchFacts, TurnStep DEF Retry, links, IInv, Shape

\* A connect that fails keeps the invariant: the catch clause drops the entry it made.
LEMMA ConnectFailsStep ==
    ASSUME IInv, NEW q \in Query, ConnectFails(q)
    PROVE  IInv'
  <1>1. Own(q) \in Promise /\ channel[Own(q)] = "connecting"
    BY Zenon DEF IInv, CallsAreOnTheWay, ConnectFails
  <1>2. /\ channel' \in [Promise -> {"none", "connecting", "open", "closed", "failed"}]
        /\ \A c \in Promise : channel'[c] = channel[c]
                                \/ (c = Own(q) /\ channel[c] = "connecting" /\ channel'[c] = "failed")
    BY Zenon, <1>1 DEF IInv, Shape, ConnectFails
  <1> QED BY Zenon, <1>2, CatchFacts, TurnStep, ValueFacts DEF ConnectFails

\* A call moves on inside startDNSq or to its await; promises and channels
\* may be made under its own name, and only pending ones are added.
LEMMA MoveStep ==
    ASSUME IInv, NEW q \in Query, UNCHANGED <<attempt, result, finished>>,
           pc[q] \notin {"idle", "done"},
           NEW k \in {"insert", "create", "connect", "send", "await"}, pc' = [pc EXCEPT ![q] = k],
           pc[q] \in {"lookup", "create"} \/ k # "create",
           waiting' = [r \in Query |-> waiting'[r]],
           \A r \in Query \ {q} : waiting'[r] = waiting[r],
           promise' = [p \in Promise |-> promise'[p]],
           \A p \in Promise : promise'[p] = promise[p] \/ (p = Own(q) /\ promise'[p] = Pending /\ k # "create"),
           channel' \in [Promise -> {"none", "connecting", "open", "closed", "failed"}],
           \A c \in Promise : channel'[c] = channel[c] \/ (c = Own(q) /\ channel'[c] # "none" /\ k # "create"),
           k = "connect" => channel'[Own(q)] = "connecting",
           k # "create" => /\ waiting'[q].promise \in Promise
                           /\ promise'[waiting'[q].promise] # Nil
                           /\ TransactionID(waiting'[q].promise[1]) = TransactionID(q),
           k = "insert" => waiting'[q].promise = Own(q),
           continuation' \in [Server -> Promise \cup {Nil}],
           queries' \in [Server -> [Txid -> Promise \cup {Nil}]],
           TableByTransaction', EntryIsServed',
           \A s \in Server : continuation'[s] # Nil => ServerOf(continuation'[s]) = s
    PROVE  IInv'
  <1>o. Own(q) \in Promise /\ TargetOf(q) \in Server
    BY Zenon DEF IInv, CallsAreOnTheWay
  <1>n. \A p \in Promise : promise[p] # Nil => promise'[p] # Nil
    BY Zenon, ProxyAssumption
  <1>p. /\ pc' \in [Query -> {"idle", "lookup", "insert", "create", "connect", "send", "await", "done"}]
        /\ pc'[q] = k /\ \A r \in Query \ {q} : pc'[r] = pc[r]
    BY DEF IInv, Shape
  <1>1. Shape'
    BY <1>p DEF IInv, Shape
  <1>2. CallsAreOnTheWay'
    <2>1. ASSUME NEW r \in Query \ {q}, pc'[r] \notin {"idle", "done"}
          PROVE  /\ <<r, attempt[r]>> \in Promise /\ ServerOf(<<r, attempt[r]>>) \in Server
                 /\ pc'[r] = "connect" => channel'[<<r, attempt[r]>>] = "connecting"
      BY <1>p, <2>1 DEF IInv, CallsAreOnTheWay, Own, TargetOf
    <2> QED BY Zenon, <2>1, <1>p, <1>o DEF CallsAreOnTheWay, Own, TargetOf
  <1>3. NamesAreFresh'
    <2> SUFFICES ASSUME NEW p \in Promise,
                        p[2] > attempt[p[1]] \/ (p[2] = attempt[p[1]] /\ pc'[p[1]] \in {"lookup", "create"})
                 PROVE  promise'[p] = Nil /\ channel'[p] = "none"
      BY Zenon DEF NamesAreFresh
    <2>1. p[1] \in Query /\ p[2] \in Nat /\ attempt[p[1]] \in Nat /\ p = <<p[1], p[2]>>
      BY Attempts DEF Promise, IInv, Shape
    <2>2. p = Own(q) => k = "create"
      BY <2>1, <1>p DEF Own
    <2>3. p[2] > attempt[p[1]] \/ (p[2] = attempt[p[1]] /\ pc[p[1]] \in {"lookup", "create"})
      BY Zenon, <2>1, <1>p
    <2>4. promise[p] = Nil /\ channel[p] = "none"
      BY Zenon, <2>3 DEF IInv, NamesAreFresh
    <2> QED BY Zenon, <2>2, <2>4
  <1>5. WaitsByTransaction'
    BY <1>p, <1>n DEF IInv, WaitsByTransaction, Own
  <1>6. ValuesMatch'
    <2> SUFFICES ASSUME TransactionsIdentify PROVE ValuesMatch'
      BY Zenon DEF ValuesMatch, TransactionsIdentify
    <2>1. \A p \in Promise : promise'[p] \in Errors \cup {Nil, Pending} \/ Matches(promise'[p], p[1])
      BY Zenon DEF IInv, ValuesMatch
    <2>2. \A r \in Query : pc'[r] = "done" => result'[r] \in Failures \/ Matches(result'[r], r)
      BY Zenon, <1>p DEF IInv, ValuesMatch
    <2> QED BY Zenon, <2>1, <2>2 DEF ValuesMatch, Matches
  <1>7. EntriesLead'
    BY Zenon, <1>o DEF IInv, Shape, EntriesLead, TargetOf
  <1> QED BY Zenon, <1>1, <1>2, <1>3, <1>5, <1>6, <1>7 DEF IInv

\* Only the call itself moves: connected, or its message yielded.
LEMMA ConnectedStep ==
    ASSUME IInv, NEW q \in Query, Connected(q)
    PROVE  IInv'
  <1>1. Own(q) \in Promise
    BY Zenon DEF IInv, CallsAreOnTheWay, Connected
  <1>2. /\ channel' \in [Promise -> {"none", "connecting", "open", "closed", "failed"}]
        /\ \A c \in Promise : channel'[c] = channel[c] \/ (c = Own(q) /\ channel'[c] = "open")
    BY Zenon, <1>1 DEF IInv, Shape, Connected
  <1>3. TableByTransaction' /\ EntryIsServed'
    BY <1>2 DEF IInv, Shape, TableByTransaction, EntryIsServed, Connected, table
  <1>4. /\ waiting[q].promise \in Promise /\ promise[waiting[q].promise] # Nil
        /\ TransactionID(waiting[q].promise[1]) = TransactionID(q)
    BY Zenon DEF IInv, WaitsByTransaction, Connected
  <1>5. /\ pc[q] \notin {"idle", "done"} /\ pc' = [pc EXCEPT ![q] = "send"]
        /\ UNCHANGED <<continuation, queries, promise, finished, attempt, waiting, result>>
    BY Zenon DEF Connected, table
  <1>6. \A s \in Server : continuation[s] # Nil => ServerOf(continuation[s]) = s
    BY Zenon DEF IInv, EntriesLead
  <1> QED BY Zenon, <1>2, <1>3, <1>4, <1>5, <1>6, MoveStep DEF IInv, Shape

\* Yielding a message to the stream of a server keeps the invariant.
LEMMA SendStep ==
    ASSUME IInv, NEW q \in Query, Send(q)
    PROVE  IInv'
  <1>1. TableByTransaction' /\ EntryIsServed'
    BY Zenon DEF IInv, TableByTransaction, EntryIsServed, Send, table
  <1>2. /\ waiting[q].promise \in Promise /\ promise[waiting[q].promise] # Nil
        /\ TransactionID(waiting[q].promise[1]) = TransactionID(q)
    BY Zenon DEF IInv, WaitsByTransaction, Send
  <1>3. /\ pc[q] \notin {"idle", "done"} /\ pc' = [pc EXCEPT ![q] = "await"]
        /\ UNCHANGED <<continuation, queries, promise, finished, channel, attempt, waiting, result>>
    BY Zenon DEF Send, table
  <1>4. \A s \in Server : continuation[s] # Nil => ServerOf(continuation[s]) = s
    BY Zenon DEF IInv, EntriesLead
  <1> QED BY Zenon, <1>1, <1>2, <1>3, <1>4, MoveStep DEF IInv, Shape

\* A promise goes into the entry of the moment, under its transaction ID.
LEMMA InsertStep ==
    ASSUME IInv, NEW q \in Query, Insert(q)
    PROVE  IInv'
  <1>1. Own(q) \in Promise /\ TargetOf(q) \in Server /\ TransactionID(q) \in Txid
    BY Zenon DEF IInv, CallsAreOnTheWay, Insert, Txid
  <1>2. /\ waiting[q].promise \in Promise /\ promise[waiting[q].promise] # Nil
        /\ TransactionID(waiting[q].promise[1]) = TransactionID(q)
    BY Zenon DEF IInv, WaitsByTransaction, Insert
  <1>3. promise[Own(q)] # Nil
    BY Zenon DEF IInv, WaitsByTransaction, Insert
  <1>4. /\ queries' \in [Server -> [Txid -> Promise \cup {Nil}]]
        /\ \A s \in Server, t \in Txid :
              queries'[s][t] = queries[s][t] \/ (t = TransactionID(q) /\ queries'[s][t] = Own(q))
    BY Zenon, <1>1 DEF IInv, Shape, Insert
  <1>5. TableByTransaction'
    BY <1>3, <1>4 DEF IInv, TableByTransaction, Insert, Own
  <1>6. EntryIsServed'
    BY Zenon DEF IInv, EntryIsServed, Insert, links
  <1> QED BY ZenonT(40), <1>2, <1>4, <1>5, <1>6, MoveStep DEF Insert, links, IInv, Shape, EntriesLead

\* A new entry: its names are fresh, so its stream is not finished.
LEMMA CreateStep ==
    ASSUME IInv, NEW q \in Query, Create(q)
    PROVE  IInv'
  <1> DEFINE p == Own(q)
  <1>1. p \in Promise /\ TargetOf(q) \in Server /\ TransactionID(q) \in Txid /\ ServerOf(p) = TargetOf(q)
    BY Zenon DEF IInv, CallsAreOnTheWay, Create, Txid, TargetOf
  <1>2. promise[p] = Nil /\ channel[p] = "none"
    BY Zenon, <1>1 DEF IInv, NamesAreFresh, Create, Own
  <1>3. p \notin finished
    BY Zenon, <1>2 DEF IInv, EntriesLead
  <1>4. /\ promise' = [r \in Promise |-> promise'[r]] /\ promise'[p] = Pending
        /\ \A r \in Promise : r # p => promise'[r] = promise[r]
    BY Zenon, <1>1 DEF IInv, Shape, Create
  <1>5. /\ channel' \in [Promise -> {"none", "connecting", "open", "closed", "failed"}]
        /\ channel'[p] = "connecting" /\ \A r \in Promise : r # p => channel'[r] = channel[r]
    BY Zenon, <1>1 DEF IInv, Shape, Create
  <1>6. /\ continuation' \in [Server -> Promise \cup {Nil}]
        /\ continuation'[TargetOf(q)] = p
        /\ \A s \in Server : s # TargetOf(q) => continuation'[s] = continuation[s]
    BY Zenon, <1>1 DEF IInv, Shape, Create
  <1>7. /\ queries' \in [Server -> [Txid -> Promise \cup {Nil}]]
        /\ \A s \in Server, t \in Txid :
              queries'[s][t] \in {Nil, queries[s][t]} \/ (t = TransactionID(q) /\ queries'[s][t] = p)
    BY Zenon, <1>1 DEF IInv, Shape, Create, Empty
  <1>8. TableByTransaction'
    <2> SUFFICES ASSUME NEW s \in Server, NEW t \in Txid, queries'[s][t] # Nil
                 PROVE  promise'[queries'[s][t]] # Nil /\ TransactionID(queries'[s][t][1]) = t
      BY Zenon DEF TableByTransaction
    <2>1. CASE queries'[s][t] = queries[s][t]
      <3>1. queries[s][t] \in Promise /\ promise[queries[s][t]] # Nil /\ TransactionID(queries[s][t][1]) = t
        BY <2>1 DEF IInv, Shape, TableByTransaction
      <3> QED BY Zenon, <2>1, <3>1, <1>4, ProxyAssumption
    <2>2. CASE t = TransactionID(q) /\ queries'[s][t] = p
      BY <2>2, <1>4, ProxyAssumption DEF Own
    <2> QED BY Zenon, <2>1, <2>2, <1>7
  <1>9. EntryIsServed'
    <2> SUFFICES ASSUME NEW s \in Server, continuation'[s] # Nil
                 PROVE  /\ continuation'[s] \notin finished
                        /\ channel'[continuation'[s]] \in {"connecting", "open", "failed"}
      BY Zenon DEF EntryIsServed, Create
    <2>1. CASE s = TargetOf(q)
      BY Zenon, <2>1, <1>3, <1>5, <1>6
    <2>2. CASE s # TargetOf(q)
      <3>1. continuation'[s] = continuation[s] /\ continuation[s] \in Promise
        BY <2>2, <1>6 DEF IInv, Shape
      <3> QED BY Zenon, <3>1, <1>2, <1>5 DEF IInv, EntryIsServed
    <2> QED BY Zenon, <2>1, <2>2
  <1>10. /\ waiting' = [r \in Query |-> waiting'[r]] /\ waiting'[q].promise = p
         /\ \A r \in Query \ {q} : waiting'[r] = waiting[r]
    BY Zenon DEF IInv, Shape, Create
  <1>11. \A s \in Server : continuation'[s] # Nil => ServerOf(continuation'[s]) = s
    BY Zenon, <1>1, <1>6 DEF IInv, EntriesLead
  <1>12. TransactionID(p[1]) = TransactionID(q)
    BY Zenon DEF Own
  <1> QED BY ZenonT(40), <1>1, <1>4, <1>5, <1>6, <1>7, <1>8, <1>9, <1>10, <1>11, <1>12, MoveStep, ProxyAssumption DEF Create

\* The entry that is read gives the stream, and the promise or a new one.
LEMMA LookupStep ==
    ASSUME IInv, NEW q \in Query, Lookup(q)
    PROVE  IInv'
  <1> DEFINE s == TargetOf(q)
             t == TransactionID(q)
  <1>0. /\ pc[q] = "lookup" /\ UNCHANGED <<continuation, queries, finished, channel, attempt, result>>
        /\ Own(q) \in Promise /\ s \in Server /\ t \in Txid
    BY Zenon DEF IInv, CallsAreOnTheWay, Lookup, table, links, Txid
  <1>1. EntryIsServed' /\ \A r \in Server : continuation[r] # Nil => ServerOf(continuation[r]) = r
    BY Zenon, <1>0 DEF IInv, EntriesLead, EntryIsServed
  <1>2. CASE continuation[s] = Nil
    <2>1. pc' = [pc EXCEPT ![q] = "create"] /\ UNCHANGED <<promise, waiting>>
      BY Zenon, <1>2 DEF Lookup
    <2>2. TableByTransaction'
      BY Zenon, <1>0, <2>1 DEF IInv, TableByTransaction
    <2> QED BY Zenon, <1>0, <1>1, <2>1, <2>2, MoveStep DEF IInv, Shape
  <1>3. CASE continuation[s] # Nil /\ queries[s][t] # Nil
    <2>1. /\ pc' = [pc EXCEPT ![q] = "send"] /\ UNCHANGED promise
          /\ waiting' = [waiting EXCEPT ![q] = [promise |-> queries[s][t], stream |-> continuation[s]]]
      BY Zenon, <1>3 DEF Lookup
    <2>2. TableByTransaction'
      BY Zenon, <1>0, <2>1 DEF IInv, TableByTransaction
    <2>3. /\ queries[s][t] \in Promise /\ promise[queries[s][t]] # Nil
          /\ TransactionID(queries[s][t][1]) = t
      BY <1>0, <1>3 DEF IInv, Shape, TableByTransaction
    <2>4. /\ waiting' = [r \in Query |-> waiting'[r]] /\ waiting'[q].promise = queries[s][t]
          /\ \A r \in Query \ {q} : waiting'[r] = waiting[r]
      BY Zenon, <2>1 DEF IInv, Shape
    <2> QED BY Zenon, <1>0, <1>1, <2>1, <2>2, <2>3, <2>4, MoveStep DEF IInv, Shape
  <1>4. CASE continuation[s] # Nil /\ queries[s][t] = Nil
    <2>1. /\ pc' = [pc EXCEPT ![q] = "insert"] /\ promise' = [promise EXCEPT ![Own(q)] = Pending]
          /\ waiting' = [waiting EXCEPT ![q] = [promise |-> Own(q), stream |-> continuation[s]]]
      BY Zenon, <1>4 DEF Lookup
    <2>2. /\ promise' = [p \in Promise |-> promise'[p]] /\ promise'[Own(q)] = Pending
          /\ \A p \in Promise : p # Own(q) => promise'[p] = promise[p]
      BY Zenon, <1>0, <2>1 DEF IInv, Shape
    <2>3. \A r \in Server, u \in Txid : queries[r][u] # Nil =>
             queries[r][u] \in Promise /\ promise'[queries[r][u]] # Nil /\ TransactionID(queries[r][u][1]) = u
      BY <2>2, ProxyAssumption DEF IInv, Shape, TableByTransaction
    <2>4. TableByTransaction'
      BY Zenon, <1>0, <2>3 DEF TableByTransaction
    <2>5. /\ waiting' = [r \in Query |-> waiting'[r]] /\ waiting'[q].promise = Own(q)
          /\ \A r \in Query \ {q} : waiting'[r] = waiting[r]
      BY Zenon, <2>1 DEF IInv, Shape
    <2>6. TransactionID(Own(q)[1]) = t
      BY Zenon DEF Own
    <2> QED BY Zenon, <1>0, <1>1, <2>1, <2>2, <2>4, <2>5, <2>6, MoveStep, ProxyAssumption DEF IInv, Shape
  <1> QED BY Zenon, <1>2, <1>3, <1>4

\* Steps that touch nothing the invariant speaks of.
LEMMA StutterStep ==
    ASSUME IInv, UNCHANGED <<table, promise, finished, channel, calls>>
    PROVE  IInv'
  <1> USE DEF table, calls
  <1>1. Shape' /\ CallsAreOnTheWay' /\ NamesAreFresh'
    BY Zenon DEF IInv, Shape, CallsAreOnTheWay, NamesAreFresh, Own, TargetOf
  <1>2. TableByTransaction' /\ WaitsByTransaction' /\ ValuesMatch'
    BY Zenon DEF IInv, TableByTransaction, WaitsByTransaction, ValuesMatch, TransactionsIdentify, Matches, Own
  <1>3. EntriesLead' /\ EntryIsServed'
    BY Zenon DEF IInv, EntriesLead, EntryIsServed
  <1> QED BY Zenon, <1>1, <1>2, <1>3 DEF IInv

\* Nothing exists at the start.
LEMMA InitIInv == Init => IInv
  <1> SUFFICES ASSUME Init PROVE IInv
    BY Zenon
  <1> USE DEF Init
  <1>1. Shape
    BY Attempts DEF Shape, Empty
  <1>2. CallsAreOnTheWay /\ NamesAreFresh /\ WaitsByTransaction
    BY Zenon DEF CallsAreOnTheWay, NamesAreFresh, WaitsByTransaction
  <1>3. TableByTransaction
    BY Zenon DEF TableByTransaction, Empty
  <1>4. ValuesMatch /\ EntriesLead /\ EntryIsServed
    BY Zenon DEF ValuesMatch, EntriesLead, EntryIsServed
  <1> QED BY Zenon, <1>1, <1>2, <1>3, <1>4 DEF IInv

\* The invariant is inductive.
LEMMA NextIInv ==
    ASSUME IInv, [Next]_vars
    PROVE  IInv'
  <1>1. ASSUME NEW q \in Query, Step(q) PROVE IInv'
    BY Zenon, <1>1, CallStep, LookupStep, InsertStep, CreateStep, ConnectedStep, ConnectFailsStep, SendStep,
       TimeoutStep, SucceedStep, RetryStep DEF Step
  <1>2. ASSUME NEW c \in Promise, NEW q \in Query, Write(c, q) PROVE IInv'
    BY Zenon, <1>2, StutterStep DEF Write
  <1>3. CASE Idle \/ UNCHANGED vars
    BY Zenon, <1>3, StutterStep DEF Idle, vars, links
  <1> QED BY Zenon, <1>1, <1>2, <1>3, WriteFailsStep, ReceiveStep, CloseStep, CancelStep DEF Next

\* Calls get the answer to their own question, for any number of calls,
\* servers, attempts and faults and any timing of answers, timers, closes
\* and the cancellation, when no transaction ID is used for two questions
\* (startDNSq matches answers by transaction ID alone).
THEOREM AnswersBelong ==
    ASSUME TransactionsIdentify PROVE Spec => []AnswerMatchesQuestion
  <1>1. IInv => AnswerMatchesQuestion
    BY Zenon, TransactionsIdentify DEF IInv, ValuesMatch, AnswerMatchesQuestion, Matches
  <1>2. Init => IInv
    BY Zenon, InitIInv
  <1>3. IInv /\ [Next]_vars => IInv'
    BY Zenon, NextIInv
  <1> QED BY <1>1, <1>2, <1>3, PTL DEF Spec

\* The entry of a server is never one whose stream is finished or whose
\* channel has closed (closeFuture in startDNSq).
THEOREM EntriesServed == Spec => []EntryIsServed
  <1>1. IInv => EntryIsServed
    BY Zenon DEF IInv
  <1>2. Init => IInv
    BY Zenon, InitIInv
  <1>3. IInv /\ [Next]_vars => IInv'
    BY Zenon, NextIInv
  <1> QED BY <1>1, <1>2, <1>3, PTL DEF Spec

-----------------------------------------------------------------------------
(* Promises.  A promise that is pending and was made with a channel is in   *)
(* the table, or another channel was made for its server; so a call that    *)
(* goes on leaves its promise pending only when its connect failed and the  *)
(* catch clause found the entry of another task.                            *)

\* Another channel was made for the server of a promise.
Replaced(p) == \E c \in Promise \ {p} : ServerOf(c) = ServerOf(p) /\ channel[c] # "none"

\* A call makes its first attempt after it was called.
Begins == \A q \in Query : pc[q] = "idle" => attempt[q] = 0

\* A call waits for its own promise, or has made none in this attempt.
OwnOrShared ==
    \A q \in Query : pc[q] \in {"insert", "connect", "send", "await"} =>
        waiting[q].promise = Own(q) \/ promise[Own(q)] = Nil

\* A pending promise that was made with a channel is in the table or was replaced.
HeldOrReplaced ==
    \A p \in Promise : promise[p] = Pending /\ channel[p] # "none" =>
        queries[ServerOf(p)][TransactionID(p[1])] = p \/ Replaced(p)

\* The stream a call has read was made with a channel for its server.
StreamWasMade ==
    \A q \in Query : pc[q] = "insert" =>
        /\ waiting[q].stream \in Promise /\ channel[waiting[q].stream] # "none"
        /\ ServerOf(waiting[q].stream) = TargetOf(q)

\* A call that inserts its promise displaces none that has not been replaced.
InsertDisplaces ==
    \A q \in Query, p \in Promise :
        /\ pc[q] = "insert" /\ promise[p] = Pending /\ channel[p] # "none"
        /\ ServerOf(p) = TargetOf(q) /\ TransactionID(p[1]) = TransactionID(q)
        => Replaced(p)

PInv ==
    /\ Begins /\ OwnOrShared /\ HeldOrReplaced /\ StreamWasMade /\ InsertDisplaces
    /\ NoPromiseLost

\* A channel that was made stays one that was made.
LEMMA StaysReplaced ==
    ASSUME \A c \in Promise : channel[c] # "none" => channel'[c] # "none",
           NEW p, Replaced(p)
    PROVE  Replaced(p)'
  BY Zenon DEF Replaced, ServerOf, Promise, Upstream

\* Promises that are fulfilled are not pending.
LEMMA FulfilledFacts ==
    ASSUME Shape, NEW ps, NEW v, v # Nil, v # Pending, Fulfil(ps, v)
    PROVE  /\ \A p \in Promise : promise'[p] = Pending => promise[p] = Pending /\ p \notin ps
           /\ \A p \in Promise : promise'[p] = Nil <=> promise[p] = Nil
  BY Zenon, ProxyAssumption DEF Fulfil, Shape

\* Steps that fulfil promises and drop none from the table but those.
LEMMA HeldKept ==
    ASSUME IInv, HeldOrReplaced, NEW ps,
           \A p \in Promise : promise'[p] = Pending => promise[p] = Pending /\ p \notin ps,
           \A s \in Server, t \in Txid : queries'[s][t] = queries[s][t] \/ queries[s][t] \in ps,
           \A c \in Promise : channel[c] = "none" <=> channel'[c] = "none"
    PROVE  HeldOrReplaced'
  <1> SUFFICES ASSUME NEW p \in Promise, promise'[p] = Pending, channel'[p] # "none"
               PROVE  queries'[ServerOf(p)][TransactionID(p[1])] = p \/ Replaced(p)'
    BY Zenon DEF HeldOrReplaced, ServerOf, Promise, Upstream, TransactionID
  <1>1. promise[p] = Pending /\ p \notin ps /\ channel[p] # "none"
    BY Zenon
  <1>2. ServerOf(p) \in Server /\ TransactionID(p[1]) \in Txid
    BY Zenon, <1>1 DEF IInv, EntriesLead, Txid, Promise
  <1>3. queries[ServerOf(p)][TransactionID(p[1])] = p \/ Replaced(p)
    BY Zenon, <1>1 DEF HeldOrReplaced
  <1> QED BY <1>1, <1>2, <1>3, StaysReplaced

\* A call that has read the table and does not move.
LEMMA DisplacesKept ==
    ASSUME StreamWasMade, InsertDisplaces, NEW q \in Query, pc[q] = "insert",
           UNCHANGED <<pc[q], waiting[q], attempt[q]>>,
           \A p \in Promise : promise'[p] = Pending => promise[p] = Pending,
           \A c \in Promise : channel[c] = "none" <=> channel'[c] = "none"
    PROVE  /\ waiting'[q].stream \in Promise /\ channel'[waiting'[q].stream] # "none"
           /\ ServerOf(waiting'[q].stream) = TargetOf(q)'
           /\ \A p \in Promise :
                /\ promise'[p] = Pending /\ channel'[p] # "none"
                /\ ServerOf(p) = TargetOf(q)' /\ TransactionID(p[1]) = TransactionID(q)
                => Replaced(p)'
  <1>1. TargetOf(q)' = TargetOf(q)
    BY Zenon DEF TargetOf, Own, ServerOf, Upstream
  <1>2. waiting'[q].stream \in Promise /\ channel'[waiting'[q].stream] # "none"
        /\ ServerOf(waiting'[q].stream) = TargetOf(q)'
    BY Zenon, <1>1 DEF StreamWasMade
  <1>3. ASSUME NEW p \in Promise, promise'[p] = Pending, channel'[p] # "none",
               ServerOf(p) = TargetOf(q)', TransactionID(p[1]) = TransactionID(q)
        PROVE  Replaced(p)'
    <2>1. Replaced(p)
      BY Zenon, <1>1, <1>3 DEF InsertDisplaces
    <2> QED BY Zenon, <2>1, StaysReplaced
  <1> QED BY Zenon, <1>2, <1>3

\* Steps that leave the calls alone.
LEMMA EnvironmentKeeps ==
    ASSUME IInv, PInv, UNCHANGED calls, NEW ps, NEW v, v # Nil, v # Pending, Fulfil(ps, v),
           \A s \in Server, t \in Txid : queries'[s][t] = queries[s][t] \/ queries[s][t] \in ps,
           \A c \in Promise : channel'[c] = channel[c] \/ (channel[c] = "open" /\ channel'[c] = "closed")
    PROVE  PInv'
  <1> USE DEF calls
  <1>0. /\ \A p \in Promise : promise'[p] = Pending => promise[p] = Pending /\ p \notin ps
        /\ \A p \in Promise : promise'[p] = Nil <=> promise[p] = Nil
    BY Zenon, FulfilledFacts DEF IInv
  <1>c. \A c \in Promise : channel[c] = "none" <=> channel'[c] = "none"
    BY Zenon
  <1>1. Begins'
    BY Zenon DEF PInv, Begins
  <1>2. OwnOrShared'
    BY Zenon, <1>0 DEF PInv, OwnOrShared, Own, IInv, CallsAreOnTheWay
  <1>3. HeldOrReplaced'
    BY Zenon, <1>0, <1>c, HeldKept DEF PInv
  <1>4. StreamWasMade' /\ InsertDisplaces'
    <2>1. ASSUME NEW q \in Query, pc[q] = "insert"
          PROVE  /\ waiting'[q].stream \in Promise /\ channel'[waiting'[q].stream] # "none"
                 /\ ServerOf(waiting'[q].stream) = TargetOf(q)'
                 /\ \A p \in Promise :
                      /\ promise'[p] = Pending /\ channel'[p] # "none"
                      /\ ServerOf(p) = TargetOf(q)' /\ TransactionID(p[1]) = TransactionID(q)
                      => Replaced(p)'
      BY Zenon, <2>1, <1>0, <1>c, DisplacesKept DEF PInv
    <2> QED BY Zenon, <2>1 DEF StreamWasMade, InsertDisplaces, Promise, ServerOf, Upstream, TransactionID
  <1>5. NoPromiseLost'
    <2> SUFFICES ASSUME NEW p \in Promise, promise'[p] = Pending, Abandoned(p)'
                 PROVE  channel'[p] = "failed" /\ Replaced(p)'
      BY Zenon DEF NoPromiseLost, Replaced
    <2>1. channel[p] = "failed" /\ Replaced(p)
      BY Zenon, <1>0 DEF PInv, NoPromiseLost, Abandoned, Replaced
    <2> QED BY Zenon, <2>1, <1>c, StaysReplaced
  <1> QED BY Zenon, <1>1, <1>2, <1>3, <1>4, <1>5 DEF PInv

\* Timers, failed writes, answers, closing channels and the cancellation.
LEMMA EnvironmentPInv ==
    ASSUME IInv, PInv,
           \/ \E q \in Query : Timeout(q)
           \/ \E c \in Promise, q \in Query : WriteFails(c, q) \/ Receive(c, q)
           \/ \E c \in Promise : Close(c)
           \/ Cancel
    PROVE  PInv'
  <1>1. ASSUME NEW q \in Query, Timeout(q) PROVE PInv'
    BY Zenon, <1>1, EnvironmentKeeps, ValueFacts DEF Timeout, table, links
  <1>2. ASSUME NEW c \in Promise, NEW q \in Query, WriteFails(c, q) PROVE PInv'
    BY Zenon, <1>2, EnvironmentKeeps, ValueFacts DEF WriteFails, table
  <1>3. ASSUME NEW c \in Promise, NEW q \in Query, Receive(c, q) PROVE PInv'
    BY Zenon, <1>3, EnvironmentKeeps, ValueFacts DEF Receive, table, links
  <1>4. ASSUME NEW c \in Promise, Close(c) PROVE PInv'
    <2> DEFINE s == ServerOf(c)
               ps == UNION {Registered(s, t) : t \in Txid}
    <2>1. s \in Server /\ channel[c] = "open"
      BY Zenon, <1>4 DEF IInv, EntriesLead, Close
    <2>2. \A d \in Promise : channel'[d] = channel[d] \/ (channel[d] = "open" /\ channel'[d] = "closed")
      BY Zenon, <1>4, <2>1 DEF IInv, Shape, Close
    <2>3. \A r \in Server, t \in Txid : r # s => queries'[r][t] = queries[r][t]
      BY Zenon, <1>4, <2>1 DEF IInv, Shape, Close
    <2>4. \A t \in Txid : queries'[s][t] = Nil
      BY Zenon, <1>4, <2>1 DEF IInv, Shape, Close, Empty
    <2>5. \A t \in Txid : queries[s][t] = Nil \/ queries[s][t] \in ps
      BY DEF Registered
    <2>6. \A r \in Server, t \in Txid : queries'[r][t] = queries[r][t] \/ queries[r][t] \in ps
      BY Zenon, <2>3, <2>4, <2>5
    <2>7. Fulfil(ps, Throw("ioOnClosedChannel")) /\ UNCHANGED calls
      BY Zenon, <1>4 DEF Close
    <2> HIDE DEF ps
    <2> QED BY Zenon, <2>2, <2>6, <2>7, EnvironmentKeeps, ValueFacts
  <1>5. CASE Cancel
    <2> DEFINE ps == UNION {Registered(s, t) : s \in Server, t \in Txid}
    <2>1. \A r \in Server, t \in Txid : queries'[r][t] = Nil
      BY Zenon, <1>5 DEF Cancel, Empty
    <2>2. ASSUME NEW r \in Server, NEW t \in Txid PROVE queries[r][t] = Nil \/ queries[r][t] \in ps
      <3>1. Registered(r, t) \subseteq ps
        OBVIOUS
      <3> QED BY <3>1 DEF Registered
    <2>3. \A r \in Server, t \in Txid : queries'[r][t] = queries[r][t] \/ queries[r][t] \in ps
      BY <2>1, <2>2
    <2>4. Fulfil(ps, Throw("ioOnClosedChannel")) /\ UNCHANGED <<calls, channel>>
      BY <1>5 DEF Cancel
    <2> HIDE DEF ps
    <2> QED BY Zenon, <2>3, <2>4, EnvironmentKeeps, ValueFacts
  <1> QED BY Zenon, <1>1, <1>2, <1>3, <1>4, <1>5

\* A call leaves its attempt: its promise is fulfilled, or its connect failed after its entry
\* was replaced.
LEMMA LeaveKeeps ==
    ASSUME IInv, PInv, NEW q \in Query, pc'[q] \in {"lookup", "done"},
           attempt'[q] \in {attempt[q], attempt[q] + 1},
           \A r \in Query \ {q} : UNCHANGED <<pc[r], attempt[r], waiting[r]>>,
           NEW ps,
           \A p \in Promise : promise'[p] = Pending => promise[p] = Pending /\ p \notin ps,
           \A p \in Promise : promise'[p] = Nil <=> promise[p] = Nil,
           \A s \in Server, t \in Txid : queries'[s][t] = queries[s][t] \/ queries[s][t] \in ps,
           \A c \in Promise : channel'[c] = channel[c]
                                \/ (c = Own(q) /\ channel[c] = "connecting" /\ channel'[c] = "failed"),
           Own(q) \in Promise /\ promise'[Own(q)] = Pending
             => channel'[Own(q)] = "failed" /\ Replaced(Own(q))
    PROVE  PInv'
  <1>c. \A c \in Promise : channel[c] = "none" <=> channel'[c] = "none"
    BY Zenon
  <1>1. Begins'
    BY Zenon DEF PInv, Begins
  <1>2. OwnOrShared'
    <2> SUFFICES ASSUME NEW r \in Query, pc'[r] \in {"insert", "connect", "send", "await"}
                 PROVE  waiting'[r].promise = Own(r)' \/ promise'[Own(r)'] = Nil
      BY Zenon DEF OwnOrShared, Own
    <2>1. r # q /\ pc[r] = pc'[r] /\ waiting'[r] = waiting[r] /\ Own(r)' = Own(r)
      BY Zenon DEF Own
    <2>2. Own(r) \in Promise
      BY Zenon, <2>1 DEF IInv, CallsAreOnTheWay
    <2> QED BY Zenon, <2>1, <2>2 DEF PInv, OwnOrShared
  <1>3. HeldOrReplaced'
    BY Zenon, <1>c, HeldKept DEF PInv
  <1>4. StreamWasMade' /\ InsertDisplaces'
    <2>1. ASSUME NEW r \in Query, pc'[r] = "insert"
          PROVE  /\ waiting'[r].stream \in Promise /\ channel'[waiting'[r].stream] # "none"
                 /\ ServerOf(waiting'[r].stream) = TargetOf(r)'
                 /\ \A p \in Promise :
                      /\ promise'[p] = Pending /\ channel'[p] # "none"
                      /\ ServerOf(p) = TargetOf(r)' /\ TransactionID(p[1]) = TransactionID(r)
                      => Replaced(p)'
      <3>1. r # q /\ pc[r] = "insert" /\ UNCHANGED <<pc[r], attempt[r], waiting[r]>>
        BY Zenon, <2>1
      <3> QED BY Zenon, <3>1, <1>c, DisplacesKept DEF PInv
    <2> QED BY Zenon, <2>1 DEF StreamWasMade, InsertDisplaces, Promise, ServerOf, Upstream, TransactionID
  <1>5. NoPromiseLost'
    <2> SUFFICES ASSUME NEW p \in Promise, promise'[p] = Pending, Abandoned(p)'
                 PROVE  channel'[p] = "failed" /\ Replaced(p)'
      BY Zenon DEF NoPromiseLost, Replaced
    <2>0. /\ p[1] \in Query /\ p[2] \in Nat /\ attempt[p[1]] \in Nat /\ p = <<p[1], p[2]>>
          /\ promise[p] = Pending /\ Pending # Nil
      BY Attempts, ValueFacts DEF IInv, Shape, Promise
    <2>1. CASE Abandoned(p)
      <3>1. channel[p] = "failed" /\ Replaced(p)
        BY Zenon, <2>0, <2>1 DEF PInv, NoPromiseLost, Replaced
      <3> QED BY Zenon, <3>1, <1>c, StaysReplaced
    <2>2. CASE ~ Abandoned(p)
      <3>1. p[1] = q
        BY Zenon, <2>0, <2>2 DEF Abandoned
      <3>2. ~ (p[2] > attempt[q])
        BY Zenon, <2>0, <3>1 DEF IInv, NamesAreFresh
      <3>3. ~ (attempt[q] > p[2])
        BY Zenon, <3>1, <2>2 DEF Abandoned
      <3>4. p[2] = attempt[q]
        BY <2>0, <3>1, <3>2, <3>3
      <3>5. p = Own(q)
        BY Zenon, <2>0, <3>1, <3>4 DEF Own
      <3>6. channel'[p] = "failed" /\ Replaced(p)
        BY Zenon, <3>5
      <3> QED BY Zenon, <3>6, <1>c, StaysReplaced
    <2> QED BY Zenon, <2>1, <2>2
  <1> QED BY Zenon, <1>1, <1>2, <1>3, <1>4, <1>5 DEF PInv

\* The beginning of a call leaves no promise behind: none was made.
LEMMA CallPInv ==
    ASSUME IInv, PInv, NEW q \in Query, Call(q)
    PROVE  PInv'
  <1>1. UNCHANGED <<promise, queries, channel>> /\ pc[q] = "idle"
    BY Zenon DEF Call, table, links
  <1>2. Own(q) \notin Promise
    BY <1>1, Attempts DEF PInv, Begins, Own, Promise
  <1>3. /\ pc'[q] \in {"lookup", "done"} /\ attempt'[q] \in {attempt[q], attempt[q] + 1}
        /\ \A r \in Query \ {q} : UNCHANGED <<pc[r], attempt[r], waiting[r]>>
    <2>1. CASE LocalReplies(q) = {} /\ Turn(q, Throw("operationRefused"))
      BY Zenon, <2>1, TurnFacts, ValueFacts DEF IInv
    <2>2. CASE pc' = [pc EXCEPT ![q] = "done"] /\ UNCHANGED <<attempt, waiting>>
      BY Zenon, <2>2 DEF IInv, Shape
    <2> QED BY Zenon, <2>1, <2>2 DEF Call
  <1>e. PICK ps : ps = {}
    BY Zenon
  <1>4. /\ \A p \in Promise : promise'[p] = Pending => promise[p] = Pending /\ p \notin ps
        /\ \A p \in Promise : promise'[p] = Nil <=> promise[p] = Nil
        /\ \A s \in Server, t \in Txid : queries'[s][t] = queries[s][t] \/ queries[s][t] \in ps
        /\ \A c \in Promise : channel'[c] = channel[c]
    BY Zenon, <1>1, <1>e
  <1> QED BY Zenon, <1>2, <1>3, <1>4, LeaveKeeps

\* The promise a call has waited for is fulfilled; it is its own, or it has made none.
LEMMA WaitedFor ==
    ASSUME IInv, PInv, NEW q \in Query, pc[q] = "await", promise[waiting[q].promise] # Pending
    PROVE  promise[Own(q)] # Pending
  BY Zenon, ValueFacts DEF PInv, OwnOrShared

\* A call returns the answer.
LEMMA SucceedPInv ==
    ASSUME IInv, PInv, NEW q \in Query, Succeed(q)
    PROVE  PInv'
  <1>1. UNCHANGED <<promise, queries, channel, attempt>> /\ promise[Own(q)] # Pending
    BY Zenon, WaitedFor DEF Succeed, table, links
  <1>2. /\ pc'[q] = "done"
        /\ \A r \in Query \ {q} : UNCHANGED <<pc[r], attempt[r], waiting[r]>>
    BY Zenon DEF Succeed, IInv, Shape
  <1>e. PICK ps : ps = {}
    BY Zenon
  <1>3. /\ \A p \in Promise : promise'[p] = Pending => promise[p] = Pending /\ p \notin ps
        /\ \A p \in Promise : promise'[p] = Nil <=> promise[p] = Nil
        /\ \A s \in Server, t \in Txid : queries'[s][t] = queries[s][t] \/ queries[s][t] \in ps
        /\ \A c \in Promise : channel'[c] = channel[c]
    BY Zenon, <1>1, <1>e
  <1>4. attempt'[q] \in {attempt[q], attempt[q] + 1} /\ promise'[Own(q)] # Pending
    BY Zenon, <1>1
  <1> QED BY Zenon, <1>2, <1>3, <1>4, LeaveKeeps

\* What the catch clause takes from the table, it fulfils.
LEMMA CatchKeeps ==
    ASSUME IInv, NEW q \in Query, pc[q] \notin {"idle", "done"}, NEW e \in Errors, Catch(q, e)
    PROVE  LET ps == Registered(TargetOf(q), TransactionID(q)) IN
           /\ \A p \in Promise : promise'[p] = Pending => promise[p] = Pending /\ p \notin ps
           /\ \A p \in Promise : promise'[p] = Nil <=> promise[p] = Nil
           /\ \A s \in Server, t \in Txid : queries'[s][t] = queries[s][t] \/ queries[s][t] \in ps
           /\ pc'[q] \in {"lookup", "done"} /\ attempt'[q] \in {attempt[q], attempt[q] + 1}
           /\ \A r \in Query \ {q} : UNCHANGED <<pc[r], attempt[r], waiting[r]>>
  <1> DEFINE s0 == TargetOf(q)
             t0 == TransactionID(q)
             ps == Registered(s0, t0)
  <1>1. s0 \in Server /\ t0 \in Txid
    BY Zenon DEF IInv, CallsAreOnTheWay, Txid
  <1>2. /\ \A p \in Promise : promise'[p] = Pending => promise[p] = Pending /\ p \notin ps
        /\ \A p \in Promise : promise'[p] = Nil <=> promise[p] = Nil
    BY Zenon, FulfilledFacts, ValueFacts DEF Catch, IInv
  <1>3. \A s \in Server, t \in Txid : queries'[s][t] = IF s = s0 /\ t = t0 THEN Nil ELSE queries[s][t]
    BY Zenon, <1>1 DEF Catch, IInv, Shape
  <1>4. queries[s0][t0] = Nil \/ queries[s0][t0] \in ps
    BY Zenon DEF Registered
  <1>5. \A s \in Server, t \in Txid : queries'[s][t] = queries[s][t] \/ queries[s][t] \in ps
    BY Zenon, <1>3, <1>4
  <1>6. /\ pc'[q] \in {"lookup", "done"} /\ attempt'[q] \in {attempt[q], attempt[q] + 1}
        /\ \A r \in Query \ {q} : UNCHANGED <<pc[r], attempt[r], waiting[r]>>
    BY Zenon, TurnFacts, ValueFacts DEF Catch, IInv
  <1> QED BY Zenon, <1>2, <1>5, <1>6

\* A call tries again after its promise failed.
LEMMA RetryPInv ==
    ASSUME IInv, PInv, NEW q \in Query, Retry(q)
    PROVE  PInv'
  <1> DEFINE ps == Registered(TargetOf(q), TransactionID(q))
             v == promise[waiting[q].promise]
  <1>1. pc[q] = "await" /\ v \in Errors /\ Catch(q, v) /\ UNCHANGED channel
    BY Zenon DEF Retry, links
  <1>2. /\ \A p \in Promise : promise'[p] = Pending => promise[p] = Pending /\ p \notin ps
        /\ \A p \in Promise : promise'[p] = Nil <=> promise[p] = Nil
        /\ \A s \in Server, t \in Txid : queries'[s][t] = queries[s][t] \/ queries[s][t] \in ps
        /\ pc'[q] \in {"lookup", "done"} /\ attempt'[q] \in {attempt[q], attempt[q] + 1}
        /\ \A r \in Query \ {q} : UNCHANGED <<pc[r], attempt[r], waiting[r]>>
    BY Zenon, <1>1, CatchKeeps
  <1>3. promise[Own(q)] # Pending
    BY Zenon, <1>1, WaitedFor, ValueFacts
  <1> HIDE DEF ps
  <1> QED BY Zenon, <1>1, <1>2, <1>3, LeaveKeeps

\* A call tries again after its connect failed: the catch clause fails its promise, or finds
\* that of another task.
LEMMA ConnectFailsPInv ==
    ASSUME IInv, PInv, NEW q \in Query, ConnectFails(q)
    PROVE  PInv'
  <1> DEFINE ps == Registered(TargetOf(q), TransactionID(q))
  <1>1. /\ pc[q] = "connect" /\ Own(q) \in Promise /\ channel[Own(q)] = "connecting"
        /\ Catch(q, Throw("connect")) /\ channel' = [channel EXCEPT ![Own(q)] = "failed"]
    BY Zenon DEF ConnectFails, IInv, CallsAreOnTheWay
  <1>2. /\ \A p \in Promise : promise'[p] = Pending => promise[p] = Pending /\ p \notin ps
        /\ \A p \in Promise : promise'[p] = Nil <=> promise[p] = Nil
        /\ \A s \in Server, t \in Txid : queries'[s][t] = queries[s][t] \/ queries[s][t] \in ps
        /\ pc'[q] \in {"lookup", "done"} /\ attempt'[q] \in {attempt[q], attempt[q] + 1}
        /\ \A r \in Query \ {q} : UNCHANGED <<pc[r], attempt[r], waiting[r]>>
    BY Zenon, <1>1, CatchKeeps, ValueFacts
  <1>3. \A c \in Promise : channel'[c] = channel[c]
                             \/ (c = Own(q) /\ channel[c] = "connecting" /\ channel'[c] = "failed")
    BY Zenon, <1>1 DEF IInv, Shape
  <1>4. channel'[Own(q)] = "failed"
    BY Zenon, <1>1 DEF IInv, Shape
  <1>5. promise'[Own(q)] = Pending => Replaced(Own(q))
    <2>1. Own(q)[1] = q /\ Nil # Own(q)
      BY Zenon, <1>1, ProxyAssumption DEF Own
    <2>2. promise'[Own(q)] = Pending => queries[TargetOf(q)][TransactionID(q)] # Own(q)
      BY Zenon, <1>1, <1>2, <2>1 DEF Registered
    <2> QED BY Zenon, <1>1, <1>2, <2>1, <2>2 DEF PInv, HeldOrReplaced, TargetOf
  <1> HIDE DEF ps
  <1> QED BY Zenon, <1>2, <1>3, <1>4, <1>5, LeaveKeeps

\* A call reads the table: it shares a promise, makes one, or makes a channel next.
LEMMA LookupPInv ==
    ASSUME IInv, PInv, NEW q \in Query, Lookup(q)
    PROVE  PInv'
  <1> DEFINE s == TargetOf(q)
             t == TransactionID(q)
  <1>1. /\ pc[q] = "lookup" /\ UNCHANGED <<queries, continuation, channel, attempt>>
        /\ pc'[q] \in {"create", "send", "insert"}
        /\ \A r \in Query \ {q} : UNCHANGED <<pc[r], waiting[r]>>
    BY Zenon DEF Lookup, table, links, IInv, Shape
  <1>2. /\ Own(q) \in Promise /\ s \in Server /\ t \in Txid /\ Own(q)[1] = q
        /\ promise[Own(q)] = Nil /\ channel[Own(q)] = "none"
    BY Zenon, <1>1 DEF IInv, CallsAreOnTheWay, NamesAreFresh, Own, Txid
  <1>3. /\ \A p \in Promise \ {Own(q)} : promise'[p] = promise[p]
        /\ promise'[Own(q)] = Nil \/ waiting'[q].promise = Own(q) \/ pc'[q] = "create"
    BY <1>2 DEF Lookup, IInv, Shape
  <1>4. pc'[q] = "insert" => /\ continuation[s] # Nil /\ queries[s][t] = Nil
                             /\ waiting'[q].stream = continuation[s]
    BY <1>1 DEF Lookup, IInv, Shape
  <1>o. \A r \in Query : Own(r)' = Own(r) /\ TargetOf(r)' = TargetOf(r)
    BY Zenon, <1>1 DEF Own, TargetOf, ServerOf, Upstream
  <1>r. \A p \in Promise : Replaced(p)' <=> Replaced(p)
    BY Zenon, <1>1 DEF Replaced, ServerOf, Promise, Upstream
  <1>p. \A p \in Promise : promise'[p] = Pending /\ channel'[p] # "none"
                             => promise[p] = Pending /\ channel[p] # "none"
    BY Zenon, <1>1, <1>2, <1>3
  <1>5. Begins'
    BY Zenon, <1>1 DEF PInv, Begins
  <1>6. OwnOrShared'
    <2> SUFFICES ASSUME NEW r \in Query, pc'[r] \in {"insert", "connect", "send", "await"}
                 PROVE  waiting'[r].promise = Own(r) \/ promise'[Own(r)] = Nil
      BY Zenon, <1>o DEF OwnOrShared
    <2>1. CASE r = q
      BY Zenon, <2>1, <1>1, <1>3
    <2>2. CASE r # q
      <3>1. Own(r) # Own(q) /\ Own(r) \in Promise /\ pc[r] = pc'[r] /\ waiting'[r] = waiting[r]
        BY Zenon, <2>2, <1>1 DEF Own, IInv, CallsAreOnTheWay
      <3> QED BY Zenon, <3>1, <1>3 DEF PInv, OwnOrShared
    <2> QED BY Zenon, <2>1, <2>2
  <1>7. HeldOrReplaced'
    BY Zenon, <1>1, <1>p, <1>r DEF PInv, HeldOrReplaced, ServerOf, Upstream, TransactionID, Promise
  <1>8. StreamWasMade'
    <2>1. pc'[q] = "insert" => /\ continuation[s] \in Promise /\ channel[continuation[s]] # "none"
                               /\ ServerOf(continuation[s]) = s
      BY Zenon, <1>2, <1>4 DEF IInv, Shape, EntriesLead, EntryIsServed
    <2> SUFFICES ASSUME NEW r \in Query, pc'[r] = "insert"
                 PROVE  /\ waiting'[r].stream \in Promise /\ channel[waiting'[r].stream] # "none"
                        /\ ServerOf(waiting'[r].stream) = TargetOf(r)
      BY ZenonT(40), <1>o, <1>1 DEF StreamWasMade, Promise, ServerOf, Upstream
    <2>2. CASE r = q
      BY Zenon, <2>1, <2>2, <1>4
    <2>3. CASE r # q
      BY Zenon, <2>3, <1>1 DEF PInv, StreamWasMade
    <2> QED BY Zenon, <2>2, <2>3
  <1>9. InsertDisplaces'
    <2> SUFFICES ASSUME NEW r \in Query, NEW p \in Promise, pc'[r] = "insert", promise[p] = Pending,
                        channel[p] # "none", ServerOf(p) = TargetOf(r), TransactionID(p[1]) = TransactionID(r)
                 PROVE  Replaced(p)
      BY Zenon, <1>o, <1>p, <1>r DEF InsertDisplaces, Promise, ServerOf, Upstream, TransactionID
    <2>1. CASE r = q
      <3>1. queries[ServerOf(p)][TransactionID(p[1])] # p
        BY Zenon, <2>1, <1>4, ProxyAssumption
      <3> QED BY Zenon, <3>1 DEF PInv, HeldOrReplaced
    <2>2. CASE r # q
      BY Zenon, <2>2, <1>1 DEF PInv, InsertDisplaces
    <2> QED BY Zenon, <2>1, <2>2
  <1>10. NoPromiseLost'
    <2> SUFFICES ASSUME NEW p \in Promise, promise'[p] = Pending, Abandoned(p)'
                 PROVE  channel'[p] = "failed" /\ Replaced(p)'
      BY Zenon DEF NoPromiseLost, Replaced
    <2>1. p[1] \in Query /\ Abandoned(p) /\ p # Own(q)
      <3>1. p[1] \in Query /\ p[2] \in Nat /\ attempt[p[1]] \in Nat
        BY Attempts DEF IInv, Shape, Promise
      <3>2. Abandoned(p)
        BY Zenon, <3>1, <1>1 DEF Abandoned
      <3>3. ~ Abandoned(Own(q))
        BY <1>1, <1>2 DEF Abandoned, Own, IInv, Shape
      <3> QED BY Zenon, <3>1, <3>2, <3>3
    <2>2. channel[p] = "failed" /\ Replaced(p)
      BY Zenon, <2>1, <1>3 DEF PInv, NoPromiseLost, Replaced
    <2> QED BY Zenon, <2>2, <1>1, <1>r
  <1> QED BY Zenon, <1>5, <1>6, <1>7, <1>8, <1>9, <1>10 DEF PInv

\* A call moves on in its attempt and no promise, entry or channel changes but its own.
LEMMA MoveKeeps ==
    ASSUME IInv, PInv, NEW q \in Query, pc[q] \notin {"idle", "lookup", "done"}, pc'[q] \in {"send", "await"},
           UNCHANGED <<promise, attempt, waiting>>, pc[q] # "create",
           \A r \in Query \ {q} : UNCHANGED <<pc[r]>>,
           \A c \in Promise : channel'[c] = channel[c]
                                \/ (c = Own(q) /\ channel[c] = "connecting" /\ channel'[c] = "open"),
           HeldOrReplaced'
    PROVE  PInv'
  <1>c. \A c \in Promise : channel[c] = "none" <=> channel'[c] = "none"
    BY Zenon
  <1>1. Begins'
    BY Zenon DEF PInv, Begins
  <1>2. OwnOrShared'
    <2>1. pc[q] \in {"insert", "connect", "send", "await"}
      BY Zenon DEF IInv, Shape
    <2> QED BY Zenon, <2>1 DEF PInv, OwnOrShared, Own
  <1>3. StreamWasMade' /\ InsertDisplaces'
    <2>1. ASSUME NEW r \in Query, pc'[r] = "insert"
          PROVE  /\ waiting'[r].stream \in Promise /\ channel'[waiting'[r].stream] # "none"
                 /\ ServerOf(waiting'[r].stream) = TargetOf(r)'
                 /\ \A p \in Promise :
                      /\ promise'[p] = Pending /\ channel'[p] # "none"
                      /\ ServerOf(p) = TargetOf(r)' /\ TransactionID(p[1]) = TransactionID(r)
                      => Replaced(p)'
      <3>1. r # q /\ pc[r] = "insert" /\ UNCHANGED <<pc[r], attempt[r], waiting[r]>>
        BY Zenon, <2>1
      <3> QED BY Zenon, <3>1, <1>c, DisplacesKept DEF PInv
    <2> QED BY Zenon, <2>1 DEF StreamWasMade, InsertDisplaces, Promise, ServerOf, Upstream, TransactionID
  <1>4. NoPromiseLost'
    <2> SUFFICES ASSUME NEW p \in Promise, promise'[p] = Pending, Abandoned(p)'
                 PROVE  channel'[p] = "failed" /\ Replaced(p)'
      BY Zenon DEF NoPromiseLost, Replaced
    <2>1. Abandoned(p)
      BY Zenon DEF Abandoned, Promise
    <2>2. channel[p] = "failed" /\ Replaced(p)
      BY Zenon, <2>1 DEF PInv, NoPromiseLost, Replaced
    <2> QED BY Zenon, <2>2, <1>c, StaysReplaced
  <1> QED BY Zenon, <1>1, <1>2, <1>3, <1>4 DEF PInv

\* A promise goes into the entry of now: the one it takes the place of was replaced.
LEMMA InsertPInv ==
    ASSUME IInv, PInv, NEW q \in Query, Insert(q)
    PROVE  PInv'
  <1> DEFINE s == TargetOf(q)
             t == TransactionID(q)
  <1>1. /\ pc[q] = "insert" /\ UNCHANGED <<promise, channel, attempt, waiting>> /\ pc'[q] = "send"
        /\ \A r \in Query \ {q} : UNCHANGED <<pc[r]>>
    BY Zenon DEF Insert, links, IInv, Shape
  <1>2. s \in Server /\ t \in Txid
    BY Zenon, <1>1 DEF IInv, CallsAreOnTheWay, Txid
  <1>3. \A r \in Server, u \in Txid : queries'[r][u] = queries[r][u] \/ (r = s /\ u = t)
    BY Zenon, <1>2 DEF Insert, IInv, Shape
  <1>4. HeldOrReplaced'
    <2> SUFFICES ASSUME NEW p \in Promise, promise[p] = Pending, channel[p] # "none"
                 PROVE  queries'[ServerOf(p)][TransactionID(p[1])] = p \/ Replaced(p)
      BY ZenonT(40), <1>1 DEF HeldOrReplaced, Replaced, ServerOf, Promise, Upstream, TransactionID
    <2>1. ServerOf(p) \in Server /\ TransactionID(p[1]) \in Txid
      BY Zenon DEF IInv, EntriesLead, Txid, Promise
    <2>2. CASE ServerOf(p) = s /\ TransactionID(p[1]) = t
      BY Zenon, <2>2, <1>1 DEF PInv, InsertDisplaces
    <2>3. CASE ~ (ServerOf(p) = s /\ TransactionID(p[1]) = t)
      BY Zenon, <2>1, <2>3, <1>3 DEF PInv, HeldOrReplaced
    <2> QED BY Zenon, <2>2, <2>3
  <1> QED BY Zenon, <1>1, <1>4, MoveKeeps

\* A channel is open, or a message is yielded.
LEMMA MovePInv ==
    ASSUME IInv, PInv, NEW q \in Query, Connected(q) \/ Send(q)
    PROVE  PInv'
  <1>1. /\ pc[q] \in {"connect", "send"} /\ UNCHANGED <<promise, queries, attempt, waiting>>
        /\ pc'[q] \in {"send", "await"} /\ \A r \in Query \ {q} : UNCHANGED <<pc[r]>>
    BY Zenon DEF Connected, Send, table, IInv, Shape
  <1>2. \A c \in Promise : channel'[c] = channel[c]
                             \/ (c = Own(q) /\ channel[c] = "connecting" /\ channel'[c] = "open")
    <2>1. CASE Connected(q)
      BY Zenon, <2>1 DEF Connected, IInv, Shape, CallsAreOnTheWay
    <2>2. CASE Send(q)
      BY Zenon, <2>2 DEF Send
    <2> QED BY Zenon, <2>1, <2>2
  <1>e. PICK ps : ps = {}
    BY Zenon
  <1>3. /\ \A p \in Promise : promise'[p] = Pending => promise[p] = Pending /\ p \notin ps
        /\ \A s \in Server, t \in Txid : queries'[s][t] = queries[s][t] \/ queries[s][t] \in ps
        /\ \A c \in Promise : channel[c] = "none" <=> channel'[c] = "none"
    BY Zenon, <1>1, <1>2, <1>e
  <1>4. HeldOrReplaced'
    BY Zenon, <1>3, HeldKept DEF PInv
  <1> QED BY Zenon, <1>1, <1>2, <1>4, MoveKeeps

\* A new entry takes the place of the one of the server: every promise of the server that was
\* made with a channel has been replaced.
LEMMA CreatePInv ==
    ASSUME IInv, PInv, NEW q \in Query, Create(q)
    PROVE  PInv'
  <1> DEFINE s == TargetOf(q)
             t == TransactionID(q)
             o == Own(q)
  <1>1. /\ pc[q] = "create" /\ UNCHANGED attempt /\ pc'[q] = "connect"
        /\ waiting'[q] = [promise |-> o, stream |-> o]
        /\ \A r \in Query \ {q} : UNCHANGED <<pc[r], waiting[r]>>
    BY Zenon DEF Create, IInv, Shape
  <1>2. /\ o \in Promise /\ s \in Server /\ t \in Txid /\ o[1] = q /\ ServerOf(o) = s
        /\ promise[o] = Nil /\ channel[o] = "none"
    BY Zenon, <1>1 DEF IInv, CallsAreOnTheWay, NamesAreFresh, Own, TargetOf, Txid
  <1>3. /\ \A p \in Promise \ {o} : promise'[p] = promise[p] /\ channel'[p] = channel[p]
        /\ channel'[o] = "connecting"
    BY Zenon, <1>2 DEF Create, IInv, Shape
  <1>4. /\ queries'[s][t] = o
        /\ \A r \in Server, u \in Txid : r # s => queries'[r][u] = queries[r][u]
    BY Zenon, <1>2 DEF Create, IInv, Shape, Empty
  <1>o. \A r \in Query : Own(r)' = Own(r) /\ TargetOf(r)' = TargetOf(r)
    BY Zenon, <1>1 DEF Own, TargetOf, ServerOf, Upstream
  <1>c. \A c \in Promise : channel[c] # "none" => channel'[c] # "none"
    BY Zenon, <1>2, <1>3
  <1>r. \A p \in Promise : p # o /\ ServerOf(p) = s => Replaced(p)'
    BY Zenon, <1>2, <1>3 DEF Replaced, ServerOf, Promise, Upstream
  <1>5. Begins'
    BY Zenon, <1>1 DEF PInv, Begins
  <1>6. OwnOrShared'
    <2> SUFFICES ASSUME NEW r \in Query, pc'[r] \in {"insert", "connect", "send", "await"}
                 PROVE  waiting'[r].promise = Own(r) \/ promise'[Own(r)] = Nil
      BY Zenon, <1>o DEF OwnOrShared
    <2>1. CASE r = q
      BY <2>1, <1>1
    <2>2. CASE r # q
      <3>1. Own(r) # o /\ Own(r) \in Promise /\ pc[r] = pc'[r] /\ waiting'[r] = waiting[r]
        BY Zenon, <2>2, <1>1 DEF Own, IInv, CallsAreOnTheWay
      <3> QED BY Zenon, <3>1, <1>3 DEF PInv, OwnOrShared
    <2> QED BY Zenon, <2>1, <2>2
  <1>7. HeldOrReplaced'
    <2> SUFFICES ASSUME NEW p \in Promise, promise'[p] = Pending, channel'[p] # "none"
                 PROVE  queries'[ServerOf(p)][TransactionID(p[1])] = p \/ Replaced(p)'
      BY Zenon DEF HeldOrReplaced, ServerOf, Promise, Upstream, TransactionID
    <2>1. CASE p = o
      BY Zenon, <2>1, <1>2, <1>4
    <2>2. CASE p # o /\ ServerOf(p) = s
      BY Zenon, <2>2, <1>r
    <2>3. CASE p # o /\ ServerOf(p) # s
      <3>1. promise[p] = Pending /\ channel[p] # "none"
        BY Zenon, <2>3, <1>3
      <3>2. ServerOf(p) \in Server /\ TransactionID(p[1]) \in Txid
        BY Zenon, <3>1 DEF IInv, EntriesLead, Txid, Promise
      <3>3. queries[ServerOf(p)][TransactionID(p[1])] = p \/ Replaced(p)
        BY Zenon, <3>1 DEF PInv, HeldOrReplaced
      <3> QED BY Zenon, <2>3, <3>2, <3>3, <1>4, <1>c, StaysReplaced
    <2> QED BY Zenon, <2>1, <2>2, <2>3
  <1>8. StreamWasMade'
    <2> SUFFICES ASSUME NEW r \in Query, pc'[r] = "insert"
                 PROVE  /\ waiting'[r].stream \in Promise /\ channel'[waiting'[r].stream] # "none"
                        /\ ServerOf(waiting'[r].stream) = TargetOf(r)
      BY Zenon, <1>o DEF StreamWasMade, Promise, ServerOf, Upstream
    <2>1. r # q /\ pc[r] = "insert" /\ waiting'[r] = waiting[r]
      BY Zenon, <1>1
    <2> QED BY Zenon, <2>1, <1>c DEF PInv, StreamWasMade
  <1>9. InsertDisplaces'
    <2> SUFFICES ASSUME NEW r \in Query, NEW p \in Promise, pc'[r] = "insert", promise'[p] = Pending,
                        channel'[p] # "none", ServerOf(p) = TargetOf(r), TransactionID(p[1]) = TransactionID(r)
                 PROVE  Replaced(p)'
      BY Zenon, <1>o DEF InsertDisplaces, Promise, ServerOf, Upstream, TransactionID
    <2>1. r # q /\ pc[r] = "insert"
      BY Zenon, <1>1
    <2>2. CASE p = o
      <3>1. /\ waiting[r].stream \in Promise /\ channel[waiting[r].stream] # "none"
            /\ ServerOf(waiting[r].stream) = ServerOf(p)
        BY Zenon, <2>1 DEF PInv, StreamWasMade
      <3>2. Replaced(p)
        BY Zenon, <3>1, <2>2, <1>2 DEF Replaced
      <3> QED BY Zenon, <3>2, <1>c, StaysReplaced
    <2>3. CASE p # o
      <3>1. Replaced(p)
        BY Zenon, <2>1, <2>3, <1>3 DEF PInv, InsertDisplaces
      <3> QED BY Zenon, <3>1, <1>c, StaysReplaced
    <2> QED BY Zenon, <2>2, <2>3
  <1>10. NoPromiseLost'
    <2> SUFFICES ASSUME NEW p \in Promise, promise'[p] = Pending, Abandoned(p)'
                 PROVE  channel'[p] = "failed" /\ Replaced(p)'
      BY Zenon DEF NoPromiseLost, Replaced
    <2>1. Abandoned(p) /\ p # o
      <3>1. p[1] \in Query /\ p[2] \in Nat /\ attempt[p[1]] \in Nat
        BY Attempts DEF IInv, Shape, Promise
      <3>2. Abandoned(p)
        BY Zenon, <3>1, <1>1 DEF Abandoned
      <3>3. ~ Abandoned(o)
        BY <1>1, <1>2 DEF Abandoned, Own, IInv, Shape
      <3> QED BY Zenon, <3>2, <3>3
    <2>2. channel[p] = "failed" /\ Replaced(p)
      BY Zenon, <2>1, <1>3 DEF PInv, NoPromiseLost, Replaced
    <2> QED BY Zenon, <2>1, <2>2, <1>3, <1>c, StaysReplaced
  <1> QED BY Zenon, <1>5, <1>6, <1>7, <1>8, <1>9, <1>10 DEF PInv

\* The second invariant is inductive on top of the first.
LEMMA NextPInv ==
    ASSUME IInv, PInv, [Next]_vars
    PROVE  PInv'
  <1>1. ASSUME NEW q \in Query, Step(q) PROVE PInv'
    BY Zenon, <1>1, CallPInv, LookupPInv, InsertPInv, CreatePInv, MovePInv, ConnectFailsPInv, SucceedPInv,
       RetryPInv, EnvironmentPInv DEF Step
  <1>2. CASE UNCHANGED <<promise, queries, channel, calls>>
    <2>e. PICK ps : ps = {}
      BY Zenon
    <2>1. Fulfil(ps, Throw("timeout"))
      BY Zenon, <1>2, <2>e DEF Fulfil, IInv, Shape
    <2>2. /\ UNCHANGED calls
          /\ \A s \in Server, t \in Txid : queries'[s][t] = queries[s][t] \/ queries[s][t] \in ps
          /\ \A c \in Promise : channel'[c] = channel[c]
      BY Zenon, <1>2
    <2> QED BY Zenon, <2>1, <2>2, EnvironmentKeeps, ValueFacts
  <1>3. ASSUME NEW c \in Promise, NEW q \in Query, Write(c, q) PROVE PInv'
    BY Zenon, <1>2, <1>3 DEF Write, table
  <1>4. CASE Idle \/ UNCHANGED vars
    BY Zenon, <1>2, <1>4 DEF Idle, vars, table, links
  <1> QED BY Zenon, <1>1, <1>3, <1>4, EnvironmentPInv DEF Next

\* No promise is dropped unfulfilled (NIO traps that in debug builds), except one whose connect
\* failed after another task's first query of its server had replaced its entry: for any calls,
\* servers, attempts and faults, with or without shared transaction IDs (query(msg:), startDNSq).
THEOREM PromisesKept == Spec => []NoPromiseLost
  <1>1. Init => IInv /\ PInv
    <2>1. Init => IInv
      BY Zenon, InitIInv
    <2>2. Init => PInv
      BY ZenonT(40), ProxyAssumption DEF Init, PInv, Begins, OwnOrShared, HeldOrReplaced, StreamWasMade,
         InsertDisplaces, NoPromiseLost
    <2> QED BY Zenon, <2>1, <2>2
  <1>2. IInv /\ PInv /\ [Next]_vars => IInv' /\ PInv'
    BY Zenon, NextIInv, NextPInv
  <1>3. PInv => NoPromiseLost
    BY Zenon DEF PInv
  <1> QED BY <1>1, <1>2, <1>3, PTL DEF Spec
=============================================================================
