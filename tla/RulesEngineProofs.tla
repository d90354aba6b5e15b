-------------------------- MODULE RulesEngineProofs --------------------------
(***************************************************************************)
(* The rules engine for any connections, hosts, rules and setters: lookups *)
(* of a host are shared without bringing replaced rules back, nobody       *)
(* awaits a task that has gone, and stale results come only from lookups   *)
(* that a change of the rules overtook.                                    *)
(***************************************************************************)
EXTENDS RulesEngine, WellFoundedInduction, TLAPS

\* The part of the type invariant the proofs need.
Shape ==
    /\ forwardingRules \in RuleLists \cup {<<>>}
    /\ cache = [h \in Host |-> cache[h]]
    /\ inFlightLookups \in [Host -> Connection \cup {Nil}]
    /\ lookupTask \in [Connection -> {"none", "started", "evaluated", "saved"}]
    /\ pc \in [Connection -> {"idle", "missed", "awaiting", "answered"}]
    /\ joined \in [Connection -> Connection \cup {Nil}]
    /\ setter \in [Setter -> {"idle", "changed"}]

\* A task runs exactly as long as its entry is in the table, under its host.
EntriesAreTasks ==
    /\ \A h \in Host : inFlightLookups[h] # Nil =>
         /\ lookupTask[inFlightLookups[h]] # "none"
         /\ HostOf[inFlightLookups[h]] = h
    /\ \A c \in Connection : lookupTask[c] # "none" =>
         HostOf[c] \in Host /\ inFlightLookups[HostOf[c]] = c

\* What a call in progress relies on.
CallsAreServed ==
    \A c \in Connection :
      /\ pc[c] = "missed" => HostOf[c] \in Host
      /\ pc[c] = "awaiting" => joined[c] \in Connection /\ lookupTask[joined[c]] # "none"

\* The inductive invariant.
RulesIInv == Shape /\ EntriesAreTasks /\ CallsAreServed

\* Nothing is in flight at the start.
LEMMA InitIInv == RulesInit => RulesIInv
  BY EngineAssumption DEF RulesInit, LRU!Init, RulesIInv, Shape, EntriesAreTasks, CallsAreServed

\* The cache stays a function on the hosts.
LEMMA CacheShape ==
    ASSUME Shape,
           \/ UNCHANGED cache
           \/ LRU!Clear
           \/ \E h \in Host : \E r : LRU!Store(h, r)
           \/ \E h \in Host : LRU!Fetch(h)
    PROVE  cache' = [h \in Host |-> cache'[h]]
  BY Zenon DEF Shape, LRU!Clear, LRU!Store, LRU!Fetch

\* Replacing the rules touches no lookup.
LEMMA SetterStep ==
    ASSUME RulesIInv, NEW s \in Setter, ResetCache(s) \/ \E rules \in RuleLists : SetRules(s, rules)
    PROVE  RulesIInv'
  <1>1. cache' = [h \in Host |-> cache'[h]]
    BY Zenon, CacheShape DEF RulesIInv, ResetCache, SetRules, store
  <1> QED BY <1>1 DEF RulesIInv, Shape, EntriesAreTasks, CallsAreServed, ResetCache, SetRules, lookups, callers

\* A call that starts.
LEMMA ExecuteStep ==
    ASSUME RulesIInv, NEW c \in Connection, Execute(c)
    PROVE  RulesIInv'
  <1>1. HostOf[c] # Nil => HostOf[c] \in Host
    BY Zenon, EngineAssumption
  <1>2. cache' = [h \in Host |-> cache'[h]]
    BY Zenon, <1>1, CacheShape DEF RulesIInv, Execute, store
  <1> QED BY <1>1, <1>2 DEF RulesIInv, Shape, EntriesAreTasks, CallsAreServed, Execute, lookups

\* A call that joins or starts a lookup.
LEMMA JoinStep ==
    ASSUME RulesIInv, NEW c \in Connection, Join(c)
    PROVE  RulesIInv'
  <1>1. HostOf[c] \in Host /\ pc[c] = "missed" /\ c # Nil
    BY Zenon, EngineAssumption DEF RulesIInv, CallsAreServed, Join
  <1>2. pc' = [pc EXCEPT ![c] = "awaiting"] /\ UNCHANGED <<forwardingRules, cache, setter>>
    BY Zenon, <1>1 DEF Join, store, RulesIInv, EntriesAreTasks
  <1>3. CASE inFlightLookups[HostOf[c]] # Nil
    BY <1>1, <1>2, <1>3 DEF RulesIInv, Shape, EntriesAreTasks, CallsAreServed, Join, lookups
  <1>4. CASE inFlightLookups[HostOf[c]] = Nil
    <2>1. /\ joined' = [joined EXCEPT ![c] = c]
          /\ lookupTask' = [lookupTask EXCEPT ![c] = "started"]
          /\ inFlightLookups' = [inFlightLookups EXCEPT ![HostOf[c]] = c]
      BY Zenon, <1>4 DEF Join
    <2>2. Shape'
      BY Zenon, <1>1, <1>2, <2>1 DEF RulesIInv, Shape
    <2>3. EntriesAreTasks'
      BY <1>1, <1>4, <2>1, EngineAssumption DEF RulesIInv, Shape, EntriesAreTasks
    <2>4. CallsAreServed'
      BY Zenon, <1>1, <1>2, <2>1 DEF RulesIInv, Shape, CallsAreServed
    <2> QED BY Zenon, <2>2, <2>3, <2>4 DEF RulesIInv
  <1> QED BY Zenon, <1>3, <1>4

\* A lookup that goes on.
LEMMA WorkStep ==
    ASSUME RulesIInv, NEW c \in Connection, Evaluate(c) \/ SaveResult(c)
    PROVE  RulesIInv'
  <1>1. HostOf[c] \in Host
    BY Zenon DEF RulesIInv, EntriesAreTasks, Evaluate, SaveResult
  <1>2. cache' = [h \in Host |-> cache'[h]]
    BY Zenon, <1>1, CacheShape DEF RulesIInv, Evaluate, SaveResult, store
  <1> QED BY <1>2 DEF RulesIInv, Shape, EntriesAreTasks, CallsAreServed, Evaluate, SaveResult, callers

\* A lookup that returns, and a call that returns.
LEMMA FinishStep ==
    ASSUME RulesIInv, NEW c \in Connection, Finish(c) \/ ResumeCall(c)
    PROVE  RulesIInv'
  <1>1. CASE Finish(c)
    <2>1. HostOf[c] \in Host /\ inFlightLookups[HostOf[c]] = c /\ c # Nil
      BY Zenon, <1>1, EngineAssumption DEF RulesIInv, EntriesAreTasks, Finish
    <2>2. /\ inFlightLookups' = [inFlightLookups EXCEPT ![HostOf[c]] = Nil]
          /\ lookupTask' = [lookupTask EXCEPT ![c] = "none"]
          /\ pc' = [d \in Connection |-> IF pc[d] = "awaiting" /\ joined[d] = c THEN "answered"
                                         ELSE pc[d]]
          /\ UNCHANGED <<forwardingRules, cache, joined, setter>>
      BY Zenon, <1>1 DEF Finish, store
    <2>3. Shape'
      BY Zenon, <2>2 DEF RulesIInv, Shape
    <2>4. EntriesAreTasks'
      BY <2>1, <2>2 DEF RulesIInv, Shape, EntriesAreTasks
    <2>5. CallsAreServed'
      BY Zenon, <2>2 DEF RulesIInv, Shape, CallsAreServed
    <2> QED BY Zenon, <2>3, <2>4, <2>5 DEF RulesIInv
  <1>2. CASE ResumeCall(c)
    BY <1>2 DEF RulesIInv, Shape, EntriesAreTasks, CallsAreServed, ResumeCall, lookups, store
  <1> QED BY Zenon, <1>1, <1>2

\* Every step keeps the invariant.
LEMMA NextIInv == RulesIInv /\ [RulesNext]_rulesVars => RulesIInv'
  <1> SUFFICES ASSUME RulesIInv, [RulesNext]_rulesVars PROVE RulesIInv'
    BY Zenon
  <1>1. CASE UNCHANGED rulesVars
    BY Zenon, <1>1 DEF RulesIInv, Shape, EntriesAreTasks, CallsAreServed, rulesVars, store, lookups, callers, witnessed
  <1>2. CASE RulesNext
    BY Zenon, <1>2, SetterStep, ExecuteStep, JoinStep, WorkStep, FinishStep DEF RulesNext, Task, Call
  <1> QED BY Zenon, <1>1, <1>2

\* The inductive invariant holds in every reachable state.
LEMMA Invariance == RulesSpec => []RulesIInv
  BY InitIInv, NextIInv, PTL DEF RulesSpec

-----------------------------------------------------------------------------
(* What a lookup finds, and whom it is told.                               *)

\* A set of indices that is not empty has a least and a greatest element.
LEMMA LeastIndex ==
    ASSUME NEW n \in Nat, NEW S, S \subseteq 1 .. n, S # {}
    PROVE  /\ Min(S) \in S /\ \A i \in S : Min(S) <= i
           /\ Max(S) \in S
  <1>1. \E m \in S : \A i \in S : m <= i
    <2>1. S \subseteq Nat
      OBVIOUS
    <2>2. PICK m \in S : \A i \in S : ~(<<i, m>> \in OpToRel(<, Nat))
      BY Zenon, <2>1, NatLessThanWellFounded, WFMin
    <2>3. \A i \in S : ~(i < m)
      BY Zenon, <2>1, <2>2 DEF OpToRel
    <2> QED BY <2>1, <2>3
  <1>2. \E m \in S : \A i \in S : m >= i
    <2> DEFINE T == {n - i : i \in S}
    <2>0. \A i \in S : n - i \in Nat
      OBVIOUS
    <2>1. T \subseteq Nat /\ T # {}
      BY Zenon, <2>0
    <2> HIDE DEF T
    <2>2. PICK m \in T : \A i \in T : ~(<<i, m>> \in OpToRel(<, Nat))
      BY Zenon, <2>1, NatLessThanWellFounded, WFMin
    <2>3. \A i \in T : ~(i < m)
      BY Zenon, <2>1, <2>2 DEF OpToRel
    <2>4. PICK k \in S : m = n - k
      BY Zenon DEF T
    <2>5. \A i \in S : ~(n - i < n - k)
      BY Zenon, <2>3, <2>4 DEF T
    <2> QED BY <2>5
  <1> QED BY Zenon, <1>1, <1>2 DEF Min, Max

\* The loop over the rules finds the first match.
LEMMA LookupIsFirstMatch ==
    ASSUME NEW rules \in RuleLists \cup {<<>>}, NEW c \in Connection
    PROVE  IsFirstMatch(rules, c, Lookup(rules, c))
  <1> DEFINE hits == {i \in DOMAIN rules : Predicate[rules[i]][c] = "true"}
             finals == {i \in DOMAIN rules : rules[i] \in Final}
  <1>1. DOMAIN rules = 1 .. Len(rules) /\ Len(rules) \in Nat
    <2>1. rules \in Seq(Rule)
      <3>1. RuleLists \subseteq Seq(Rule) /\ <<>> \in Seq(Rule)
        BY EngineAssumption
      <3> QED BY Zenon, <3>1
    <2> QED BY <2>1
  <1>2. hits \subseteq 1 .. Len(rules) /\ finals \subseteq 1 .. Len(rules)
    BY Zenon, <1>1
  <1>3. CASE hits # {}
    <2>1. Min(hits) \in hits /\ \A i \in hits : Min(hits) <= i
      BY Zenon, <1>1, <1>2, <1>3, LeastIndex
    <2>2. Lookup(rules, c) = rules[Min(hits)]
      BY Zenon, <1>3 DEF Lookup
    <2> DEFINE m == Min(hits)
    <2>3. m \in DOMAIN rules /\ m \in Nat /\ Predicate[rules[m]][c] = "true"
      BY <1>1, <2>1
    <2>4. \A i \in hits : m <= i
      BY Zenon, <2>1
    <2> HIDE DEF m
    <2>5. \A j \in 1 .. m - 1 : j \in DOMAIN rules /\ ~(m <= j)
      BY <1>1, <2>3
    <2>6. \A j \in 1 .. m - 1 : Predicate[rules[j]][c] # "true"
      BY Zenon, <2>4, <2>5
    <2>7. Lookup(rules, c) = rules[m]
      BY Zenon, <2>2 DEF m
    <2> QED BY Zenon, <2>3, <2>6, <2>7 DEF IsFirstMatch
  <1>4. CASE hits = {} /\ finals # {}
    <2>1. Max(finals) \in finals
      BY Zenon, <1>1, <1>2, <1>4, LeastIndex
    <2>2. Lookup(rules, c) = rules[Max(finals)]
      BY Zenon, <1>4 DEF Lookup
    <2>3. \A i \in DOMAIN rules : Predicate[rules[i]][c] # "true"
      BY Zenon, <1>4
    <2> QED BY Zenon, <2>1, <2>2, <2>3 DEF IsFirstMatch
  <1>5. CASE hits = {} /\ finals = {}
    <2>1. Lookup(rules, c) = Builtin /\ Builtin \in Final
      BY Zenon, <1>5, EngineAssumption DEF Lookup
    <2>2. \A i \in DOMAIN rules : Predicate[rules[i]][c] # "true"
      BY Zenon, <1>5
    <2> QED BY Zenon, <2>1, <2>2 DEF IsFirstMatch
  <1> QED BY Zenon, <1>3, <1>4, <1>5

\* r is what a list that was in force during the call of c says of d.
Says(c, d, r) == \E rules \in inForce[c] : r = Lookup(rules, d)

\* What the call of c has seen of the rules, and what it is or will be told.
Told(c) ==
    /\ pc[c] \in {"missed", "awaiting"} => forwardingRules \in inForce[c]
    /\ pc[c] = "answered" => joined[c] \in Connection
    /\ pc[c] = "awaiting" /\ c \notin behind /\ lookupTask[joined[c]] \in {"evaluated", "saved"}
         => Says(c, joined[c], found[joined[c]])
    /\ pc[c] = "answered" /\ c \notin behind => Says(c, joined[c], report[c])

Current ==
    /\ inForce \in [Connection -> SUBSET (RuleLists \cup {<<>>})]
    /\ found = [c \in Connection |-> found[c]] /\ report = [c \in Connection |-> report[c]]
    /\ \A c \in Connection : Told(c)

\* A call that a step does not concern.
LEMMA Unmoved ==
    ASSUME NEW d \in Connection, Told(d), d \in behind' <=> d \in behind,
           pc'[d] = pc[d], joined'[d] = joined[d], report'[d] = report[d], inForce'[d] = inForce[d],
           UNCHANGED <<forwardingRules, lookupTask, found>>
    PROVE  Told(d)'
  <1>1. \A e, q : Says(d, e, q)' <=> Says(d, e, q)
    BY Zenon DEF Says
  <1> QED BY Zenon, <1>1 DEF Told

\* A call that has returned.
LEMMA Gone ==
    ASSUME NEW d \in Connection, pc'[d] = "idle"
    PROVE  Told(d)'
  BY DEF Told

\* Rules that are added to those in force take nothing away.
LEMMA CurrentSet ==
    ASSUME RulesIInv, Current, NEW s \in Setter, NEW rules \in RuleLists, SetRules(s, rules)
    PROVE  Current'
  <1>1. /\ inForce' = [c \in Connection |-> IF pc[c] = "idle" THEN {} ELSE inForce[c] \cup {rules}]
        /\ forwardingRules' = rules
        /\ UNCHANGED <<lookupTask, found, pc, joined, report, behind>>
    BY Zenon DEF SetRules, lookups, callers
  <1>2. inForce' \in [Connection -> SUBSET (RuleLists \cup {<<>>})]
    BY Zenon, <1>1 DEF Current, Told
  <1>3. \A c \in Connection : pc[c] # "idle" => inForce[c] \subseteq inForce'[c] /\ rules \in inForce'[c]
    BY Zenon, <1>1
  <1>4. \A c \in Connection : \A d, q : pc[c] # "idle" /\ Says(c, d, q) => Says(c, d, q)'
    BY Zenon, <1>3 DEF Says
  <1> QED BY Zenon, <1>1, <1>2, <1>3, <1>4 DEF Current, Told

\* A call that misses the cache has seen the rules of the moment.
LEMMA CurrentExecute ==
    ASSUME RulesIInv, Current, NEW c \in Connection, Execute(c)
    PROVE  Current'
  <1>1. /\ UNCHANGED <<forwardingRules, lookupTask, found, joined, report, behind>>
        /\ \/ UNCHANGED <<pc, inForce>>
           \/ /\ pc' = [pc EXCEPT ![c] = "missed"]
              /\ inForce' = [inForce EXCEPT ![c] = {forwardingRules}]
    BY Zenon DEF Execute, lookups
  <1>2. CASE UNCHANGED <<pc, inForce>>
    BY Zenon, <1>1, <1>2 DEF Current, Told, Says
  <1>3. CASE /\ pc' = [pc EXCEPT ![c] = "missed"]
             /\ inForce' = [inForce EXCEPT ![c] = {forwardingRules}]
    <2>1. inForce' \in [Connection -> SUBSET (RuleLists \cup {<<>>})]
      BY Zenon, <1>3 DEF Current, RulesIInv, Shape
    <2>2. pc'[c] = "missed" /\ forwardingRules \in inForce'[c]
      BY Zenon, <1>3 DEF Current, RulesIInv, Shape
    <2>3. \A d \in Connection : d # c => pc'[d] = pc[d] /\ inForce'[d] = inForce[d]
      BY Zenon, <1>3 DEF Current, RulesIInv, Shape
    <2>4. \A d \in Connection : d # c => Told(d)'
      BY Zenon, <1>1, <2>3, Unmoved DEF Current
    <2>5. Told(c)'
      BY <1>1, <2>2 DEF Told
    <2> QED BY Zenon, <1>1, <2>1, <2>4, <2>5 DEF Current
  <1> QED BY Zenon, <1>1, <1>2, <1>3

\* A call that joins a lookup is behind it, or will see it read the rules.
LEMMA CurrentJoin ==
    ASSUME RulesIInv, Current, NEW c \in Connection, Join(c)
    PROVE  Current'
  <1>1. HostOf[c] \in Host /\ pc[c] = "missed" /\ c # Nil
    BY Zenon, EngineAssumption DEF RulesIInv, CallsAreServed, Join
  <1> DEFINE other == inFlightLookups[HostOf[c]]
  <1>2. other # Nil => other \in Connection /\ lookupTask[other] # "none"
    BY <1>1 DEF RulesIInv, Shape, EntriesAreTasks
  <1>3. /\ pc' = [pc EXCEPT ![c] = "awaiting"] /\ report' = [report EXCEPT ![c] = report[c]]
        /\ UNCHANGED <<forwardingRules, inForce, found>>
        /\ behind' = IF other # Nil /\ lookupTask[other] \in {"evaluated", "saved"}
                     THEN behind \cup {c} ELSE behind
    BY Zenon, <1>2 DEF Join, lookups
  <1>4. \/ other # Nil /\ joined' = [joined EXCEPT ![c] = other] /\ lookupTask' = lookupTask
        \/ /\ other = Nil /\ joined' = [joined EXCEPT ![c] = c]
           /\ lookupTask' = [lookupTask EXCEPT ![c] = "started"]
    BY Zenon DEF Join, lookups
  <1> HIDE DEF other
  <1>5. \A d \in Connection : d # c =>
          /\ pc'[d] = pc[d] /\ joined'[d] = joined[d] /\ report'[d] = report[d]
          /\ d \in behind' <=> d \in behind
    BY Zenon, <1>3, <1>4 DEF RulesIInv, Shape, Current
  <1>6. pc'[c] = "awaiting" /\ forwardingRules \in inForce[c]
    BY Zenon, <1>1, <1>3 DEF RulesIInv, Shape, Current, Told
  <1>7. c \notin behind' => lookupTask'[joined'[c]] \notin {"evaluated", "saved"}
    <2>1. CASE other # Nil
      BY Zenon, <1>3, <1>4, <2>1 DEF RulesIInv, Shape
    <2>2. CASE other = Nil
      <3>1. joined'[c] = c /\ lookupTask'[c] = "started"
        BY Zenon, <1>4, <2>2 DEF RulesIInv, Shape
      <3> QED BY <3>1
    <2> QED BY Zenon, <2>1, <2>2
  <1>8. \A d \in Connection : lookupTask'[d] \in {"evaluated", "saved"} => lookupTask[d] = lookupTask'[d]
    BY Zenon, <1>4 DEF RulesIInv, Shape
  <1>9. report' = [d \in Connection |-> report'[d]]
    BY Zenon, <1>3 DEF Current, Told
  <1>10. ASSUME NEW d \in Connection, d # c
         PROVE  Told(d)'
    <2>1. pc[d] = "awaiting" => joined[d] \in Connection
      BY Zenon DEF RulesIInv, CallsAreServed
    <2>2. /\ pc'[d] = pc[d] /\ joined'[d] = joined[d] /\ report'[d] = report[d] /\ found' = found
          /\ d \in behind' <=> d \in behind
      BY Zenon, <1>3, <1>5, <1>10
    <2>3. /\ pc'[d] \in {"missed", "awaiting"} => forwardingRules' \in inForce'[d]
          /\ pc'[d] = "answered" => joined'[d] \in Connection
      BY Zenon, <1>3, <2>2 DEF Current, Told
    <2>4. ASSUME pc'[d] = "awaiting", d \notin behind', lookupTask'[joined'[d]] \in {"evaluated", "saved"}
          PROVE  Says(d, joined[d], found[joined[d]])'
      <3>1. lookupTask[joined[d]] \in {"evaluated", "saved"}
        BY Zenon, <1>8, <2>1, <2>2, <2>4
      <3>2. Says(d, joined[d], found[joined[d]])
        BY Zenon, <2>2, <2>4, <3>1 DEF Current, Told
      <3> QED BY Zenon, <1>3, <2>2, <3>2 DEF Says
    <2>5. ASSUME pc'[d] = "answered", d \notin behind' PROVE Says(d, joined[d], report[d])'
      <3>1. Says(d, joined[d], report[d])
        BY Zenon, <2>2, <2>5 DEF Current, Told
      <3> QED BY Zenon, <1>3, <2>2, <3>1 DEF Says
    <2> QED BY Zenon, <2>3, <2>4, <2>5 DEF Told
  <1> QED BY Zenon, <1>3, <1>6, <1>7, <1>9, <1>10 DEF Current, Told

\* A lookup reads rules that everyone who awaits it has seen in force.
LEMMA CurrentWork ==
    ASSUME RulesIInv, Current, NEW c \in Connection, Evaluate(c) \/ SaveResult(c)
    PROVE  Current'
  <1>1. /\ UNCHANGED <<forwardingRules, pc, joined, report, inForce, behind>>
        /\ \/ /\ found' = [found EXCEPT ![c] = Lookup(forwardingRules, c)]
              /\ lookupTask' = [lookupTask EXCEPT ![c] = "evaluated"]
           \/ /\ found' = found /\ lookupTask[c] = "evaluated"
              /\ lookupTask' = [lookupTask EXCEPT ![c] = "saved"]
    BY Zenon DEF Evaluate, SaveResult, callers, witnessed
  <1>2. /\ found' = [d \in Connection |-> found'[d]]
        /\ \A d \in Connection : d # c => found'[d] = found[d] /\ lookupTask'[d] = lookupTask[d]
        /\ found'[c] = Lookup(forwardingRules, c) \/ (found'[c] = found[c] /\ lookupTask[c] = "evaluated")
    BY Zenon, <1>1 DEF RulesIInv, Shape, Current
  <1>3. ASSUME NEW d \in Connection, pc[d] = "awaiting", d \notin behind,
               lookupTask'[joined[d]] \in {"evaluated", "saved"}
        PROVE  Says(d, joined[d], found'[joined[d]])
    <2>1. joined[d] \in Connection /\ forwardingRules \in inForce[d]
      BY Zenon, <1>3 DEF RulesIInv, CallsAreServed, Current, Told
    <2>2. CASE joined[d] = c /\ found'[c] = Lookup(forwardingRules, c)
      BY Zenon, <2>1, <2>2 DEF Says
    <2>3. CASE joined[d] # c \/ (found'[c] = found[c] /\ lookupTask[c] = "evaluated")
      BY Zenon, <1>2, <1>3, <2>1, <2>3 DEF Current, Told
    <2> QED BY Zenon, <1>2, <2>2, <2>3
  <1> QED BY Zenon, <1>1, <1>2, <1>3 DEF Current, Told, Says

\* A lookup tells everyone who awaits it what it found.
LEMMA CurrentFinish ==
    ASSUME RulesIInv, Current, NEW c \in Connection, Finish(c)
    PROVE  Current'
  <1>1. /\ UNCHANGED <<forwardingRules, joined, inForce, behind>>
        /\ lookupTask[c] = "saved" /\ lookupTask' = [lookupTask EXCEPT ![c] = "none"]
        /\ found' = [found EXCEPT ![c] = Nil]
        /\ pc' = [d \in Connection |-> IF pc[d] = "awaiting" /\ joined[d] = c THEN "answered" ELSE pc[d]]
        /\ report' = [d \in Connection |-> IF pc[d] = "awaiting" /\ joined[d] = c THEN found[c]
                                           ELSE report[d]]
    BY Zenon DEF Finish, witnessed
  <1>2. /\ found' = [d \in Connection |-> found'[d]] /\ report' = [d \in Connection |-> report'[d]]
        /\ \A d \in Connection : d # c => found'[d] = found[d] /\ lookupTask'[d] = lookupTask[d]
        /\ lookupTask'[c] = "none"
    BY Zenon, <1>1 DEF RulesIInv, Shape, Current
  <1>3. ASSUME NEW d \in Connection, pc[d] = "awaiting", joined[d] = c
        PROVE  /\ pc'[d] = "answered" /\ joined'[d] \in Connection
               /\ d \notin behind' => Says(d, joined[d], report[d])'
    BY Zenon, <1>1, <1>3 DEF Current, Told, Says
  <1>4. ASSUME NEW d \in Connection, ~(pc[d] = "awaiting" /\ joined[d] = c)
        PROVE  Told(d)'
    <2>1. pc[d] = "awaiting" => joined[d] \in Connection /\ joined[d] # c
      BY Zenon, <1>4 DEF RulesIInv, CallsAreServed
    <2>2. pc'[d] = pc[d] /\ report'[d] = report[d]
      BY Zenon, <1>1, <1>4
    <2>3. /\ pc'[d] \in {"missed", "awaiting"} => forwardingRules' \in inForce'[d]
          /\ pc'[d] = "answered" => joined'[d] \in Connection
      BY Zenon, <1>1, <2>2 DEF Current, Told
    <2>4. ASSUME pc'[d] = "awaiting", d \notin behind', lookupTask'[joined'[d]] \in {"evaluated", "saved"}
          PROVE  Says(d, joined[d], found[joined[d]])'
      <3>1. /\ lookupTask[joined[d]] \in {"evaluated", "saved"}
            /\ found'[joined[d]] = found[joined[d]]
        BY Zenon, <1>1, <1>2, <2>1, <2>2, <2>4
      <3>2. Says(d, joined[d], found[joined[d]])
        BY Zenon, <1>1, <2>2, <2>4, <3>1 DEF Current, Told
      <3> QED BY Zenon, <1>1, <3>1, <3>2 DEF Says
    <2>5. ASSUME pc'[d] = "answered", d \notin behind' PROVE Says(d, joined[d], report[d])'
      <3>1. Says(d, joined[d], report[d])
        BY Zenon, <1>1, <2>2, <2>5 DEF Current, Told
      <3> QED BY Zenon, <1>1, <2>2, <3>1 DEF Says
    <2> QED BY Zenon, <2>3, <2>4, <2>5 DEF Told
  <1> QED BY Zenon, <1>1, <1>2, <1>3, <1>4 DEF Current, Told

\* A call that returns leaves nothing behind.
LEMMA CurrentReturn ==
    ASSUME RulesIInv, Current, NEW c \in Connection, ResumeCall(c)
    PROVE  Current'
  <1>1. /\ UNCHANGED <<forwardingRules, lookupTask, found>>
        /\ pc' = [pc EXCEPT ![c] = "idle"] /\ joined' = [joined EXCEPT ![c] = Nil]
        /\ report' = [report EXCEPT ![c] = Nil]
        /\ inForce' = [inForce EXCEPT ![c] = {}] /\ behind' = behind \ {c}
    BY Zenon DEF ResumeCall, lookups
  <1>2. /\ inForce' \in [Connection -> SUBSET (RuleLists \cup {<<>>})]
        /\ report' = [d \in Connection |-> report'[d]]
        /\ pc'[c] = "idle"
    BY Zenon, <1>1 DEF RulesIInv, Shape, Current
  <1>3. \A d \in Connection : d # c =>
          /\ pc'[d] = pc[d] /\ joined'[d] = joined[d] /\ report'[d] = report[d]
          /\ inForce'[d] = inForce[d] /\ (d \in behind' <=> d \in behind)
    BY Zenon, <1>1 DEF RulesIInv, Shape, Current
  <1>4. \A d \in Connection : Told(d)'
    <2>1. Told(c)'
      BY Zenon, <1>2, Gone
    <2>2. ASSUME NEW d \in Connection, d # c PROVE Told(d)'
      <3>1. /\ pc'[d] = pc[d] /\ joined'[d] = joined[d] /\ report'[d] = report[d]
            /\ inForce'[d] = inForce[d] /\ (d \in behind' <=> d \in behind) /\ Told(d)
        BY Zenon, <1>3, <2>2 DEF Current
      <3> QED BY <1>1, <3>1, Unmoved
    <2> QED BY Zenon, <2>1, <2>2
  <1> QED BY Zenon, <1>1, <1>2, <1>4 DEF Current, Told

\* A host is looked up by one task at a time, and a call that awaits a lookup is told the
\* first match of rules in force during the call, unless it joined a task that had read
\* the rules already.
THEOREM LookupsShared == RulesSpec => []SharedLookups
  <1>1. RulesInit => Current
    BY DEF RulesInit, Current, Told
  <1>2. RulesIInv /\ Current /\ [RulesNext]_rulesVars => Current'
    <2> SUFFICES ASSUME RulesIInv, Current, [RulesNext]_rulesVars PROVE Current'
      BY Zenon
    <2>1. ASSUME NEW s \in Setter, ResetCache(s) PROVE Current'
      BY Zenon, <2>1 DEF Current, Told, Says, ResetCache, lookups, callers
    <2>2. CASE UNCHANGED rulesVars
      BY Zenon, <2>2 DEF Current, Told, Says, rulesVars, lookups, callers, witnessed
    <2> QED BY Zenon, <2>1, <2>2, CurrentSet, CurrentExecute, CurrentJoin, CurrentWork, CurrentFinish,
                CurrentReturn DEF RulesNext, Task, Call
  <1>3. RulesIInv /\ Current => SharedLookups
    <2> SUFFICES ASSUME RulesIInv, Current PROVE SharedLookups
      BY Zenon
    <2>1. OneLookupPerHost
      BY EngineAssumption DEF RulesIInv, EntriesAreTasks, OneLookupPerHost
    <2>2. ASSUME NEW c \in Connection, pc[c] = "answered", c \notin behind
          PROVE  \E rules \in inForce[c] : IsFirstMatch(rules, joined[c], report[c])
      <3>1. PICK rules \in inForce[c] : report[c] = Lookup(rules, joined[c])
        BY Zenon, <2>2 DEF Current, Told, Says
      <3>2. rules \in RuleLists \cup {<<>>} /\ joined[c] \in Connection
        BY Zenon, <2>2 DEF Current, Told
      <3> QED BY Zenon, <3>1, <3>2, LookupIsFirstMatch
    <2> QED BY Zenon, <2>1, <2>2 DEF SharedLookups
  <1> QED BY <1>1, <1>2, <1>3, Invariance, PTL DEF RulesSpec

\* No call awaits a task that has returned.
THEOREM NoLostAnswer == RulesSpec => []AwaitedTasksRun
  <1>1. RulesIInv => AwaitedTasksRun
    BY Zenon DEF RulesIInv, EntriesAreTasks, CallsAreServed, AwaitedTasksRun
  <1> QED BY <1>1, Invariance, PTL

-----------------------------------------------------------------------------

\* Rules that decide by the host find the same rule for connections to a host.
LEMMA SameHostSameRule ==
    ASSUME HostOnly, NEW rules \in RuleLists \cup {<<>>}, NEW c \in Connection, NEW d \in Connection,
           HostOf[c] = HostOf[d], HostOf[c] \in Host
    PROVE  Lookup(rules, c) = Lookup(rules, d)
  <1>1. HostOf[c] # Nil
    BY Zenon, EngineAssumption
  <1>2. \A i \in DOMAIN rules : rules[i] \in Rule
    <2>1. CASE rules = <<>>
      BY <2>1
    <2>2. CASE rules \in RuleLists
      BY <2>2, EngineAssumption
    <2> QED BY Zenon, <2>1, <2>2
  <1>3. {i \in DOMAIN rules : Predicate[rules[i]][c] = "true"}
          = {i \in DOMAIN rules : Predicate[rules[i]][d] = "true"}
    BY Zenon, <1>1, <1>2 DEF HostOnly
  <1> QED BY Zenon, <1>3 DEF Lookup

\* Saving a result leaves the entries of other hosts or evicts them.
LEMMA StoreFacts ==
    ASSUME Shape, NEW h \in Host, NEW r, LRU!Store(h, r), NEW g \in Host
    PROVE  cache'[g] \in {IF g = h THEN r ELSE cache[g], Nil}
  BY Zenon DEF Shape, LRU!Store

\* A step keeps OnlyLateIsStale.
LEMMA StaleStep ==
    ASSUME HostOnly, RulesIInv, OnlyLateIsStale, [RulesNext]_rulesVars
    PROVE  OnlyLateIsStale'
  <1> USE DEF RulesIInv
  <1> SUFFICES ASSUME \A s \in Setter : setter'[s] = "idle",
                      NEW h \in Host, cache'[h] # Nil,
                      NEW d \in Connection, HostOf[d] = h, cache'[h] # Lookup(forwardingRules', d)
               PROVE  h \in late'
    BY Zenon DEF OnlyLateIsStale, Stale
  <1> DEFINE Before == /\ \A s \in Setter : setter[s] = "idle"
                       /\ cache[h] = cache'[h] /\ forwardingRules = forwardingRules'
  <1>0. Before => h \in late
    BY Zenon DEF OnlyLateIsStale, Stale
  <1>1. ASSUME NEW s \in Setter, NEW rules \in RuleLists, SetRules(s, rules) PROVE FALSE
    BY Zenon, <1>1 DEF SetRules, Shape
  <1>2. ASSUME NEW s \in Setter, ResetCache(s) PROVE FALSE
    BY Zenon, <1>2 DEF ResetCache, LRU!Clear
  <1>3. ASSUME NEW c \in Connection, Execute(c) PROVE h \in late'
    <2>1. Before /\ late' = late
      BY Zenon, <1>3 DEF Execute, LRU!Fetch, store
    <2> QED BY Zenon, <1>0, <2>1
  <1>4. ASSUME NEW c \in Connection, Join(c) \/ Evaluate(c) \/ Finish(c) \/ ResumeCall(c)
        PROVE  h \in late'
    <2>1. Before /\ late' = late
      BY Zenon, <1>4 DEF Join, Evaluate, Finish, ResumeCall, store, witnessed
    <2> QED BY Zenon, <1>0, <2>1
  <1>5. ASSUME NEW c \in Connection, SaveResult(c) PROVE h \in late'
    <2>1. HostOf[c] \in Host
      BY Zenon, <1>5 DEF EntriesAreTasks, SaveResult
    <2>2. /\ LRU!Store(HostOf[c], found[c]) /\ UNCHANGED <<forwardingRules, setter>>
          /\ late' = IF found[c] = Lookup(forwardingRules, c) THEN late \ {HostOf[c]}
                     ELSE late \cup {HostOf[c]}
      BY Zenon, <1>5 DEF SaveResult
    <2>3. CASE h = HostOf[c]
      <3>1. cache'[h] = found[c]
        BY Zenon, <2>1, <2>2, <2>3, StoreFacts
      <3>2. Lookup(forwardingRules, c) = Lookup(forwardingRules, d)
        BY <2>1, <2>3, SameHostSameRule DEF Shape
      <3> QED BY Zenon, <2>2, <2>3, <3>1, <3>2
    <2>4. CASE h # HostOf[c]
      <3>1. cache'[h] = cache[h]
        BY <2>1, <2>2, <2>4, StoreFacts
      <3> QED BY Zenon, <1>0, <2>2, <2>4, <3>1
    <2> QED BY Zenon, <2>3, <2>4
  <1>6. CASE UNCHANGED rulesVars
    BY Zenon, <1>0, <1>6 DEF rulesVars, store, witnessed
  <1> QED BY Zenon, <1>1, <1>2, <1>3, <1>4, <1>5, <1>6 DEF RulesNext, Task, Call

\* When the rules decide by the host, the only stale results are those of
\* lookups that setForwardingRules overtook.
THEOREM StaleOnlyIfOvertaken ==
    ASSUME HostOnly
    PROVE  RulesSpec => []OnlyLateIsStale
  <1>1. RulesInit => OnlyLateIsStale
    BY DEF RulesInit, LRU!Init, OnlyLateIsStale
  <1>2. RulesIInv /\ OnlyLateIsStale /\ [RulesNext]_rulesVars => OnlyLateIsStale'
    BY Zenon, StaleStep
  <1> QED BY <1>1, <1>2, Invariance, PTL DEF RulesSpec
==============================================================================
