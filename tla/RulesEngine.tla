----------------------------- MODULE RulesEngine -----------------------------
(***************************************************************************)
(* DefaultRulesEngine of RulesEngine.swift: connections ask which rule     *)
(* applies to them, results are cached per host, concurrent lookups of one *)
(* host share a task, and the rules are replaced while lookups run.        *)
(* The result cache is used through what LRUCache promises (RecencyCache). *)
(***************************************************************************)
EXTENDS FiniteSetsExt, Integers, Sequences

CONSTANTS
    Connection, Host,
    HostOf,         \* HostOf[c]: the host c asks for, or Nil
    Rule, Final,    \* the rules, and those that are FinalForwardingRules
    Predicate,      \* Predicate[r][c] is "true", "false" or "throws"
    Builtin,        \* _FinalForwardingRule()
    RuleLists,      \* the lists setForwardingRules is called with
    Setter,         \* the tasks that call setForwardingRules
    Capacity,       \* of the cache: 100 in the code
    Nil

ASSUME EngineAssumption ==
    /\ Nil \notin Rule \cup Connection \cup Host
    /\ Builtin \in Final /\ Final \subseteq Rule
    /\ RuleLists \subseteq Seq(Rule)
    /\ HostOf \in [Connection -> Host \cup {Nil}]
    /\ Capacity \in Nat \ {0} /\ IsFiniteSet(Host)

VARIABLES
    forwardingRules,
    cache, order, cached,   \* the LRU cache, its recency order, its last answer
    inFlightLookups,        \* [Host -> Connection \cup {Nil}]: whose task looks the host up
    lookupTask,             \* the state of the task a connection created
    found,                  \* the rule that task found
    pc, joined,             \* executeAllRules of each connection; whose task it awaits
    report,                 \* the rule that task told it
    setter,                 \* setForwardingRules of each setter
    late,                   \* history: hosts cached by a lookup that rules overtook
    inForce,                \* history: the rule lists in force since a call began
    behind                  \* history: calls that joined a lookup which had read the rules

lookups == <<inFlightLookups, lookupTask, found>>
callers == <<pc, joined, report>>
store == <<cache, order, cached>>
witnessed == <<late, inForce, behind>>
rulesVars == <<forwardingRules, store, lookups, callers, setter, witnessed>>

LRU == INSTANCE RecencyCache WITH
         Key <- Host, Value <- Rule, NoValue <- Nil,
         content <- cache, older <- order, answer <- cached

RulesInit ==
    /\ forwardingRules = <<>>
    /\ LRU!Init
    /\ inFlightLookups = [h \in Host |-> Nil]
    /\ lookupTask = [c \in Connection |-> "none"]
    /\ found = [c \in Connection |-> Nil]
    /\ pc = [c \in Connection |-> "idle"]
    /\ joined = [c \in Connection |-> Nil]
    /\ report = [c \in Connection |-> Nil]
    /\ setter = [s \in Setter |-> "idle"]
    /\ late = {} /\ inForce = [c \in Connection |-> {}] /\ behind = {}

-----------------------------------------------------------------------------
(* setForwardingRules                                                      *)

SetRules(s, rules) ==
    /\ setter[s] = "idle"
    /\ forwardingRules' = rules
    /\ setter' = [setter EXCEPT ![s] = "changed"]
    /\ inForce' = [c \in Connection |-> IF pc[c] = "idle" THEN {} ELSE inForce[c] \cup {rules}]
    /\ UNCHANGED <<store, lookups, callers, late, behind>>

\* Mutant: the cache is not reset.
ResetCacheNot(s) ==
    /\ setter[s] = "changed"
    /\ setter' = [setter EXCEPT ![s] = "idle"]
    /\ UNCHANGED <<forwardingRules, store, lookups, callers, witnessed>>

\* "ForwardingRules has changed, we should reset cache."
ResetCache(s) ==
    /\ setter[s] = "changed"
    /\ LRU!Clear
    /\ late' = {}
    /\ setter' = [setter EXCEPT ![s] = "idle"]
    /\ UNCHANGED <<forwardingRules, lookups, callers, inForce, behind>>

-----------------------------------------------------------------------------
(* executeAllRules                                                         *)

\* A call without a host returns the builtin rule, and one whose host is cached returns
\* what the cache answers: both at once, so that nothing of the call is left.
Execute(c) ==
    /\ pc[c] = "idle"
    /\ \/ /\ HostOf[c] = Nil
          /\ UNCHANGED <<store, pc, inForce>>
       \/ /\ HostOf[c] # Nil
          /\ LRU!Fetch(HostOf[c])
          /\ \/ cached' # Nil /\ UNCHANGED <<pc, inForce>>
             \/ /\ cached' = Nil
                /\ pc' = [pc EXCEPT ![c] = "missed"]
                /\ inForce' = [inForce EXCEPT ![c] = {forwardingRules}]
    /\ UNCHANGED <<forwardingRules, lookups, joined, report, setter, late, behind>>

\* Share the lookup in flight, or start one, under the Mutex, and await its value.  A task
\* that has returned would give its value at once.
Join(c) ==
    /\ pc[c] = "missed"
    /\ LET other == inFlightLookups[HostOf[c]]
           returned == other # Nil /\ lookupTask[other] = "none"
       IN  /\ \/ /\ other # Nil
                 /\ joined' = [joined EXCEPT ![c] = other]
                 /\ UNCHANGED lookups
              \/ /\ other = Nil
                 /\ joined' = [joined EXCEPT ![c] = c]
                 /\ lookupTask' = [lookupTask EXCEPT ![c] = "started"]
                 /\ inFlightLookups' = [inFlightLookups EXCEPT ![HostOf[c]] = c]
                 /\ UNCHANGED found
           /\ behind' = IF other # Nil /\ lookupTask[other] \in {"evaluated", "saved"}
                        THEN behind \cup {c} ELSE behind
           /\ pc' = [pc EXCEPT ![c] = IF returned THEN "answered" ELSE "awaiting"]
           /\ report' = [report EXCEPT ![c] = IF returned THEN found[other] ELSE @]
    /\ UNCHANGED <<forwardingRules, store, setter, late, inForce>>

\* The loop over the rules: the first whose predicate holds, one that throws
\* does not count; else the last final rule, else the builtin one.
Lookup(rules, c) ==
    LET hits == {i \in DOMAIN rules : Predicate[rules[i]][c] = "true"}
        finals == {i \in DOMAIN rules : rules[i] \in Final}
    IN  IF hits # {} THEN rules[Min(hits)]
        ELSE IF finals # {} THEN rules[Max(finals)] ELSE Builtin

\* The task of c takes the rules and evaluates them.
Evaluate(c) ==
    /\ lookupTask[c] = "started"
    /\ found' = [found EXCEPT ![c] = Lookup(forwardingRules, c)]
    /\ lookupTask' = [lookupTask EXCEPT ![c] = "evaluated"]
    /\ UNCHANGED <<forwardingRules, store, inFlightLookups, callers, setter, witnessed>>

\* cache.setValue
SaveResult(c) ==
    /\ lookupTask[c] = "evaluated"
    /\ LRU!Store(HostOf[c], found[c])
    /\ late' = IF found[c] = Lookup(forwardingRules, c) THEN late \ {HostOf[c]}
               ELSE late \cup {HostOf[c]}
    /\ lookupTask' = [lookupTask EXCEPT ![c] = "saved"]
    /\ UNCHANGED <<forwardingRules, inFlightLookups, found, callers, setter, inForce, behind>>

\* Mutant: the task does not withdraw its entry.
FinishKeepsEntry(c) ==
    /\ lookupTask[c] = "saved"
    /\ pc' = [d \in Connection |-> IF pc[d] = "awaiting" /\ joined[d] = c THEN "answered" ELSE pc[d]]
    /\ report' = [d \in Connection |-> IF pc[d] = "awaiting" /\ joined[d] = c THEN found[c]
                                       ELSE report[d]]
    /\ lookupTask' = [lookupTask EXCEPT ![c] = "none"]
    /\ UNCHANGED <<forwardingRules, store, inFlightLookups, found, joined, setter, witnessed>>

\* The task withdraws its entry and returns to all who await it.
Finish(c) ==
    /\ lookupTask[c] = "saved"
    /\ inFlightLookups' = [inFlightLookups EXCEPT ![HostOf[c]] = Nil]
    /\ pc' = [d \in Connection |-> IF pc[d] = "awaiting" /\ joined[d] = c THEN "answered" ELSE pc[d]]
    /\ report' = [d \in Connection |-> IF pc[d] = "awaiting" /\ joined[d] = c THEN found[c]
                                       ELSE report[d]]
    /\ lookupTask' = [lookupTask EXCEPT ![c] = "none"]
    /\ found' = [found EXCEPT ![c] = Nil]
    /\ UNCHANGED <<forwardingRules, store, joined, setter, witnessed>>

\* `await task.value` has returned, and so does the call.
ResumeCall(c) ==
    /\ pc[c] = "answered"
    /\ pc' = [pc EXCEPT ![c] = "idle"]
    /\ joined' = [joined EXCEPT ![c] = Nil]
    /\ report' = [report EXCEPT ![c] = Nil]
    /\ inForce' = [inForce EXCEPT ![c] = {}] /\ behind' = behind \ {c}
    /\ UNCHANGED <<forwardingRules, store, lookups, setter, late>>

Task(c) == Evaluate(c) \/ SaveResult(c) \/ Finish(c)
Call(c) == Join(c) \/ ResumeCall(c)

RulesNext ==
    \/ \E s \in Setter : ResetCache(s) \/ \E rules \in RuleLists : SetRules(s, rules)
    \/ \E c \in Connection : Execute(c) \/ Call(c) \/ Task(c)

RulesSpec == RulesInit /\ [][RulesNext]_rulesVars


-----------------------------------------------------------------------------

\* The rules decide by the host alone (domain, keyword, suffix and set rules do;
\* process rules and, through the resolved addresses, IP rules do not).
HostOnly ==
    \A c, d \in Connection : HostOf[c] = HostOf[d] /\ HostOf[c] # Nil
      => \A r \in Rule : Predicate[r][c] = Predicate[r][d]

\* Every variable has its type.
RulesTypeOK ==
    /\ forwardingRules \in RuleLists \cup {<<>>}
    /\ cache \in [Host -> Rule \cup {Nil}]
    /\ inFlightLookups \in [Host -> Connection \cup {Nil}]
    /\ lookupTask \in [Connection -> {"none", "started", "evaluated", "saved"}]
    /\ found \in [Connection -> Rule \cup {Nil}]
    /\ pc \in [Connection -> {"idle", "missed", "awaiting", "answered"}]
    /\ joined \in [Connection -> Connection \cup {Nil}]
    /\ report \in [Connection -> Rule \cup {Nil}]
    /\ setter \in [Setter -> {"idle", "changed"}]
    /\ late \subseteq Host /\ behind \subseteq Connection
    /\ inForce \in [Connection -> SUBSET (RuleLists \cup {<<>>})]

Stale(h) == \E c \in Connection : HostOf[c] = h /\ cache[h] # Lookup(forwardingRules, c)

\* setForwardingRules: "ForwardingRules has changed, we should reset cache."
\* Once no call of it is in progress, the cache holds results of the new rules.
CacheReset ==
    (\A s \in Setter : setter[s] = "idle") => \A h \in Host : cache[h] # Nil => ~Stale(h)

\* What is left of CacheReset in the code: a stale entry is one that a lookup
\* saved after the rules it had evaluated were replaced.
OnlyLateIsStale ==
    (\A s \in Setter : setter[s] = "idle")
      => \A h \in Host : cache[h] # Nil /\ Stale(h) => h \in late

\* "concurrent identical lookups share one operation": two tasks never look up
\* the same host, also when one of them has already saved its result.
OneLookupPerHost ==
    \A c, d \in Connection :
      lookupTask[c] # "none" /\ lookupTask[d] # "none" /\ HostOf[c] = HostOf[d] => c = d

\* Nobody waits for a task that has returned, and a task that can be joined runs.
AwaitedTasksRun ==
    /\ \A c \in Connection : pc[c] = "awaiting" => lookupTask[joined[c]] # "none"
    /\ \A h \in Host : inFlightLookups[h] # Nil =>
         lookupTask[inFlightLookups[h]] # "none" /\ HostOf[inFlightLookups[h]] = h

\* r is what the rules say of c: the first rule c satisfies, else a final rule.
IsFirstMatch(rules, c, r) ==
    \/ \E i \in DOMAIN rules :
         /\ rules[i] = r /\ Predicate[r][c] = "true"
         /\ \A j \in 1 .. i - 1 : Predicate[rules[j]][c] # "true"
    \/ /\ \A i \in DOMAIN rules : Predicate[rules[i]][c] # "true"
       /\ r \in Final /\ (r = Builtin \/ \E i \in DOMAIN rules : rules[i] = r)

\* "Keep in-flight rule lookup tasks so concurrent identical lookups share one operation."
\* A host is looked up by one task at a time, and sharing it does not bring back rules that
\* were replaced: the answer of a lookup is the first match of rules that were in force
\* during the call, whatever was cached, evicted, looked up or replaced before it.  The
\* exception is a call that joins a task which had read the rules already: it is told
\* what that task found, also when setForwardingRules has returned in between.
SharedLookups ==
    /\ OneLookupPerHost
    /\ \A c \in Connection : pc[c] = "answered" /\ c \notin behind =>
         \E rules \in inForce[c] : IsFirstMatch(rules, joined[c], report[c])
==============================================================================
