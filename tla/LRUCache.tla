------------------------------ MODULE LRUCache -------------------------------
(***************************************************************************)
(* NetbotDNS/LRUCache.swift: a dictionary of nodes under a Mutex, and the  *)
(* same nodes in a doubly linked list whose head is the entry used last.   *)
(* A node is named by its key: the dictionary holds at most one node per   *)
(* key and nothing else keeps a removed node alive.                        *)
(*                                                                         *)
(* Every operation runs inside one critical section and is one action,     *)
(* except the walks (forEach, first(where:)), which run a caller's closure *)
(* on each node: a walk takes one step per node and holds the Mutex.       *)
(***************************************************************************)
EXTENDS FiniteSets, Naturals, Recency

CONSTANTS Key, Value, Capacity,
    Nil         \* the absent node, and the absent value

ASSUME CapacityAssumption == Capacity \in Nat

ASSUME KeyAssumption == IsFiniteSet(Key) /\ Nil \notin Key \cup Value

VARIABLES
    value,      \* _represention: value[k] is the value of k's node, or Nil
    head, tail, \* the ends of the list
    next, prev, \* the links of each node
    locked,     \* a walk holds the Mutex ...
    cursor,     \* ... and is about to look at this node ...
    wanted,     \* ... for an entry that satisfies the predicate
    answer,     \* what the last finished operation returned
    older       \* history: the recency order of the keys in the dictionary

links == <<head, tail, next, prev>>
walk == <<locked, cursor, wanted>>
lruVars == <<value, links, walk, answer>>

Represention == {k \in Key : value[k] # Nil}

LRUInit ==
    /\ value = [k \in Key |-> Nil]
    /\ head = Nil /\ tail = Nil
    /\ next = [k \in Key |-> Nil] /\ prev = [k \in Key |-> Nil]
    /\ locked = FALSE /\ cursor = Nil /\ wanted = {}
    /\ answer = Nil

-----------------------------------------------------------------------------
(* The list primitives take and return [head, tail, next, prev].           *)

List == [head |-> head, tail |-> tail, next |-> next, prev |-> prev]

Remove(l, n) ==
    LET p == l.prev[n]
        q == l.next[n]
    IN  [head |-> IF n = l.head THEN q ELSE l.head,
         tail |-> IF n = l.tail THEN p ELSE l.tail,
         next |-> [k \in Key |-> IF k = p THEN q ELSE l.next[k]],
         prev |-> [k \in Key |-> IF k = q THEN p ELSE l.prev[k]]]

Prepend(l, n) ==
    [head |-> n,
     tail |-> IF l.tail = Nil THEN n ELSE l.tail,
     next |-> [l.next EXCEPT ![n] = l.head],
     prev |-> [k \in Key |-> IF k = l.head THEN n
                             ELSE IF k = n THEN Nil ELSE l.prev[k]]]

MoveToHead(l, n) == IF n = l.head THEN l ELSE Prepend(Remove(l, n), n)

SetList(l) ==
    /\ head' = l.head /\ tail' = l.tail
    /\ next' = l.next /\ prev' = l.prev

-----------------------------------------------------------------------------
(* The operations.                                                         *)

\* setValue(_:forKey:) on a key that has a node.
UpdateValue(k, v) ==
    /\ value' = [value EXCEPT ![k] = v]
    /\ SetList(MoveToHead(List, k))

\* setValue(_:forKey:) on a new key; the last node goes if there is one too many.
InsertValue(k, v) ==
    LET inserted == Prepend(List, k)
        stored == [value EXCEPT ![k] = v]
        last == inserted.tail
    IN  IF Cardinality(Represention \cup {k}) > Capacity /\ last # Nil
        THEN /\ value' = [stored EXCEPT ![last] = Nil]
             /\ SetList(Remove(inserted, last))
        ELSE /\ value' = stored
             /\ SetList(inserted)

SetValue(k, v) ==
    /\ ~locked
    /\ \/ k \in Represention /\ UpdateValue(k, v)
       \/ k \notin Represention /\ InsertValue(k, v)
    /\ answer' = Nil
    /\ UNCHANGED walk

\* removeValue(forKey:), also reached by setValue(nil, forKey:).
RemoveValue(k) ==
    /\ ~locked
    /\ answer' = value[k]
    /\ \/ /\ k \in Represention
          /\ value' = [value EXCEPT ![k] = Nil]
          /\ SetList(Remove(List, k))
       \/ k \notin Represention /\ UNCHANGED <<value, links>>
    /\ UNCHANGED walk

\* Mutant: a read does not move the node (first in, first out).
FetchValueNoMove(k) == ~locked /\ answer' = value[k] /\ UNCHANGED <<value, links, walk>>

\* value(forKey:)
FetchValue(k) ==
    /\ ~locked
    /\ answer' = value[k]
    /\ \/ k \in Represention /\ SetList(MoveToHead(List, k))
       \/ k \notin Represention /\ UNCHANGED links
    /\ UNCHANGED <<value, walk>>

RemoveAllValues ==
    /\ ~locked
    /\ value' = [k \in Key |-> Nil]
    /\ head' = Nil /\ tail' = Nil
    /\ answer' = Nil
    /\ UNCHANGED <<next, prev, walk>>

\* first(where:) takes the lock; forEach is the walk that wants no entry.
First(keys) ==
    /\ ~locked
    /\ locked' = TRUE /\ cursor' = head /\ wanted' = keys
    /\ UNCHANGED <<value, links, answer>>

\* One round of the loop, and the return from it.
FirstStep ==
    /\ locked
    /\ \/ /\ cursor # Nil /\ cursor \notin wanted
          /\ cursor' = next[cursor]
          /\ UNCHANGED <<locked, wanted, answer>>
       \/ /\ cursor = Nil \/ cursor \in wanted
          /\ answer' = cursor
          /\ locked' = FALSE /\ cursor' = Nil /\ wanted' = {}
    /\ UNCHANGED <<value, links>>

LRUNext ==
    \/ \E k \in Key, v \in Value : SetValue(k, v)
    \/ \E k \in Key : RemoveValue(k) \/ FetchValue(k)
    \/ RemoveAllValues
    \/ \E keys \in SUBSET Key : First(keys)
    \/ FirstStep

LRUSpec == LRUInit /\ [][LRUNext]_lruVars

-----------------------------------------------------------------------------
(* The operations with the history: the order in which the live keys were  *)
(* last used.  It names what the linked list is there to represent, and is *)
(* the refinement mapping to RecencyCache.                                 *)

hvars == <<lruVars, older>>

HInit == LRUInit /\ older = NoRecency(Key)

HSetValue(k, v) ==
    /\ SetValue(k, v)
    /\ LET live == Represention \cup {k}
           order == Touch(older, live, k)
           gone == live \ Represention'
       IN  older' = [a \in Key |-> IF a \in gone THEN {} ELSE order[a] \ gone]

HRemoveValue(k) == RemoveValue(k) /\ older' = Forget(older, k)

HFetchValue(k) ==
    /\ FetchValue(k)
    /\ older' = IF k \in Represention THEN Touch(older, Represention, k) ELSE older

HRemoveAllValues == RemoveAllValues /\ older' = NoRecency(Key)

HFirst(keys) == First(keys) /\ UNCHANGED older

HFirstStep == FirstStep /\ UNCHANGED older

HNext ==
    \/ \E k \in Key, v \in Value : HSetValue(k, v)
    \/ \E k \in Key : HRemoveValue(k) \/ HFetchValue(k)
    \/ HRemoveAllValues
    \/ \E keys \in SUBSET Key : HFirst(keys)
    \/ HFirstStep

HSpec == HInit /\ [][HNext]_hvars

-----------------------------------------------------------------------------

\* Every variable has its type.
LRUTypeOK ==
    /\ value \in [Key -> Value \cup {Nil}]
    /\ head \in Key \cup {Nil} /\ tail \in Key \cup {Nil}
    /\ next \in [Key -> Key \cup {Nil}] /\ prev \in [Key -> Key \cup {Nil}]
    /\ locked \in BOOLEAN /\ cursor \in Key \cup {Nil} /\ wanted \in SUBSET Key
    /\ older \in [Key -> SUBSET Key]

\* l is the list of the live keys in the order older, linked in both directions.
Represents(l, order, live) ==
    /\ IsRecency(order, live)
    /\ l.head = Nil <=> live = {}
    /\ l.tail = Nil <=> live = {}
    /\ l.head # Nil => IsNewest(order, live, l.head)
    /\ l.tail # Nil => IsOldest(order, live, l.tail)
    /\ \A a \in live :
         /\ l.next[a] = Nil <=> IsOldest(order, live, a)
         /\ l.prev[a] = Nil <=> IsNewest(order, live, a)
         /\ l.next[a] # Nil => /\ l.next[a] \in live
                               /\ Adjacent(order, live, a, l.next[a])
         /\ l.prev[a] # Nil => /\ l.prev[a] \in live
                               /\ Adjacent(order, live, l.prev[a], a)

\* The linked list of LRUCache.swift is the recency order of the dictionary's
\* keys, read in both directions: head is the key used last, tail the key used
\* longest ago, and next and prev join neighbours of the order.  A wrong link
\* after remove, prepend or moveToHead breaks it, at times several operations
\* before a wrong key is evicted.
ListIsRecency == Represents(List, older, Represention)

\* setValue never leaves more than `capacity` values in the dictionary.
WithinCapacity == Cardinality(Represention) <= Capacity

\* While first(where:) walks the list, every entry it has passed was refused by
\* the predicate, and the passed entries are exactly those used after the cursor:
\* the walk skips nothing, and what it returns is the newest match.
WalkSkipsNothing ==
    locked => /\ cursor # Nil => cursor \in Represention
              /\ \A k \in Represention :
                   (cursor = Nil \/ cursor \in older[k]) => k \notin wanted

\* The inductive invariant.
LRUIInv == LRUTypeOK /\ ListIsRecency /\ WithinCapacity /\ WalkSkipsNothing

\* LRUCache.swift is a recency cache: it answers every call as the map does that
\* forgets the entry used longest ago.  (A walk is a stutter until it returns.)
Promised == INSTANCE RecencyCache WITH content <- value, NoValue <- Nil

ImplementsRecencyCache == Promised!Spec
==============================================================================
