-------------------------- MODULE CollectionsProofs --------------------------
(***************************************************************************)
(* Proofs about the DNS cache's store and the address pool.                *)
(*                                                                         *)
(* LRUCache, for every set of keys, every set of values and every          *)
(* capacity.  The argument: Remove, Prepend and MoveToHead take a list     *)
(* that represents a recency order to one that represents the order        *)
(* without, or refreshed by, the node; so every operation keeps the list   *)
(* the recency order of the dictionary's keys, and the node at the tail,   *)
(* which setValue evicts, is the key used longest ago.                     *)
(*                                                                         *)
(* AvailableIPPool, for any number of callers and any pool: as long as no  *)
(* call is overtaken by as many increments as the pool has usable          *)
(* addresses, concurrent calls return neither bound, and one caller at a   *)
(* time restarts the pool.                                                 *)
(***************************************************************************)
EXTENDS LRUCache, AvailableIPPool, FiniteSetTheorems, TLAPS

Lists == [head : Key \cup {Nil}, tail : Key \cup {Nil},
          next : [Key -> Key \cup {Nil}], prev : [Key -> Key \cup {Nil}]]

\* Taking out a node leaves the list of the remaining keys.
LEMMA RemoveRepresents ==
    ASSUME NEW l \in Lists, NEW order \in [Key -> SUBSET Key], NEW live \in SUBSET Key,
           NEW n \in live,
           Represents(l, order, live)
    PROVE  /\ Remove(l, n) \in Lists
           /\ Represents(Remove(l, n), Forget(order, n), live \ {n})
  <1> DEFINE f == Forget(order, n)
             p == l.prev[n]
             q == l.next[n]
             r == Remove(l, n)
  <1>0. Nil \notin Key
    BY Zenon, KeyAssumption
  <1>1. /\ IsRecency(order, live)
        /\ p \in Key \cup {Nil} /\ q \in Key \cup {Nil}
    BY Zenon DEF Represents, Lists
  <1>2. /\ \A a \in Key \ {n} : f[a] = order[a] \ {n}
        /\ f[n] = {}
        /\ f \in [Key -> SUBSET Key]
    BY Zenon DEF Forget
  <1>3. /\ r.head = IF n = l.head THEN q ELSE l.head
        /\ r.tail = IF n = l.tail THEN p ELSE l.tail
        /\ \A k \in Key : r.next[k] = IF k = p THEN q ELSE l.next[k]
        /\ \A k \in Key : r.prev[k] = IF k = q THEN p ELSE l.prev[k]
    BY Zenon DEF Remove
  <1>4. r \in Lists
    BY Zenon, <1>1 DEF Remove, Lists
  <1> HIDE DEF f, r
  <1>5. IsRecency(f, live \ {n})
    BY <1>1, <1>2 DEF IsRecency
  <1>6. \A a \in live : /\ a # n => (n \in order[a] \/ a \in order[n])
                        /\ ~(n \in order[a] /\ a \in order[n])
    BY Zenon, <1>1 DEF IsRecency
  <1>7. /\ q = Nil <=> IsOldest(order, live, n)
        /\ p = Nil <=> IsNewest(order, live, n)
        /\ q # Nil => q \in live \ {n} /\ Adjacent(order, live, n, q)
        /\ p # Nil => p \in live \ {n} /\ Adjacent(order, live, p, n)
    BY <1>1 DEF Represents, Adjacent, IsRecency
  <1>8. \A a \in live \ {n} : l.next[a] = n <=> a = p
    BY <1>0, <1>1, <1>6, <1>7 DEF Represents, Adjacent, IsRecency, IsNewest, IsOldest
  <1>9. \A a \in live \ {n} : l.prev[a] = n <=> a = q
    BY <1>0, <1>1, <1>6, <1>7 DEF Represents, Adjacent, IsRecency, IsNewest, IsOldest
  <1>10. ASSUME NEW a \in live \ {n}
         PROVE  /\ r.next[a] = Nil <=> IsOldest(f, live \ {n}, a)
                /\ r.next[a] # Nil => /\ r.next[a] \in live \ {n}
                                      /\ Adjacent(f, live \ {n}, a, r.next[a])
    <2>1. CASE a = p
      BY <2>1, <1>0, <1>1, <1>2, <1>3, <1>6, <1>7 DEF Adjacent, IsRecency, IsOldest
    <2>2. CASE a # p
      BY <2>2, <1>0, <1>1, <1>2, <1>3, <1>6, <1>7, <1>8
      DEF Represents, Adjacent, IsRecency, IsNewest, IsOldest
    <2> QED BY Zenon, <2>1, <2>2
  <1>11. ASSUME NEW a \in live \ {n}
         PROVE  /\ r.prev[a] = Nil <=> IsNewest(f, live \ {n}, a)
                /\ r.prev[a] # Nil => /\ r.prev[a] \in live \ {n}
                                      /\ Adjacent(f, live \ {n}, r.prev[a], a)
    <2>1. CASE a = q
      BY <2>1, <1>0, <1>1, <1>2, <1>3, <1>6, <1>7 DEF Adjacent, IsRecency, IsNewest
    <2>2. CASE a # q
      BY <2>2, <1>0, <1>1, <1>2, <1>3, <1>6, <1>7, <1>9
      DEF Represents, Adjacent, IsRecency, IsNewest, IsOldest
    <2> QED BY Zenon, <2>1, <2>2
  <1>12. /\ r.head = Nil <=> live \ {n} = {}
         /\ r.head # Nil => IsNewest(f, live \ {n}, r.head)
    BY <1>0, <1>1, <1>2, <1>3, <1>6, <1>7 DEF Represents, Adjacent, IsRecency, IsNewest, IsOldest
  <1>13. /\ r.tail = Nil <=> live \ {n} = {}
         /\ r.tail # Nil => IsOldest(f, live \ {n}, r.tail)
    BY <1>0, <1>1, <1>2, <1>3, <1>6, <1>7 DEF Represents, Adjacent, IsRecency, IsNewest, IsOldest
  <1>14. Represents(r, f, live \ {n})
    BY Zenon, <1>5, <1>10, <1>11, <1>12, <1>13 DEF Represents
  <1> QED BY Zenon, <1>4, <1>14 DEF f, r

\* Prepending a new node gives the list of the keys with that one in front.
LEMMA PrependRepresents ==
    ASSUME NEW l \in Lists, NEW order \in [Key -> SUBSET Key], NEW live \in SUBSET Key,
           NEW n \in Key \ live, Represents(l, order, live)
    PROVE  /\ Prepend(l, n) \in Lists
           /\ Represents(Prepend(l, n), Touch(order, live \cup {n}, n), live \cup {n})
  <1> DEFINE f == Touch(order, live \cup {n}, n)
             r == Prepend(l, n)
  <1>0. Nil \notin Key
    BY Zenon, KeyAssumption
  <1>1. IsRecency(order, live)
    BY Zenon DEF Represents
  <1>2. /\ f \in [Key -> SUBSET Key]
        /\ f[n] = live
        /\ \A a \in Key \ {n} : f[a] = order[a]
    <2>1. (live \cup {n}) \ {n} = live
      BY Zenon
    <2>2. \A a \in Key : order[a] \ {n} = order[a]
      BY <1>1 DEF IsRecency
    <2> QED BY Zenon, <2>1, <2>2 DEF Touch
  <1>3. /\ r.head = n
        /\ r.tail = IF l.tail = Nil THEN n ELSE l.tail
        /\ r.next[n] = l.head
        /\ \A k \in live : r.next[k] = l.next[k]
        /\ r.prev[n] = IF n = l.head THEN n ELSE Nil
        /\ \A k \in live : r.prev[k] = IF k = l.head THEN n ELSE l.prev[k]
    BY Zenon DEF Prepend, Lists
  <1>4. r \in Lists
    BY Zenon DEF Prepend, Lists
  <1>5. l.head # Nil => l.head \in live /\ IsNewest(order, live, l.head)
    BY Zenon DEF Represents, IsNewest
  <1> HIDE DEF f, r
  <1>6. IsRecency(f, live \cup {n})
    BY <1>1, <1>2 DEF IsRecency
  <1>7. /\ r.next[n] = Nil <=> IsOldest(f, live \cup {n}, n)
        /\ r.prev[n] = Nil /\ IsNewest(f, live \cup {n}, n)
        /\ r.next[n] # Nil => /\ r.next[n] \in live \cup {n}
                              /\ Adjacent(f, live \cup {n}, n, r.next[n])
    BY <1>0, <1>1, <1>2, <1>3, <1>5 DEF Represents, Adjacent, IsRecency, IsNewest, IsOldest
  <1>8. ASSUME NEW a \in live
        PROVE  /\ r.next[a] = Nil <=> IsOldest(f, live \cup {n}, a)
               /\ r.next[a] # Nil => /\ r.next[a] \in live \cup {n}
                                     /\ Adjacent(f, live \cup {n}, a, r.next[a])
    BY <1>0, <1>1, <1>2, <1>3 DEF Represents, Adjacent, IsRecency, IsOldest
  <1>9. ASSUME NEW a \in live
        PROVE  /\ r.prev[a] # Nil /\ ~IsNewest(f, live \cup {n}, a)
               /\ r.prev[a] \in live \cup {n}
               /\ Adjacent(f, live \cup {n}, r.prev[a], a)
    <2>1. CASE a = l.head
      BY <2>1, <1>0, <1>1, <1>2, <1>3, <1>5 DEF Adjacent, IsRecency, IsNewest
    <2>2. CASE a # l.head
      BY <2>2, <1>0, <1>1, <1>2, <1>3, <1>5 DEF Represents, Adjacent, IsRecency, IsNewest
    <2> QED BY Zenon, <2>1, <2>2
  <1>10. /\ r.tail # Nil
         /\ IsOldest(f, live \cup {n}, r.tail)
    BY <1>0, <1>1, <1>2, <1>3 DEF Represents, IsRecency, IsOldest
  <1>11. Represents(r, f, live \cup {n})
    BY Zenon, <1>0, <1>3, <1>6, <1>7, <1>8, <1>9, <1>10 DEF Represents
  <1> QED BY Zenon, <1>4, <1>11 DEF f, r

\* Moving a node to the head refreshes its key and changes nothing else.
LEMMA MoveToHeadRepresents ==
    ASSUME NEW l \in Lists, NEW order \in [Key -> SUBSET Key], NEW live \in SUBSET Key,
           NEW n \in live, Represents(l, order, live)
    PROVE  /\ MoveToHead(l, n) \in Lists
           /\ Represents(MoveToHead(l, n), Touch(order, live, n), live)
  <1>1. CASE n = l.head
    <2>1. Touch(order, live, n) = order
      BY <1>1 DEF Touch, Represents, IsRecency, IsNewest
    <2> QED BY Zenon, <1>1, <2>1 DEF MoveToHead
  <1>2. CASE n # l.head
    <2> DEFINE m == Remove(l, n)
               g == Forget(order, n)
    <2>1. /\ m \in Lists /\ g \in [Key -> SUBSET Key]
          /\ Represents(m, g, live \ {n})
      BY Zenon, RemoveRepresents DEF Forget
    <2>2. /\ Touch(g, live, n) = Touch(order, live, n)
          /\ live = (live \ {n}) \cup {n} /\ n \in Key \ (live \ {n})
      BY Zenon DEF Touch, Forget
    <2> HIDE DEF m, g
    <2>3. /\ Prepend(m, n) \in Lists
          /\ Represents(Prepend(m, n), Touch(g, live, n), live)
      BY <2>1, <2>2, PrependRepresents
    <2> QED BY Zenon, <1>2, <2>2, <2>3 DEF MoveToHead, m
  <1> QED BY Zenon, <1>1, <1>2

-----------------------------------------------------------------------------
(* The inductive invariant.                                                *)

\* The list of the current state and the list of the next one.
LEMMA ListFacts ==
    ASSUME LRUTypeOK
    PROVE  /\ List \in Lists
           /\ Represention \in SUBSET Key /\ IsFiniteSet(Represention)
  <1>1. IsFiniteSet(Represention)
    BY Zenon, KeyAssumption, FS_Subset DEF Represention
  <1> QED BY Zenon, <1>1 DEF LRUTypeOK, List, Lists, Represention

\* SetList(l) makes l the list of the next state.
LEMMA SetListFacts ==
    ASSUME NEW l \in Lists, SetList(l)
    PROVE  /\ List' = l
           /\ head' \in Key \cup {Nil} /\ tail' \in Key \cup {Nil}
           /\ next' \in [Key -> Key \cup {Nil}] /\ prev' \in [Key -> Key \cup {Nil}]
  BY Zenon DEF SetList, List, Lists

\* Fewer values than an allowed number of values is allowed.
LEMMA SmallerWithinCapacity ==
    ASSUME WithinCapacity, IsFiniteSet(Represention), Represention' \subseteq Represention
    PROVE  WithinCapacity'
  <1>1. /\ Cardinality(Represention') <= Cardinality(Represention)
        /\ Cardinality(Represention) \in Nat
        /\ IsFiniteSet(Represention')
    BY Zenon, FS_Subset, FS_CardinalityType
  <1>2. Cardinality(Represention') \in Nat
    BY Zenon, <1>1, FS_CardinalityType
  <1> QED BY <1>1, <1>2, CapacityAssumption DEF WithinCapacity

\* An empty cache satisfies the invariant.
LEMMA LRUInitIInv == HInit => LRUIInv
  <1> SUFFICES ASSUME HInit PROVE LRUIInv
    BY Zenon
  <1> USE DEF HInit, LRUInit
  <1>1. LRUTypeOK
    BY Zenon DEF LRUTypeOK, NoRecency
  <1>2. Represention = {}
    BY Zenon DEF Represention
  <1>3. ListIsRecency
    BY Zenon, <1>2 DEF ListIsRecency, Represents, List, IsRecency, NoRecency
  <1>4. WithinCapacity
    BY <1>2, FS_EmptySet, CapacityAssumption DEF WithinCapacity
  <1> QED BY Zenon, <1>1, <1>3, <1>4 DEF LRUIInv, WalkSkipsNothing

\* A removal keeps the invariant.
LEMMA RemoveValueStep ==
    ASSUME LRUIInv, NEW k \in Key, HRemoveValue(k)
    PROVE  LRUIInv' /\ Promised!Discard(k)
  <1> USE DEF LRUIInv
  <1>1. /\ List \in Lists /\ Represention \in SUBSET Key /\ IsFiniteSet(Represention)
        /\ older \in [Key -> SUBSET Key] /\ value \in [Key -> Value \cup {Nil}]
    BY Zenon, ListFacts DEF LRUTypeOK
  <1>2. CASE k \in Represention
    <2>1. /\ value' = [value EXCEPT ![k] = Nil]
          /\ SetList(Remove(List, k)) /\ older' = Forget(older, k)
          /\ ~locked /\ UNCHANGED walk /\ answer' = value[k]
      BY Zenon, <1>2 DEF HRemoveValue, RemoveValue
    <2>2. /\ Remove(List, k) \in Lists
          /\ Represents(Remove(List, k), older', Represention \ {k})
      BY Zenon, <1>1, <1>2, <2>1, RemoveRepresents DEF ListIsRecency
    <2>3. Represention' = Represention \ {k}
      BY Zenon, <1>1, <2>1 DEF Represention
    <2>4. LRUTypeOK'
      BY Zenon, <1>1, <2>1, <2>2, SetListFacts DEF LRUTypeOK, walk, Forget
    <2>5. ListIsRecency'
      BY Zenon, <2>1, <2>2, <2>3, SetListFacts DEF ListIsRecency
    <2>6. WithinCapacity'
      BY Zenon, <1>1, <2>3, SmallerWithinCapacity
    <2>7. WalkSkipsNothing'
      BY Zenon, <2>1 DEF WalkSkipsNothing, walk
    <2>8. Promised!Discard(k)
      BY Zenon, <2>1 DEF Promised!Discard, Promised!Forget, Forget
    <2> QED BY Zenon, <2>4, <2>5, <2>6, <2>7, <2>8
  <1>3. CASE k \notin Represention
    <2>1. /\ UNCHANGED <<value, links, walk>> /\ answer' = value[k] /\ older' = Forget(older, k)
      BY Zenon, <1>3 DEF HRemoveValue, RemoveValue
    <2>2. older' = older
      BY <1>1, <1>3, <2>1 DEF ListIsRecency, Represents, IsRecency, Forget
    <2>3. value = [value EXCEPT ![k] = Nil]
      BY Zenon, <1>1, <1>3 DEF Represention
    <2>4. LRUIInv'
      BY Zenon, <2>1, <2>2 DEF LRUTypeOK, ListIsRecency, WithinCapacity, WalkSkipsNothing, Represention, List, links, walk
    <2>5. Promised!Discard(k)
      BY Zenon, <2>1, <2>2, <2>3 DEF Promised!Discard, Promised!Forget, Forget
    <2> QED BY Zenon, <2>4, <2>5
  <1> QED BY Zenon, <1>2, <1>3

\* A read keeps the invariant and refreshes the key.
LEMMA FetchValueStep ==
    ASSUME LRUIInv, NEW k \in Key, HFetchValue(k)
    PROVE  LRUIInv' /\ Promised!Fetch(k)
  <1> USE DEF LRUIInv
  <1>1. /\ List \in Lists /\ Represention \in SUBSET Key /\ IsFiniteSet(Represention)
        /\ older \in [Key -> SUBSET Key] /\ value \in [Key -> Value \cup {Nil}]
    BY Zenon, ListFacts DEF LRUTypeOK
  <1>2. /\ value' = value /\ answer' = value[k] /\ ~locked /\ UNCHANGED walk
        /\ Represention' = Represention
    BY Zenon DEF HFetchValue, FetchValue, Represention
  <1>3. Promised!Live = Represention
    BY Zenon DEF Promised!Live, Represention
  <1>4. WithinCapacity' /\ WalkSkipsNothing'
    BY Zenon, <1>2 DEF WithinCapacity, WalkSkipsNothing, walk
  <1>5. CASE k \in Represention
    <2>1. SetList(MoveToHead(List, k)) /\ older' = Touch(older, Represention, k)
      BY Zenon, <1>5 DEF HFetchValue, FetchValue
    <2>2. /\ MoveToHead(List, k) \in Lists
          /\ Represents(MoveToHead(List, k), older', Represention)
      BY Zenon, <1>1, <1>5, <2>1, MoveToHeadRepresents DEF ListIsRecency
    <2>3. LRUTypeOK'
      BY Zenon, <1>1, <1>2, <2>1, <2>2, SetListFacts DEF LRUTypeOK, walk, Touch
    <2>4. ListIsRecency'
      BY Zenon, <1>2, <2>1, <2>2, SetListFacts DEF ListIsRecency
    <2>5. Promised!Fetch(k)
      BY Zenon, <1>2, <1>3, <1>5, <2>1 DEF Promised!Fetch, Promised!Touch, Touch
    <2> QED BY Zenon, <1>4, <2>3, <2>4, <2>5
  <1>6. CASE k \notin Represention
    <2>1. UNCHANGED <<links, older>>
      BY Zenon, <1>6 DEF HFetchValue, FetchValue
    <2>2. LRUTypeOK' /\ ListIsRecency'
      BY Zenon, <1>2, <2>1 DEF LRUTypeOK, ListIsRecency, List, links, walk
    <2>3. Promised!Fetch(k)
      BY Zenon, <1>2, <1>3, <1>6, <2>1 DEF Promised!Fetch
    <2> QED BY Zenon, <1>4, <2>2, <2>3
  <1> QED BY Zenon, <1>5, <1>6

\* RecencyCache counts the way LRUCache counts.
LEMMA SameCardinality == \A S : Promised!Cardinality(S) = Cardinality(S)
  BY Zenon DEF Promised!Cardinality, Cardinality

\* A store keeps the invariant; the entry it evicts is the one used longest ago.
LEMMA SetValueStep ==
    ASSUME LRUIInv, NEW k \in Key, NEW v \in Value, HSetValue(k, v)
    PROVE  LRUIInv' /\ Promised!Store(k, v)
  <1> USE DEF LRUIInv
  <1> DEFINE live == Represention \cup {k}
             order == Touch(older, live, k)
             stored == [value EXCEPT ![k] = v]
  <1>1. /\ List \in Lists /\ Represention \in SUBSET Key /\ IsFiniteSet(Represention)
        /\ older \in [Key -> SUBSET Key] /\ value \in [Key -> Value \cup {Nil}]
    BY Zenon, ListFacts DEF LRUTypeOK
  <1>2. /\ ~locked /\ UNCHANGED walk /\ answer' = Nil
        /\ live \in SUBSET Key /\ order \in [Key -> SUBSET Key]
        /\ v # Nil /\ stored \in [Key -> Value \cup {Nil}]
        /\ Promised!Live = Represention
    BY Zenon, <1>1, KeyAssumption DEF HSetValue, SetValue, Touch, Promised!Live, Represention
  <1>3. WalkSkipsNothing'
    BY Zenon, <1>2 DEF WalkSkipsNothing, walk
  <1>4. Cardinality(Represention) \in Nat /\ Cardinality(live) \in Nat
        /\ IsFiniteSet(live)
        /\ Cardinality(live) = IF k \in Represention THEN Cardinality(Represention)
                               ELSE Cardinality(Represention) + 1
    BY Zenon, <1>1, FS_AddElement, FS_CardinalityType
  <1>5. ASSUME value' = stored, NEW l \in Lists, SetList(l), Represents(l, order, live),
               Cardinality(live) <= Capacity
        PROVE  LRUIInv' /\ Promised!Store(k, v)
    <2>1. Represention' = live
      BY Zenon, <1>1, <1>2, <1>5 DEF Represention
    <2>2. older' = order
      BY Zenon, <1>1, <1>2, <2>1 DEF HSetValue
    <2>3. LRUTypeOK'
      BY Zenon, <1>1, <1>2, <1>5, <2>2, SetListFacts DEF LRUTypeOK, walk
    <2>4. ListIsRecency'
      BY Zenon, <1>5, <2>1, <2>2, SetListFacts DEF ListIsRecency
    <2>5. WithinCapacity'
      BY Zenon, <1>5, <2>1 DEF WithinCapacity
    <2>6. Promised!Store(k, v)
      BY Zenon, <1>2, <1>5, <2>2, SameCardinality DEF Promised!Store, Promised!Touch, Touch
    <2> QED BY Zenon, <1>3, <2>3, <2>4, <2>5, <2>6
  <1>6. CASE k \in Represention
    <2>1. live = Represention /\ Cardinality(live) <= Capacity
      BY Zenon, <1>4, <1>6 DEF WithinCapacity
    <2>2. value' = stored /\ SetList(MoveToHead(List, k))
      BY Zenon, <1>6 DEF HSetValue, SetValue, UpdateValue
    <2>3. /\ MoveToHead(List, k) \in Lists
          /\ Represents(MoveToHead(List, k), order, live)
      BY Zenon, <1>1, <1>6, <2>1, MoveToHeadRepresents DEF ListIsRecency
    <2> QED BY Zenon, <1>5, <2>1, <2>2, <2>3
  <1>7. CASE k \notin Represention
    <2> DEFINE inserted == Prepend(List, k)
               last == inserted.tail
    <2>1. inserted \in Lists /\ Represents(inserted, order, live)
      BY Zenon, <1>1, <1>7, PrependRepresents DEF ListIsRecency
    <2>2. last \in live /\ IsOldest(order, live, last) /\ last # Nil
      BY Zenon, <2>1 DEF Represents, IsOldest
    <2>3. CASE Cardinality(live) <= Capacity
      <3>1. ~(Cardinality(live) > Capacity)
        BY <2>3, <1>4, CapacityAssumption
      <3>2. value' = stored /\ SetList(inserted)
        BY Zenon, <1>7, <3>1 DEF HSetValue, SetValue, InsertValue
      <3> QED BY Zenon, <1>5, <2>1, <2>3, <3>2
    <2>4. CASE Cardinality(live) > Capacity
      <3>1. /\ value' = [stored EXCEPT ![last] = Nil]
            /\ SetList(Remove(inserted, last))
        BY Zenon, <1>7, <2>2, <2>4 DEF HSetValue, SetValue, InsertValue
      <3>2. Represention' = live \ {last}
        BY Zenon, <1>1, <1>2, <3>1 DEF Represention
      <3>3. live \ Represention' = {last}
        BY Zenon, <2>2, <3>2
      <3>4. older' = Forget(order, last)
        BY Zenon, <1>1, <1>2, <3>3 DEF HSetValue, Forget, Touch
      <3>5. /\ Remove(inserted, last) \in Lists
            /\ Represents(Remove(inserted, last), older', live \ {last})
        BY Zenon, <1>2, <2>1, <2>2, <3>4, RemoveRepresents
      <3>6. LRUTypeOK'
        BY Zenon, <1>1, <1>2, <2>2, <3>1, <3>4, <3>5, SetListFacts DEF LRUTypeOK, walk, Forget
      <3>7. ListIsRecency'
        BY Zenon, <3>1, <3>2, <3>5, SetListFacts DEF ListIsRecency
      <3>8. WithinCapacity'
        <4>1. Cardinality(live \ {last}) = Cardinality(live) - 1
          BY Zenon, <1>4, <2>2, FS_RemoveElement
        <4> QED BY <4>1, <1>4, <1>7, <3>2, CapacityAssumption DEF WithinCapacity
      <3>9. Promised!Store(k, v)
        <4>1. Promised!IsOldest(order, live, last) /\ last \in Key
          BY Zenon, <1>2, <2>2 DEF Promised!IsOldest, IsOldest
        <4> QED BY <1>2, <2>4, <3>1, <3>4, <4>1, SameCardinality
                DEF Promised!Store, Promised!Touch, Touch, Promised!Forget, Forget
      <3> QED BY Zenon, <1>3, <3>6, <3>7, <3>8, <3>9
    <2> QED BY <2>3, <2>4, <1>4, CapacityAssumption
  <1> QED BY Zenon, <1>6, <1>7

\* Emptying the cache keeps the invariant.
LEMMA RemoveAllValuesStep ==
    ASSUME LRUIInv, HRemoveAllValues
    PROVE  LRUIInv' /\ Promised!Clear
  <1> USE DEF HRemoveAllValues, RemoveAllValues
  <1>1. Represention' = {}
    BY Zenon DEF Represention
  <1>2. LRUTypeOK'
    BY Zenon DEF LRUIInv, LRUTypeOK, walk, NoRecency
  <1>3. ListIsRecency'
    BY Zenon, <1>1 DEF ListIsRecency, Represents, List, IsRecency, NoRecency
  <1>4. WithinCapacity'
    BY <1>1, FS_EmptySet, CapacityAssumption DEF WithinCapacity
  <1>5. WalkSkipsNothing'
    BY Zenon DEF WalkSkipsNothing, walk
  <1>6. Promised!Clear
    BY Zenon DEF Promised!Clear, Promised!NoRecency, NoRecency
  <1> QED BY Zenon, <1>2, <1>3, <1>4, <1>5, <1>6 DEF LRUIInv

\* A walk does not change the dictionary, the list or the order.
LEMMA WalkFacts ==
    ASSUME LRUIInv, UNCHANGED <<value, links, older>>
    PROVE  /\ Represention' = Represention
           /\ ListIsRecency' /\ WithinCapacity'
  BY Zenon DEF LRUIInv, Represention, ListIsRecency, WithinCapacity, List, links

\* A walk starts at the entry used last, with nothing behind it.
LEMMA FirstStart ==
    ASSUME LRUIInv, NEW keys \in SUBSET Key, HFirst(keys)
    PROVE  LRUIInv' /\ UNCHANGED <<value, older, answer>>
  <1> USE DEF HFirst, First
  <1>1. LRUTypeOK'
    BY Zenon DEF LRUIInv, LRUTypeOK, links
  <1>2. WalkSkipsNothing'
    <2>1. head = Nil <=> Represention = {}
      BY Zenon DEF LRUIInv, ListIsRecency, Represents, List
    <2>2. head # Nil => IsNewest(older, Represention, head)
      BY Zenon DEF LRUIInv, ListIsRecency, Represents, List
    <2> QED BY Zenon, <2>1, <2>2, WalkFacts DEF WalkSkipsNothing, IsNewest
  <1> QED BY Zenon, <1>1, <1>2, WalkFacts DEF LRUIInv

\* A round of the walk passes one refused entry, or answers the search.
LEMMA FirstStepStep ==
    ASSUME LRUIInv, HFirstStep
    PROVE  /\ LRUIInv'
           /\ UNCHANGED <<value, older, answer>> \/ \E keys \in SUBSET Key : Promised!Search(keys)
  <1>1. UNCHANGED <<value, links, older>> /\ locked
    BY Zenon DEF HFirstStep, FirstStep
  <1>2. Promised!Live = Represention /\ Represention \subseteq Key
    BY Zenon DEF Promised!Live, Represention
  <1>3. CASE cursor # Nil /\ cursor \notin wanted
    <2>1. cursor' = next[cursor] /\ UNCHANGED <<locked, wanted, answer>>
      BY Zenon, <1>3 DEF HFirstStep, FirstStep
    <2>2. cursor \in Represention
      BY Zenon, <1>1, <1>3 DEF LRUIInv, WalkSkipsNothing
    <2>3. LRUTypeOK'
      BY Zenon, <1>1, <1>2, <2>1, <2>2 DEF LRUIInv, LRUTypeOK, links
    <2>4. IsRecency(older, Represention)
      BY Zenon DEF LRUIInv, ListIsRecency, Represents
    <2>5. /\ cursor' = Nil => IsOldest(older, Represention, cursor)
          /\ cursor' # Nil => /\ cursor' \in Represention
                              /\ Adjacent(older, Represention, cursor, cursor')
      BY Zenon, <2>1, <2>2 DEF LRUIInv, ListIsRecency, Represents, List
    <2>6. \A k \in Represention : cursor \in older[k] => k \notin wanted
      BY Zenon, <1>1 DEF LRUIInv, WalkSkipsNothing
    <2>7. \A k \in Represention : (cursor' = Nil \/ cursor' \in older[k]) => k \notin wanted
      BY Zenon, <1>3, <2>2, <2>4, <2>5, <2>6 DEF IsOldest, Adjacent, IsRecency
    <2>8. WalkSkipsNothing'
      BY Zenon, <1>1, <2>1, <2>5, <2>7, WalkFacts DEF WalkSkipsNothing
    <2> QED BY Zenon, <1>1, <2>1, <2>3, <2>8, WalkFacts DEF LRUIInv
  <1>4. CASE cursor = Nil \/ cursor \in wanted
    <2>1. answer' = cursor /\ locked' = FALSE /\ cursor' = Nil /\ wanted' = {}
      BY Zenon, <1>4 DEF HFirstStep, FirstStep
    <2>2. LRUTypeOK' /\ WalkSkipsNothing'
      BY Zenon, <1>1, <2>1 DEF LRUIInv, LRUTypeOK, WalkSkipsNothing, links
    <2>3. wanted \in SUBSET Key
      BY Zenon DEF LRUIInv, LRUTypeOK
    <2>4. Promised!Search(wanted)
      BY Zenon, <1>1, <1>2, <1>4, <2>1 DEF Promised!Search, Promised!IsNewest, LRUIInv, WalkSkipsNothing
    <2> QED BY Zenon, <1>1, <2>2, <2>3, <2>4, WalkFacts DEF LRUIInv
  <1> QED BY Zenon, <1>3, <1>4

\* Every step keeps the invariant, and is a step of the abstract cache or none.
LEMMA NextStep ==
    ASSUME LRUIInv, [HNext]_hvars
    PROVE  LRUIInv' /\ [Promised!Next]_(Promised!vars)
  <1> USE DEF Promised!Next, Promised!vars
  <1>1. ASSUME NEW k \in Key, NEW v \in Value, HSetValue(k, v)
        PROVE  LRUIInv' /\ [Promised!Next]_(Promised!vars)
    BY Zenon, <1>1, SetValueStep
  <1>2. ASSUME NEW k \in Key, HRemoveValue(k)
        PROVE  LRUIInv' /\ [Promised!Next]_(Promised!vars)
    BY Zenon, <1>2, RemoveValueStep
  <1>3. ASSUME NEW k \in Key, HFetchValue(k)
        PROVE  LRUIInv' /\ [Promised!Next]_(Promised!vars)
    BY Zenon, <1>3, FetchValueStep
  <1>4. CASE HRemoveAllValues
    BY Zenon, <1>4, RemoveAllValuesStep
  <1>5. ASSUME NEW keys \in SUBSET Key, HFirst(keys)
        PROVE  LRUIInv' /\ [Promised!Next]_(Promised!vars)
    BY Zenon, <1>5, FirstStart
  <1>6. CASE HFirstStep
    BY Zenon, <1>6, FirstStepStep
  <1>7. CASE UNCHANGED hvars
    BY Zenon, <1>7 DEF hvars, lruVars, links, walk, LRUIInv, LRUTypeOK, ListIsRecency, List, Represention,
                WithinCapacity, WalkSkipsNothing
  <1> QED BY Zenon, <1>1, <1>2, <1>3, <1>4, <1>5, <1>6, <1>7 DEF HNext

\* The inductive invariant holds in every reachable state.
LEMMA LRUInvariance == HSpec => []LRUIInv
  BY LRUInitIInv, NextStep, PTL DEF HSpec

\* For every capacity and every finite set of keys, the list the code links is
\* the recency order of the dictionary's keys, in both directions.
THEOREM ListCorrect == HSpec => []ListIsRecency
  <1>1. LRUIInv => ListIsRecency
    BY Zenon DEF LRUIInv
  <1> QED BY <1>1, LRUInvariance, PTL

\* setValue keeps at most `capacity` values, for every capacity (zero included).
THEOREM CapacityRespected == HSpec => []WithinCapacity
  <1>1. LRUIInv => WithinCapacity
    BY Zenon DEF LRUIInv
  <1> QED BY <1>1, LRUInvariance, PTL

\* first(where:) passes no entry it should have returned.
THEOREM WalkCorrect == HSpec => []WalkSkipsNothing
  <1>1. LRUIInv => WalkSkipsNothing
    BY Zenon DEF LRUIInv
  <1> QED BY <1>1, LRUInvariance, PTL

\* The linked list and the dictionary of LRUCache.swift implement the recency
\* cache: every call returns what it returns, and evicts what it evicts.
THEOREM Refinement == HSpec => ImplementsRecencyCache
  <1>1. HInit => Promised!Init
    BY Zenon DEF HInit, LRUInit, Promised!Init, Promised!NoRecency, NoRecency
  <1> QED BY <1>1, LRUInvariance, NextStep, PTL DEF HSpec, ImplementsRecencyCache, Promised!Spec

-----------------------------------------------------------------------------
\* A call is overtaken fewer times than the pool has usable addresses, and the
\* word does not wrap around while a caller is about to reset it.
Roomy ==
    \A p \in Pools : /\ p.lower + 1 + MaxOvertaken < p.upper
                     /\ p.upper + 1 + MaxOvertaken < Modulus

\* Where the word can be, seen from a caller in the middle of its call.
Reach(c) ==
    /\ pc[c] # "idle" => bounds.lower < storage
    /\ pc[c] = "reset" => /\ bounds.upper < storage
                          /\ storage <= bounds.upper + 1 + overtaken[c]
    /\ pc[c] = "reload" => storage <= bounds.lower + 1 + overtaken[c]

\* The inductive invariant.
PoolIInv ==
    /\ PoolTypeOK
    /\ overtaken \in [Caller -> 0 .. MaxOvertaken]
    /\ bounds.lower <= storage
    /\ \A c \in Caller : Reach(c)
    /\ OneResets
    /\ OvershootIsPending
    /\ BoundsSkipped

\* What the assumptions say of the pool at hand.
LEMMA PoolFacts ==
    ASSUME Roomy, PoolIInv
    PROVE  /\ bounds.lower \in Nat /\ bounds.upper \in Nat /\ Modulus \in Nat
           /\ MaxOvertaken \in Nat /\ storage \in Nat
           /\ bounds.lower + 1 + MaxOvertaken < bounds.upper
           /\ bounds.upper + 1 + MaxOvertaken < Modulus
           /\ bounds.upper < Modulus /\ storage < Modulus
           /\ overtaken \in [Caller -> 0 .. MaxOvertaken]
           /\ pc \in [Caller -> {"idle", "again", "reset", "reload"}]
           /\ address \in [Caller -> 0 .. Modulus]
  BY PoolsAssumption DEF Roomy, PoolIInv, PoolTypeOK

\* The pool starts at its lower bound.
LEMMA PoolInitIInv == Roomy /\ PoolInit => PoolIInv
  <1> SUFFICES ASSUME Roomy, PoolInit PROVE PoolIInv
    BY Zenon
  <1>1. /\ bounds \in Pools /\ bounds.lower \in Nat /\ bounds.upper \in Nat
        /\ bounds.lower < bounds.upper /\ bounds.upper < Modulus
        /\ Modulus \in Nat /\ MaxOvertaken \in Nat
    BY PoolsAssumption DEF PoolInit, Roomy
  <1> QED BY <1>1 DEF PoolInit, PoolIInv, PoolTypeOK, None, Reach, OvershootIsPending, Contains, BoundsSkipped,
               OneResets

\* An increment by c: the word moves up by one, and every other call in progress
\* was overtaken once more.
LEMMA AddFacts ==
    ASSUME Roomy, PoolIInv, NEW c \in Caller, WrappingAdd(c), pc[c] # "reset"
    PROVE  /\ storage' = storage + 1 /\ storage' < Modulus
           /\ \A d \in Caller \ {c} :
                pc[d] # "idle" => overtaken'[d] = overtaken[d] + 1 /\ overtaken'[d] <= MaxOvertaken
           /\ pc' \in [Caller -> {"idle", "again", "reset", "reload"}]
                => overtaken' \in [Caller -> 0 .. MaxOvertaken]
           /\ pc'[c] # "idle" => overtaken'[c] = overtaken[c]
  <1>1. storage + 1 < Modulus
    <2>1. CASE storage <= bounds.upper
      BY <2>1, PoolFacts
    <2>2. CASE storage > bounds.upper
      <3>1. PICK d \in Caller : pc[d] = "reset"
        BY <2>2, PoolFacts DEF PoolIInv, OvershootIsPending, Contains
      <3>2. storage <= bounds.upper + 1 + overtaken[d] /\ overtaken[d] \in 0 .. MaxOvertaken
        BY Zenon, <3>1, PoolFacts DEF PoolIInv, Reach
      <3>3. overtaken[d] < MaxOvertaken
        BY Zenon, <3>1 DEF WrappingAdd
      <3> QED BY <3>2, <3>3, PoolFacts
    <2> QED BY <2>1, <2>2, PoolFacts
  <1> QED BY <1>1, PoolFacts DEF WrappingAdd

\* A call goes on or returns with an address that the invariant allows.
LEMMA AddStep ==
    ASSUME Roomy, PoolIInv, NEW c \in Caller, WrappingAdd(c), pc[c] # "reset", UNCHANGED bounds,
           \/ storage = bounds.lower /\ Continue(c, "again")
           \/ storage = bounds.upper /\ Continue(c, "reset")
           \/ storage \notin {bounds.lower, bounds.upper} /\ Return(c, storage)
    PROVE  PoolIInv'
  <1>1. /\ storage' = storage + 1 /\ storage' < Modulus
        /\ \A d \in Caller \ {c} : pc[d] # "idle" => overtaken'[d] = overtaken[d] + 1
        /\ pc'[c] # "idle" => overtaken'[c] = overtaken[c]
    BY Zenon, AddFacts
  <1>2. /\ pc' \in [Caller -> {"idle", "again", "reset", "reload"}]
        /\ address' \in [Caller -> 0 .. Modulus]
        /\ \A d \in Caller \ {c} : pc'[d] = pc[d] /\ address'[d] = address[d]
        /\ address'[c] \in {address[c], storage}
    BY PoolFacts DEF Continue, Return
  <1>3. overtaken' \in [Caller -> 0 .. MaxOvertaken]
    BY Zenon, <1>2, AddFacts
  <1>4. PoolTypeOK' /\ bounds'.lower <= storage'
    BY <1>1, <1>2, PoolFacts DEF PoolIInv, PoolTypeOK
  <1>5. ASSUME NEW d \in Caller PROVE Reach(d)'
    <2>1. overtaken[d] \in Nat
      BY PoolFacts
    <2>2. CASE d # c
      BY <1>1, <1>2, <2>1, <2>2, PoolFacts DEF PoolIInv, Reach
    <2>3. CASE d = c
      BY <1>1, <2>1, <2>3, PoolFacts DEF PoolIInv, Reach, Continue, Return
    <2> QED BY Zenon, <2>2, <2>3
  <1>6. OvershootIsPending'
    <2>1. CASE storage < bounds.upper
      BY <1>1, <2>1, PoolFacts DEF PoolIInv, OvershootIsPending, Contains
    <2>2. CASE storage = bounds.upper
      BY <1>1, <2>2, PoolFacts DEF PoolIInv, OvershootIsPending, Continue
    <2>3. CASE storage > bounds.upper
      <3>1. PICK d \in Caller : pc[d] = "reset"
        BY <2>3, PoolFacts DEF PoolIInv, OvershootIsPending, Contains
      <3> QED BY Zenon, <1>2, <3>1 DEF OvershootIsPending
    <2> QED BY <2>1, <2>2, <2>3, PoolFacts
  <1>7. BoundsSkipped'
    BY Zenon, <1>2, PoolFacts DEF PoolIInv, BoundsSkipped, Continue, Return
  <1>8. OneResets'
    <2>1. storage = bounds.upper => \A d \in Caller : pc[d] # "reset"
      BY PoolFacts DEF PoolIInv, Reach
    <2> QED BY <1>2, <2>1, PoolFacts DEF PoolIInv, OneResets, Continue, Return
  <1> QED BY Zenon, <1>3, <1>4, <1>5, <1>6, <1>7, <1>8 DEF PoolIInv

\* The reset brings the word back to the first usable address.
LEMMA ResetStep ==
    ASSUME Roomy, PoolIInv, NEW c \in Caller, Reset(c)
    PROVE  PoolIInv'
  <1>1. /\ storage' = bounds.lower + 1 /\ pc[c] = "reset" /\ bounds' = bounds
        /\ pc' = [pc EXCEPT ![c] = "reload"] /\ address' = address /\ overtaken' = overtaken
    BY PoolFacts DEF Reset, Continue
  <1>2. PoolTypeOK' /\ bounds'.lower <= storage' /\ OvershootIsPending'
    BY <1>1, PoolFacts DEF PoolIInv, PoolTypeOK, OvershootIsPending, Contains
  <1>3. ASSUME NEW d \in Caller PROVE Reach(d)'
    <2>1. overtaken[d] \in Nat /\ pc[d] # "reload"
      BY <1>1, PoolFacts DEF PoolIInv, Reach
    <2>2. d # c => pc[d] # "reset"
      BY Zenon, <1>1 DEF PoolIInv, OneResets
    <2> QED BY <1>1, <2>1, <2>2, PoolFacts DEF PoolIInv, Reach
  <1>4. OneResets' /\ BoundsSkipped'
    BY Zenon, <1>1, PoolFacts DEF PoolIInv, OneResets, BoundsSkipped
  <1> QED BY Zenon, <1>1, <1>2, <1>3, <1>4, PoolFacts DEF PoolIInv

\* After a reset the word is back near the lower bound: the load that follows
\* need not be examined.
LEMMA ReloadBetween ==
    ASSUME Roomy, PoolIInv, NEW c \in Caller, pc[c] = "reload"
    PROVE  bounds.lower < storage /\ storage < bounds.upper
  <1>1. overtaken[c] \in 0 .. MaxOvertaken
    BY Zenon, PoolFacts
  <1> QED BY <1>1, PoolFacts DEF PoolIInv, Reach

\* Every step keeps the invariant.
LEMMA NextIInv ==
    ASSUME Roomy, PoolIInv, [PoolNext]_poolVars
    PROVE  PoolIInv'
  <1>1. ASSUME NEW c \in Caller, Load(c) PROVE PoolIInv'
    BY Zenon, <1>1, AddStep, PoolFacts DEF Load, SkipUpper
  <1>2. ASSUME NEW c \in Caller, LoadAgain(c) PROVE PoolIInv'
    <2>1. bounds.lower < storage
      BY Zenon, <1>2 DEF LoadAgain, PoolIInv, Reach
    <2> QED BY <1>2, <2>1, AddStep, PoolFacts DEF LoadAgain, SkipUpper
  <1>3. ASSUME NEW c \in Caller, Reset(c) PROVE PoolIInv'
    BY Zenon, <1>3, ResetStep
  <1>4. ASSUME NEW c \in Caller, Reload(c) PROVE PoolIInv'
    <2>1. storage \notin {bounds.lower, bounds.upper}
      BY <1>4, ReloadBetween, PoolFacts DEF Reload
    <2> QED BY Zenon, <1>4, <2>1, AddStep DEF Reload
  <1>5. CASE UNCHANGED poolVars
    BY Zenon, <1>5 DEF poolVars, PoolIInv, PoolTypeOK, Reach, OneResets, OvershootIsPending, Contains, BoundsSkipped
  <1> QED BY Zenon, <1>1, <1>2, <1>3, <1>4, <1>5 DEF PoolNext, Step

\* The inductive invariant holds in every reachable state.
LEMMA PoolInvariance ==
    ASSUME Roomy
    PROVE  PoolSpec => []PoolIInv
  <1>1. PoolInit => PoolIInv
    BY Zenon, PoolInitIInv
  <1>2. PoolIInv /\ [PoolNext]_poolVars => PoolIInv'
    BY Zenon, NextIInv
  <1> QED BY <1>1, <1>2, PTL DEF PoolSpec

\* In a roomy pool no interleaving of calls hands out the network or the
\* broadcast address.
THEOREM BoundsNeverGiven ==
    ASSUME Roomy
    PROVE  PoolSpec => []BoundsSkipped
  <1>1. PoolIInv => BoundsSkipped
    BY Zenon DEF PoolIInv
  <1> QED BY <1>1, PoolInvariance, PTL

\* A pass over a roomy pool is restarted by one caller.
THEOREM ResetExclusive ==
    ASSUME Roomy
    PROVE  PoolSpec => []OneResets
  <1>1. PoolIInv => OneResets
    BY Zenon DEF PoolIInv
  <1> QED BY <1>1, PoolInvariance, PTL

\* A roomy pool leaves its range only while a caller is about to reset it.
THEOREM NoRunaway ==
    ASSUME Roomy
    PROVE  PoolSpec => []OvershootIsPending
  <1>1. PoolIInv => OvershootIsPending
    BY Zenon DEF PoolIInv
  <1> QED BY <1>1, PoolInvariance, PTL
==============================================================================
