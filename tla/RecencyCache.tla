---------------------------- MODULE RecencyCache -----------------------------
(***************************************************************************)
(* What an LRU cache promises: a bounded map that, when an insertion makes *)
(* it one entry too large, forgets the entry that was used longest ago.    *)
(***************************************************************************)
EXTENDS FiniteSets, Naturals, Recency

CONSTANTS Key, Value, Capacity, NoValue

VARIABLES
    content,    \* [Key -> Value \cup {NoValue}]
    older,      \* recency order of the keys that have a value
    answer      \* what the last operation returned

vars == <<content, older, answer>>

Live == {k \in Key : content[k] # NoValue}

Init ==
    /\ content = [k \in Key |-> NoValue]
    /\ older = NoRecency(Key)
    /\ answer = NoValue

\* Store v under k, then drop the oldest entry if there is one too many.
Store(k, v) ==
    LET live == Live \cup {k}
        order == Touch(older, live, k)
        stored == [content EXCEPT ![k] = v]
    IN  /\ answer' = NoValue
        /\ \/ /\ Cardinality(live) <= Capacity
              /\ content' = stored
              /\ older' = order
           \/ /\ Cardinality(live) > Capacity
              /\ \E old \in Key :
                   /\ IsOldest(order, live, old)
                   /\ content' = [stored EXCEPT ![old] = NoValue]
                   /\ older' = Forget(order, old)

Fetch(k) ==
    /\ answer' = content[k]
    /\ older' = IF k \in Live THEN Touch(older, Live, k) ELSE older
    /\ UNCHANGED content

Discard(k) ==
    /\ answer' = content[k]
    /\ content' = [content EXCEPT ![k] = NoValue]
    /\ older' = Forget(older, k)

Clear ==
    /\ answer' = NoValue
    /\ content' = [k \in Key |-> NoValue]
    /\ older' = NoRecency(Key)

\* The most recently used among the wanted entries.  A search does not count
\* as a use of the entry it finds.
Search(wanted) ==
    LET hits == Live \cap wanted
    IN  /\ \/ hits = {} /\ answer' = NoValue
           \/ \E k \in hits : IsNewest(older, hits, k) /\ answer' = k
        /\ UNCHANGED <<content, older>>

Next ==
    \/ \E k \in Key, v \in Value : Store(k, v)
    \/ \E k \in Key : Fetch(k) \/ Discard(k)
    \/ Clear
    \/ \E wanted \in SUBSET Key : Search(wanted)

Spec == Init /\ [][Next]_vars
==============================================================================
