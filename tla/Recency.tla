------------------------------- MODULE Recency -------------------------------
(***************************************************************************)
(* Recency orders.  older[a] is the set of the live keys that were used    *)
(* less recently than a.  The LRU cache of NetbotDNS keeps this order in a *)
(* doubly linked list; the modules that use the cache only need the order. *)
(***************************************************************************)

\* No key is live.
NoRecency(Keys) == [a \in Keys |-> {}]

\* k was used just now: every other live key is older.
Touch(older, live, k) ==
    [a \in DOMAIN older |-> IF a = k THEN live \ {k} ELSE older[a] \ {k}]

\* k left the cache.
Forget(older, k) == [a \in DOMAIN older |-> IF a = k THEN {} ELSE older[a] \ {k}]

\* k is live and no live key was used more (less) recently.
IsNewest(older, live, k) == k \in live /\ \A j \in live : k \notin older[j]
IsOldest(older, live, k) == k \in live /\ \A j \in live : j \notin older[k]

\* b comes directly after a in the order.
Adjacent(older, live, a, b) ==
    b \in older[a] /\ \A j \in live : ~(j \in older[a] /\ b \in older[j])

\* older is a strict total order of live.
IsRecency(older, live) ==
    /\ \A a \in live : a \notin older[a] /\ older[a] \subseteq live
    /\ \A a \in DOMAIN older \ live : older[a] = {}
    /\ \A a, b \in live : a # b => (b \in older[a] \/ a \in older[b])
    /\ \A a, b, c \in live : b \in older[a] /\ c \in older[b] => c \in older[a]
==============================================================================
