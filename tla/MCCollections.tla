---------------------------- MODULE MCCollections ----------------------------
(***************************************************************************)
(* Small instances of the LRU cache and of the address pool.  In a         *)
(* behaviour one of them takes the steps: part names it.  "turns" is the   *)
(* pool used by one task at a time, which may also store an address.       *)
(***************************************************************************)
EXTENDS LRUCache, AvailableIPPool

CONSTANTS
    Parts,    \* the components a run is about
    c1        \* the task that uses the pool alone

VARIABLE part     \* the component that takes the steps of this behaviour

\* A range and a block, of addresses of 4 bits, with more usable addresses than
\* a call is overtaken.
RoomyPools == {[lower |-> 1, upper |-> 5], Block(6, 1, 4)}

\* Every block of at least 4 addresses, and every range with at least one
\* usable address.
MCPools == RoomyPools \cup {Block(a, p, 4) : a \in 0 .. 15, p \in 0 .. 2}
             \cup {[lower |-> l, upper |-> u] : l \in 0 .. 5, u \in 7 .. 12}

\* A block with two usable addresses.
SmallPools == {Block(10, 2, 4)}

-----------------------------------------------------------------------------
vars == <<part, hvars, tvars>>

Init ==
    /\ part \in Parts
    /\ HInit
    /\ TInit
    /\ part = "pool" => bounds \in RoomyPools
    /\ part = "lru" => bounds = Block(6, 1, 4)

RunLRU == part = "lru" /\ HNext /\ UNCHANGED <<part, tvars>>

RunPool == part \in {"pool", "overlap"} /\ PoolNext /\ UNCHANGED <<part, given, hvars>>

RunTurns == part = "turns" /\ OneTask(c1) /\ UNCHANGED <<part, hvars>>

Next == RunLRU \/ RunPool \/ RunTurns

Spec == Init /\ [][Next]_vars

\* A caller of the pool that has started goes on: nothing in a call waits.
FairSpec ==
    /\ Spec
    /\ \A c \in Caller :
         WF_vars(/\ pc[c] # "idle"
                 /\ \/ part = "pool" /\ Step(c) /\ UNCHANGED given
                    \/ part = "turns" /\ TStep(c)
                 /\ UNCHANGED <<part, hvars>>)
==============================================================================
