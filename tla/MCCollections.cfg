SPECIFICATION FairSpec
CONSTANTS
    Parts = {"lru", "pool", "turns"}
    Key = {k1, k2, k3}
    Value = {v1, v2}
    Capacity = 2
    Nil = Nil
    Caller = {c1, c2, c3}
    c1 = c1
    Modulus = 16
    Pools <- MCPools
    MaxOvertaken = 2
INVARIANTS OvershootIsPending
PROPERTIES ImplementsRecencyCache PoolRecovers ReusedLast
