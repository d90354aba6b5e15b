SPECIFICATION Spec
CONSTANTS
    Parts = {"overlap"}
    Key = {k1, k2, k3}
    Value = {v1, v2}
    Capacity = 2
    Nil = Nil
    Caller = {c1, c2}
    c1 = c1
    Modulus = 16
    Pools <- SmallPools
    MaxOvertaken = 3
INVARIANT AddressesUsable
