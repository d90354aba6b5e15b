SPECIFICATION Spec
CONSTANTS
    Parts = {"tunnel"}
    c1 = c1  c2 = c2  c3 = c3  c4 = c4
    hx = hx  hy = hy
    domainX = domainX  throwing = throwing  final = final  builtin = builtin
    Nil = Nil
    Connection <- MCConnection
    Host <- MCHost
    HostOf <- MCHostOf
    Rule <- MCRule
    Final <- MCFinal
    Predicate <- MCPredicate
    Builtin = builtin
    RuleLists <- MCRuleLists
    Setter = {s1}
    Capacity = 1
    Replies <- MCReplies
    SndBuf = 3
    LowWater = 1
    MaxData = 2
    MaxFaults = 2
    Name = {n1, n2, n3}
    Pools <- MCPools
    Modulus = 8
    RecordCapacity = 2
    MaxBatch = 2
    MaxReads = 3
    Flow = {f1}
INVARIANT ReservedAddressesHaveNames
