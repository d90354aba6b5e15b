CONSTANTS
    q1 = q1  q2 = q2  q3 = q3  q4 = q4  q5 = q5
    s1 = s1  s2 = s2  v4 = v4  v6 = v6
    x = x  y = y  z = z  host = host  alias = alias
    Nil = Nil  Pending = Pending
    Query = {q1, q2}
    Message <- TwoNames
    AdditionalServers <- OneServer
    Mappings <- MappedNames
    MaxRetryAttempts = 2
    MaxFaults = 1
    Server = {s1, s2}
    IPv4 = {v4}
    IPv6 = {v6}
SPECIFICATION Spec
INVARIANTS AnswerMatchesQuestion EntryIsServed NoPromiseLost
