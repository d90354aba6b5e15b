-------------------------- MODULE MCLocalDNSProxy --------------------------
(***************************************************************************)
(* Instances of LocalDNSProxy for TLC.                                     *)
(***************************************************************************)
EXTENDS LocalDNSProxy, TLC

CONSTANTS q1, q2, q3, q4, q5, s1, s2, x, y, z, host, alias, v4, v6

Ask(id, name, type) ==
    [transactionID |-> id, isResponse |-> FALSE, isQuery |-> TRUE,
     questions |-> <<[name |-> name, type |-> type]>>]

\* Two names at once: one whose mapping is of the other family, one whose
\* mapping names the server.
TwoNames == q1 :> Ask(1, x, "aaaa") @@ q2 :> Ask(2, y, "a")

\* A client repeats its query; other messages are answered in place, or
\* mapped to a server that is no address.
Repeated ==
    q1 :> Ask(1, z, "mx") @@ q2 :> Ask(1, z, "mx")
      @@ q3 :> [Ask(2, x, "a") EXCEPT !.questions = <<>>]
      @@ q4 :> Ask(3, x, "a") @@ q5 :> Ask(4, host, "a")

\* Two names under one transaction ID.
Collision == q1 :> Ask(1, z, "mx") @@ q2 :> Ask(1, alias, "mx")

Map(name, strategy, value) == [domainName |-> name, strategy |-> strategy, value |-> value]

MappedNames ==
    <<Map(x, "mapping", v4), Map(y, "dns", s1), Map(x, "dns", s2), Map(y, "mapping", v4),
      Map(host, "dns", host)>>

OneServer == <<s1>>
=============================================================================
