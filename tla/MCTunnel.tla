------------------------------ MODULE MCTunnel -------------------------------
(***************************************************************************)
(* Small instances of the rules engine, of a flow's connection and of the  *)
(* packet tunnel.  In a behaviour one of them takes the steps: part names  *)
(* it.  The others stay as they were initialised.                          *)
(***************************************************************************)
EXTENDS RulesEngine, LwIPConnection, PacketTunnel, TLC

CONSTANTS
    Parts,    \* the components a run is about
    c1, c2, c3, c4, hx, hy, domainX, throwing, final, builtin

VARIABLE part     \* the component that takes the steps of this behaviour

MCConnection == {c1, c2, c3, c4}
MCHost == {hx, hy}
MCRule == {domainX, throwing, final, builtin}
MCFinal == {final, builtin}

\* Two connections to one host, one to another, and one without a host.
MCHostOf == (c1 :> hx) @@ (c2 :> hx) @@ (c3 :> hy) @@ (c4 :> Nil)

Outcome(r, holds) == IF holds THEN "true" ELSE IF r = throwing THEN "throws" ELSE "false"

\* A domain rule, a rule that throws, a final rule and the builtin one.
MCPredicate == [r \in MCRule |-> [c \in MCConnection |->
    Outcome(r, r \in MCFinal \/ (r = domainX /\ MCHostOf[c] = hx))]]

MCRuleLists == {<<throwing, domainX, final>>, <<domainX>>}

\* Three replies, of which the first is larger than the send buffer.
MCReplies == <<4, 1, 2>>

\* A pool with two usable addresses, at the end of the address space.
MCPools == {[lower |-> 4, upper |-> 7]}

-----------------------------------------------------------------------------
vars == <<part, rulesVars, flowVars, tunnelVars>>

Init ==
    /\ part \in Parts
    /\ RulesInit
    /\ FlowInit
    /\ TunnelInit

RunRules == part = "rules" /\ RulesNext /\ UNCHANGED <<part, flowVars, tunnelVars>>

RunFlow == part = "flow" /\ FlowNext /\ UNCHANGED <<part, rulesVars, tunnelVars>>

RunTunnel == part = "tunnel" /\ TunnelNext /\ UNCHANGED <<part, rulesVars, flowVars>>

Next == RunRules \/ RunFlow \/ RunTunnel

Spec == Init /\ [][Next]_vars

\* Flow: the event loop runs what is queued and the task's steps end; the peer
\* acknowledges what it was sent, and nothing obliges it to send or to close.
FairSpec ==
    /\ Spec
    /\ WF_vars(part = "flow" /\ EventLoop /\ UNCHANGED <<part, rulesVars, tunnelVars>>)
    /\ WF_vars(part = "flow" /\ FlowTask /\ UNCHANGED <<part, rulesVars, tunnelVars>>)
    /\ WF_vars(part = "flow" /\ PeerAcks /\ UNCHANGED <<part, rulesVars, tunnelVars>>)
==============================================================================
