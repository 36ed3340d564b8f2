----------------------------- MODULE MCPlatform -----------------------------
(***************************************************************************)
(* Small instances of Platform's parts.                                    *)
(***************************************************************************)
EXTENDS Platform, TLC

MCMsgOf == [d1 |-> "m1", d2 |-> "m1", d3 |-> "m2"]
MCLag == [d1 |-> 0, d2 |-> 1, d3 |-> 0]
MCKeyOf == [a1 |-> "revoke", a2 |-> "revoke", a3 |-> "ask"]
MCEvaluationOf == [k1 |-> "e1", k2 |-> "e1", k3 |-> "e2"]
MCEventOf == [d1 |-> "t", d2 |-> "t", d3 |-> "f"]
MCScope == <<"ledger", "payments">>
MCExplicit == <<>>
MCOrder == <<"payments", "router", "gateway">>

ASSUME PlatformOK

\* The behaviours of one part, to look for what a document says of it.
SealedCallsAlone == part = "sabcl" /\ PlatformSpec

\* Tabs are interchangeable.
TabSymmetry == Permutations(Tabs)
=============================================================================
