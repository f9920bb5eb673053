----------------------------- MODULE MCPushScope -----------------------------
(***************************************************************************)
(* Two namespaces with a service in each; a sidecar of ns1 that imports    *)
(* both, a sidecar of ns2 that imports only its own, and a gateway in ns2; *)
(* one config type for each row of the tables of ProxyNeedsPush and        *)
(* PushTypeFor.                                                            *)
(***************************************************************************)
EXTENDS PushScope

MCKind == [side1 |-> "sidecar", side2 |-> "sidecar", gw |-> "router"]
MCHome == [side1 |-> "a", side2 |-> "b", gw |-> "b"]
MCEgress == [side1 |-> {"ns1", "ns2"}, side2 |-> {"ns2"}, gw |-> {}]
MCNamespaceOf == [a |-> "ns1", b |-> "ns2"]
=============================================================================
