----------------------------- MODULE MCPushQueue -----------------------------
(***************************************************************************)
(* A small instance of PushQueue: three kinds of request, as the code      *)
(* makes them: a full push of everything (mesh change), a full push for a  *)
(* service change in one namespace, an incremental endpoint update.        *)
(***************************************************************************)
EXTENDS PushQueue

MeshChange ==
    [full |-> TRUE, push |-> 1, eds |-> {}, namespaces |-> {}, configs |-> {}]

ServiceChange ==
    [full |-> TRUE, push |-> 1, eds |-> {},
     namespaces |-> {"ns1"}, configs |-> {"ServiceEntry"}]

EndpointChange ==
    [full |-> FALSE, push |-> 1, eds |-> {"svc"},
     namespaces |-> {"ns2"}, configs |-> {"ServiceEntry"}]

MCRequests == {MeshChange, ServiceChange, EndpointChange}
MCContexts == {0, 1}
=============================================================================
