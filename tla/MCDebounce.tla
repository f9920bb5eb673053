----------------------------- MODULE MCDebounce ------------------------------
(* A small instance of Debounce: a full and an incremental request, a      *)
(* channel of one place, two callers.                                      *)
EXTENDS Debounce

FullRequest ==
    [full |-> TRUE, push |-> 0, eds |-> {}, namespaces |-> {}, configs |-> {}]

EndpointRequest ==
    [full |-> FALSE, push |-> 0, eds |-> {"svc"}, namespaces |-> {"ns1"}, configs |-> {}]

MCRequests == {FullRequest, EndpointRequest}
=============================================================================
