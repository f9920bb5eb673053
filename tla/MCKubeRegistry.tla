--------------------------- MODULE MCKubeRegistry ---------------------------
(***************************************************************************)
(* Two clusters, one remote whose controller may be replaced, and two      *)
(* endpoints that run under different service accounts.                    *)
(***************************************************************************)
EXTENDS KubeRegistry

CONSTANTS local, remote, e1, e2, a1, a2

MCClusters == {local, remote}
MCEndpoints == {e1, e2}
MCAccount == [e \in MCEndpoints |-> IF e = e1 THEN a1 ELSE a2]
MCChanging == {remote}
MCEndpointSets == {{}, {e1}, {e2}}

(* The service is new to the remote cluster; the local one may have it. *)
MCInitialKube ==
    {[c \in MCClusters |-> IF c = local THEN o ELSE Missing] :
        o \in {Missing, [svc |-> TRUE, eps |-> {e1}]}}
=============================================================================
