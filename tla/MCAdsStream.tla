----------------------------- MODULE MCAdsStream -----------------------------
(***************************************************************************)
(* Three configs that add and remove clusters and routes, from and down to *)
(* none; Envoy may reject what it gets of the second.                      *)
(***************************************************************************)
EXTENDS AdsStream

CONSTANTS c1, c2, r1, r2

MCClusters == {c1, c2}
MCRoutes == {r1, r2}
MCClustersOf == [g \in Configs |-> CASE g = 0 -> {c1} [] g = 1 -> {} [] OTHER -> {c2}]
MCRoutesOf == [g \in Configs |-> CASE g = 0 -> {} [] g = 1 -> {r1} [] OTHER -> {r2}]
=============================================================================
