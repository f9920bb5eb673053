------------------------- MODULE MCDiscoveryServer -------------------------
(* A small instance of DiscoveryServer: the values are in the cfg files.   *)
EXTENDS DiscoveryServer
=============================================================================
