-------------------------- MODULE MCServerDiscovery -------------------------
(* ServerDiscovery for TLC: the .cfg files give the constants. *)
EXTENDS ServerDiscovery
=============================================================================
