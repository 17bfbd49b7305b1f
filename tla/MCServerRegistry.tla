-------------------------- MODULE MCServerRegistry --------------------------
(***************************************************************************)
(* ServerRegistry for TLC: the .cfg files give the constants.  Servers,    *)
(* addresses and goroutines of one kind are interchangeable.               *)
(***************************************************************************)
EXTENDS ServerRegistry, TLC

Symmetry == Permutations(Servers) \cup Permutations(Addrs)
=============================================================================
