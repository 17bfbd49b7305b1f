------------------------------ MODULE MCChecker -----------------------------
(***************************************************************************)
(* The permissions checker for TLC: its caches and its policy calls share  *)
(* no state, so a behaviour is one of either, while the other stays in an  *)
(* initial state.  Keys and metadata are interchangeable.                  *)
(***************************************************************************)
EXTENDS MCMetadataCache, CheckerPolicies

CONSTANTS r1, x1

VARIABLE serves
serviceVars == <<serves, vars, checkerVars>>

MCAsListed == x1 :> r1

ServiceInit ==
    /\ serves \in {"caches", "policies"}
    /\ Init /\ CheckerInit
    /\ serves = "caches" => \A r \in Rules : copies[r] = 0

ServiceNext ==
    /\ UNCHANGED serves
    /\ \/ serves = "caches" /\ Next /\ UNCHANGED checkerVars
       \/ serves = "policies" /\ CheckerNext /\ UNCHANGED vars

ServiceSpec == ServiceInit /\ [][ServiceNext]_serviceVars
=============================================================================
