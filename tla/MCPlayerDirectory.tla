-------------------------- MODULE MCPlayerDirectory -------------------------
(***************************************************************************)
(* PlayerDirectory for TLC: two players, and what other writers put.       *)
(***************************************************************************)
EXTENDS PlayerDirectory

CONSTANTS p1, p2, alice, bob

MCNameOf == [p \in Players |-> IF p = p1 THEN alice ELSE bob]

Bare(n) == [name |-> n, notes |-> {}]

\* Every player under its own name or none; or values that do not parse.
OwnNames == [p \in Players |-> {Bare(NoName), Bare(MCNameOf[p]), Garbage}]

\* Every player under any name.
AnyNames == [p \in Players |-> {Bare(n) : n \in Names \cup {NoName}} \cup {Garbage}]
=============================================================================
