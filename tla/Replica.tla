------------------------------ MODULE Replica -------------------------------
(***************************************************************************)
(* What a component that follows a key-value bucket promises, in terms of  *)
(* revision numbers: it takes over revisions in the order the bucket gave  *)
(* them, never one that was not written and never an older one after a     *)
(* newer one, except that a restart makes it begin again from nothing; and *)
(* it catches up.  The proxy's registry of game servers implements it; its *)
(* player directory, which ignores deletes, and the permissions checker's  *)
(* cache implement all of it but the last.                                 *)
(***************************************************************************)
EXTENDS Naturals

CONSTANT Keys

VARIABLES clock,    \* the bucket's last revision
          written,  \* each key's last revision, 0 if it has none
          seen      \* the last revision of each key taken over

vars == <<clock, written, seen>>

Init ==
    /\ clock = 0
    /\ written = [k \in Keys |-> 0]
    /\ seen = [k \in Keys |-> 0]

Write(k) ==
    /\ clock' = clock + 1
    /\ written' = [written EXCEPT ![k] = clock + 1]
    /\ UNCHANGED seen

\* A revision of k newer than every revision taken over before.
TakeOver(k) ==
    /\ \E r \in 1..written[k] :
          /\ \A j \in Keys : seen[j] < r
          /\ seen' = [seen EXCEPT ![k] = r]
    /\ UNCHANGED <<clock, written>>

Restart ==
    /\ seen' = [k \in Keys |-> 0]
    /\ UNCHANGED <<clock, written>>

Next == (\E k \in Keys : Write(k) \/ TakeOver(k)) \/ Restart

Spec == Init /\ [][Next]_vars

\* A key that is behind is eventually level, if only for a moment.
CatchUp == \A k \in Keys : (seen[k] < written[k]) ~> (seen[k] = written[k])
=============================================================================
