--------------------------- MODULE CheckerPolicies --------------------------
(***************************************************************************)
(* The policies of the permissions checker (permissions-checker/main.go).  *)
(* gRPC serves each AddPolicy and RemovePolicy call in a goroutine of its  *)
(* own, on one casbin Enforcer without a lock.  A call goes through its    *)
(* rules one by one, the store first and memory after, and then loads the  *)
(* stored list again.                                                      *)
(*                                                                         *)
(* The Redis list is not a set: the adapter appends a rule and removes one *)
(* copy of it.  Casbin and the adapter are not part of the repository.     *)
(***************************************************************************)
EXTENDS Integers, Sequences

CONSTANTS
    Rules,         \* the rules a request can carry
    Unparsable,    \* rules other writers left, whose priority is no number
    Malformed,     \* ... and those that do not have seven fields
    AsListed,      \* Unparsable -> Rules, the same rule with priority 0
    Handlers,      \* calls served at a time
    MaxRequests,   \* bound: calls
    MaxLength,     \* bound: rules of a call
    MaxRestarts    \* bound: restarts of the service

Stored == Rules \cup Unparsable \cup Malformed

ASSUME ListedAssumption == AsListed \in [Unparsable -> Rules]
ASSUME DisjointAssumption ==
    Rules \cap (Unparsable \cup Malformed) = {} /\ Unparsable \cap Malformed = {}
ASSUME CheckerBoundsAssumption ==
    MaxRequests \in Nat /\ MaxLength \in Nat \ {0} /\ MaxRestarts \in Nat

VARIABLES
    copies,     \* how often each rule is in the stored list
    policies,   \* what the enforcer holds in memory
    call,       \* Handlers -> the call it serves
    torn,       \* history: memory and store may differ
    granted,    \* history: rules a call alone added, and none removed since
    revoked,    \* history: rules a call alone removed, and none added since
    requests, restarts

checkerVars == <<copies, policies, call, torn, granted, revoked, requests, restarts>>
checkerHistory == <<torn, granted, revoked>>
checkerCounters == <<requests, restarts>>

Idle == [pc |-> "idle", op |-> "none", todo |-> <<>>, done |-> {}, read |-> {},
         alone |-> FALSE, sure |-> FALSE]
Serving == {h \in Handlers : call[h].pc # "idle"}

InStore == {r \in Stored : copies[r] > 0}
Doubled == \E r \in Stored : copies[r] > 1

\* ListPolicies: a priority that does not parse is listed as 0, a rule of
\* another length is not listed.
Listed == (policies \cap Rules) \cup {AsListed[r] : r \in policies \cap Unparsable}

CheckerInit ==
    /\ copies \in [Stored -> 0..1]
    /\ \A r \in Stored \ Rules : copies[r] = 1
    /\ policies = InStore
    /\ call = [h \in Handlers |-> Idle]
    /\ torn = FALSE
    /\ granted = {} /\ revoked = {}
    /\ requests = 0 /\ restarts = 0

-----------------------------------------------------------------------------
\* A call and the rules it carries.  Those that overlap are no longer sure of
\* what they find; and one that adds a rule takes back what was removed.
Request(h, op, rules) ==
    /\ call[h].pc = "idle"
    /\ requests < MaxRequests
    /\ requests' = requests + 1
    /\ LET alone == Serving = {} IN
       /\ torn' = (torn \/ ~alone)
       /\ call' = [g \in Handlers |->
                     IF g = h THEN [Idle EXCEPT !.pc = "rule", !.op = op, !.todo = rules, !.alone = alone,
                                                !.sure = alone /\ ~torn /\ ~Doubled]
                              ELSE [call[g] EXCEPT !.alone = FALSE, !.sure = FALSE]]
    /\ LET named == {rules[i] : i \in DOMAIN rules} IN
       /\ granted' = IF op = "remove" THEN granted \ named ELSE granted
       /\ revoked' = IF op = "add" THEN revoked \ named ELSE revoked
    /\ UNCHANGED <<copies, policies, restarts>>

\* The loop over the request's rules.
AtRule(h) == call[h].pc = "rule" /\ call[h].todo # <<>>
Done(c) == [c EXCEPT !.pc = "rule", !.todo = Tail(@), !.done = @ \cup {Head(c.todo)}]

\* Enforcer.AddPolicy finds the rule in memory, and leaves the store alone.
AlreadyThere(h) ==
    /\ AtRule(h)
    /\ call[h].op = "add" /\ Head(call[h].todo) \in policies
    /\ call' = [call EXCEPT ![h] = Done(@)]
    /\ UNCHANGED <<copies, policies, checkerHistory, checkerCounters>>

\* Faulty variant: a copy is taken off although there is none.
PersistedBlindly(h) ==
    LET r == Head(call[h].todo) IN
    [copies EXCEPT ![r] = IF call[h].op = "add" THEN @ + 1 ELSE @ - 1]

Persisted(h) ==
    LET r == Head(call[h].todo) IN
    [copies EXCEPT ![r] = IF call[h].op = "add" THEN @ + 1 ELSE IF @ = 0 THEN 0 ELSE @ - 1]

Persists(h) == AtRule(h) /\ (call[h].op = "add" => Head(call[h].todo) \notin policies)

\* Of a rule the list has twice one copy stays.
StoreRule(h) ==
    /\ Persists(h)
    /\ copies' = Persisted(h)
    /\ call' = [call EXCEPT ![h].pc = "remember"]
    /\ torn' = (torn \/ (call[h].op = "remove" /\ copies[Head(call[h].todo)] > 1))
    /\ UNCHANGED <<policies, granted, revoked, checkerCounters>>

\* Faulty variant: an error is logged, and the loop goes on.
StoreFailsSilently(h) ==
    /\ Persists(h)
    /\ call' = [call EXCEPT ![h] = Done(@)]
    /\ torn' = TRUE
    /\ UNCHANGED <<copies, policies, granted, revoked, checkerCounters>>

\* The adapter fails, the rule written or not: the call answers a failure with
\* its earlier rules kept, and does not load.
StoreFails(h) ==
    /\ Persists(h)
    /\ copies' \in {copies, Persisted(h)}
    /\ torn' = (torn \/ copies' # copies)
    /\ call' = [call EXCEPT ![h] = Idle]
    /\ UNCHANGED <<policies, granted, revoked, checkerCounters>>

\* Removing what memory does not hold changes nothing there.
Remember(h) ==
    /\ call[h].pc = "remember"
    /\ policies' = IF call[h].op = "add" THEN policies \cup {Head(call[h].todo)}
                                         ELSE policies \ {Head(call[h].todo)}
    /\ call' = [call EXCEPT ![h] = Done(@)]
    /\ UNCHANGED <<copies, checkerHistory, checkerCounters>>

\* LoadPolicy reads the list ...
ReadList(h) ==
    /\ call[h].pc = "rule" /\ call[h].todo = <<>>
    /\ call' = [call EXCEPT ![h].pc = "apply", ![h].read = InStore]
    /\ UNCHANGED <<copies, policies, checkerHistory, checkerCounters>>

\* The call answers a success.
Answers(h) ==
    /\ call' = [call EXCEPT ![h] = Idle]
    /\ granted' = granted \cup IF call[h].sure /\ call[h].op = "add" THEN call[h].done ELSE {}
    /\ revoked' = revoked \cup IF call[h].sure /\ call[h].op = "remove" THEN call[h].done ELSE {}
    /\ UNCHANGED checkerCounters

\* Faulty variant: what was read is added to what memory has.
MergeList(h) ==
    /\ call[h].pc = "apply"
    /\ policies' = policies \cup call[h].read
    /\ torn' = ~call[h].alone
    /\ Answers(h)
    /\ UNCHANGED copies

\* ... and replaces memory by it: whatever changed in between is forgotten.
ApplyList(h) ==
    /\ call[h].pc = "apply"
    /\ policies' = call[h].read
    /\ torn' = ~call[h].alone
    /\ Answers(h)
    /\ UNCHANGED copies

\* Its error is ignored.
LoadFails(h) ==
    /\ call[h].pc = "rule" /\ call[h].todo = <<>>
    /\ Answers(h)
    /\ UNCHANGED <<copies, policies, torn>>

\* The service stops, between two steps of its calls or not, and starts again
\* with what the store holds.
CheckerRestart ==
    /\ restarts < MaxRestarts
    /\ restarts' = restarts + 1
    /\ call' = [h \in Handlers |-> Idle]
    /\ policies' = InStore
    /\ torn' = FALSE
    /\ UNCHANGED <<copies, granted, revoked, requests>>

-----------------------------------------------------------------------------
CallStep(h) ==
    \/ AlreadyThere(h) \/ StoreRule(h) \/ StoreFails(h) \/ Remember(h)
    \/ ReadList(h) \/ ApplyList(h) \/ LoadFails(h)

Requested == UNION {[1..n -> Rules] : n \in 1..MaxLength}

CheckerNext ==
    \/ \E h \in Handlers :
          CallStep(h) \/ \E op \in {"add", "remove"}, rules \in Requested : Request(h, op, rules)
    \/ CheckerRestart

CheckerSpec == CheckerInit /\ [][CheckerNext]_checkerVars

-----------------------------------------------------------------------------
(* Properties.                                                             *)

Calls == [pc : {"idle", "rule", "remember", "apply"}, op : {"none", "add", "remove"},
          todo : {<<>>} \cup Requested, done : SUBSET Rules, read : SUBSET Stored, alone : BOOLEAN, sure : BOOLEAN]

\* The values each variable takes; a call is alone when no other is served.
CheckerTypeOK ==
    /\ copies \in [Stored -> Nat] /\ policies \subseteq Stored
    /\ call \in [Handlers -> Calls]
    /\ \A h \in Handlers : (call[h].sure => call[h].alone) /\ (call[h].alone => Serving = {h})
    /\ torn \in BOOLEAN /\ granted \subseteq Rules /\ revoked \subseteq Rules
    /\ requests \in 0..MaxRequests /\ restarts \in 0..MaxRestarts

\* Between calls the rules that are enforced are those stored, a call that
\* failed half way through its rules and a load that failed included; only
\* calls that overlapped, an error of a write that was done, or the removal of
\* one of two copies can part them, and the next call that loads alone brings
\* them together.
MemoryShowsStore == Serving = {} /\ ~torn => policies = InStore

\* An answer of success holds until a request says otherwise, across failing
\* calls and restarts: a rule that was added stays stored and, between calls,
\* is enforced and listed; one that was removed is gone from both.  (Of a call
\* that overlapped no other and found memory and store agreed, and no rule
\* twice in the list.)
AnswersHold ==
    /\ granted \subseteq InStore
    /\ revoked \cap InStore = {}
    /\ Serving = {} /\ ~torn =>
          granted \subseteq policies \cap Listed /\ revoked \cap policies = {}
=============================================================================
