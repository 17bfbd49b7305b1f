----------------------------- MODULE PolicySync -----------------------------
(***************************************************************************)
(* How access policies reach the proxies.  The permissions web application *)
(* edits them: each HTTP request runs handleAddPolicy or                   *)
(* handleRemovePolicy in a goroutine of its own, on one Enforcer that no   *)
(* lock protects.  The policies are kept in Valkey; a notice on a NATS     *)
(* subject makes the proxies load them again.                              *)
(*                                                                         *)
(* Casbin and its Redis adapter are not part of the repository: AddPolicy  *)
(* and RemovePolicy write to the store and then to memory, SavePolicy      *)
(* empties the stored list and then writes all of memory to it, LoadPolicy *)
(* reads the list once and then replaces what is enforced.                 *)
(***************************************************************************)
EXTENDS Naturals, FiniteSets

CONSTANTS
    Rules,         \* policies
    Handlers,      \* requests the web application serves at a time
    Gates,
    Faults,        \* which calls may fail: see FaultKinds
    MaxRequests,   \* bound: edits that are requested
    MaxStarts,     \* bound: starts of a proxy
    MaxRestarts,   \* bound: restarts of the web application
    NoRule

FaultKinds == {"store", "save", "publish", "notice", "load"}

ASSUME RulesAssumption == NoRule \notin Rules
ASSUME FaultsAssumption == Faults \subseteq FaultKinds
ASSUME BoundsAssumption == MaxRequests \in Nat /\ MaxStarts \in Nat /\ MaxRestarts \in Nat

VARIABLES
    store,      \* the policies in Valkey
    memory,     \* those of the web application's Enforcer
    handler,    \* Handlers -> the request a goroutine serves
    proxy,      \* down, loaded (LoadPolicy returned), up (subscribed) or deaf
    policy,     \* the policies a proxy enforces
    notices,    \* notices published to a proxy and not yet handled
    behind,     \* history: a proxy was not told of a change, or failed to load it
    torn,       \* history: requests overlapped, or a failed call changed the store
    requests, starts, restarts

webVars   == <<memory, handler>>
proxyVars == <<proxy, policy, starts>>
vars == <<store, memory, handler, proxy, policy, notices, behind, torn,
          requests, starts, restarts>>

Idle == [pc |-> "idle", op |-> "none", rule |-> NoRule, texts |-> {}]

Active == {h \in Handlers : handler[h].pc # "idle"}
Alone(h) == Active \subseteq {h}

Init ==
    /\ store \in SUBSET Rules
    /\ memory = store
    /\ handler = [h \in Handlers |-> Idle]
    /\ proxy = [p \in Gates |-> "down"]
    /\ policy = [p \in Gates |-> {}]
    /\ notices = [p \in Gates |-> 0]
    /\ behind = [p \in Gates |-> FALSE]
    /\ torn = FALSE
    /\ requests = 0 /\ starts = [p \in Gates |-> 0] /\ restarts = 0

-----------------------------------------------------------------------------
(* A request, in goroutine h.  A proxy that has loaded and not subscribed  *)
(* is not told of a change of the store.                                   *)

Untold == [p \in Gates |-> behind[p] \/ proxy[p] \in {"loaded", "deaf"}]
AllBehind == [p \in Gates |-> TRUE]

Changes(new) ==
    /\ store' = new
    /\ behind' = IF new = store THEN behind ELSE Untold

\* What the call that goroutine h is in writes.  SavePolicy empties the list,
\* and appends the policies.
Written(h) ==
    CASE handler[h].pc = "store" ->
            IF handler[h].op = "add" THEN store \cup {handler[h].rule} ELSE store \ {handler[h].rule}
      [] handler[h].pc = "drop" -> {}
      [] OTHER -> store \cup handler[h].texts

GoOn(h, step) == handler' = [handler EXCEPT ![h].pc = step]
Answer(h) == handler' = [handler EXCEPT ![h] = Idle]

\* Enforcer.AddPolicy finds a rule it has already, and the handler answers:
\* nothing changes.  RemovePolicy looks for the rule only after the store.
Request(h, op, r) ==
    /\ handler[h].pc = "idle"
    /\ requests < MaxRequests
    /\ op = "add" => r \notin memory
    /\ requests' = requests + 1
    /\ handler' = [handler EXCEPT ![h] = [Idle EXCEPT !.pc = "store", !.op = op, !.rule = r]]
    /\ torn' = (torn \/ ~Alone(h))
    /\ UNCHANGED <<store, memory, proxyVars, notices, behind, restarts>>

StoreRule(h) ==
    /\ handler[h].pc = "store"
    /\ Changes(Written(h))
    /\ GoOn(h, "remember")
    /\ UNCHANGED <<memory, proxyVars, notices, torn, requests, restarts>>

\* The adapter's error: the handler answers 500 and memory is as it was.  The
\* reply of a write that was done may be lost, and then nobody is told of it.
StoreFails(h) ==
    /\ "store" \in Faults
    /\ handler[h].pc = "store"
    /\ store' \in {store, Written(h)}
    /\ behind' = IF store' = store THEN behind ELSE AllBehind
    /\ torn' = (torn \/ store' # store)
    /\ Answer(h)
    /\ UNCHANGED <<memory, proxyVars, notices, requests, restarts>>

Remember(h) ==
    /\ handler[h].pc = "remember"
    /\ handler[h].op = "remove" => handler[h].rule \in memory
    /\ memory' = IF handler[h].op = "add" THEN memory \cup {handler[h].rule} ELSE memory \ {handler[h].rule}
    /\ GoOn(h, "drop")
    /\ UNCHANGED <<store, proxyVars, notices, behind, torn, requests, restarts>>

\* !removed: the handler returns without saving and without a notice, though
\* the store may have held the rule.
RemovedNothing(h) ==
    /\ handler[h].pc = "remember"
    /\ handler[h].op = "remove"
    /\ handler[h].rule \notin memory
    /\ Answer(h)
    /\ behind' = IF torn THEN AllBehind ELSE behind
    /\ UNCHANGED <<store, memory, proxyVars, notices, torn, requests, restarts>>

\* SavePolicy empties the list and collects the policies in memory.
SaveDrops(h) ==
    /\ handler[h].pc = "drop"
    /\ Changes(Written(h))
    /\ handler' = [handler EXCEPT ![h].pc = "save", ![h].texts = memory]
    /\ torn' = ~Alone(h)
    /\ UNCHANGED <<memory, proxyVars, notices, requests, restarts>>

\* Faulty variant: SavePolicy writes the handler's rule only.
SaveWritesOne(h) ==
    /\ handler[h].pc = "save"
    /\ Changes(store \cup {handler[h].rule})
    /\ GoOn(h, "publish")
    /\ UNCHANGED <<memory, proxyVars, notices, torn, requests, restarts>>

SaveWrites(h) ==
    /\ handler[h].pc = "save"
    /\ Changes(Written(h))
    /\ GoOn(h, "publish")
    /\ UNCHANGED <<memory, proxyVars, notices, torn, requests, restarts>>

\* SavePolicy's error, before or after what failed was done: the handler
\* answers 500 and nobody is told.
SaveFails(h) ==
    /\ "save" \in Faults
    /\ handler[h].pc \in {"drop", "save"}
    /\ store' \in {store, Written(h)}
    /\ Answer(h)
    /\ behind' = AllBehind
    /\ torn' = TRUE
    /\ UNCHANGED <<memory, proxyVars, notices, requests, restarts>>

\* Faulty variant: only additions are announced.
PublishAdditions(h) ==
    /\ handler[h].pc = "publish"
    /\ notices' = [p \in Gates |->
            notices[p] + IF proxy[p] = "up" /\ handler[h].op = "add" THEN 1 ELSE 0]
    /\ Answer(h)
    /\ UNCHANGED <<store, memory, proxyVars, behind, torn, requests, restarts>>

\* Faulty variant: a notice waits for proxies that have not subscribed yet.
NoticeToAll(h) ==
    /\ handler[h].pc = "publish"
    /\ notices' = [p \in Gates |-> notices[p] + 1]
    /\ Answer(h)
    /\ UNCHANGED <<store, memory, proxyVars, behind, torn, requests, restarts>>

\* PublishNatsPolicyUpdate: to the proxies subscribed now.
PublishNatsPolicyUpdate(h) ==
    /\ handler[h].pc = "publish"
    /\ notices' = [p \in Gates |-> notices[p] + IF proxy[p] = "up" THEN 1 ELSE 0]
    /\ Answer(h)
    /\ UNCHANGED <<store, memory, proxyVars, behind, torn, requests, restarts>>

PublishFails(h) ==
    /\ "publish" \in Faults
    /\ handler[h].pc = "publish"
    /\ Answer(h)
    /\ behind' = AllBehind
    /\ UNCHANGED <<store, memory, proxyVars, notices, torn, requests, restarts>>

\* The web application dies and loads what the store holds, halves included.
WebRestart ==
    /\ restarts < MaxRestarts
    /\ restarts' = restarts + 1
    /\ memory' = store
    /\ handler' = [h \in Handlers |-> Idle]
    /\ torn' = FALSE
    /\ behind' = IF Active = {} THEN behind ELSE AllBehind
    /\ UNCHANGED <<store, proxyVars, notices, requests>>

-----------------------------------------------------------------------------
(* InitCasbin in a proxy: load, then subscribe.                            *)

\* Faulty variant: the policies are loaded with the first notice only.
ProxyStartsEmpty(p) ==
    /\ proxy[p] = "down"
    /\ starts[p] < MaxStarts
    /\ starts' = [starts EXCEPT ![p] = @ + 1]
    /\ proxy' = [proxy EXCEPT ![p] = "loaded"]
    /\ behind' = [behind EXCEPT ![p] = FALSE]
    /\ UNCHANGED <<store, webVars, policy, notices, torn, requests, restarts>>

ProxyLoads(p) ==
    /\ proxy[p] = "down"
    /\ starts[p] < MaxStarts
    /\ starts' = [starts EXCEPT ![p] = @ + 1]
    /\ proxy' = [proxy EXCEPT ![p] = "loaded"]
    /\ policy' = [policy EXCEPT ![p] = store]
    /\ behind' = [behind EXCEPT ![p] = FALSE]
    /\ UNCHANGED <<store, webVars, notices, torn, requests, restarts>>

\* A failed subscription is logged, and the proxy goes on without notices.
ProxySubscribes(p) ==
    /\ proxy[p] = "loaded"
    /\ proxy' = [proxy EXCEPT ![p] = "up"]
    /\ UNCHANGED <<store, webVars, policy, notices, behind, torn, requests, starts, restarts>>

SubscriptionFails(p) ==
    /\ "notice" \in Faults
    /\ proxy[p] = "loaded"
    /\ proxy' = [proxy EXCEPT ![p] = "deaf"]
    /\ UNCHANGED <<store, webVars, policy, notices, behind, torn, requests, starts, restarts>>

ProxyDies(p) ==
    /\ proxy[p] # "down"
    /\ starts[p] < MaxStarts
    /\ proxy' = [proxy EXCEPT ![p] = "down"]
    /\ policy' = [policy EXCEPT ![p] = {}]
    /\ notices' = [notices EXCEPT ![p] = 0]
    /\ behind' = [behind EXCEPT ![p] = FALSE]
    /\ UNCHANGED <<store, webVars, torn, requests, starts, restarts>>

\* The subscription's callback, one notice after another.
Handled(p) == notices[p] > 0 /\ notices' = [notices EXCEPT ![p] = @ - 1]

Reload(p) ==
    /\ Handled(p)
    /\ policy' = [policy EXCEPT ![p] = store]
    /\ behind' = [behind EXCEPT ![p] = FALSE]
    /\ UNCHANGED <<store, webVars, proxy, torn, requests, starts, restarts>>

\* LoadPolicy's error is logged, and what was enforced stays; or NATS drops
\* the notice.
ReloadFails(p) ==
    /\ Faults \cap {"load", "notice"} # {}
    /\ Handled(p)
    /\ behind' = [behind EXCEPT ![p] = TRUE]
    /\ UNCHANGED <<store, webVars, proxyVars, torn, requests, restarts>>

\* What the page of the web application lists: every rule has its four fields.
handleListPolicies == memory

-----------------------------------------------------------------------------
HandlerStep(h) ==
    \/ StoreRule(h) \/ StoreFails(h) \/ Remember(h) \/ RemovedNothing(h)
    \/ SaveDrops(h) \/ SaveWrites(h) \/ SaveFails(h)
    \/ PublishNatsPolicyUpdate(h) \/ PublishFails(h)

ProxyLives(p) == ProxyLoads(p) \/ ProxySubscribes(p) \/ SubscriptionFails(p) \/ ProxyDies(p)
NoticeStep(p) == Reload(p) \/ ReloadFails(p)

Next ==
    \/ \E h \in Handlers :
          HandlerStep(h) \/ \E op \in {"add", "remove"}, r \in Rules : Request(h, op, r)
    \/ WebRestart
    \/ \E p \in Gates : ProxyLives(p) \/ NoticeStep(p)

\* Requests end (every call has a timeout), and subscriptions call back.
Fairness ==
    /\ \A h \in Handlers : WF_vars(HandlerStep(h))
    /\ \A p \in Gates : WF_vars(NoticeStep(p))

Spec == Init /\ [][Next]_vars
FairSpec == Spec /\ Fairness

-----------------------------------------------------------------------------
(* Properties.                                                             *)

Steps == {"store", "remember", "drop", "save", "publish"}
HandlerStates == [pc : Steps \cup {"idle"}, op : {"none", "add", "remove"},
                  rule : Rules \cup {NoRule}, texts : SUBSET Rules]

\* The values each variable takes; notices wait only for subscribed proxies.
TypeOK ==
    /\ store \subseteq Rules /\ memory \subseteq Rules
    /\ handler \in [Handlers -> HandlerStates]
    /\ proxy \in [Gates -> {"down", "loaded", "up", "deaf"}]
    /\ policy \in [Gates -> SUBSET Rules]
    /\ notices \in [Gates -> Nat]
    /\ \A p \in Gates : proxy[p] # "up" => notices[p] = 0
    /\ behind \in [Gates -> BOOLEAN] /\ torn \in BOOLEAN
    /\ requests \in 0..MaxRequests
    /\ starts \in [Gates -> 0..MaxStarts] /\ restarts \in 0..MaxRestarts

\* When no request is being served and no notice is under way, a subscribed
\* proxy enforces what the store holds, however requests, saves, notices and
\* reloads interleaved; unless a call failed, or the store changed between the
\* proxy's load and its subscription, and nothing was announced since.
ProxiesFollowStore ==
    \A p \in Gates :
        Active = {} /\ proxy[p] = "up" /\ notices[p] = 0 /\ ~behind[p] => policy[p] = store

\* When no request is being served, the policies listed by the web application
\* are those in the store: the last save repairs what overlapping requests did
\* to each other, if no other request was served meanwhile.
WebShowsStore == Active = {} /\ ~torn => handleListPolicies = store

\* A change reaches every subscribed proxy that is told of it.
ChangesReachProxies ==
    \A p \in Gates :
        (Active = {} /\ proxy[p] = "up" /\ policy[p] # store) ~>
            (policy[p] = store \/ Active # {} \/ proxy[p] # "up" \/ behind[p])
=============================================================================
