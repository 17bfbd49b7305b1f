-------------------------- MODULE PolicySyncProofs --------------------------
(***************************************************************************)
(* Theorems about PolicySync, for every set of policies, goroutines and    *)
(* proxies, every bound and every combination of faults.                   *)
(***************************************************************************)
EXTENDS PolicySync, TLAPS

-----------------------------------------------------------------------------
(* Type correctness.  TypeOK is not inductive alone: what a request adds   *)
(* to the store is the rule it carries.                                    *)

ActiveHaveRules == \A h \in Active : handler[h].rule \in Rules

TypeInv == TypeOK /\ ActiveHaveRules

\* The records a goroutine goes through are handler states.
LEMMA IdleType == Idle \in HandlerStates /\ Idle.pc = "idle"
BY DEF Idle, HandlerStates, Steps

\* A goroutine that goes on to a step keeps the request it serves.
LEMMA GoOnType ==
    ASSUME NEW h \in Handlers, NEW step \in Steps, TypeOK, GoOn(h, step)
    PROVE  /\ handler' \in [Handlers -> HandlerStates]
           /\ handler'[h].pc = step
           /\ \A g \in Handlers : /\ handler'[g].rule = handler[g].rule
                                 /\ handler'[g].op = handler[g].op
                                 /\ handler'[g].texts = handler[g].texts
           /\ \A g \in Handlers \ {h} : handler'[g] = handler[g]
BY DEF TypeOK, GoOn, HandlerStates

\* A goroutine that answers is idle, and the others are where they were.
LEMMA AnswerType ==
    ASSUME NEW h \in Handlers, TypeOK, Answer(h)
    PROVE  /\ handler' \in [Handlers -> HandlerStates]
           /\ handler'[h].pc = "idle"
           /\ \A g \in Handlers \ {h} : handler'[g] = handler[g]
BY IdleType DEF TypeOK, Answer

\* The texts that SavePolicy collects are policies.
LEMMA SaveType ==
    ASSUME NEW r \in HandlerStates, NEW m \in SUBSET Rules
    PROVE  /\ [r EXCEPT !.pc = "save", !.texts = m] \in HandlerStates
           /\ [r EXCEPT !.pc = "save", !.texts = m].rule = r.rule
BY DEF HandlerStates, Steps

\* What a call writes to the store are policies.
LEMMA WrittenType ==
    ASSUME TypeInv, NEW h \in Active
    PROVE  Written(h) \subseteq Rules
<1>1. handler[h].rule \in Rules /\ handler[h].texts \subseteq Rules /\ store \subseteq Rules
  BY DEF TypeInv, TypeOK, ActiveHaveRules, Active, HandlerStates
<1>2. QED
  BY <1>1 DEF Written

\* Requests that have not begun carry no rule.
LEMMA InitTypeInv == Init => TypeInv
<1> SUFFICES ASSUME Init PROVE TypeInv
  OBVIOUS
<1>1. handler \in [Handlers -> HandlerStates] /\ Active = {}
  BY IdleType DEF Init, Active
<1>2. /\ proxy \in [Gates -> {"down", "loaded", "up", "deaf"}]
      /\ notices \in [Gates -> Nat] /\ \A p \in Gates : notices[p] = 0
      /\ policy \in [Gates -> SUBSET Rules]
      /\ behind \in [Gates -> BOOLEAN]
  BY DEF Init
<1>3. starts \in [Gates -> 0..MaxStarts] /\ restarts \in 0..MaxRestarts /\ requests \in 0..MaxRequests
  BY BoundsAssumption DEF Init
<1>4. QED
  BY <1>1, <1>2, <1>3 DEF Init, TypeInv, TypeOK, ActiveHaveRules

\* No step gives a variable a value of another kind, nor an active request no rule.
LEMMA NextTypeInv == TypeInv /\ [Next]_vars => TypeInv'
<1> SUFFICES ASSUME TypeInv, [Next]_vars PROVE TypeInv'
  OBVIOUS
<1> USE BoundsAssumption DEF TypeInv, TypeOK, ActiveHaveRules, Active, proxyVars, webVars
<1>1. ASSUME NEW h \in Handlers, NEW op \in {"add", "remove"}, NEW r \in Rules, Request(h, op, r)
      PROVE  TypeInv'
  <2>1. [Idle EXCEPT !.pc = "store", !.op = op, !.rule = r] \in HandlerStates
    BY DEF Idle, HandlerStates, Steps
  <2>2. [Idle EXCEPT !.pc = "store", !.op = op, !.rule = r].rule = r
    BY DEF Idle
  <2>3. QED
    BY <1>1, <2>1, <2>2 DEF Request, Alone
<1>2. ASSUME NEW h \in Handlers, HandlerStep(h) PROVE TypeInv'
  <2>1. CASE StoreRule(h)
    <3>1. Written(h) \subseteq Rules
      BY <2>1, WrittenType DEF StoreRule
    <3>2. behind' \in [Gates -> BOOLEAN] /\ store' \subseteq Rules
      BY <2>1, <3>1 DEF StoreRule, Changes, Untold
    <3>3. QED
      BY <2>1, <3>2, GoOnType DEF StoreRule, Steps
  <2>2. CASE StoreFails(h)
    <3>1. Written(h) \subseteq Rules
      BY <2>2, WrittenType DEF StoreFails
    <3>2. behind' \in [Gates -> BOOLEAN] /\ store' \subseteq Rules /\ torn' \in BOOLEAN
      BY <2>2, <3>1 DEF StoreFails, AllBehind
    <3>3. QED
      BY <2>2, <3>2, AnswerType DEF StoreFails
  <2>3. CASE Remember(h)
    <3>1. memory' \subseteq Rules
      BY <2>3 DEF Remember
    <3>2. QED
      BY <2>3, <3>1, GoOnType DEF Remember, Steps
  <2>4. CASE RemovedNothing(h)
    BY <2>4, AnswerType DEF RemovedNothing, AllBehind
  <2>5. CASE SaveDrops(h)
    <3>1. [handler[h] EXCEPT !.pc = "save", !.texts = memory] \in HandlerStates
      BY SaveType
    <3>2. [handler[h] EXCEPT !.pc = "save", !.texts = memory].rule = handler[h].rule
      BY SaveType
    <3>3. handler' = [handler EXCEPT ![h] = [handler[h] EXCEPT !.pc = "save", !.texts = memory]]
      BY <2>5 DEF SaveDrops, HandlerStates
    <3>4. store' \subseteq Rules
      BY <2>5, WrittenType DEF SaveDrops, Changes
    <3>5. QED
      BY <2>5, <3>1, <3>2, <3>3, <3>4 DEF SaveDrops, Changes, Untold, Alone
  <2>6. CASE SaveWrites(h)
    <3>1. Written(h) \subseteq Rules
      BY <2>6, WrittenType DEF SaveWrites
    <3>2. behind' \in [Gates -> BOOLEAN] /\ store' \subseteq Rules
      BY <2>6, <3>1 DEF SaveWrites, Changes, Untold
    <3>3. QED
      BY <2>6, <3>2, GoOnType DEF SaveWrites, Steps
  <2>7. CASE SaveFails(h)
    <3>1. store' \subseteq Rules
      BY <2>7, WrittenType DEF SaveFails
    <3>2. QED
      BY <2>7, <3>1, AnswerType DEF SaveFails, AllBehind
  <2>8. CASE PublishNatsPolicyUpdate(h)
    BY <2>8, AnswerType DEF PublishNatsPolicyUpdate
  <2>9. CASE PublishFails(h)
    BY <2>9, AnswerType DEF PublishFails, AllBehind
  <2>10. QED
    BY <1>2, <2>1, <2>2, <2>3, <2>4, <2>5, <2>6, <2>7, <2>8, <2>9 DEF HandlerStep
<1>3. ASSUME WebRestart PROVE TypeInv'
  <2>1. handler' \in [Handlers -> HandlerStates] /\ Active' = {}
    BY <1>3, IdleType DEF WebRestart
  <2>2. behind' \in [Gates -> BOOLEAN] /\ restarts' \in 0..MaxRestarts
    BY <1>3 DEF WebRestart, AllBehind
  <2>3. QED
    BY <1>3, <2>1, <2>2 DEF WebRestart
<1>4. ASSUME NEW p \in Gates, ProxyLives(p) PROVE TypeInv'
  <2>1. CASE ProxyLoads(p)
    <3>1. starts' \in [Gates -> 0..MaxStarts]
      BY <2>1 DEF ProxyLoads
    <3>2. QED
      BY <2>1, <3>1 DEF ProxyLoads
  <2>2. CASE ProxySubscribes(p)
    BY <2>2 DEF ProxySubscribes
  <2>3. CASE SubscriptionFails(p)
    BY <2>3 DEF SubscriptionFails
  <2>4. CASE ProxyDies(p)
    BY <2>4 DEF ProxyDies
  <2>5. QED
    BY <1>4, <2>1, <2>2, <2>3, <2>4 DEF ProxyLives
<1>5. ASSUME NEW p \in Gates, NoticeStep(p) PROVE TypeInv'
  <2>1. notices' \in [Gates -> Nat] /\ \A q \in Gates : proxy[q] # "up" => notices'[q] = 0
    BY <1>5 DEF NoticeStep, Handled, Reload, ReloadFails
  <2>2. policy' \in [Gates -> SUBSET Rules] /\ behind' \in [Gates -> BOOLEAN]
    BY <1>5 DEF NoticeStep, Reload, ReloadFails
  <2>3. QED
    BY <1>5, <2>1, <2>2 DEF NoticeStep, Reload, ReloadFails
<1>6. ASSUME UNCHANGED vars PROVE TypeInv'
  BY <1>6 DEF vars
<1>7. QED
  BY <1>1, <1>2, <1>3, <1>4, <1>5, <1>6 DEF Next

\* Every variable of the web application and of the proxies keeps its type, and
\* notices wait only for proxies that are subscribed.
THEOREM TypeCorrect == Spec => []TypeOK
<1>1. TypeInv => TypeOK
  BY DEF TypeInv
<1>2. QED
  BY <1>1, InitTypeInv, NextTypeInv, PTL DEF Spec

-----------------------------------------------------------------------------
(* The web application.                                                    *)

\* What the store and memory are to each other while the request of goroutine h
\* is served and no other has disturbed it, by the step that request is at.
InStep(h) ==
    /\ handler[h].pc = "remember" =>
          store = IF handler[h].op = "add" THEN memory \cup {handler[h].rule}
                                           ELSE memory \ {handler[h].rule}
    /\ handler[h].pc = "save" => store = {} /\ handler[h].texts = memory
    /\ handler[h].pc \in {"store", "drop", "publish"} => store = memory

\* Unless requests overlapped or a save failed, one request is served at a time
\* and keeps store and memory in step.
WebInStep ==
    ~torn => /\ \A h \in Active : Alone(h) /\ InStep(h)
             /\ Active = {} => store = memory

\* The web application begins with what the store holds.
LEMMA InitWebInStep == Init => WebInStep
BY DEF Init, WebInStep, Active, Idle

\* Every step of a lone request leaves store and memory as InStep says, and a step
\* that does not is one that sets torn.
LEMMA NextWebInStep == TypeInv /\ WebInStep /\ [Next]_vars => WebInStep'
<1> SUFFICES ASSUME TypeInv, WebInStep, [Next]_vars PROVE WebInStep'
  OBVIOUS
<1> USE DEF TypeInv, TypeOK, WebInStep, Active, Alone, InStep, proxyVars, webVars, Idle
<1>1. ASSUME NEW h \in Handlers, NEW op \in {"add", "remove"}, NEW r \in Rules, Request(h, op, r)
      PROVE  WebInStep'
  <2>1. handler'[h].pc = "store" /\ \A g \in Handlers \ {h} : handler'[g] = handler[g]
    BY <1>1 DEF Request
  <2>2. ~torn' => ~torn /\ Active = {}
    <3>1. ~torn' => ~torn /\ Alone(h)
      BY <1>1, Zenon DEF Request
    <3>2. Alone(h) => Active = {}
      BY <1>1 DEF Request
    <3>3. QED
      BY <3>1, <3>2, Zenon
  <2>3. ~torn' => Active' = {h} /\ store' = memory'
    BY <1>1, <2>1, <2>2 DEF Request
  <2>4. QED
    BY <2>1, <2>2, <2>3
<1>2. ASSUME NEW h \in Handlers, HandlerStep(h) PROVE WebInStep'
  <2> USE DEF Changes
  <2>1. CASE StoreRule(h)
    <3>1. GoOn(h, "remember") /\ "remember" \in Steps
      BY <2>1 DEF StoreRule, Steps
    <3>2. /\ handler'[h].pc = "remember"
          /\ handler'[h].op = handler[h].op /\ handler'[h].rule = handler[h].rule
          /\ \A g \in Handlers \ {h} : handler'[g] = handler[g]
      BY <3>1, GoOnType
    <3>3. ~torn' => ~torn /\ Active = {h} /\ store = memory
      BY <2>1 DEF StoreRule
    <3>4. ~torn' => Active' = {h}
      BY <3>2, <3>3
    <3>5. ~torn' => store' = IF handler[h].op = "add" THEN memory \cup {handler[h].rule}
                                                      ELSE memory \ {handler[h].rule}
      BY <2>1, <3>3 DEF StoreRule, Written, HandlerStates
    <3>6. memory' = memory
      BY <2>1 DEF StoreRule
    <3>7. QED
      BY <3>2, <3>4, <3>5, <3>6
  <2>2. CASE StoreFails(h)
    <3>1. ~torn' => ~torn /\ UNCHANGED <<store, memory>>
      BY <2>2 DEF StoreFails
    <3>2. QED
      BY <2>2, <3>1, AnswerType DEF StoreFails
  <2>3. CASE Remember(h)
    <3>1. GoOn(h, "drop") /\ "drop" \in Steps
      BY <2>3 DEF Remember, Steps
    <3>2. QED
      BY <2>3, <3>1, GoOnType DEF Remember
  <2>4. CASE RemovedNothing(h)
    <3>1. ~torn' => Active = {h} /\ store = memory \ {handler[h].rule}
      BY <2>4 DEF RemovedNothing
    <3>2. memory \ {handler[h].rule} = memory
      BY <2>4 DEF RemovedNothing
    <3>3. ~torn' => Active' = {}
      BY <2>4, <3>1, AnswerType DEF RemovedNothing
    <3>4. QED
      BY <2>4, <3>1, <3>2, <3>3 DEF RemovedNothing
  <2>5. CASE SaveDrops(h)
    BY <2>5 DEF SaveDrops, Written
  <2>6. CASE SaveWrites(h)
    BY <2>6, GoOnType DEF SaveWrites, Written, Steps
  <2>7. CASE SaveFails(h)
    BY <2>7, AnswerType DEF SaveFails
  <2>8. CASE PublishNatsPolicyUpdate(h)
    BY <2>8, AnswerType DEF PublishNatsPolicyUpdate
  <2>9. CASE PublishFails(h)
    BY <2>9, AnswerType DEF PublishFails
  <2>10. QED
    BY <1>2, <2>1, <2>2, <2>3, <2>4, <2>5, <2>6, <2>7, <2>8, <2>9 DEF HandlerStep
<1>3. ASSUME WebRestart PROVE WebInStep'
  BY <1>3 DEF WebRestart
<1>4. ASSUME NEW p \in Gates, ProxyLives(p) PROVE WebInStep'
  BY <1>4 DEF ProxyLives, ProxyLoads, ProxySubscribes, SubscriptionFails, ProxyDies
<1>5. ASSUME NEW p \in Gates, NoticeStep(p) PROVE WebInStep'
  BY <1>5 DEF NoticeStep, Handled, Reload, ReloadFails
<1>6. ASSUME UNCHANGED vars PROVE WebInStep'
  BY <1>6 DEF vars
<1>7. QED
  BY <1>1, <1>2, <1>3, <1>4, <1>5, <1>6 DEF Next

\* When no request is being served, the web application shows what the store
\* holds, unless the last save overlapped another request or failed.
THEOREM WebAlwaysShowsStore == Spec => []WebShowsStore
<1>1. Init => TypeInv /\ WebInStep
  BY InitTypeInv, InitWebInStep
<1>2. TypeInv /\ WebInStep /\ [Next]_vars => (TypeInv /\ WebInStep)'
  BY NextTypeInv, NextWebInStep
<1>3. WebInStep => WebShowsStore
  BY DEF WebInStep, WebShowsStore, handleListPolicies
<1>4. QED
  BY <1>1, <1>2, <1>3, PTL DEF Spec

-----------------------------------------------------------------------------
(* The proxies.                                                            *)

\* Goroutine h will publish a notice, or fail to and leave every proxy behind.
\* The removal of a rule that memory lacks publishes none; it changed nothing
\* if store and memory were in step.
WillTell(h) ==
    \/ handler[h].pc \in {"drop", "save", "publish"}
    \/ /\ handler[h].pc = "remember"
       /\ handler[h].op = "add" \/ handler[h].rule \in memory \/ torn

\* A proxy that is not behind enforces what the store holds, or will be told.
ProxiesTold ==
    \A p \in Gates : ~behind[p] =>
        /\ proxy[p] = "loaded" => policy[p] = store
        /\ proxy[p] = "up" =>
              policy[p] = store \/ notices[p] > 0 \/ \E h \in Handlers : WillTell(h)

IInv == TypeInv /\ WebInStep /\ ProxiesTold

\* No proxy has loaded anything yet.
LEMMA InitProxiesTold == Init => ProxiesTold
BY DEF Init, ProxiesTold

\* A step that changes the store is followed by a notice, or leaves behind those
\* who will not be told.
LEMMA NextProxiesTold == IInv /\ [Next]_vars => ProxiesTold'
<1> SUFFICES ASSUME TypeInv, WebInStep, ProxiesTold, [Next]_vars PROVE ProxiesTold'
  BY DEF IInv
<1> USE DEF TypeInv, TypeOK, ProxiesTold, WillTell, proxyVars, webVars, Idle
<1>1. ASSUME NEW h \in Handlers, NEW op \in {"add", "remove"}, NEW r \in Rules, Request(h, op, r)
      PROVE  ProxiesTold'
  BY <1>1 DEF Request
<1>2. ASSUME NEW h \in Handlers, HandlerStep(h) PROVE ProxiesTold'
  <2> USE DEF Changes, Untold, AllBehind
  <2>1. CASE StoreRule(h)
    <3>1. GoOn(h, "remember") /\ "remember" \in Steps
      BY <2>1 DEF StoreRule, Steps
    <3>2. WillTell(h)' \/ store' = store
      BY <2>1, <3>1, GoOnType DEF StoreRule, Written, WebInStep, InStep, Active, HandlerStates
    <3>3. \A g \in Handlers : WillTell(g) => WillTell(g)'
      BY <2>1, <3>1, GoOnType DEF StoreRule
    <3>4. \A p \in Gates : ~behind'[p] =>
              ~behind[p] /\ (store' = store \/ proxy[p] \notin {"loaded", "deaf"})
      BY <2>1 DEF StoreRule
    <3>5. UNCHANGED <<proxy, policy, notices>>
      BY <2>1 DEF StoreRule
    <3> HIDE DEF WillTell
    <3>6. QED
      BY <3>2, <3>3, <3>4, <3>5
  <2>2. CASE StoreFails(h)
    <3>1. CASE store' = store
      BY <2>2, <3>1, AnswerType DEF StoreFails
    <3>2. CASE store' # store
      BY <2>2, <3>2 DEF StoreFails
    <3>3. QED
      BY <3>1, <3>2
  <2>3. CASE Remember(h)
    <3>1. GoOn(h, "drop") /\ "drop" \in Steps
      BY <2>3 DEF Remember, Steps
    <3>2. QED
      BY <2>3, <3>1, GoOnType DEF Remember
  <2>4. CASE RemovedNothing(h)
    <3>1. CASE torn
      BY <2>4, <3>1 DEF RemovedNothing
    <3>2. CASE ~torn
      <4>1. ~WillTell(h)
        BY <2>4, <3>2 DEF RemovedNothing
      <4>2. \A g \in Handlers : WillTell(g) => WillTell(g)'
        BY <2>4, <4>1, AnswerType DEF RemovedNothing
      <4>3. UNCHANGED <<store, behind, proxy, policy, notices>>
        BY <2>4, <3>2 DEF RemovedNothing
      <4> HIDE DEF WillTell
      <4>4. QED
        BY <4>2, <4>3
    <3>3. QED
      BY <3>1, <3>2
  <2>5. CASE SaveDrops(h)
    <3>1. WillTell(h)'
      BY <2>5 DEF SaveDrops
    <3>2. \A p \in Gates : ~behind'[p] =>
              ~behind[p] /\ (store' = store \/ proxy[p] \notin {"loaded", "deaf"})
      BY <2>5 DEF SaveDrops
    <3>3. UNCHANGED <<proxy, policy, notices>>
      BY <2>5 DEF SaveDrops
    <3> HIDE DEF WillTell
    <3>4. QED
      BY <3>1, <3>2, <3>3
  <2>6. CASE SaveWrites(h)
    BY <2>6, GoOnType DEF SaveWrites, Steps
  <2>7. CASE SaveFails(h)
    BY <2>7, AnswerType DEF SaveFails
  <2>8. CASE PublishNatsPolicyUpdate(h)
    BY <2>8, AnswerType DEF PublishNatsPolicyUpdate
  <2>9. CASE PublishFails(h)
    BY <2>9, AnswerType DEF PublishFails
  <2>10. QED
    BY <1>2, <2>1, <2>2, <2>3, <2>4, <2>5, <2>6, <2>7, <2>8, <2>9 DEF HandlerStep
<1>3. ASSUME WebRestart PROVE ProxiesTold'
  BY <1>3 DEF WebRestart, AllBehind, Active
<1>4. ASSUME NEW p \in Gates, ProxyLives(p) PROVE ProxiesTold'
  BY <1>4 DEF ProxyLives, ProxyLoads, ProxySubscribes, SubscriptionFails, ProxyDies
<1>5. ASSUME NEW p \in Gates, NoticeStep(p) PROVE ProxiesTold'
  BY <1>5 DEF NoticeStep, Handled, Reload, ReloadFails
<1>6. ASSUME UNCHANGED vars PROVE ProxiesTold'
  BY <1>6 DEF vars
<1>7. QED
  BY <1>1, <1>2, <1>3, <1>4, <1>5, <1>6 DEF Next

\* A subscribed proxy that was told of every change enforces what the store
\* holds as soon as no request is served and no notice is under way.
THEOREM ProxiesAlwaysFollowStore == Spec => []ProxiesFollowStore
<1>1. Init => IInv
  BY InitTypeInv, InitWebInStep, InitProxiesTold DEF IInv
<1>2. IInv /\ [Next]_vars => IInv'
  BY NextTypeInv, NextWebInStep, NextProxiesTold DEF IInv
<1>3. IInv => ProxiesFollowStore
  BY DEF IInv, TypeInv, TypeOK, ProxiesTold, ProxiesFollowStore, WillTell, Active
<1>4. QED
  BY <1>1, <1>2, <1>3, PTL DEF Spec
=============================================================================
