----------------------- MODULE ServerDiscoveryProofs ------------------------
(***************************************************************************)
(* Theorems about the game servers together with the proxy's registry, for *)
(* every set of servers and goroutines, whatever fails.                    *)
(***************************************************************************)
EXTENDS ServerDiscovery, ServerRegistryProofs

-----------------------------------------------------------------------------
(* The registry resolves only names of pods that had an address: what is    *)
(* in the bucket, the cache or an update under way was once published by a *)
(* pod that ran.                                                           *)

PodTypes ==
    /\ phase \in [Servers -> {"down", "running", "halting"}]
    /\ ip \in [Servers -> 0..MaxIp]

\* Something is known of the server s.
Known(s) ==
    \/ phase[s] # "down"
    \/ bucket.last[s].rev > 0
    \/ metadata[s] # NoMeta
    \/ \E u \in Updaters : upd[u].key = s

StartedInv == PodTypes /\ \A s \in Servers : Known(s) => ip[s] \in Addrs

\* At first nothing is known.
LEMMA InitStartedInv == DiscoveryInit => StartedInv
BY ServersAssumption, MaxIpAssumption
   DEF DiscoveryInit, Init, EmptyBucket, NoUpd, Pods!PodInit, StartedInv, PodTypes, Known

\* A pod writes while it is up, and has an address from then on.
LEMMA PodSteps ==
    ASSUME PodTypes, NEW s \in Servers, Pods!PodStep(s)
    PROVE  /\ PodTypes'
           /\ \A t \in Servers : /\ ip[t] \in Addrs => ip'[t] \in Addrs
                                 /\ phase'[t] # "down" => phase[t] # "down" \/ ip'[t] \in Addrs
           /\ \/ UNCHANGED bucket
              \/ /\ phase[s] # "down"
                 /\ \E op \in {"put", "del"}, v \in AddressedMetas \cup {NoMeta} :
                       /\ bucket' = Written(bucket, s, op, v)
                       /\ op = "put" => v \in AddressedMetas
                       /\ op = "del" => v = NoMeta
<1>1. CASE Pods!Start(s)
  <2>1. PICK a \in 1..MaxIp : ip' = [ip EXCEPT ![s] = a]
    BY <1>1 DEF Pods!Start
  <2>2. phase' = [phase EXCEPT ![s] = "running"] /\ UNCHANGED bucket /\ Addrs = 1..MaxIp
    BY <1>1, MaxIpAssumption DEF Pods!Start
  <2>3. 1..MaxIp \subseteq 0..MaxIp
    BY MaxIpAssumption
  <2>4. QED
    BY <2>1, <2>2, <2>3 DEF PodTypes
<1>2. CASE Pods!ShutdownHook(s)
  <2>1. /\ phase[s] = "running" /\ phase' = [phase EXCEPT ![s] = "halting"] /\ UNCHANGED ip
        /\ bucket' = Written(bucket, s, "del", NoMeta) \/ UNCHANGED bucket
    BY <1>2 DEF Pods!ShutdownHook, Pods!KVDelete, Pods!Written, Written
  <2>2. QED
    BY <2>1 DEF PodTypes
<1>3. CASE Pods!Exit(s)
  BY <1>3 DEF Pods!Exit, PodTypes
<1>4. ASSUME NEW m \in AddressedMetas, Pods!FirstTick(s, m)
      PROVE  /\ phase[s] # "down" /\ UNCHANGED <<phase, ip>>
             /\ bucket' = Written(bucket, s, "put", m) \/ UNCHANGED bucket
  BY <1>4 DEF Pods!FirstTick, Pods!KVPut, Pods!Written, Written
<1>5. CASE \E m \in AddressedMetas : Pods!FirstTick(s, m)
  BY <1>4, <1>5 DEF PodTypes
<1>6. QED
  BY <1>1, <1>2, <1>3, <1>5 DEF Pods!PodStep

\* What a pod does to the bucket, one of the registry's arbitrary writers may do.
LEMMA LobbyStepsAllowed ==
    ASSUME TypeInv, StartedInv, LobbyStep
    PROVE  [Next]_vars /\ StartedInv'
<1>1. PICK s \in Servers : Pods!PodStep(s)
  BY DEF LobbyStep
<1>2. /\ bucket' # bucket => MayWrite
      /\ UNCHANGED <<watchVars, watcherVars, registryMu, metaMu, cacheVars, callerVars, upd, historyVars>>
  BY DEF LobbyStep, proxyVars
<1>3. bucket \in Buckets(Servers, Vals) /\ bucket.seq \in Nat /\ PodTypes
  BY DEF TypeInv, TypeOK, Buckets, StartedInv
<1>4. CASE UNCHANGED bucket
  <2>1. UNCHANGED vars
    BY <1>2, <1>4 DEF vars, watchVars, watcherVars, cacheVars, callerVars, historyVars
  <2>2. StartedInv'
    BY <1>1, <1>3, <2>1, PodSteps DEF vars, StartedInv, Known
  <2>3. QED
    BY <2>1, <2>2
<1>5. CASE bucket' # bucket
  <2>1. PICK op \in {"put", "del"}, v \in AddressedMetas \cup {NoMeta} :
            /\ bucket' = Written(bucket, s, op, v)
            /\ op = "put" => v \in AddressedMetas
            /\ op = "del" => v = NoMeta
    BY <1>1, <1>3, <1>5, PodSteps
  <2>2. phase[s] # "down"
    BY <1>1, <1>3, <1>5, PodSteps
  <2>3. WriterStep
    <3>1. CASE op = "put"
      BY <1>2, <1>5, <2>1, <3>1, MetasAssumption DEF WriterStep, BackendPut, KVPut
    <3>2. CASE op = "del"
      BY <1>2, <1>5, <2>1, <3>2 DEF WriterStep, BackendDelete, KVDelete
    <3>3. QED
      BY <3>1, <3>2
  <2>4. \A t \in Servers \ {s} : bucket'.last[t] = bucket.last[t]
    BY <1>3, <2>1 DEF Written, Buckets
  <2>5. ASSUME NEW t \in Servers, Known(t)' PROVE ip'[t] \in Addrs
    <3>1. UNCHANGED <<metadata, upd>>
      BY <1>2 DEF cacheVars
    <3>2. Known(t) \/ ip'[t] \in Addrs
      BY <1>1, <1>3, <2>2, <2>4, <2>5, <3>1, PodSteps DEF Known
    <3>3. QED
      BY <1>1, <1>3, <3>2, PodSteps DEF StartedInv
  <2>6. PodTypes'
    BY <1>1, <1>3, PodSteps
  <2>7. QED
    BY <2>3, <2>5, <2>6 DEF Next, StartedInv
<1>6. QED
  BY <1>4, <1>5

\* The server in the watcher's hands was written by somebody.
LEMMA InHandKnown ==
    ASSUME TypeInv, FollowInv, Handling
    PROVE  cur.key \in Servers /\ Known(cur.key)
<1>1. /\ cur \in Entries(Servers, Vals) /\ bucket \in Buckets(Servers, Vals)
      /\ 0 < cur.rev /\ Fits(bucket, cur)
  BY DEF TypeInv, TypeOK, WatcherEntry, Handling, FollowInv
<1>2. cur.key \in Servers /\ cur.rev \in Nat /\ bucket.last[cur.key].rev \in Nat
  BY <1>1 DEF Entries, Buckets, Revisions
<1>3. QED
  BY <1>1, <1>2 DEF Fits, Known

\* What the proxy's resolver answers is an address, and nothing becomes known to the
\* proxy that was not.
LEMMA ProxyStepsAllowed ==
    ASSUME TypeInv, FollowInv, StartedInv, ProxyStep
    PROVE  [Next]_vars /\ StartedInv'
<1> USE DEF envVars, watchVars, watcherVars, cacheVars, callerVars, historyVars
<1>1. /\ metadata \in [Servers -> Metas \cup {NoMeta}] /\ bucket \in Buckets(Servers, Vals)
      /\ upd \in [Updaters -> [key : Servers, val : Metas] \cup {NoUpd}]
      /\ NoServer \notin Servers
  BY ServersAssumption DEF TypeInv, TypeOK
<1>2. wpc = "resolve" => DnsAnswers \subseteq Addrs
  BY InHandKnown DEF Handling, DnsAnswers, StartedInv
<1>3. WatcherStep(DnsAnswers) => WatcherStep(Addrs)
  BY <1>2 DEF WatcherStep, Resolve
<1>4. Next
  BY <1>3 DEF ProxyStep, Next
<1>5. UNCHANGED <<phase, ip, kv, published>>
  BY DEF ProxyStep, podVars
<1>6. ASSUME UNCHANGED <<bucket, metadata, upd>>, NEW t \in Servers, Known(t)' PROVE Known(t)
  BY <1>5, <1>6 DEF Known
<1>7. ASSUME NEW t \in Servers, Known(t)' PROVE Known(t)
  <2>1. CASE UpdateMetadataInCache
    <3>1. /\ metadata' = [metadata EXCEPT ![cur.key] = cur.val] /\ UNCHANGED <<bucket, upd>>
          /\ Known(cur.key)
      BY <2>1, InHandKnown DEF UpdateMetadataInCache, Handling
    <3>2. QED
      BY <1>1, <1>5, <1>7, <3>1 DEF Known
  <2>2. CASE DeleteMetadataFromCache
    BY <1>1, <1>5, <1>7, <2>2 DEF DeleteMetadataFromCache, Known
  <2>3. CASE ProxyRestart
    BY <1>1, <1>5, <1>7, <2>3 DEF ProxyRestart, NoUpd, Known
  <2>4. ASSUME NEW u \in Updaters, NEW s \in Servers, NEW m \in Metas, UpdateStart(u, s, m)
        PROVE  Known(t)
    <3>1. /\ metadata[s] # NoMeta /\ UNCHANGED bucket
          /\ \A r \in Servers \ {s} : metadata'[r] = metadata[r]
          /\ \A w \in Updaters : upd'[w].key \in {upd[w].key, s}
      BY <1>1, <2>4 DEF UpdateStart
    <3>2. QED
      BY <1>5, <1>7, <3>1 DEF Known
  <2>5. ASSUME NEW u \in Updaters, UpdatePut(u) PROVE Known(t)
    <3>1. /\ bucket' = Written(bucket, upd[u].key, "put", upd[u].val) /\ UNCHANGED metadata
          /\ upd' = [upd EXCEPT ![u] = NoUpd]
      BY <2>5 DEF UpdatePut, UpdateDone, KVPut
    <3>2. \A r \in Servers : r # upd[u].key => bucket'.last[r] = bucket.last[r]
      BY <1>1, <3>1 DEF Written, Buckets
    <3>3. \A w \in Updaters : upd'[w].key \in {upd[w].key, NoServer}
      BY <1>1, <3>1 DEF NoUpd
    <3>4. QED
      BY <1>1, <1>5, <1>7, <3>1, <3>2, <3>3 DEF Known
  <2>6. ASSUME NEW u \in Updaters, UpdateFails(u) PROVE Known(t)
    <3>1. UNCHANGED <<bucket, metadata>> /\ upd' = [upd EXCEPT ![u] = NoUpd]
      BY <2>6 DEF UpdateFails, UpdateDone
    <3>2. \A w \in Updaters : upd'[w].key \in {upd[w].key, NoServer}
      BY <1>1, <3>1 DEF NoUpd
    <3>3. QED
      BY <1>1, <1>5, <1>7, <3>1, <3>2 DEF Known
  <2>7. ASSUME NEW s \in Servers, Deliver(s) PROVE Known(t)
    BY <1>6, <1>7, <2>7 DEF Deliver
  <2>8. ASSUME NEW f \in Finders, FinderStep(f) PROVE Known(t)
    BY <1>6, <1>7, <2>8 DEF FinderStep, FindStart, FindLock, FindRead, FindUse
  <2>9. ASSUME WatcherStep(Addrs), ~UpdateMetadataInCache, ~DeleteMetadataFromCache PROVE Known(t)
    <3>1. UNCHANGED <<bucket, metadata, upd>>
      BY <2>9 DEF WatcherStep, ReceiveDelete, ReceivePut, ReceiveGarbage, Receive, LockToRegister,
         WatcherLocks, NoUsableAddress, Resolve, AlreadyRegistered, GateRefuses, GateRegisters,
         AddRegistered, LockToUnregister, NotRegistered, GateUnregisters, DeleteRegistered
    <3>2. QED
      BY <1>6, <1>7, <3>1
  <2>10. QED
    BY <1>3, <2>1, <2>2, <2>3, <2>4, <2>5, <2>6, <2>7, <2>8, <2>9 DEF ProxyStep, UpdaterStep
<1>8. QED
  BY <1>4, <1>5, <1>7 DEF StartedInv, PodTypes

\* What is known of the servers comes from pods that had an address, at every step.
LEMMA DiscoverySteps ==
    TypeInv /\ FollowInv /\ StartedInv /\ [DiscoveryNext]_discoveryVars => [Next]_vars /\ StartedInv'
<1>1. UNCHANGED discoveryVars /\ StartedInv => UNCHANGED vars /\ StartedInv'
  BY DEF discoveryVars, vars, podVars, StartedInv, PodTypes, Known
<1>2. QED
  BY <1>1, LobbyStepsAllowed, ProxyStepsAllowed DEF DiscoveryNext

\* A registry whose writers are these pods is a registry: all that ServerRegistry's
\* theorems say of any writers holds of it.
THEOREM DiscoveryImplementsRegistry == DiscoverySpec => ImplementsRegistry
<1>1. DiscoveryInit => Init
  BY DEF DiscoveryInit
<1>2. QED
  BY <1>1, InitTypeInv, NextTypeInv, InitFollowInv, NextFollowInv, InitStartedInv, DiscoverySteps, PTL
     DEF DiscoverySpec, ImplementsRegistry, Spec

-----------------------------------------------------------------------------
(* Addresses.  A server that is put again keeps the address it was first    *)
(* registered under, and the watcher the one it has resolved: the history  *)
(* of moves must cover both, and an address never outlives its entry.      *)

ReachInv ==
    /\ ~Handling => addr = NoAddr
    /\ \A s \in Servers \ movedSince :
          /\ gate[s] # NoAddr => gate[s] = ip[s]
          /\ cur.key = s /\ addr # NoAddr => addr = ip[s]

\* At first nothing is registered or resolved.
LEMMA InitReachInv == DiscoveryInit => ReachInv
BY DEF DiscoveryInit, Init, ReachInv

\* A pod that moves while the proxy has its address is among those that moved.
LEMMA LobbyKeepsReach == ASSUME ReachInv, LobbyStep PROVE ReachInv'
<1>1. /\ UNCHANGED <<wpc, cur, addr, gate>>
      /\ movedSince' = movedSince \cup
            {s \in Servers : ip'[s] # ip[s] /\ (gate[s] # NoAddr \/ (cur.key = s /\ addr # NoAddr))}
  BY DEF LobbyStep, proxyVars, watcherVars, cacheVars
<1>2. \A s \in Servers \ movedSince' :
         s \notin movedSince /\ (ip'[s] = ip[s] \/ (gate[s] = NoAddr /\ ~(cur.key = s /\ addr # NoAddr)))
  BY <1>1
<1>3. QED
  BY <1>1, <1>2 DEF ReachInv, Handling

\* The watcher resolves the address the pod has, and Gate is given what it resolved.
LEMMA ProxyKeepsReach == ASSUME TypeInv, ReachInv, ProxyStep PROVE ReachInv'
<1> USE DEF envVars, watchVars, watcherVars, cacheVars, callerVars, historyVars, Handling
<1>1. /\ gate \in [Servers -> Addrs \cup {NoAddr}] /\ UNCHANGED ip
      /\ movedSince' = {s \in movedSince : gate'[s] # NoAddr \/ cur'.key = s}
  BY DEF TypeInv, TypeOK, ProxyStep, podVars
<1>2. ASSUME ~Handling' => addr' = NoAddr,
             \A s \in Servers \ movedSince :
                /\ gate'[s] # NoAddr => gate'[s] = ip[s]
                /\ cur'.key = s /\ addr' # NoAddr => addr' = ip[s]
      PROVE  ReachInv'
  <2>1. ASSUME NEW s \in Servers, s \notin movedSince'
        PROVE  s \notin movedSince \/ (gate'[s] = NoAddr /\ cur'.key # s)
    BY <1>1, <2>1
  <2>2. QED
    BY <1>1, <1>2, <2>1 DEF ReachInv
<1>3. CASE ReceiveDelete \/ ReceivePut
  BY <1>2, <1>3 DEF ReceiveDelete, ReceivePut, Receive, Handle, ReachInv
<1>4. CASE ReceiveGarbage
  BY <1>2, <1>4 DEF ReceiveGarbage, Receive, Finished, ReachInv
<1>5. CASE NoUsableAddress \/ AlreadyRegistered \/ GateRefuses \/ AddRegistered \/ NotRegistered
           \/ DeleteRegistered
  BY <1>2, <1>5 DEF NoUsableAddress, AlreadyRegistered, GateRefuses, AddRegistered, NotRegistered,
     DeleteRegistered, Return, Finished, ReachInv
<1>6. CASE LockToRegister \/ LockToUnregister \/ UpdateMetadataInCache \/ DeleteMetadataFromCache
  BY <1>2, <1>6 DEF LockToRegister, LockToUnregister, WatcherLocks, UpdateMetadataInCache,
     DeleteMetadataFromCache, ReachInv
<1>7. CASE \E a \in DnsAnswers : Resolve(a)
  BY <1>2, <1>7 DEF DnsAnswers, Resolve, ReachInv
<1>8. CASE GateRegisters
  BY <1>1, <1>2, <1>8 DEF GateRegisters, ReachInv
<1>9. CASE GateUnregisters
  BY <1>1, <1>2, <1>9 DEF GateUnregisters, ReachInv
<1>10. CASE ProxyRestart
  BY <1>2, <1>10 DEF ProxyRestart, ReachInv
<1>11. CASE UNCHANGED <<wpc, cur, addr, gate>>
  BY <1>2, <1>11 DEF ReachInv
<1>12. QED
  BY <1>3, <1>4, <1>5, <1>6, <1>7, <1>8, <1>9, <1>10, <1>11
     DEF ProxyStep, WatcherStep, Deliver, FinderStep, FindStart, FindLock, FindRead, FindUse,
         UpdaterStep, UpdateStart, UpdatePut, UpdateFails, UpdateDone

\* Gate connects players to the address a registered server has, unless the server
\* moved since the proxy resolved it, whatever failed and however often the proxy and
\* the pod restarted.
THEOREM GateAlwaysReachesServer == DiscoverySpec => []GateReachesServer
<1>1. TypeInv /\ CacheInv /\ ReachInv => GateReachesServer
  <2> SUFFICES ASSUME TypeInv, CacheInv, ReachInv, Drained,
                      NEW s \in Servers, IsRegistered(s), s \notin movedSince
               PROVE  gate[s] = ip[s]
    BY DEF GateReachesServer
  <2>1. gate[s] = registered[s]
    BY DEF Drained, CacheInv, CacheSteps, Consistent
  <2>2. QED
    BY <2>1 DEF IsRegistered, ReachInv
<1>2. TypeInv /\ ReachInv /\ [DiscoveryNext]_discoveryVars => ReachInv'
  <2>1. UNCHANGED discoveryVars /\ ReachInv => ReachInv'
    BY DEF discoveryVars, vars, podVars, ReachInv, Handling
  <2>2. QED
    BY <2>1, LobbyKeepsReach, ProxyKeepsReach DEF DiscoveryNext
<1>3. DiscoveryInit => Init
  BY DEF DiscoveryInit
<1>4. QED
  BY <1>1, <1>2, <1>3, InitTypeInv, NextTypeInv, InitCacheInv, NextCacheInv, InitFollowInv, NextFollowInv,
     InitStartedInv, DiscoverySteps, InitReachInv, PTL DEF DiscoverySpec
=============================================================================
