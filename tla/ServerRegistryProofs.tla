------------------------ MODULE ServerRegistryProofs ------------------------
(***************************************************************************)
(* Theorems about ServerRegistry, for every set of servers, goroutines and *)
(* values, every bound and every combination of faults.                    *)
(***************************************************************************)
EXTENDS ServerRegistry, KVBucketProofs

-----------------------------------------------------------------------------
(* Type correctness.  TypeOK is not inductive alone: what the watcher      *)
(* writes to the caches comes from the entry it handles.                   *)

\* While it handles an entry, the watcher has one; and the entry it
\* registers carries metadata.
WatcherEntry ==
    /\ wpc \notin {"idle", "stopped"} => cur \in Entries(Servers, Vals)
    /\ wpc \in {"lockRegister"} \cup RegisterSteps => cur.val \in Metas

TypeInv == TypeOK /\ WatcherEntry

\* A proxy that has just started handles no entry.
LEMMA InitTypeInv == Init => TypeInv
BY EmptyBucketType, BoundsAssumption
   DEF Init, TypeInv, TypeOK, WatcherEntry, Vals, Booted, WatcherSteps,
       HoldingSteps, RegisterSteps, UnregisterSteps

\* No step gives a variable a value of another kind, nor makes the watcher register
\* an entry without metadata.
LEMMA NextTypeInv == TypeInv /\ [Next]_vars => TypeInv'
<1> SUFFICES ASSUME TypeInv, [Next]_vars PROVE TypeInv'
  OBVIOUS
<1> USE DEF TypeInv, TypeOK, WatcherEntry, Vals, NoUpd, NoEntry, WatcherSteps,
            HoldingSteps, RegisterSteps, UnregisterSteps, envVars, watchVars,
            watcherVars, cacheVars, callerVars, historyVars
<1> USE BoundsAssumption, ServersAssumption, MetasAssumption
<1>1. ASSUME NEW s \in Servers, BackendDelete(s) PROVE TypeInv'
  BY <1>1, KVDeleteType DEF BackendDelete
<1>2. ASSUME NEW s \in Servers, NEW v \in Metas \cup {Garbage}, BackendPut(s, v) PROVE TypeInv'
  BY <1>2, KVPutType DEF BackendPut
<1>3. ASSUME NEW s \in Servers, Deliver(s) PROVE TypeInv'
  BY <1>3, EntryOfType DEF Deliver
<1>4. ASSUME ReceiveDelete PROVE TypeInv'
  <2>1. Head(chan) \in Entries(Servers, Vals) /\ Tail(chan) \in Seq(Entries(Servers, Vals))
        /\ Len(Tail(chan)) <= ChanCap
    BY <1>4, HeadTailProperties DEF ReceiveDelete, Receive
  <2>2. QED
    BY <1>4, <2>1 DEF ReceiveDelete, Receive, Handle
<1>5. ASSUME ReceivePut PROVE TypeInv'
  <2>1. Head(chan) \in Entries(Servers, Vals) /\ Tail(chan) \in Seq(Entries(Servers, Vals))
        /\ Len(Tail(chan)) <= ChanCap
    BY <1>5, HeadTailProperties DEF ReceivePut, Receive
  <2>2. QED
    BY <1>5, <2>1 DEF ReceivePut, Receive, Handle
<1>6. ASSUME ReceiveGarbage PROVE TypeInv'
  <2>1. Head(chan) \in Entries(Servers, Vals) /\ Tail(chan) \in Seq(Entries(Servers, Vals))
        /\ Len(Tail(chan)) <= ChanCap
    BY <1>6, HeadTailProperties DEF ReceiveGarbage, Receive
  <2>2. QED
    BY <1>6, <2>1 DEF ReceiveGarbage, Receive, Finished, Entries
<1>7. ASSUME LockToRegister PROVE TypeInv'
  BY <1>7 DEF LockToRegister, WatcherLocks
<1>8. ASSUME NoUsableAddress PROVE TypeInv'
  BY <1>8 DEF NoUsableAddress, Return, Finished, Entries
<1>9. ASSUME NEW a \in Addrs, Resolve(a) PROVE TypeInv'
  BY <1>9 DEF Resolve
<1>10. ASSUME UpdateMetadataInCache PROVE TypeInv'
  BY <1>10 DEF UpdateMetadataInCache, Entries
<1>11. ASSUME AlreadyRegistered PROVE TypeInv'
  BY <1>11 DEF AlreadyRegistered, Return, Finished, Entries
<1>12. ASSUME GateRefuses PROVE TypeInv'
  BY <1>12 DEF GateRefuses, Return, Finished, Entries
<1>13. ASSUME GateRegisters PROVE TypeInv'
  BY <1>13 DEF GateRegisters, Entries
<1>14. ASSUME AddRegistered PROVE TypeInv'
  BY <1>14 DEF AddRegistered, Return, Finished, Entries
<1>15. ASSUME LockToUnregister PROVE TypeInv'
  BY <1>15 DEF LockToUnregister, WatcherLocks
<1>16. ASSUME DeleteMetadataFromCache PROVE TypeInv'
  BY <1>16 DEF DeleteMetadataFromCache, Entries
<1>17. ASSUME NotRegistered PROVE TypeInv'
  BY <1>17 DEF NotRegistered, Return, Finished, Entries
<1>18. ASSUME GateUnregisters PROVE TypeInv'
  BY <1>18 DEF GateUnregisters, Entries
<1>19. ASSUME DeleteRegistered PROVE TypeInv'
  BY <1>19 DEF DeleteRegistered, Return, Finished, Entries
<1>20. ASSUME NEW f \in Finders, FindStart(f) PROVE TypeInv'
  BY <1>20 DEF FindStart
<1>21. ASSUME NEW f \in Finders, FindLock(f) PROVE TypeInv'
  BY <1>21 DEF FindLock
<1>22. ASSUME NEW f \in Finders, FindRead(f) PROVE TypeInv'
  BY <1>22 DEF FindRead, MatchingDefault
<1>23. ASSUME NEW f \in Finders, FindUse(f) PROVE TypeInv'
  BY <1>23 DEF FindUse
<1>24. ASSUME NEW j \in Joiners, JoinStart(j) PROVE TypeInv'
  BY <1>24 DEF JoinStart
<1>25. ASSUME NEW j \in Joiners, JoinRead(j) PROVE TypeInv'
  BY <1>25 DEF JoinRead
<1>26. ASSUME NEW u \in Updaters, NEW s \in Servers, NEW m \in Metas, UpdateStart(u, s, m) PROVE TypeInv'
  <2>1. metadata' \in [Servers -> Metas \cup {NoMeta}]
    BY <1>26 DEF UpdateStart
  <2>2. metaMu' \in {Free} \cup Updaters /\ upd' \in [Updaters -> [key : Servers, val : Metas] \cup {NoUpd}]
    BY <1>26 DEF UpdateStart
  <2>3. QED
    BY <1>26, <2>1, <2>2 DEF UpdateStart
<1>27. ASSUME NEW u \in Updaters, UpdatePut(u) PROVE TypeInv'
  <2>1. upd[u].key \in Servers /\ upd[u].val \in Vals
    BY <1>27 DEF UpdatePut, UpdateDone
  <2>2. bucket' \in Buckets(Servers, Vals)
    BY <1>27, <2>1, KVPutType DEF UpdatePut
  <2>3. QED
    BY <1>27, <2>2 DEF UpdatePut, UpdateDone
<1>28. ASSUME NEW u \in Updaters, UpdateFails(u) PROVE TypeInv'
  BY <1>28 DEF UpdateFails, UpdateDone
<1>29. ASSUME ProxyRestart PROVE TypeInv'
  BY <1>29 DEF ProxyRestart, Booted
<1>30. ASSUME UNCHANGED vars PROVE TypeInv'
  BY <1>30 DEF vars
<1>31. QED
  BY <1>1, <1>2, <1>3, <1>4, <1>5, <1>6, <1>7, <1>8, <1>9, <1>10, <1>11, <1>12, <1>13, <1>14, <1>15, <1>16, <1>17, <1>18, <1>19, <1>20, <1>21, <1>22, <1>23, <1>24, <1>25, <1>26, <1>27, <1>28, <1>29, <1>30 DEF Next, WriterStep, WatcherStep, FinderStep, JoinerStep, UpdaterStep

\* Every variable stays in its range: no step stores a value of another
\* kind in a cache, and no more entries wait than the channel holds.
THEOREM TypeCorrect == Spec => []TypeOK
<1>1. TypeInv => TypeOK
  BY DEF TypeInv
<1>2. QED
  BY InitTypeInv, NextTypeInv, <1>1, PTL DEF Spec

-----------------------------------------------------------------------------
(* Consistency of the two caches and Gate.  Between two steps of the       *)
(* watcher they disagree about the server it handles; the locks keep the   *)
(* others from seeing it, so the invariant says who holds registryMu and   *)
(* what each step of the watcher has left undone.                          *)

\* registryMu is held by the watcher exactly at the steps that need it, and
\* by a finder exactly while it reads.
LockOwners ==
    /\ registryMu = Watcher <=> wpc \in HoldingSteps
    /\ \A f \in Finders : registryMu = f <=> fpc[f] = "read"

\* Gate and the registration cache agree on s, and if it is there it has metadata.
Consistent(s) ==
    /\ gate[s] = registered[s]
    /\ IsRegistered(s) => metadata[s] # NoMeta

\* Only the server in the watcher's hands may be inconsistent, and how.
CacheSteps ==
    /\ \A s \in Servers :
          s # cur.key \/ wpc \notin {"cacheAdd", "gateUnregister", "cacheDelete"}
              => Consistent(s)
    /\ wpc \in {"gateRegister", "cacheAdd"} => metadata[cur.key] # NoMeta
    /\ wpc = "cacheAdd" => gate[cur.key] = addr
    /\ wpc = "gateUnregister" => gate[cur.key] = registered[cur.key]
    /\ wpc = "cacheDelete" => gate[cur.key] = NoAddr

CacheInv == LockOwners /\ CacheSteps

\* A proxy that has just started holds no lock and has registered nothing.
LEMMA InitCacheInv == Init => CacheInv
BY GoroutinesAssumption
   DEF Init, CacheInv, LockOwners, CacheSteps, Consistent, IsRegistered, Booted,
       HoldingSteps, RegisterSteps, UnregisterSteps

\* Every step keeps the owners of the locks, and the caches as the watcher's step
\* requires.
LEMMA NextCacheInv == TypeInv /\ CacheInv /\ [Next]_vars => CacheInv'
<1> SUFFICES ASSUME TypeInv, CacheInv, [Next]_vars PROVE CacheInv'
  OBVIOUS
<1> USE DEF TypeInv, TypeOK, WatcherEntry, Entries, CacheInv, LockOwners, CacheSteps,
            Consistent, IsRegistered, HoldingSteps, RegisterSteps, UnregisterSteps,
            envVars, watchVars, watcherVars, cacheVars, callerVars, historyVars
<1> USE GoroutinesAssumption, MetasAssumption
<1>1. ASSUME NEW s \in Servers, BackendDelete(s) PROVE CacheInv'
  BY <1>1 DEF BackendDelete
<1>2. ASSUME NEW s \in Servers, NEW v \in Metas \cup {Garbage}, BackendPut(s, v) PROVE CacheInv'
  BY <1>2 DEF BackendPut
<1>3. ASSUME NEW s \in Servers, Deliver(s) PROVE CacheInv'
  BY <1>3 DEF Deliver
<1>4. ASSUME ReceiveDelete PROVE CacheInv'
  BY <1>4 DEF ReceiveDelete, Receive, Handle
<1>5. ASSUME ReceivePut PROVE CacheInv'
  BY <1>5 DEF ReceivePut, Receive, Handle
<1>6. ASSUME ReceiveGarbage PROVE CacheInv'
  BY <1>6 DEF ReceiveGarbage, Receive, Finished
<1>7. ASSUME LockToRegister PROVE CacheInv'
  BY <1>7 DEF LockToRegister, WatcherLocks
<1>8. ASSUME NoUsableAddress PROVE CacheInv'
  BY <1>8 DEF NoUsableAddress, Return, Finished
<1>9. ASSUME NEW a \in Addrs, Resolve(a) PROVE CacheInv'
  BY <1>9 DEF Resolve
<1>10. ASSUME UpdateMetadataInCache PROVE CacheInv'
  BY <1>10 DEF UpdateMetadataInCache
<1>11. ASSUME AlreadyRegistered PROVE CacheInv'
  BY <1>11 DEF AlreadyRegistered, Return, Finished
<1>12. ASSUME GateRefuses PROVE CacheInv'
  BY <1>12 DEF GateRefuses, Return, Finished
<1>13. ASSUME GateRegisters PROVE CacheInv'
  BY <1>13 DEF GateRegisters
<1>14. ASSUME AddRegistered PROVE CacheInv'
  BY <1>14 DEF AddRegistered, Return, Finished
<1>15. ASSUME LockToUnregister PROVE CacheInv'
  BY <1>15 DEF LockToUnregister, WatcherLocks
<1>16. ASSUME DeleteMetadataFromCache PROVE CacheInv'
  BY <1>16 DEF DeleteMetadataFromCache
<1>17. ASSUME NotRegistered PROVE CacheInv'
  BY <1>17 DEF NotRegistered, Return, Finished
<1>18. ASSUME GateUnregisters PROVE CacheInv'
  BY <1>18 DEF GateUnregisters
<1>19. ASSUME DeleteRegistered PROVE CacheInv'
  BY <1>19 DEF DeleteRegistered, Return, Finished
<1>20. ASSUME NEW f \in Finders, FindStart(f) PROVE CacheInv'
  BY <1>20 DEF FindStart
<1>21. ASSUME NEW f \in Finders, FindLock(f) PROVE CacheInv'
  BY <1>21 DEF FindLock
<1>22. ASSUME NEW f \in Finders, FindRead(f) PROVE CacheInv'
  BY <1>22 DEF FindRead
<1>23. ASSUME NEW f \in Finders, FindUse(f) PROVE CacheInv'
  BY <1>23 DEF FindUse
<1>24. ASSUME NEW j \in Joiners, JoinStart(j) PROVE CacheInv'
  BY <1>24 DEF JoinStart
<1>25. ASSUME NEW j \in Joiners, JoinRead(j) PROVE CacheInv'
  BY <1>25 DEF JoinRead
<1>26. ASSUME NEW u \in Updaters, NEW s \in Servers, NEW m \in Metas, UpdateStart(u, s, m) PROVE CacheInv'
  BY <1>26 DEF UpdateStart
<1>27. ASSUME NEW u \in Updaters, UpdatePut(u) PROVE CacheInv'
  BY <1>27 DEF UpdatePut, UpdateDone
<1>28. ASSUME NEW u \in Updaters, UpdateFails(u) PROVE CacheInv'
  BY <1>28 DEF UpdateFails, UpdateDone
<1>29. ASSUME ProxyRestart PROVE CacheInv'
  BY <1>29 DEF ProxyRestart, Booted
<1>30. ASSUME UNCHANGED vars PROVE CacheInv'
  BY <1>30 DEF vars
<1>31. QED
  BY <1>1, <1>2, <1>3, <1>4, <1>5, <1>6, <1>7, <1>8, <1>9, <1>10, <1>11, <1>12, <1>13, <1>14, <1>15, <1>16, <1>17, <1>18, <1>19, <1>20, <1>21, <1>22, <1>23, <1>24, <1>25, <1>26, <1>27, <1>28, <1>29, <1>30 DEF Next, WriterStep, WatcherStep, FinderStep, JoinerStep, UpdaterStep

\* Whoever reads both caches finds metadata for every registered server: the
\* "should not happen" branch of FindServersByLabels (api.go:60-62) is dead.
THEOREM RegisteredAlwaysHaveMetadata == Spec => []RegisteredHaveMetadata
<1>1. CacheInv => RegisteredHaveMetadata
  BY DEF CacheInv, LockOwners, CacheSteps, Consistent, RegisteredHaveMetadata,
         HoldingSteps, RegisterSteps, UnregisterSteps
<1>2. QED
  BY InitTypeInv, NextTypeInv, InitCacheInv, NextCacheInv, <1>1, PTL DEF Spec

\* A server found in registeredServersCache is one Gate knows, at the same
\* address, and every server Gate knows is found there.
THEOREM GateAlwaysMatchesCache == Spec => []GateMatchesCache
<1>1. TypeOK /\ CacheInv => GateMatchesCache
  BY DEF TypeOK, CacheInv, LockOwners, CacheSteps, Consistent, GateMatchesCache,
         HoldingSteps, RegisterSteps, UnregisterSteps
<1>2. TypeInv => TypeOK
  BY DEF TypeInv
<1>3. QED
  BY InitTypeInv, NextTypeInv, InitCacheInv, NextCacheInv, <1>1, <1>2, PTL DEF Spec

-----------------------------------------------------------------------------
(* Following the bucket.  Whatever the watcher, the finders, the updaters  *)
(* and the writers do is, for the revisions, one of the steps below.       *)

Handling == wpc \notin {"idle", "stopped"}

Writes ==
    /\ \E s \in Servers, op \in {"put", "del"}, v \in Vals : bucket' = Written(bucket, s, op, v)
    /\ UNCHANGED <<cursor, chan, wpc, cur, applied>>

Delivers ==
    /\ \E s \in Servers : /\ IsNext(bucket, cursor, s)
                          /\ chan' = Append(chan, EntryOf(bucket, s))
                          /\ cursor' = bucket.last[s].rev
    /\ UNCHANGED <<bucket, wpc, cur, applied>>

Receives ==
    /\ ~Handling /\ chan # <<>> /\ chan' = Tail(chan)
    /\ UNCHANGED <<bucket, cursor>>
    /\ \/ Handling' /\ cur' = Head(chan) /\ UNCHANGED applied
       \/ ~Handling' /\ applied' = [applied EXCEPT ![Head(chan).key] = Head(chan).rev]

Finishes ==
    /\ Handling /\ ~Handling'
    /\ applied' = [applied EXCEPT ![cur.key] = cur.rev]
    /\ UNCHANGED <<bucket, cursor, chan>>

Restarts ==
    /\ cursor' = 0 /\ chan' = <<>> /\ ~Handling'
    /\ applied' = [s \in Servers |-> 0]
    /\ UNCHANGED bucket

GoesOn == (Handling' <=> Handling) /\ UNCHANGED <<bucket, cursor, chan, cur, applied>>

\* What a step does to the revisions.
LEMMA FollowingSteps ==
    ASSUME TypeInv, [Next]_vars
    PROVE  Writes \/ Delivers \/ Receives \/ Finishes \/ Restarts \/ GoesOn
<1> USE DEF Handling, HoldingSteps, RegisterSteps, UnregisterSteps, envVars, watchVars,
            watcherVars, cacheVars, callerVars, historyVars
<1>1. ASSUME NEW s \in Servers, BackendDelete(s) PROVE Writes
  BY <1>1 DEF BackendDelete, KVDelete, Writes, Vals
<1>2. ASSUME NEW s \in Servers, NEW v \in Metas \cup {Garbage}, BackendPut(s, v) PROVE Writes
  BY <1>2 DEF BackendPut, KVPut, Writes, Vals
<1>3. ASSUME NEW s \in Servers, Deliver(s) PROVE Delivers
  BY <1>3 DEF Deliver, Delivers
<1>4. ASSUME ReceiveDelete \/ ReceivePut PROVE Receives
  BY <1>4 DEF ReceiveDelete, ReceivePut, Receive, Handle, Receives
<1>5. ASSUME ReceiveGarbage PROVE Receives
  BY <1>5 DEF ReceiveGarbage, Receive, Finished, Receives
<1>6. ASSUME NoUsableAddress \/ AlreadyRegistered \/ GateRefuses \/ AddRegistered
             \/ NotRegistered \/ DeleteRegistered
      PROVE  Finishes
  BY <1>6 DEF NoUsableAddress, AlreadyRegistered, GateRefuses, AddRegistered, NotRegistered,
              DeleteRegistered, Return, Finished, Finishes
<1>7. ASSUME LockToRegister \/ (\E a \in Addrs : Resolve(a)) \/ UpdateMetadataInCache
             \/ GateRegisters \/ LockToUnregister \/ DeleteMetadataFromCache \/ GateUnregisters
      PROVE  GoesOn
  BY <1>7 DEF LockToRegister, Resolve, UpdateMetadataInCache, GateRegisters, LockToUnregister,
              DeleteMetadataFromCache, GateUnregisters, WatcherLocks, GoesOn
<1>8. ASSUME NEW f \in Finders, FinderStep(f) PROVE GoesOn
  BY <1>8 DEF FinderStep, FindStart, FindLock, FindRead, FindUse, GoesOn
<1>9. ASSUME NEW j \in Joiners, JoinerStep(j) PROVE GoesOn
  BY <1>9 DEF JoinerStep, JoinStart, JoinRead, GoesOn
<1>10. ASSUME NEW u \in Updaters, NEW s \in Servers, NEW m \in Metas, UpdateStart(u, s, m) PROVE GoesOn
  BY <1>10 DEF UpdateStart, GoesOn
<1>11. ASSUME NEW u \in Updaters, UpdatePut(u) PROVE Writes
  <2>1. upd[u].key \in Servers /\ upd[u].val \in Vals
    BY <1>11 DEF UpdatePut, UpdateDone, TypeInv, TypeOK, Vals
  <2>2. QED
    BY <1>11, <2>1 DEF UpdatePut, UpdateDone, KVPut, Writes
<1>12. ASSUME NEW u \in Updaters, UpdateFails(u) PROVE GoesOn
  BY <1>12 DEF UpdateFails, UpdateDone, GoesOn
<1>13. ASSUME ProxyRestart PROVE Restarts
  BY <1>13 DEF ProxyRestart, Booted, Restarts
<1>14. ASSUME UNCHANGED vars PROVE GoesOn
  BY <1>14 DEF vars, GoesOn
<1>15. QED
  BY <1>1, <1>2, <1>3, <1>4, <1>5, <1>6, <1>7, <1>8, <1>9, <1>10, <1>11, <1>12, <1>13, <1>14
     DEF Next, WriterStep, WatcherStep, UpdaterStep

\* Revisions arrive in the order they were written: those that wait are newer
\* than the one in hand, and that one newer than all that were handled.
FollowInv ==
    /\ WellNumbered(bucket)
    /\ Ordered(bucket, cursor, chan)
    /\ \A i \in DOMAIN chan : chan[i].rev > 0
    /\ \A s \in Servers : /\ applied[s] <= cursor
                          /\ \A i \in DOMAIN chan : applied[s] < chan[i].rev
                          /\ Handling => applied[s] < cur.rev
    /\ Handling => /\ 0 < cur.rev /\ cur.rev <= cursor /\ Fits(bucket, cur)
                   /\ \A i \in DOMAIN chan : cur.rev < chan[i].rev

\* A proxy that has just started has seen no revision.
LEMMA InitFollowInv == Init => FollowInv
BY EmptyBucketOrder DEF Init, FollowInv, Handling, Booted

\* Every kind of step keeps the order.
LEMMA NextFollowInv == TypeInv /\ FollowInv /\ [Next]_vars => FollowInv'
<1> SUFFICES ASSUME TypeInv, FollowInv, [Next]_vars PROVE FollowInv'
  OBVIOUS
<1> DEFINE E == Entries(Servers, Vals)
<1>1. /\ bucket \in Buckets(Servers, Vals) /\ cursor \in Nat /\ chan \in Seq(E)
      /\ applied \in [Servers -> Nat] /\ WellNumbered(bucket) /\ Ordered(bucket, cursor, chan)
  BY DEF TypeInv, TypeOK, FollowInv
<1>2. \A e \in E : e.rev \in Nat /\ e.key \in Servers
  BY DEF Entries
<1>3. Handling => cur \in E
  BY DEF TypeInv, WatcherEntry, Handling
<1>4. \A i \in DOMAIN chan : chan[i] \in E
  BY <1>1
<1>5. CASE Writes
  <2>1. PICK s \in Servers, op \in {"put", "del"}, v \in Vals : bucket' = Written(bucket, s, op, v)
    BY <1>5 DEF Writes
  <2>2. WellNumbered(bucket') /\ Ordered(bucket', cursor, chan)
    BY <1>1, <1>2, <2>1, WrittenNumbered, WriteKeepsOrder
  <2>3. Handling => Fits(bucket', cur)
    BY <1>1, <1>2, <1>3, <2>1, WrittenFits DEF FollowInv
  <2>4. QED
    BY <1>5, <2>2, <2>3 DEF Writes, FollowInv, Handling
<1>6. CASE Delivers
  <2>1. PICK s \in Servers : /\ IsNext(bucket, cursor, s)
                             /\ chan' = Append(chan, EntryOf(bucket, s))
                             /\ cursor' = bucket.last[s].rev
    BY <1>6 DEF Delivers
  <2>2. EntryOf(bucket, s) \in E /\ EntryOf(bucket, s).rev = cursor' /\ cursor' \in Nat
    BY <1>1, <2>1, EntryOfType
  <2>3. Ordered(bucket, cursor', chan')
    BY <1>1, <1>2, <2>1, <2>2, DeliveryKeepsOrder
  <2>4. cursor < cursor'
    BY <2>1 DEF IsNext
  <2>5. \A i \in DOMAIN chan' : chan'[i].rev = cursor' \/ \E j \in DOMAIN chan : chan'[i] = chan[j]
    BY <1>1, <2>1, <2>2, AppendWaits DEF Waits
  <2>6. \A i \in DOMAIN chan' : /\ chan'[i].rev > 0
                                /\ \A s2 \in Servers : applied[s2] < chan'[i].rev
                                /\ Handling => cur.rev < chan'[i].rev
    <3> TAKE i \in DOMAIN chan'
    <3>1. CASE chan'[i].rev = cursor'
      BY <1>1, <1>2, <1>3, <2>2, <2>4, <3>1 DEF FollowInv
    <3>2. CASE \E j \in DOMAIN chan : chan'[i] = chan[j]
      BY <3>2 DEF FollowInv
    <3>3. QED
      BY <2>5, <3>1, <3>2
  <2>7. \A s2 \in Servers : applied[s2] <= cursor'
    BY <1>1, <2>2, <2>4 DEF FollowInv
  <2>8. Handling => cur.rev <= cursor'
    BY <1>1, <1>2, <1>3, <2>2, <2>4 DEF FollowInv
  <2>9. UNCHANGED <<bucket, wpc, cur, applied>> /\ (Handling' <=> Handling)
    BY <1>6 DEF Delivers, Handling
  <2>10. \A s2 \in Servers : /\ applied'[s2] <= cursor'
                            /\ \A i \in DOMAIN chan' : applied'[s2] < chan'[i].rev
                            /\ Handling' => applied'[s2] < cur'.rev
    BY <2>6, <2>7, <2>9 DEF FollowInv
  <2>11. Handling' => /\ 0 < cur'.rev /\ cur'.rev <= cursor' /\ Fits(bucket', cur')
                      /\ \A i \in DOMAIN chan' : cur'.rev < chan'[i].rev
    <3> SUFFICES ASSUME Handling' PROVE /\ 0 < cur.rev /\ cur.rev <= cursor' /\ Fits(bucket, cur)
                                        /\ \A i \in DOMAIN chan' : cur.rev < chan'[i].rev
      BY <2>9
    <3>1. Handling
      BY <2>9
    <3>2. QED
      BY <2>6, <2>8, <3>1 DEF FollowInv
  <2>12. QED
    BY <1>1, <2>3, <2>6, <2>9, <2>10, <2>11 DEF FollowInv
<1>7. CASE Receives
  <2> DEFINE e == Head(chan)
  <2>1. chan # <<>> /\ chan' = Tail(chan) /\ UNCHANGED <<bucket, cursor>>
    BY <1>7 DEF Receives
  <2>2. /\ e \in E /\ Tail(chan) \in Seq(E) /\ Ordered(bucket, cursor, Tail(chan))
        /\ e.rev > 0 => e.rev <= cursor /\ Fits(bucket, e)
        /\ e.rev > 0 => \A i \in DOMAIN Tail(chan) :
               Tail(chan)[i].rev > 0 => e.rev < Tail(chan)[i].rev
        /\ Waits(chan, e) /\ \A d : Waits(Tail(chan), d) => Waits(chan, d)
    BY <1>1, <1>2, <2>1, ReceiptKeepsOrder
  <2>3. /\ e.rev > 0 /\ \A s \in Servers : applied[s] < e.rev
        /\ \A i \in DOMAIN chan' : chan'[i].rev > 0 /\ \A s \in Servers : applied[s] < chan'[i].rev
    <3>1. ASSUME NEW d, Waits(chan, d) PROVE d.rev > 0 /\ \A s \in Servers : applied[s] < d.rev
      BY <3>1 DEF Waits, FollowInv
    <3>2. \A i \in DOMAIN chan' : Waits(Tail(chan), chan'[i])
      BY <2>1 DEF Waits
    <3>3. QED
      BY <2>2, <3>1, <3>2
  <2>4. \A i \in DOMAIN chan' : e.rev < chan'[i].rev
    BY <2>1, <2>2, <2>3
  <2>5. CASE Handling' /\ cur' = e /\ UNCHANGED applied
    BY <1>1, <2>1, <2>2, <2>3, <2>4, <2>5 DEF FollowInv
  <2>6. CASE ~Handling' /\ applied' = [applied EXCEPT ![e.key] = e.rev]
    BY <1>1, <1>2, <2>1, <2>2, <2>3, <2>4, <2>6 DEF FollowInv
  <2>7. QED
    BY <1>7, <2>5, <2>6 DEF Receives
<1>8. CASE Finishes
  BY <1>1, <1>2, <1>3, <1>8 DEF Finishes, FollowInv
<1>9. CASE Restarts
  <2>1. Ordered(bucket, 0, <<>>)
    BY <1>1, NothingSent
  <2>2. QED
    BY <1>1, <1>9, <2>1 DEF Restarts, FollowInv
<1>10. CASE GoesOn
  BY <1>10 DEF GoesOn, FollowInv
<1>11. QED
  BY <1>5, <1>6, <1>7, <1>8, <1>9, <1>10, FollowingSteps

\* The registry is a replica of the bucket (Replica.tla): it takes over revisions
\* in the order they were written, never one nobody wrote, and starts again from
\* nothing.
THEOREM RegistryFollowsBucket == Spec => FollowsBucket
<1> USE DEF Copy!vars
<1>1. Init => Copy!Init
  BY DEF Init, EmptyBucket, Copy!Init
<1>2. ASSUME TypeInv, FollowInv, [Next]_vars PROVE [Copy!Next]_(Copy!vars)
  <2> DEFINE E == Entries(Servers, Vals)
  <2>1. /\ bucket \in Buckets(Servers, Vals) /\ cursor \in Nat /\ chan \in Seq(E)
        /\ applied \in [Servers -> Nat] /\ Ordered(bucket, cursor, chan)
    BY <1>2 DEF TypeInv, TypeOK, FollowInv
  <2>2. \A e \in E : e.rev \in Nat /\ e.key \in Servers
    BY DEF Entries
  <2>3. ASSUME NEW e \in E, Fits(bucket, e), e.rev > 0, \A s \in Servers : applied[s] < e.rev,
               applied' = [applied EXCEPT ![e.key] = e.rev], UNCHANGED bucket
        PROVE  Copy!TakeOver(e.key)
    <3>1. e.key \in Servers /\ e.rev \in 1..bucket.last[e.key].rev
      BY <2>1, <2>2, <2>3 DEF Fits, Buckets, Revisions
    <3>2. QED
      BY <2>3, <3>1 DEF Copy!TakeOver
  <2>4. CASE Writes
    <3>1. PICK s \in Servers, op \in {"put", "del"}, v \in Vals : bucket' = Written(bucket, s, op, v)
      BY <2>4 DEF Writes
    <3>2. Copy!Write(s)
      BY <2>1, <2>4, <3>1 DEF Writes, Written, Buckets, Revisions, Copy!Write
    <3>3. QED
      BY <3>2 DEF Copy!Next
  <2>5. CASE Delivers
    BY <2>5 DEF Delivers
  <2>6. CASE Receives
    <3>1. Head(chan) \in E /\ Waits(chan, Head(chan))
          /\ (Head(chan).rev > 0 => Fits(bucket, Head(chan)))
      BY <2>1, <2>2, <2>6, ReceiptKeepsOrder DEF Receives
    <3>2. Head(chan).rev > 0 /\ \A s \in Servers : applied[s] < Head(chan).rev
      <4>1. PICK i \in DOMAIN chan : chan[i] = Head(chan)
        BY <3>1 DEF Waits
      <4>2. QED
        BY <1>2, <4>1 DEF FollowInv
    <3>3. CASE UNCHANGED applied
      BY <2>6, <3>3 DEF Receives
    <3>4. CASE applied' = [applied EXCEPT ![Head(chan).key] = Head(chan).rev]
      <4>1. Copy!TakeOver(Head(chan).key)
        BY <2>3, <2>6, <3>1, <3>2, <3>4 DEF Receives
      <4>2. QED
        BY <2>2, <3>1, <4>1 DEF Copy!Next
    <3>5. QED
      BY <2>6, <3>3, <3>4 DEF Receives
  <2>7. CASE Finishes
    <3>1. cur \in E
      BY <1>2, <2>7 DEF Finishes, TypeInv, WatcherEntry, Handling
    <3>2. Fits(bucket, cur) /\ cur.rev > 0 /\ \A s \in Servers : applied[s] < cur.rev
      BY <1>2, <2>7 DEF Finishes, FollowInv
    <3>3. Copy!TakeOver(cur.key)
      BY <2>3, <2>7, <3>1, <3>2 DEF Finishes
    <3>4. QED
      BY <2>2, <3>1, <3>3 DEF Copy!Next
  <2>8. CASE Restarts
    BY <2>8 DEF Restarts, Copy!Next, Copy!Restart
  <2>9. CASE GoesOn
    BY <2>9 DEF GoesOn
  <2>10. QED
    BY <1>2, <2>4, <2>5, <2>6, <2>7, <2>8, <2>9, FollowingSteps
<1>3. QED
  BY InitTypeInv, NextTypeInv, InitFollowInv, NextFollowInv, <1>1, <1>2, PTL
     DEF Spec, FollowsBucket, Copy!Spec

-----------------------------------------------------------------------------
(* What the last revision of a server leaves.  An update of the API writes *)
(* to the cache before the bucket: until its put is answered the cache may *)
(* be ahead.                                                               *)

Updating(s) == \E u \in Updaters : upd[u].key = s

Gone(s) == metadata[s] = NoMeta /\ ~IsRegistered(s) /\ gate[s] = NoAddr

\* The watcher has handled the last revision of s.
Settled(s) ==
    LET last == bucket.last[s] IN
    /\ applied[s] = last.rev
    /\ last.op = "del" => Gone(s)
    /\ last.op = "put" /\ last.val \in AddressedMetas /\ ~missed[s] /\ ~Updating(s) =>
          metadata[s] = last.val /\ IsRegistered(s)

InHand(s) == Handling /\ cur = EntryOf(bucket, s)

\* The last revision of s is not lost: it is not sent yet, or waits, or is in
\* hand, or is settled.
Accounted(s) ==
    \/ bucket.last[s].rev > cursor
    \/ Waits(chan, EntryOf(bucket, s))
    \/ InHand(s)
    \/ Settled(s)

\* What the watcher has done to the entry in hand, by its step.
InHandSteps ==
    /\ wpc \in {"lockRegister"} \cup RegisterSteps => cur.op = "put"
    /\ wpc \in {"lockUnregister"} \cup UnregisterSteps => cur.op = "del"
    /\ wpc \in {"gateRegister", "cacheAdd"} /\ InHand(cur.key) =>
          metadata[cur.key] = cur.val \/ missed[cur.key] \/ Updating(cur.key)
    /\ wpc \in {"gateUnregister", "cacheDelete"} => metadata[cur.key] = NoMeta
    /\ wpc \in {"setMeta", "gateRegister", "cacheAdd"} => addr \in Addrs

SettleInv == InHandSteps /\ \A s \in Servers : Accounted(s)

\* Of an empty bucket all is settled.
LEMMA InitSettleInv == Init => SettleInv
BY DEF Init, EmptyBucket, SettleInv, InHandSteps, Accounted, Settled, Booted, RegisterSteps, UnregisterSteps

\* The server in the watcher's hands is not settled.
LEMMA InHandUnsettled ==
    ASSUME TypeInv, FollowInv, Handling
    PROVE  cur.key \in Servers /\ ~Settled(cur.key)
<1>1. cur.key \in Servers /\ cur.rev \in Nat
  BY DEF TypeInv, WatcherEntry, Handling, Entries
<1>2. applied[cur.key] < cur.rev /\ cur.rev <= bucket.last[cur.key].rev
  BY <1>1 DEF FollowInv, Fits
<1>3. applied[cur.key] \in Nat /\ bucket.last[cur.key].rev \in Nat
  BY <1>1 DEF TypeInv, TypeOK, Buckets, Revisions
<1>4. QED
  BY <1>1, <1>2, <1>3 DEF Settled

\* Writers and updaters lose no revision.
LEMMA WritesAccounted ==
    ASSUME TypeInv, FollowInv, SettleInv, NEW k \in Servers, NEW op \in {"put", "del"}, NEW v \in Vals,
           bucket' = Written(bucket, k, op, v),
           UNCHANGED <<cursor, chan, wpc, cur, addr, applied, metadata, registered, gate, missed>>,
           \A s \in Servers \ {k} : Updating(s)' <=> Updating(s)
    PROVE  SettleInv'
<1>1. /\ bucket \in Buckets(Servers, Vals) /\ WellNumbered(bucket)
      /\ cursor \in Nat /\ cursor <= bucket.seq /\ bucket.seq \in Nat
  BY DEF TypeInv, TypeOK, FollowInv, Ordered, Buckets
<1>2. /\ bucket'.last[k] = [rev |-> bucket.seq + 1, op |-> op, val |-> v]
      /\ \A j \in Servers \ {k} : bucket'.last[j] = bucket.last[j]
  BY <1>1, WrittenNumbered
<1>3. \A j \in Servers \ {k} : EntryOf(bucket', j) = EntryOf(bucket, j)
  BY <1>2 DEF EntryOf
<1>4. ASSUME NEW s \in Servers PROVE Accounted(s)'
  <2>1. CASE s = k
    BY <1>1, <1>2, <2>1 DEF Accounted
  <2>2. CASE s # k
    <3>1. Settled(s) => Settled(s)'
      BY <1>2, <2>2 DEF Settled, Gone, IsRegistered
    <3>2. InHand(s) => InHand(s)'
      BY <1>3, <2>2 DEF InHand, Handling
    <3>3. QED
      BY <1>2, <1>3, <2>2, <3>1, <3>2 DEF SettleInv, Accounted
  <2>3. QED
    BY <2>1, <2>2
<1>5. InHandSteps'
  <2>1. Handling => cur.rev <= bucket.seq /\ cur.rev \in Nat /\ cur.key \in Servers
    BY <1>1 DEF FollowInv, TypeInv, WatcherEntry, Handling, Entries
  <2>2. InHand(cur.key)' => cur.key # k
    <3>1. EntryOf(bucket', k).rev = bucket.seq + 1
      BY <1>2 DEF EntryOf
    <3>2. QED
      BY <1>1, <2>1, <3>1 DEF InHand, Handling
  <2>3. InHand(cur.key)' => InHand(cur.key) /\ (Updating(cur.key)' <=> Updating(cur.key))
    BY <1>3, <2>1, <2>2 DEF InHand, Handling
  <2>4. QED
    BY <2>3 DEF SettleInv, InHandSteps
<1>6. QED
  BY <1>4, <1>5 DEF SettleInv

\* A delivery passes over no server's last revision.
LEMMA DeliversAccounted ==
    ASSUME TypeInv, FollowInv, SettleInv, NEW s \in Servers, Deliver(s)
    PROVE  SettleInv'
<1> DEFINE E == Entries(Servers, Vals)
<1>1. /\ bucket \in Buckets(Servers, Vals) /\ cursor \in Nat /\ chan \in Seq(E)
      /\ WellNumbered(bucket) /\ Ordered(bucket, cursor, chan)
  BY DEF TypeInv, TypeOK, FollowInv
<1>2. /\ IsNext(bucket, cursor, s) /\ chan' = Append(chan, EntryOf(bucket, s))
      /\ cursor' = bucket.last[s].rev
      /\ UNCHANGED <<bucket, wpc, cur, addr, applied, metadata, registered, gate, missed, upd>>
  BY DEF Deliver, envVars, watcherVars, cacheVars, historyVars
<1>3. EntryOf(bucket, s) \in E /\ \A e \in E : e.rev \in Nat
  BY <1>1, EntryOfType DEF Entries
<1>4. \A j \in Servers : bucket.last[j].rev <= cursor' => j = s \/ bucket.last[j].rev <= cursor
  BY <1>1, <1>2, <1>3, DeliveryKeepsOrder
<1>5. \A d : Waits(chan', d) <=> Waits(chan, d) \/ d = EntryOf(bucket, s)
  BY <1>1, <1>2, <1>3, AppendWaits
<1>6. \A j \in Servers : bucket.last[j].rev \in Nat
  BY <1>1 DEF Buckets, Revisions
<1>7. ASSUME NEW j \in Servers PROVE Accounted(j)'
  <2>1. (InHand(j) => InHand(j)') /\ (Settled(j) => Settled(j)')
    BY <1>2 DEF InHand, Handling, Settled, Gone, IsRegistered, Updating
  <2>2. QED
    BY <1>1, <1>2, <1>4, <1>5, <1>6, <2>1 DEF SettleInv, Accounted
<1>8. InHandSteps'
  BY <1>2 DEF SettleInv, InHandSteps, InHand, Handling, Updating
<1>9. QED
  BY <1>7, <1>8 DEF SettleInv

\* What is received is in hand, or settled if it does not parse.
LEMMA ReceivesAccounted ==
    ASSUME TypeInv, FollowInv, SettleInv, ReceiveDelete \/ ReceivePut \/ ReceiveGarbage
    PROVE  SettleInv'
<1> DEFINE E == Entries(Servers, Vals)
           e == Head(chan)
<1>1. /\ bucket \in Buckets(Servers, Vals) /\ cursor \in Nat /\ chan \in Seq(E)
      /\ applied \in [Servers -> Nat] /\ Ordered(bucket, cursor, chan)
  BY DEF TypeInv, TypeOK, FollowInv
<1>2. /\ chan # <<>> /\ chan' = Tail(chan) /\ ~Handling
      /\ UNCHANGED <<bucket, cursor, metadata, registered, gate, missed, upd>>
  BY DEF ReceiveDelete, ReceivePut, ReceiveGarbage, Receive, envVars, cacheVars, historyVars, Handling
<1>3. \A d \in E : d.rev \in Nat /\ d.key \in Servers
  BY DEF Entries
<1>4. /\ e \in E /\ Waits(chan, e) /\ (e.rev > 0 => Fits(bucket, e))
      /\ \A d : Waits(chan, d) => d = e \/ Waits(chan', d)
  BY <1>1, <1>2, <1>3, ReceiptKeepsOrder
<1>5. e.rev > 0 /\ applied[e.key] < e.rev
  <2>1. PICK i \in DOMAIN chan : chan[i] = e
    BY <1>4 DEF Waits
  <2>2. QED
    BY <1>3, <1>4, <2>1 DEF FollowInv
<1>6. ~Settled(e.key)
  <2>1. e.rev <= bucket.last[e.key].rev /\ bucket.last[e.key].rev \in Nat /\ applied[e.key] \in Nat
    BY <1>1, <1>3, <1>4, <1>5 DEF Fits, Buckets, Revisions
  <2>2. QED
    BY <1>3, <1>4, <1>5, <2>1 DEF Settled
<1>7. \A s \in Servers : (Waits(chan, EntryOf(bucket, s)) => e = EntryOf(bucket, s) \/ Waits(chan', EntryOf(bucket, s)))
                         /\ (e = EntryOf(bucket, s) => e.key = s)
  BY <1>4 DEF EntryOf
<1>8. CASE ReceiveDelete \/ ReceivePut
  <2>1. cur' = e /\ Handling' /\ UNCHANGED applied
    BY <1>8 DEF ReceiveDelete, ReceivePut, Handle, Handling
  <2>2. ASSUME NEW s \in Servers PROVE Accounted(s)'
    <3>1. Settled(s) => Settled(s)'
      BY <1>2, <2>1 DEF Settled, Gone, IsRegistered, Updating
    <3>2. e = EntryOf(bucket, s) => InHand(s)'
      BY <1>2, <2>1 DEF InHand
    <3>3. QED
      BY <1>2, <1>7, <3>1, <3>2 DEF SettleInv, Accounted, InHand
  <2>3. InHandSteps'
    BY <1>8, <2>1 DEF ReceiveDelete, ReceivePut, Handle, InHandSteps, RegisterSteps, UnregisterSteps
  <2>4. QED
    BY <2>2, <2>3 DEF SettleInv
<1>9. CASE ReceiveGarbage
  <2>1. ~Handling' /\ wpc' = "idle" /\ applied' = [applied EXCEPT ![e.key] = e.rev] /\ e.op = "put" /\ e.val \notin Metas
    BY <1>9 DEF ReceiveGarbage, Finished, Handling
  <2>2. ASSUME NEW s \in Servers PROVE Accounted(s)'
    <3>1. Settled(s) => Settled(s)'
      BY <1>1, <1>2, <1>3, <1>4, <1>6, <2>1 DEF Settled, Gone, IsRegistered, Updating
    <3>2. e = EntryOf(bucket, s) => Settled(s)'
      BY <1>1, <1>2, <1>7, <2>1, MetasAssumption DEF Settled, EntryOf
    <3>3. QED
      BY <1>2, <1>7, <3>1, <3>2 DEF SettleInv, Accounted, InHand
  <2>3. InHandSteps'
    BY <2>1 DEF InHandSteps, RegisterSteps, UnregisterSteps
  <2>4. QED
    BY <2>2, <2>3 DEF SettleInv
<1>10. QED
  BY <1>8, <1>9

\* Nothing changes about the servers that the watcher does not handle.
OthersUntouched ==
    /\ UNCHANGED upd
    /\ \A s \in Servers \ {cur.key} : UNCHANGED <<metadata[s], registered[s], gate[s], missed[s]>>

\* A settled server that is not touched remains settled.
LEMMA OthersStaySettled ==
    ASSUME TypeInv, FollowInv, Handling, OthersUntouched, UNCHANGED bucket,
           \A s \in Servers \ {cur.key} : UNCHANGED applied[s]
    PROVE  \A s \in Servers : Settled(s) => s # cur.key /\ Settled(s)'
<1>1. ~Settled(cur.key)
  BY InHandUnsettled
<1>2. QED
  BY <1>1 DEF OthersUntouched, Settled, Gone, IsRegistered, Updating

\* A step of the watcher between receipt and return accounts for every server.
LEMMA WatcherGoesOn ==
    ASSUME TypeInv, FollowInv, SettleInv, Handling, GoesOn, OthersUntouched
    PROVE  \A s \in Servers : Accounted(s)'
<1>1. \A s \in Servers : Settled(s) => Settled(s)'
  BY OthersStaySettled DEF GoesOn
<1>2. \A s \in Servers : InHand(s) => InHand(s)'
  BY DEF GoesOn, InHand
<1>3. QED
  BY <1>1, <1>2 DEF GoesOn, SettleInv, Accounted

\* A return of the watcher accounts for every server, if it leaves the one it
\* handled settled.
LEMMA WatcherFinishes ==
    ASSUME TypeInv, FollowInv, SettleInv, Finishes, wpc' = "idle", OthersUntouched,
           \A s \in Servers : InHand(s) => Settled(s)'
    PROVE  SettleInv'
<1>1. cur.key \in Servers /\ applied \in [Servers -> Nat]
  BY InHandUnsettled DEF Finishes, TypeInv, TypeOK
<1>2. \A s \in Servers : Settled(s) => Settled(s)'
  BY <1>1, OthersStaySettled DEF Finishes
<1>3. InHandSteps'
  BY DEF InHandSteps, RegisterSteps, UnregisterSteps
<1>4. QED
  BY <1>2, <1>3 DEF Finishes, SettleInv, Accounted

\* Each of the watcher's ways to return leaves the server it handled settled, if
\* its entry was the last.
LEMMA ReturnsSettled ==
    ASSUME TypeInv, CacheInv, FollowInv, SettleInv,
           NoUsableAddress \/ AlreadyRegistered \/ GateRefuses \/ AddRegistered
               \/ NotRegistered \/ DeleteRegistered
    PROVE  SettleInv'
<1> USE DEF envVars, watchVars, cacheVars, callerVars, historyVars, Return, Finished
<1>1. Handling /\ Finishes /\ wpc' = "idle"
  BY DEF NoUsableAddress, AlreadyRegistered, GateRefuses, AddRegistered, NotRegistered,
         DeleteRegistered, Finishes, Handling
<1>2. PICK k \in Servers : k = cur.key
  BY <1>1, InHandUnsettled
<1>3. /\ applied \in [Servers -> Nat] /\ missed \in [Servers -> BOOLEAN]
      /\ registered \in [Servers -> Addrs \cup {NoAddr}] /\ gate \in [Servers -> Addrs \cup {NoAddr}]
  BY DEF TypeInv, TypeOK
<1>4. OthersUntouched
  BY <1>3 DEF OthersUntouched, NoUsableAddress, AlreadyRegistered, GateRefuses, AddRegistered,
              NotRegistered, DeleteRegistered
<1>5. UNCHANGED <<bucket, upd, metadata>> /\ applied'[k] = cur.rev
  BY <1>2, <1>3 DEF NoUsableAddress, AlreadyRegistered, GateRefuses, AddRegistered, NotRegistered,
                    DeleteRegistered
<1>6. Updating(k)' <=> Updating(k)
  BY <1>5 DEF Updating
<1>7. InHand(k) => /\ bucket.last[k].rev = cur.rev /\ bucket.last[k].op = cur.op
                   /\ bucket.last[k].val = cur.val
  BY DEF InHand, EntryOf
<1>8. ASSUME NoUsableAddress \/ GateRefuses, InHand(k) PROVE Settled(k)'
  <2>1. cur.op = "put" /\ missed'[k]
    BY <1>2, <1>3, <1>8 DEF NoUsableAddress, GateRefuses, SettleInv, InHandSteps, RegisterSteps
  <2>2. QED
    BY <1>5, <1>7, <1>8, <2>1 DEF Settled
<1>9. ASSUME AlreadyRegistered \/ AddRegistered, InHand(k) PROVE Settled(k)'
  <2>1. cur.op = "put" /\ (metadata[k] = cur.val \/ missed[k] \/ Updating(k))
    BY <1>2, <1>9 DEF AlreadyRegistered, AddRegistered, SettleInv, InHandSteps, RegisterSteps
  <2>2. IsRegistered(k)' /\ UNCHANGED missed
    BY <1>2, <1>3, <1>9, AddrsAssumption
       DEF AlreadyRegistered, AddRegistered, SettleInv, InHandSteps, IsRegistered
  <2>3. QED
    BY <1>5, <1>6, <1>7, <1>9, <2>1, <2>2 DEF Settled
<1>10. ASSUME NotRegistered \/ DeleteRegistered, InHand(k) PROVE Settled(k)'
  <2>1. cur.op = "del" /\ metadata[k] = NoMeta
    BY <1>2, <1>10 DEF NotRegistered, DeleteRegistered, SettleInv, InHandSteps, UnregisterSteps
  <2>2. registered'[k] = NoAddr /\ gate'[k] = NoAddr
    BY <1>2, <1>3, <1>10 DEF NotRegistered, DeleteRegistered, CacheInv, CacheSteps, IsRegistered
  <2>3. QED
    BY <1>5, <1>7, <1>10, <2>1, <2>2 DEF Settled, Gone, IsRegistered
<1>11. \A s \in Servers : InHand(s) => s = k
  BY <1>2 DEF InHand, EntryOf
<1>12. QED
  BY <1>1, <1>4, <1>8, <1>9, <1>10, <1>11, WatcherFinishes

\* The watcher's other steps do for the entry in hand what InHandSteps says.
LEMMA HandlingAccounted ==
    ASSUME TypeInv, CacheInv, FollowInv, SettleInv,
           \/ LockToRegister \/ (\E a \in Addrs : Resolve(a)) \/ UpdateMetadataInCache \/ GateRegisters
           \/ LockToUnregister \/ DeleteMetadataFromCache \/ GateUnregisters
    PROVE  SettleInv'
<1> USE DEF envVars, watchVars, cacheVars, callerVars, historyVars, WatcherLocks
<1>1. Handling /\ GoesOn
  BY DEF LockToRegister, Resolve, UpdateMetadataInCache, GateRegisters, LockToUnregister,
         DeleteMetadataFromCache, GateUnregisters, GoesOn, Handling
<1>2. PICK k \in Servers : k = cur.key
  BY <1>1, InHandUnsettled
<1>3. /\ missed \in [Servers -> BOOLEAN] /\ metadata \in [Servers -> Metas \cup {NoMeta}]
      /\ gate \in [Servers -> Addrs \cup {NoAddr}]
  BY DEF TypeInv, TypeOK
<1>4. OthersUntouched
  BY <1>3 DEF OthersUntouched, LockToRegister, Resolve, UpdateMetadataInCache, GateRegisters,
              LockToUnregister, DeleteMetadataFromCache, GateUnregisters
<1>5. UNCHANGED <<bucket, cur, upd>>
  BY DEF LockToRegister, Resolve, UpdateMetadataInCache, GateRegisters, LockToUnregister,
         DeleteMetadataFromCache, GateUnregisters
<1>6. (Updating(k)' <=> Updating(k)) /\ (InHand(k)' => InHand(k))
  BY <1>1, <1>5 DEF Updating, InHand
<1>7. InHandSteps'
  <2>1. CASE LockToRegister \/ LockToUnregister
    BY <2>1 DEF LockToRegister, LockToUnregister, SettleInv, InHandSteps, RegisterSteps, UnregisterSteps
  <2>2. CASE \E a \in Addrs : Resolve(a)
    BY <2>2 DEF Resolve, SettleInv, InHandSteps, RegisterSteps, UnregisterSteps
  <2>3. CASE UpdateMetadataInCache \/ DeleteMetadataFromCache
    BY <1>2, <1>3, <2>3 DEF UpdateMetadataInCache, DeleteMetadataFromCache, SettleInv, InHandSteps,
                            RegisterSteps, UnregisterSteps
  <2>4. CASE GateRegisters \/ GateUnregisters
    <3>1. UNCHANGED <<metadata, missed, addr>>
      BY <2>4 DEF GateRegisters, GateUnregisters
    <3>2. \/ wpc = "gateRegister" /\ wpc' = "cacheAdd"
          \/ wpc = "gateUnregister" /\ wpc' = "cacheDelete"
      BY <2>4 DEF GateRegisters, GateUnregisters
    <3>3. wpc = "gateRegister" /\ InHand(k) => metadata[k] = cur.val \/ missed[k] \/ Updating(k)
      BY <1>2 DEF SettleInv, InHandSteps
    <3>4. wpc' \in {"gateRegister", "cacheAdd"} /\ InHand(cur.key)' =>
              (metadata[cur.key] = cur.val \/ missed[cur.key] \/ Updating(cur.key))'
      BY <1>2, <1>5, <1>6, <3>1, <3>2, <3>3
    <3>5. QED
      BY <1>5, <3>1, <3>2, <3>4 DEF SettleInv, InHandSteps, RegisterSteps, UnregisterSteps
  <2>5. QED
    BY <2>1, <2>2, <2>3, <2>4
<1>8. QED
  BY <1>1, <1>4, <1>7, WatcherGoesOn DEF SettleInv

\* An update of the API accounts for the server it writes to: until its put is
\* answered Updating says so, and if the put fails missed does.
LEMMA UpdatesAccounted ==
    ASSUME TypeInv, FollowInv, SettleInv, NEW u \in Updaters, UpdaterStep(u)
    PROVE  SettleInv'
<1> USE DEF envVars, watchVars, watcherVars, cacheVars, callerVars, historyVars
<1>1. /\ upd \in [Updaters -> [key : Servers, val : Metas] \cup {NoUpd}]
      /\ metadata \in [Servers -> Metas \cup {NoMeta}] /\ missed \in [Servers -> BOOLEAN]
  BY DEF TypeInv, TypeOK
<1>2. ASSUME NEW k \in Servers, UNCHANGED <<bucket, cursor, chan, wpc, cur, addr, applied, registered, gate>>,
             \A t \in Servers \ {k} : UNCHANGED <<metadata[t], missed[t]>> /\ (Updating(t)' <=> Updating(t)),
             metadata[k] = NoMeta => metadata'[k] = NoMeta, missed[k] => missed'[k],
             (Updating(k) \/ metadata'[k] # metadata[k]) => missed'[k] \/ Updating(k)',
             InHandSteps'
      PROVE  SettleInv'
  <2>1. ASSUME NEW t \in Servers, Settled(t) PROVE Settled(t)'
    <3>1. CASE t = k
      BY <1>2, <2>1, <3>1 DEF Settled, Gone, IsRegistered
    <3>2. CASE t # k
      BY <1>2, <2>1, <3>2 DEF Settled, Gone, IsRegistered
    <3>3. QED
      BY <3>1, <3>2
  <2>2. \A t \in Servers : InHand(t) => InHand(t)'
    BY <1>2 DEF InHand, Handling
  <2>3. QED
    BY <1>2, <2>1, <2>2 DEF SettleInv, Accounted
<1>3. ASSUME NEW k \in Servers, NEW m \in Metas, UpdateStart(u, k, m) PROVE SettleInv'
  <2>1. /\ UNCHANGED <<bucket, cursor, chan, wpc, cur, addr, applied, registered, gate, missed>>
        /\ metadata[k] # NoMeta /\ upd[u] = NoUpd
        /\ upd' = [upd EXCEPT ![u] = [key |-> k, val |-> m]]
        /\ \A t \in Servers \ {k} : UNCHANGED metadata[t]
    BY <1>1, <1>3 DEF UpdateStart
  <2>2. Updating(k)'
    BY <1>1, <2>1 DEF Updating
  <2>3. ASSUME NEW t \in Servers \ {k} PROVE Updating(t)' <=> Updating(t)
    <3>1. upd[u].key \notin Servers
      BY <2>1, ServersAssumption DEF NoUpd
    <3>2. \A w \in Updaters : upd'[w].key = t <=> upd[w].key = t
      BY <1>1, <2>1, <3>1
    <3>3. QED
      BY <3>2 DEF Updating
  <2>4. ASSUME Handling PROVE InHandSteps'
    <3>1. PICK t \in Servers : t = cur.key
      BY <2>4, InHandUnsettled
    <3>2. t # k => metadata'[t] = metadata[t] /\ (Updating(t)' <=> Updating(t))
      BY <2>1, <2>3
    <3>3. InHand(t)' <=> InHand(t)
      BY <2>1 DEF InHand, Handling
    <3>4. wpc \in {"gateRegister", "cacheAdd"} /\ InHand(t)' =>
              metadata'[t] = cur.val \/ missed[t] \/ Updating(t)'
      BY <2>2, <3>1, <3>2, <3>3 DEF SettleInv, InHandSteps
    <3>5. wpc \in {"gateUnregister", "cacheDelete"} => metadata'[t] = NoMeta
      BY <2>1, <3>1, <3>2 DEF SettleInv, InHandSteps
    <3>6. (wpc \in {"gateRegister", "cacheAdd"} /\ InHand(cur.key) =>
              metadata[cur.key] = cur.val \/ missed[cur.key] \/ Updating(cur.key))'
      BY <2>1, <3>1, <3>4
    <3>7. QED
      BY <2>1, <3>1, <3>5, <3>6 DEF SettleInv, InHandSteps
  <2>5. ~Handling => InHandSteps'
    BY <2>1 DEF Handling, InHandSteps, RegisterSteps, UnregisterSteps
  <2>6. QED
    BY <1>2, <2>1, <2>2, <2>3, <2>4, <2>5
<1>4. ASSUME UpdateDone(u), NEW k \in Servers, k = upd[u].key
      PROVE  \A t \in Servers \ {k} : Updating(t)' <=> Updating(t)
  <2> TAKE t \in Servers \ {k}
  <2>1. upd' = [upd EXCEPT ![u] = NoUpd] /\ NoUpd.key \notin Servers
    BY <1>4, ServersAssumption DEF UpdateDone, NoUpd
  <2>2. \A w \in Updaters : upd'[w].key = t <=> upd[w].key = t
    BY <1>1, <1>4, <2>1
  <2>3. QED
    BY <2>2 DEF Updating
<1>5. CASE UpdatePut(u)
  <2>1. UpdateDone(u) /\ upd[u] # NoUpd
    BY <1>5 DEF UpdatePut, UpdateDone
  <2>2. PICK k \in Servers : k = upd[u].key /\ upd[u].val \in Vals
    BY <1>1, <2>1 DEF Vals
  <2>3. bucket' = Written(bucket, k, "put", upd[u].val)
    BY <1>5, <2>2 DEF UpdatePut, KVPut
  <2>4. UNCHANGED <<cursor, chan, wpc, cur, addr, applied, metadata, registered, gate, missed>>
    BY <1>5 DEF UpdatePut, UpdateDone
  <2>5. QED
    BY <1>4, <2>1, <2>2, <2>3, <2>4, WritesAccounted
<1>6. CASE UpdateFails(u)
  <2>1. UpdateDone(u) /\ upd[u] # NoUpd
    BY <1>6 DEF UpdateFails, UpdateDone
  <2>2. PICK k \in Servers : k = upd[u].key
    BY <1>1, <2>1
  <2>3. UNCHANGED <<bucket, cursor, chan, wpc, cur, addr, applied, metadata, registered, gate>>
    BY <1>6 DEF UpdateFails, UpdateDone
  <2>4. missed'[k] /\ \A t \in Servers \ {k} : missed'[t] = missed[t]
    BY <1>1, <1>6, <2>2 DEF UpdateFails
  <2>5. \A t \in Servers \ {k} : Updating(t)' <=> Updating(t)
    BY <1>4, <2>1, <2>2
  <2>6. InHandSteps'
    <3>1. (wpc \in {"gateRegister", "cacheAdd"} /\ InHand(cur.key) =>
              metadata[cur.key] = cur.val \/ missed[cur.key] \/ Updating(cur.key))'
      <4> SUFFICES ASSUME wpc \in {"gateRegister", "cacheAdd"}, InHand(cur.key)'
                   PROVE  metadata[cur.key] = cur.val \/ missed'[cur.key] \/ Updating(cur.key)'
        BY <2>3
      <4>1. Handling /\ InHand(cur.key)
        BY <2>3 DEF InHand, Handling
      <4>2. PICK t \in Servers : t = cur.key
        BY <4>1, InHandUnsettled
      <4>3. metadata[t] = cur.val \/ missed[t] \/ Updating(t)
        BY <4>1, <4>2 DEF SettleInv, InHandSteps
      <4>4. QED
        BY <2>3, <2>4, <2>5, <4>2, <4>3
    <3>2. QED
      BY <2>3, <3>1 DEF SettleInv, InHandSteps
  <2>7. QED
    BY <1>2, <2>2, <2>3, <2>4, <2>5, <2>6
<1>7. QED
  BY <1>3, <1>5, <1>6 DEF UpdaterStep

\* A proxy that starts again is sent the last revision of every server.
LEMMA RestartAccounted ==
    ASSUME TypeInv, FollowInv, ProxyRestart
    PROVE  SettleInv'
<1>1. wpc' \in {"idle", "stopped"} /\ cursor' = 0 /\ applied' = [s \in Servers |-> 0] /\ UNCHANGED bucket
  BY DEF ProxyRestart, Booted
<1>2. ASSUME NEW s \in Servers, bucket.last[s].rev = 0 PROVE Settled(s)'
  BY <1>1, <1>2 DEF FollowInv, WellNumbered, TypeInv, TypeOK, Buckets, Settled
<1>3. \A s \in Servers : bucket.last[s].rev \in Nat
  BY DEF TypeInv, TypeOK, Buckets, Revisions
<1>4. \A s \in Servers : bucket.last[s].rev = 0 \/ bucket.last[s].rev > 0
  BY <1>3
<1>5. QED
  BY <1>1, <1>2, <1>4 DEF SettleInv, InHandSteps, Accounted, RegisterSteps, UnregisterSteps

\* Steps that touch neither the revisions nor the caches account for all.
LEMMA UntouchedAccounted ==
    ASSUME SettleInv,
           UNCHANGED <<bucket, cursor, chan, wpc, cur, addr, applied, metadata, registered, gate, missed, upd>>
    PROVE  SettleInv'
BY DEF SettleInv, InHandSteps, Accounted, Settled, InHand, Handling, Gone, IsRegistered, Updating

\* Every step accounts for the last revision of every server.
LEMMA NextSettleInv == TypeInv /\ CacheInv /\ FollowInv /\ SettleInv /\ [Next]_vars => SettleInv'
<1> SUFFICES ASSUME TypeInv, CacheInv, FollowInv, SettleInv, [Next]_vars PROVE SettleInv'
  OBVIOUS
<1> USE DEF envVars, watchVars, watcherVars, cacheVars, callerVars, historyVars
<1>1. ASSUME NEW s \in Servers, NEW v \in Vals, BackendPut(s, v) \/ BackendDelete(s) PROVE SettleInv'
  <2>1. \E op \in {"put", "del"}, w \in Vals : bucket' = Written(bucket, s, op, w)
    BY <1>1 DEF BackendPut, BackendDelete, KVPut, KVDelete, Vals
  <2>2. UNCHANGED <<cursor, chan, wpc, cur, addr, applied, metadata, registered, gate, missed, upd>>
    BY <1>1 DEF BackendPut, BackendDelete
  <2>3. \A t \in Servers \ {s} : Updating(t)' <=> Updating(t)
    BY <2>2 DEF Updating
  <2>4. QED
    BY <2>1, <2>2, <2>3, WritesAccounted
<1>2. CASE WriterStep
  BY <1>1, <1>2 DEF WriterStep, Vals
<1>3. CASE \E s \in Servers : Deliver(s)
  BY <1>3, DeliversAccounted
<1>4. CASE WatcherStep(Addrs)
  BY <1>4, ReceivesAccounted, HandlingAccounted, ReturnsSettled DEF WatcherStep
<1>5. CASE (\E f \in Finders : FinderStep(f)) \/ (\E j \in Joiners : JoinerStep(j)) \/ UNCHANGED vars
  BY <1>5, UntouchedAccounted
     DEF FinderStep, FindStart, FindLock, FindRead, FindUse, JoinerStep, JoinStart, JoinRead, vars
<1>6. CASE \E u \in Updaters : UpdaterStep(u)
  BY <1>6, UpdatesAccounted
<1>7. CASE ProxyRestart
  BY <1>7, RestartAccounted
<1>8. QED
  BY <1>2, <1>3, <1>4, <1>5, <1>6, <1>7 DEF Next

\* When all was delivered and handled, every server is settled and no update is
\* under way.
LEMMA DrainedSettled ==
    ASSUME TypeInv, SettleInv, Drained
    PROVE  \A s \in Servers : Settled(s) /\ ~Updating(s)
<1> TAKE s \in Servers
<1>1. ~(bucket.last[s].rev > cursor) /\ ~Waits(chan, EntryOf(bucket, s)) /\ ~InHand(s)
  BY DEF TypeInv, TypeOK, Buckets, Revisions, Drained, AllSent, Waits, InHand, Handling
<1>2. ~Updating(s)
  BY ServersAssumption DEF Updating, Drained, PutsInFlight, NoUpd
<1>3. QED
  BY <1>1, <1>2 DEF SettleInv, Accounted

\* No delete is lost on the way from the bucket to the caches and to Gate, by
\* whatever interleaving, overwritten revision, failure or restart.
THEOREM DeletesAlwaysApplied == Spec => []DeletesApplied
<1>1. TypeInv /\ SettleInv => DeletesApplied
  BY DrainedSettled DEF DeletesApplied, Settled, Gone
<1>2. QED
  BY InitTypeInv, NextTypeInv, InitCacheInv, NextCacheInv, InitFollowInv, NextFollowInv,
     InitSettleInv, NextSettleInv, <1>1, PTL DEF Spec

\* Nor is a put, although updates of the API run ahead of it in the cache: once
\* the watcher has caught up, a server that was put with an address is registered,
\* under the metadata last put.
THEOREM PutsAlwaysApplied == Spec => []PutsApplied
<1>1. TypeInv /\ SettleInv => PutsApplied
  BY DrainedSettled DEF PutsApplied, Settled, HasValue
<1>2. QED
  BY InitTypeInv, NextTypeInv, InitCacheInv, NextCacheInv, InitFollowInv, NextFollowInv,
     InitSettleInv, NextSettleInv, <1>1, PTL DEF Spec
=============================================================================
