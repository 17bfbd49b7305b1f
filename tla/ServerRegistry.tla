--------------------------- MODULE ServerRegistry ---------------------------
(***************************************************************************)
(* The servers package of the proxy (plugins/network/servers): a replica   *)
(* of the "servers" bucket kept by one watcher goroutine, and the set of   *)
(* servers registered with Gate that it maintains.                         *)
(*                                                                         *)
(* Two mutexes guard it.  registryMu covers registeredServersCache and the *)
(* calls to p.Register and p.Unregister; metadataCacheMu covers            *)
(* serversMetadata.  A step is what a goroutine does between two accesses  *)
(* that another goroutine can see.  The writers of the bucket (the game    *)
(* servers) are arbitrary here: LobbyServers.tla restricts them.           *)
(***************************************************************************)
EXTENDS KVBucket, FiniteSets

CONSTANTS
    Servers,          \* server names, the keys of the bucket
    Metas,            \* values that parse as a metadata.Metadata
    AddressedMetas,   \* those with a "server/address" annotation
    LobbyMetas,       \* those that match DefaultServerSelector
    Garbage,          \* a value json.Unmarshal rejects
    Addrs,            \* what net.ResolveTCPAddr can return
    Finders,          \* goroutines in playerChooseInitialServer / handleKicked
    Joiners,          \* goroutines in the /join command
    Updaters,         \* goroutines in UpdateMetadataByName
    Faults,           \* which calls may fail: see FaultKinds
    ChanCap,          \* bound: entries sent and not yet received
    MaxRev,           \* bound: revisions written to the bucket
    MaxRestarts,      \* bound: restarts of the proxy
    NoMeta, NoAddr, NoServer, Free, Watcher

FaultKinds == {"watch", "resolve", "register", "put"}

ASSUME ServersAssumption == NoServer \notin Servers
ASSUME MetasAssumption == /\ AddressedMetas \subseteq Metas
                          /\ LobbyMetas \subseteq Metas
                          /\ NoMeta \notin Metas
                          /\ Garbage \notin Metas
ASSUME AddrsAssumption == NoAddr \notin Addrs
ASSUME GoroutinesAssumption == /\ Watcher \notin Finders
                               /\ Free \notin Finders \cup {Watcher}
                               /\ Free \notin Updaters
ASSUME FaultsAssumption == Faults \subseteq FaultKinds
ASSUME BoundsAssumption == /\ ChanCap \in Nat \ {0}
                           /\ MaxRev \in Nat
                           /\ MaxRestarts \in Nat

VARIABLES
    bucket,      \* the "servers" KV bucket
    cursor,      \* last revision sent to this proxy's watcher
    chan,        \* entries sent and not yet received by WatchKVStore
    wpc, cur,    \* the watcher goroutine and the entry it handles
    addr,        \* its local serverAddr
    registryMu,  \* holder of registryMu
    metaMu,      \* holder of metadataCacheMu across steps (only a writer)
    registered,  \* registeredServersCache: name -> address of the handle
    metadata,    \* serversMetadata
    gate,        \* the servers Gate itself knows, with their addresses
    fpc, choice, \* finders, and the server GetRandomDefaultServer returned
    jpc,         \* joiners
    upd,         \* updaters: the put they are about to make, or NoServer
    applied,     \* history: last revision of each key the watcher finished
    missed,      \* history: a call failed, so the cache lacks the last put
    restarts

envVars     == <<bucket>>
watchVars   == <<cursor, chan>>
watcherVars == <<wpc, cur, addr, applied>>
cacheVars   == <<registered, metadata, gate>>
callerVars  == <<fpc, choice, jpc>>
historyVars == <<missed, restarts>>
vars == <<bucket, cursor, chan, wpc, cur, addr, registryMu, metaMu, registered,
          metadata, gate, fpc, choice, jpc, upd, applied, missed, restarts>>

NoEntry == [key |-> NoServer, rev |-> 0, op |-> "none", val |-> NoMeta]
NoUpd   == [key |-> NoServer, val |-> NoMeta]
Vals    == Metas \cup {Garbage, NoMeta}

\* The steps the watcher takes while it holds registryMu.
RegisterSteps   == {"resolve", "setMeta", "gateRegister", "cacheAdd"}
UnregisterSteps == {"dropMeta", "gateUnregister", "cacheDelete"}
HoldingSteps    == RegisterSteps \cup UnregisterSteps
WatcherSteps    == {"idle", "stopped", "lockRegister", "lockUnregister"} \cup HoldingSteps

IsRegistered(s) == registered[s] # NoAddr

-----------------------------------------------------------------------------
(* Memory of a proxy that has just run InitServerSystem.  WatchAll may     *)
(* fail: the goroutine returns and nothing is ever watched.                *)

Booted(pc) == pc = "idle" \/ (pc = "stopped" /\ "watch" \in Faults)

Init ==
    /\ bucket = EmptyBucket(Servers, NoMeta)
    /\ cursor = 0
    /\ chan = <<>>
    /\ wpc \in WatcherSteps /\ Booted(wpc)
    /\ cur = NoEntry
    /\ addr = NoAddr
    /\ registryMu = Free
    /\ metaMu = Free
    /\ registered = [s \in Servers |-> NoAddr]
    /\ metadata = [s \in Servers |-> NoMeta]
    /\ gate = [s \in Servers |-> NoAddr]
    /\ fpc = [f \in Finders |-> "idle"]
    /\ choice = [f \in Finders |-> NoServer]
    /\ jpc = [j \in Joiners |-> "idle"]
    /\ upd = [u \in Updaters |-> NoUpd]
    /\ applied = [s \in Servers |-> 0]
    /\ missed = [s \in Servers |-> FALSE]
    /\ restarts = 0

\* The proxy dies at any point (a crash, a roll-out, or the Go runtime's abort
\* on an unsynchronised map access) and starts again; the watcher then
\* receives the last message of every key.
ProxyRestart ==
    /\ restarts < MaxRestarts
    /\ restarts' = restarts + 1
    /\ cursor' = 0
    /\ chan' = <<>>
    /\ wpc' \in WatcherSteps /\ Booted(wpc')
    /\ cur' = NoEntry
    /\ addr' = NoAddr
    /\ registryMu' = Free
    /\ metaMu' = Free
    /\ registered' = [s \in Servers |-> NoAddr]
    /\ metadata' = [s \in Servers |-> NoMeta]
    /\ gate' = [s \in Servers |-> NoAddr]
    /\ fpc' = [f \in Finders |-> "idle"]
    /\ choice' = [f \in Finders |-> NoServer]
    /\ jpc' = [j \in Joiners |-> "idle"]
    /\ upd' = [u \in Updaters |-> NoUpd]
    /\ applied' = [s \in Servers |-> 0]
    /\ missed' = [s \in Servers |-> FALSE]
    /\ UNCHANGED bucket

-----------------------------------------------------------------------------
(* The bucket's writers, and the delivery of what they write.              *)

PutsInFlight == {u \in Updaters : upd[u] # NoUpd}
MayWrite == bucket.seq + Cardinality(PutsInFlight) < MaxRev

BackendPut(s, v) ==
    /\ MayWrite
    /\ bucket' = KVPut(bucket, s, v)
    /\ UNCHANGED <<watchVars, watcherVars, registryMu, metaMu, cacheVars,
                   callerVars, upd, historyVars>>

BackendDelete(s) ==
    /\ MayWrite
    /\ bucket' = KVDelete(bucket, s, NoMeta)
    /\ UNCHANGED <<watchVars, watcherVars, registryMu, metaMu, cacheVars,
                   callerVars, upd, historyVars>>

\* Faulty variant: nothing blocks the sender when the channel is full.
DeliverUnbounded(s) ==
    /\ wpc # "stopped"
    /\ IsNext(bucket, cursor, s)
    /\ chan' = Append(chan, EntryOf(bucket, s))
    /\ cursor' = bucket.last[s].rev
    /\ UNCHANGED <<envVars, watcherVars, registryMu, metaMu, cacheVars,
                   callerVars, upd, historyVars>>

\* Faulty variant: keys that changed are sent in any order, and the cursor
\* counts them.
DeliverUnordered(s) ==
    /\ wpc # "stopped"
    /\ Len(chan) < ChanCap
    /\ bucket.last[s].rev > cursor
    /\ chan' = Append(chan, EntryOf(bucket, s))
    /\ cursor' = cursor + 1
    /\ UNCHANGED <<envVars, watcherVars, registryMu, metaMu, cacheVars,
                   callerVars, upd, historyVars>>

Deliver(s) ==
    /\ wpc # "stopped"
    /\ Len(chan) < ChanCap
    /\ IsNext(bucket, cursor, s)
    /\ chan' = Append(chan, EntryOf(bucket, s))
    /\ cursor' = bucket.last[s].rev
    /\ UNCHANGED <<envVars, watcherVars, registryMu, metaMu, cacheVars,
                   callerVars, upd, historyVars>>

-----------------------------------------------------------------------------
(* WatchKVStore: the watcher goroutine.                                    *)

Finished(e) ==
    /\ wpc' = "idle"
    /\ cur' = NoEntry
    /\ addr' = NoAddr
    /\ applied' = [applied EXCEPT ![e.key] = e.rev]

\* Faulty variant: an early return that leaves the mutex locked.
ReturnLocked == UNCHANGED registryMu /\ Finished(cur)

\* The deferred registryMu.Unlock and the return to the loop.
Return == registryMu' = Free /\ Finished(cur)

Receive ==
    /\ wpc = "idle"
    /\ chan # <<>>
    /\ chan' = Tail(chan)
    /\ UNCHANGED <<envVars, cursor, registryMu, metaMu, cacheVars, callerVars,
                   upd, historyVars>>

Handle(step) ==
    /\ wpc' = step
    /\ cur' = Head(chan)
    /\ UNCHANGED <<addr, applied>>

\* Faulty variant: the loop ignores delete markers.
IgnoreDelete == Receive /\ Head(chan).op = "del" /\ Finished(Head(chan))

ReceiveDelete == Receive /\ Head(chan).op = "del" /\ Handle("lockUnregister")

ReceivePut ==
    Receive /\ Head(chan).op = "put" /\ Head(chan).val \in Metas /\ Handle("lockRegister")

\* Faulty variant: the loop ends on a value that does not parse.
StopOnGarbage ==
    /\ Receive
    /\ Head(chan).op = "put" /\ Head(chan).val \notin Metas
    /\ wpc' = "stopped"
    /\ UNCHANGED <<cur, addr, applied>>

\* json.Unmarshal fails: logged, and the loop goes on.
ReceiveGarbage ==
    Receive /\ Head(chan).op = "put" /\ Head(chan).val \notin Metas /\ Finished(Head(chan))

WatcherLocks(from, to) ==
    /\ wpc = from
    /\ registryMu = Free
    /\ registryMu' = Watcher
    /\ wpc' = to
    /\ UNCHANGED <<envVars, watchVars, cur, addr, applied, metaMu, cacheVars,
                   callerVars, upd, historyVars>>

(* RegisterOrUpdateServer *)

LockToRegister == WatcherLocks("lockRegister", "resolve")

NoUsableAddress ==
    /\ wpc = "resolve"
    /\ cur.val \notin AddressedMetas \/ "resolve" \in Faults
    /\ missed' = [missed EXCEPT ![cur.key] = TRUE]
    /\ Return
    /\ UNCHANGED <<envVars, watchVars, metaMu, cacheVars, callerVars, upd, restarts>>

Resolve(a) ==
    /\ wpc = "resolve"
    /\ cur.val \in AddressedMetas
    /\ addr' = a
    /\ wpc' = "setMeta"
    /\ UNCHANGED <<envVars, watchVars, cur, applied, registryMu, metaMu,
                   cacheVars, callerVars, upd, historyVars>>

\* Faulty variant: the metadata is stored only on a first registration.
SetMetadataOnce ==
    /\ wpc = "setMeta"
    /\ metaMu = Free
    /\ metadata' = [metadata EXCEPT ![cur.key] = IF IsRegistered(cur.key) THEN @ ELSE cur.val]
    /\ missed' = [missed EXCEPT ![cur.key] = FALSE]
    /\ wpc' = "gateRegister"
    /\ UNCHANGED <<envVars, watchVars, cur, addr, applied, registryMu, metaMu,
                   registered, gate, callerVars, upd, restarts>>

UpdateMetadataInCache ==
    /\ wpc = "setMeta"
    /\ metaMu = Free
    /\ metadata' = [metadata EXCEPT ![cur.key] = cur.val]
    /\ missed' = [missed EXCEPT ![cur.key] = FALSE]
    /\ wpc' = "gateRegister"
    /\ UNCHANGED <<envVars, watchVars, cur, addr, applied, registryMu, metaMu,
                   registered, gate, callerVars, upd, restarts>>

AlreadyRegistered ==
    /\ wpc = "gateRegister"
    /\ IsRegistered(cur.key)
    /\ Return
    /\ UNCHANGED <<envVars, watchVars, metaMu, cacheVars, callerVars, upd, historyVars>>

\* Gate refuses a name it already knows.
GateRefuses ==
    /\ wpc = "gateRegister"
    /\ ~IsRegistered(cur.key)
    /\ gate[cur.key] # NoAddr \/ "register" \in Faults
    /\ missed' = [missed EXCEPT ![cur.key] = TRUE]
    /\ Return
    /\ UNCHANGED <<envVars, watchVars, metaMu, cacheVars, callerVars, upd, restarts>>

GateRegisters ==
    /\ wpc = "gateRegister"
    /\ ~IsRegistered(cur.key)
    /\ gate[cur.key] = NoAddr
    /\ gate' = [gate EXCEPT ![cur.key] = addr]
    /\ wpc' = "cacheAdd"
    /\ UNCHANGED <<envVars, watchVars, cur, addr, applied, registryMu, metaMu,
                   registered, metadata, callerVars, upd, historyVars>>

AddRegistered ==
    /\ wpc = "cacheAdd"
    /\ registered' = [registered EXCEPT ![cur.key] = addr]
    /\ Return
    /\ UNCHANGED <<envVars, watchVars, metaMu, metadata, gate, callerVars, upd, historyVars>>

(* UnregisterServer *)

\* Faulty variant: UnregisterServer does not take registryMu.
UnregisterUnlocked ==
    /\ wpc = "lockUnregister"
    /\ wpc' = "dropMeta"
    /\ UNCHANGED <<envVars, watchVars, cur, addr, applied, registryMu, metaMu,
                   cacheVars, callerVars, upd, historyVars>>

LockToUnregister == WatcherLocks("lockUnregister", "dropMeta")

DeleteMetadataFromCache ==
    /\ wpc = "dropMeta"
    /\ metaMu = Free
    /\ metadata' = [metadata EXCEPT ![cur.key] = NoMeta]
    /\ wpc' = "gateUnregister"
    /\ UNCHANGED <<envVars, watchVars, cur, addr, applied, registryMu, metaMu,
                   registered, gate, callerVars, upd, historyVars>>

NotRegistered ==
    /\ wpc = "gateUnregister"
    /\ ~IsRegistered(cur.key)
    /\ Return
    /\ UNCHANGED <<envVars, watchVars, metaMu, cacheVars, callerVars, upd, historyVars>>

\* Faulty variant: Gate forgets the server and the cache keeps it.
UnregisterGateOnly ==
    /\ wpc = "gateUnregister"
    /\ IsRegistered(cur.key)
    /\ gate' = [gate EXCEPT ![cur.key] = NoAddr]
    /\ Return
    /\ UNCHANGED <<envVars, watchVars, metaMu, registered, metadata, callerVars, upd, historyVars>>

GateUnregisters ==
    /\ wpc = "gateUnregister"
    /\ IsRegistered(cur.key)
    /\ gate' = [gate EXCEPT ![cur.key] = NoAddr]
    /\ wpc' = "cacheDelete"
    /\ UNCHANGED <<envVars, watchVars, cur, addr, applied, registryMu, metaMu,
                   registered, metadata, callerVars, upd, historyVars>>

DeleteRegistered ==
    /\ wpc = "cacheDelete"
    /\ registered' = [registered EXCEPT ![cur.key] = NoAddr]
    /\ Return
    /\ UNCHANGED <<envVars, watchVars, metaMu, metadata, gate, callerVars, upd, historyVars>>

-----------------------------------------------------------------------------
(* GetRandomDefaultServer, called by the two event handlers.               *)

\* A player joins or is kicked: the handler asks for a default server.
FindStart(f) ==
    /\ fpc[f] = "idle"
    /\ fpc' = [fpc EXCEPT ![f] = "lock"]
    /\ UNCHANGED <<envVars, watchVars, watcherVars, registryMu, metaMu,
                   cacheVars, choice, jpc, upd, historyVars>>

FindLock(f) ==
    /\ fpc[f] = "lock"
    /\ registryMu = Free
    /\ registryMu' = f
    /\ fpc' = [fpc EXCEPT ![f] = "read"]
    /\ UNCHANGED <<envVars, watchVars, watcherVars, metaMu, cacheVars, choice,
                   jpc, upd, historyVars>>

MatchingDefault == {s \in Servers : IsRegistered(s) /\ metadata[s] \in LobbyMetas}

\* Faulty variant: the mutex stays locked when no server matches.
FindReadLeaks(f) ==
    /\ fpc[f] = "read"
    /\ metaMu = Free
    /\ \E s \in IF MatchingDefault = {} THEN {NoServer} ELSE MatchingDefault :
          choice' = [choice EXCEPT ![f] = s]
    /\ registryMu' = IF MatchingDefault = {} THEN f ELSE Free
    /\ fpc' = [fpc EXCEPT ![f] = "use"]
    /\ UNCHANGED <<envVars, watchVars, watcherVars, metaMu, cacheVars, jpc, upd,
                   historyVars>>

\* Both maps are read under both locks, so this is one step; the locks are
\* released before the handler uses the server.
FindRead(f) ==
    /\ fpc[f] = "read"
    /\ metaMu = Free
    /\ \E s \in IF MatchingDefault = {} THEN {NoServer} ELSE MatchingDefault :
          choice' = [choice EXCEPT ![f] = s]
    /\ registryMu' = Free
    /\ fpc' = [fpc EXCEPT ![f] = "use"]
    /\ UNCHANGED <<envVars, watchVars, watcherVars, metaMu, cacheVars, jpc, upd,
                   historyVars>>

\* SetInitialServer, RedirectPlayerKickResult or a disconnection.
FindUse(f) ==
    /\ fpc[f] = "use"
    /\ fpc' = [fpc EXCEPT ![f] = "idle"]
    /\ choice' = [choice EXCEPT ![f] = NoServer]
    /\ UNCHANGED <<envVars, watchVars, watcherVars, registryMu, metaMu,
                   cacheVars, jpc, upd, historyVars>>

(* GetRegisteredServerByName, called by /join: reads the map, no lock.     *)

JoinStart(j) ==
    /\ jpc[j] = "idle"
    /\ jpc' = [jpc EXCEPT ![j] = "read"]
    /\ UNCHANGED <<envVars, watchVars, watcherVars, registryMu, metaMu,
                   cacheVars, fpc, choice, upd, historyVars>>

JoinRead(j) ==
    /\ jpc[j] = "read"
    /\ jpc' = [jpc EXCEPT ![j] = "idle"]
    /\ UNCHANGED <<envVars, watchVars, watcherVars, registryMu, metaMu,
                   cacheVars, fpc, choice, upd, historyVars>>

-----------------------------------------------------------------------------
(* UpdateMetadataByName: metadataCacheMu is held from the read to the      *)
(* answer of the bucket.  metaToModify shares its maps with the cached     *)
(* value, so modFunc changes the cache as well, unless it changed a map    *)
(* that was nil.                                                           *)

UpdateStart(u, s, m) ==
    /\ upd[u] = NoUpd
    /\ MayWrite
    /\ metaMu = Free
    /\ metadata[s] # NoMeta
    /\ metaMu' = u
    /\ metadata' \in {metadata, [metadata EXCEPT ![s] = m]}
    /\ upd' = [upd EXCEPT ![u] = [key |-> s, val |-> m]]
    /\ UNCHANGED <<envVars, watchVars, watcherVars, registryMu, registered,
                   gate, callerVars, historyVars>>

UpdateDone(u) ==
    /\ upd[u] # NoUpd
    /\ metaMu' = Free
    /\ upd' = [upd EXCEPT ![u] = NoUpd]
    /\ UNCHANGED <<watchVars, watcherVars, registryMu, cacheVars, callerVars, restarts>>

\* A put whose acknowledgement is lost is stored all the same.
UpdatePut(u) ==
    /\ UpdateDone(u)
    /\ bucket' = KVPut(bucket, upd[u].key, upd[u].val)
    /\ UNCHANGED missed

UpdateFails(u) ==
    /\ "put" \in Faults
    /\ UpdateDone(u)
    /\ missed' = [missed EXCEPT ![upd[u].key] = TRUE]
    /\ UNCHANGED bucket

-----------------------------------------------------------------------------
WriterStep ==
    \E s \in Servers : BackendDelete(s) \/ \E v \in Metas \cup {Garbage} : BackendPut(s, v)

\* The watcher, given what the resolver can answer.
WatcherStep(answers) ==
    \/ ReceiveDelete \/ ReceivePut \/ ReceiveGarbage
    \/ LockToRegister \/ NoUsableAddress \/ \E a \in answers : Resolve(a)
    \/ UpdateMetadataInCache \/ AlreadyRegistered
    \/ GateRefuses \/ GateRegisters \/ AddRegistered
    \/ LockToUnregister \/ DeleteMetadataFromCache \/ NotRegistered
    \/ GateUnregisters \/ DeleteRegistered

FinderStep(f) == FindStart(f) \/ FindLock(f) \/ FindRead(f) \/ FindUse(f)
JoinerStep(j) == JoinStart(j) \/ JoinRead(j)
UpdaterStep(u) ==
    \/ \E s \in Servers, m \in Metas : UpdateStart(u, s, m)
    \/ UpdatePut(u)
    \/ UpdateFails(u)

Next ==
    \/ WriterStep
    \/ \E s \in Servers : Deliver(s)
    \/ WatcherStep(Addrs)
    \/ \E f \in Finders : FinderStep(f)
    \/ \E j \in Joiners : JoinerStep(j)
    \/ \E u \in Updaters : UpdaterStep(u)
    \/ ProxyRestart

(* Every call returns (the resolver and the KV client have timeouts) and   *)
(* Go's mutexes hand themselves to a goroutine that has waited for long    *)
(* (sync.Mutex's starvation mode; an RWMutex blocks new readers while a    *)
(* writer waits), so a goroutine that finds a lock free again and again    *)
(* gets it: strong fairness.  Nothing makes players, servers or the API    *)
(* act, and nothing makes the proxy restart.                               *)
Fairness ==
    /\ WF_vars(\E s \in Servers : Deliver(s))
    /\ SF_vars(WatcherStep(Addrs))
    /\ \A f \in Finders : SF_vars(FindLock(f)) /\ SF_vars(FindRead(f)) /\ WF_vars(FindUse(f))
    /\ \A j \in Joiners : WF_vars(JoinRead(j))
    /\ \A u \in Updaters : WF_vars(UpdatePut(u) \/ UpdateFails(u))

Spec == Init /\ [][Next]_vars
FairSpec == Spec /\ Fairness
-----------------------------------------------------------------------------
(* Properties.                                                             *)

\* The values each variable takes, and who may hold which lock.
TypeOK ==
    /\ bucket \in Buckets(Servers, Vals)
    /\ cursor \in Nat
    /\ chan \in Seq(Entries(Servers, Vals)) /\ Len(chan) <= ChanCap
    /\ wpc \in WatcherSteps
    /\ cur \in Entries(Servers, Vals) \cup {NoEntry}
    /\ addr \in Addrs \cup {NoAddr}
    /\ registryMu \in {Free, Watcher} \cup Finders
    /\ metaMu \in {Free} \cup Updaters
    /\ registered \in [Servers -> Addrs \cup {NoAddr}]
    /\ metadata \in [Servers -> Metas \cup {NoMeta}]
    /\ gate \in [Servers -> Addrs \cup {NoAddr}]
    /\ fpc \in [Finders -> {"idle", "lock", "read", "use"}]
    /\ choice \in [Finders -> Servers \cup {NoServer}]
    /\ jpc \in [Joiners -> {"idle", "read"}]
    /\ upd \in [Updaters -> [key : Servers, val : Metas] \cup {NoUpd}]
    /\ applied \in [Servers -> Nat]
    /\ missed \in [Servers -> BOOLEAN]
    /\ restarts \in Nat

\* "Should not happen if caches are consistent" (api.go:61): whenever a
\* goroutine other than the watcher can read both caches, every registered
\* server has metadata.
RegisteredHaveMetadata ==
    registryMu # Watcher => \A s \in Servers : IsRegistered(s) => metadata[s] # NoMeta

\* Whenever the watcher does not hold registryMu, the servers in
\* registeredServersCache are those Gate knows, under the same addresses: a
\* handle found in the cache is one Gate can route to.
GateMatchesCache == registryMu # Watcher => gate = registered

\* Everything written to the bucket has been delivered and handled.
Drained ==
    /\ wpc = "idle"
    /\ chan = <<>>
    /\ AllSent(bucket, cursor)
    /\ PutsInFlight = {}

\* Once the watcher has caught up, no trace is left of a server whose last
\* operation is a delete, whatever failed on the way and however often the
\* proxy restarted.
DeletesApplied ==
    Drained =>
        \A s \in Servers : bucket.last[s].op = "del" =>
            metadata[s] = NoMeta /\ ~IsRegistered(s) /\ gate[s] = NoAddr

\* Once the watcher has caught up, a server whose last operation is a put with
\* an address is registered under the metadata last put, although API updates
\* change the cache before the bucket; unless its address was not resolved, Gate
\* refused it, or an API update of it was not stored.
PutsApplied ==
    Drained =>
        \A s \in Servers :
            HasValue(bucket, s) /\ bucket.last[s].val \in AddressedMetas /\ ~missed[s] =>
                metadata[s] = bucket.last[s].val /\ IsRegistered(s)

\* The contract of cache.go:56, 62 and 68, "registryMu is assumed to be held by
\* the caller": no goroutine is about to read registeredServersCache while
\* another is about to write it.
RegistryReadsSynchronised ==
    \A j \in Joiners : ~(jpc[j] = "read" /\ wpc \in {"cacheAdd", "cacheDelete"})

\* A player who asks for a default server gets an answer: the two mutexes,
\* taken in the same order everywhere, never block a handler for good, even
\* while an update holds metadataCacheMu across its put.
FindersAnswer == \A f \in Finders : (fpc[f] = "lock") ~> (fpc[f] # "lock" /\ registryMu # f)

\* What the package promises about revisions: see Replica.tla.
Copy == INSTANCE Replica WITH
            Keys <- Servers, clock <- bucket.seq, seen <- applied,
            written <- [s \in Servers |-> bucket.last[s].rev]

FollowsBucket == Copy!Spec
CatchesUp == Copy!CatchUp
=============================================================================
