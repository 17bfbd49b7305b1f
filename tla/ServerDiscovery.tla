--------------------------- MODULE ServerDiscovery --------------------------
(***************************************************************************)
(* Game servers and a proxy: LobbyServers writes the bucket ServerRegistry *)
(* follows, and the address a server is registered under is what its DNS   *)
(* name resolves to when the proxy handles the entry.                      *)
(***************************************************************************)
EXTENDS ServerRegistry

CONSTANTS LobbyFaults, MaxIp

VARIABLES
    phase, ip, kv, published,
    movedSince      \* history: servers that moved while they were registered

Pods == INSTANCE LobbyServers WITH Metas <- AddressedMetas

podVars == <<phase, ip, kv, published>>
discoveryVars == <<vars, podVars, movedSince>>

ASSUME LobbyFaultsAssumption ==
    LobbyFaults \subseteq {"connect", "publish", "delete", "dns"}
ASSUME MaxIpAssumption == MaxIp \in Nat \ {0} /\ Addrs = 1..MaxIp
\* A name does not resolve while its pod is down.
ASSUME ResolveAssumption == "resolve" \in Faults

DiscoveryInit == Init /\ Pods!PodInit /\ movedSince = {}

\* Everything of the proxy that is not the bucket.
proxyVars == <<watchVars, watcherVars, registryMu, metaMu, cacheVars, callerVars, upd, historyVars>>

LobbyStep ==
    /\ \E s \in Servers : Pods!PodStep(s)
    /\ bucket' # bucket => MayWrite
    /\ movedSince' = movedSince \cup
          {s \in Servers : ip'[s] # ip[s] /\ (gate[s] # NoAddr \/ (cur.key = s /\ addr # NoAddr))}
    /\ UNCHANGED proxyVars

\* The name of a pod resolves while it is up, unless DNS fails; it may or may
\* not resolve while it is down.
DnsAnswers == {ip[s] : s \in Servers \cap {cur.key}}
ResolveFailureExplained ==
    (wpc = "resolve" /\ wpc' = "idle") => phase[cur.key] = "down" \/ "dns" \in LobbyFaults

ProxyStep ==
    /\ \/ \E s \in Servers : Deliver(s)
       \/ WatcherStep(DnsAnswers) /\ ResolveFailureExplained
       \/ \E f \in Finders : FinderStep(f)
       \/ \E u \in Updaters : UpdaterStep(u)
       \/ ProxyRestart
    /\ movedSince' = {s \in movedSince : gate'[s] # NoAddr \/ cur'.key = s}
    /\ UNCHANGED podVars

DiscoveryNext == LobbyStep \/ ProxyStep

\* As in ServerRegistry; and a pod that is up runs its first tick.
DiscoveryFairness ==
    /\ WF_vars(\E s \in Servers : Deliver(s))
    /\ SF_vars(WatcherStep(DnsAnswers) /\ ResolveFailureExplained)
    /\ \A f \in Finders : SF_vars(FindLock(f)) /\ SF_vars(FindRead(f))
    /\ \A u \in Updaters : WF_vars(UpdatePut(u) \/ UpdateFails(u))
    /\ \A s \in Servers :
          WF_podVars(/\ \E m \in AddressedMetas : Pods!FirstTick(s, m)
                     /\ bucket' # bucket => MayWrite)

DiscoverySpec == DiscoveryInit /\ [][DiscoveryNext]_discoveryVars
FairDiscoverySpec == DiscoverySpec /\ DiscoveryFairness

-----------------------------------------------------------------------------
\* With these servers as its writers the registry behaves as ServerRegistry
\* says, so what holds of every writer (the invariants and theorems there)
\* holds of this composition.
ImplementsRegistry == Spec

\* A running server that has published its address becomes routable, unless it
\* stops or leaves: a server that was killed and comes back under the name it
\* never gave up included, and whatever its earlier runs failed to do.
PublishedBecomesRoutable ==
    \A s \in Servers :
        (phase[s] = "running" /\ published[s] = "stored" /\ HasValue(bucket, s)) ~>
            (IsRegistered(s) \/ phase[s] # "running" \/ ~HasValue(bucket, s))

\* Once the watcher has handled all that a running server published, Gate
\* connects players to the address that server has, unless it moved while the
\* proxy had it registered (or its address resolved): a server that is put
\* again keeps the address it was first registered under.
GateReachesServer ==
    Drained =>
        \A s \in Servers :
            /\ phase[s] = "running" /\ published[s] = "stored"
            /\ IsRegistered(s) /\ s \notin movedSince
            => gate[s] = ip[s]
=============================================================================
