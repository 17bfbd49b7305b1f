\* A pod and the proxy: any call of the pod may fail; a finder, an updater and the watcher compete for the locks.
SPECIFICATION FairDiscoverySpec
CONSTANTS
    Servers = {s1}
    Metas = {lobby}
    AddressedMetas = {lobby}
    LobbyMetas = {lobby}
    Addrs = {1, 2}
    Finders = {f1}
    Joiners = {}
    Updaters = {u1}
    Faults = {"resolve", "put"}
    ChanCap = 2
    MaxRev = 3
    MaxRestarts = 1
    MaxIp = 2
    LobbyFaults = {"connect", "publish", "delete"}
    Garbage = Garbage
    NoMeta = NoMeta
    NoAddr = NoAddr
    NoServer = NoServer
    Free = Free
    Watcher = Watcher
INVARIANTS
    GateReachesServer
PROPERTIES
    ImplementsRegistry
    PublishedBecomesRoutable
    FindersAnswer
    CatchesUp
