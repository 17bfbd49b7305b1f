\* Safety: every call may fail, every kind of value, one restart.
SPECIFICATION Spec
CONSTANTS
    Servers = {s1, s2}
    Metas = {lobby, survival, bare}
    AddressedMetas = {lobby, survival}
    LobbyMetas = {lobby}
    Addrs = {a1, a2}
    Finders = {f1}
    Joiners = {j1}
    Updaters = {u1}
    Faults = {"watch", "resolve", "register", "put"}
    ChanCap = 2
    MaxRev = 3
    MaxRestarts = 1
    Garbage = Garbage
    NoMeta = NoMeta
    NoAddr = NoAddr
    NoServer = NoServer
    Free = Free
    Watcher = Watcher
INVARIANTS
    TypeOK
    RegisteredHaveMetadata
    GateMatchesCache
    DeletesApplied
    PutsApplied
PROPERTIES
    FollowsBucket
SYMMETRY Symmetry
