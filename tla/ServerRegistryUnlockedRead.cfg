\* The /join command reads the registry without registryMu.
SPECIFICATION Spec
CONSTANTS
    Servers = {s1}
    Metas = {lobby, bare}
    AddressedMetas = {lobby}
    LobbyMetas = {lobby}
    Addrs = {a1, a2}
    Finders = {}
    Joiners = {j1}
    Updaters = {}
    Faults = {"watch", "resolve", "register", "put"}
    ChanCap = 2
    MaxRev = 2
    MaxRestarts = 1
    Garbage = Garbage
    NoMeta = NoMeta
    NoAddr = NoAddr
    NoServer = NoServer
    Free = Free
    Watcher = Watcher
INVARIANTS
    RegistryReadsSynchronised
