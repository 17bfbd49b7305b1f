\* Two goroutines, the cache and the watcher share one player's objects; puts may fail, one restart.
SPECIFICATION FairSpec
CONSTANTS
    Players = {p1}
    Names = {alice, bob}
    Notes = {Location, muted}
    Callers = {c1, c2}
    NameOf <- MCNameOf
    Renames = {}
    Foreign <- OwnNames
    Tracking = TRUE
    PutsMayFail = TRUE
    WatchMayFail = TRUE
    ChanCap = 2
    MaxRev = 3
    MaxRestarts = 1
    NoName = NoName
    NoPlayer = NoPlayer
    NoMeta = NoMeta
    Garbage = Garbage
    Location = Location
    p1 = p1
    p2 = p2
    alice = alice
    bob = bob
INVARIANTS
    CacheMatchesBucket
PROPERTIES
    PutsReachCache
CHECK_DEADLOCK FALSE
