\* Deletes that the watcher ignores.
SPECIFICATION Spec
CONSTANTS
    Players = {p1, p2}
    Names = {alice, bob}
    Notes = {Location, muted}
    Callers = {}
    NameOf <- MCNameOf
    Renames = {}
    Foreign <- OwnNames
    Tracking = TRUE
    PutsMayFail = TRUE
    WatchMayFail = FALSE
    ChanCap = 2
    MaxRev = 3
    MaxRestarts = 0
    NoName = NoName
    NoPlayer = NoPlayer
    NoMeta = NoMeta
    Garbage = Garbage
    Location = Location
    p1 = p1
    p2 = p2
    alice = alice
    bob = bob
INVARIANTS
    RemovedPlayersLeaveCache
CHECK_DEADLOCK FALSE
