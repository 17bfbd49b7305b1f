\* A name that passes from one player to another.
SPECIFICATION Spec
CONSTANTS
    Players = {p1, p2}
    Names = {alice, bob}
    Notes = {Location, muted}
    Callers = {}
    NameOf <- MCNameOf
    Renames = {}
    Foreign <- AnyNames
    Tracking = FALSE
    PutsMayFail = FALSE
    WatchMayFail = FALSE
    ChanCap = 2
    MaxRev = 4
    MaxRestarts = 0
    NoName = NoName
    NoPlayer = NoPlayer
    NoMeta = NoMeta
    Garbage = Garbage
    Location = Location
    p1 = p1
    p2 = p2
    alice = alice
    bob = bob
INVARIANTS
    NamedPlayersAreFound
CHECK_DEADLOCK FALSE
