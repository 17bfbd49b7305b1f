\* A command renames a player.
SPECIFICATION Spec
CONSTANTS
    Players = {p1}
    Names = {alice, bob}
    Notes = {Location, muted}
    Callers = {c1}
    NameOf <- MCNameOf
    Renames = {bob}
    Foreign <- OwnNames
    Tracking = FALSE
    PutsMayFail = FALSE
    WatchMayFail = FALSE
    ChanCap = 2
    MaxRev = 3
    MaxRestarts = 0
    NoName = NoName
    NoPlayer = NoPlayer
    NoMeta = NoMeta
    Garbage = Garbage
    Location = Location
    p1 = p1
    p2 = p2
    alice = alice
    bob = bob
INVARIANTS
    OldNamesAreForgotten
CHECK_DEADLOCK FALSE
