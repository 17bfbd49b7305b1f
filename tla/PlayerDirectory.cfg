\* Names that change hands: two players, any name, values that do not parse, one restart.
SPECIFICATION Spec
CONSTANTS
    Players = {p1, p2}
    Names = {alice, bob}
    Notes = {Location, muted}
    Callers = {c1}
    NameOf <- MCNameOf
    Renames = {}
    Foreign <- AnyNames
    Tracking = FALSE
    PutsMayFail = TRUE
    WatchMayFail = TRUE
    ChanCap = 2
    MaxRev = 4
    MaxRestarts = 1
    NoName = NoName
    NoPlayer = NoPlayer
    NoMeta = NoMeta
    Garbage = Garbage
    Location = Location
    p1 = p1
    p2 = p2
    alice = alice
    bob = bob
INVARIANTS
    TypeOK
    IndexLeadsToMetadata
    IndexIsTruthful
    OwnNamesAreFound
PROPERTIES
    FollowsBucket
CHECK_DEADLOCK FALSE
