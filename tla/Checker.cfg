\* Three keys written while the initial values are delivered; three calls, two at a time, of up to two rules.
SPECIFICATION ServiceSpec
CONSTANTS
    Keys = {k1, k2, k3}
    Metas = {v1, v2}
    MaxRev = 5
    MaxStarts = 2
    ChanCap = 3
    MayStall = TRUE
    Rules = {r1, r2}
    Unparsable = {x1}
    Malformed = {y1}
    AsListed <- MCAsListed
    Handlers = {1, 2}
    MaxRequests = 3
    MaxLength = 2
    MaxRestarts = 1
    Garbage = Garbage
    NoMeta = NoMeta
    NoKey = NoKey
    r1 = r1
    x1 = x1
INVARIANTS
    CheckerTypeOK
    InitialValuesCached
    MemoryShowsStore
    AnswersHold
PROPERTIES
    FollowsBucket
SYMMETRY Symmetry
CHECK_DEADLOCK FALSE
