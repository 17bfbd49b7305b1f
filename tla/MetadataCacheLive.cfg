\* What is written after the marker.
SPECIFICATION FairSpec
CONSTANTS
    Keys = {k1}
    Metas = {v1}
    MaxRev = 2
    MaxStarts = 1
    ChanCap = 3
    MayStall = FALSE
    Garbage = Garbage
    NoMeta = NoMeta
    NoKey = NoKey
PROPERTIES
    CatchesUp
CHECK_DEADLOCK FALSE
