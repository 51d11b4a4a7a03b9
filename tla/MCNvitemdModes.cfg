CONSTANTS
    Parts = {p1, p2}
    NumSectors = 1
    Vals = {v1, ff}
    Erased = ff
    Unread = unread
    NoPart = none
SPECIFICATION MCSpec
INVARIANT CaliDurable
PROPERTY CommitsServed
