CONSTANTS
    p1 = p1
    p2 = p2
    px = px
    v1 = v1
    v2 = v2
    Parts = {p1, p2}
    PartIds = {p1, p2, px}
    NumSectors = 2
    Vals = {v1, v2, ff}
    Erased = ff
    MaxGroups = 3
    NoGroup = none
    Requests <- MCRequests
SPECIFICATION SyncSpec
INVARIANTS AllOrNothing RollbackClean RspTruth
PROPERTIES ImplementsIntake
