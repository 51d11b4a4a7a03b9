CONSTANTS
    Posters = {p1, p2}
    Getters = {g1}
    Msgs = {m1, m2}
    NoMsg = none
    Count = 3
    Second = 3
    Period = 2
SPECIFICATION FairSpec
INVARIANTS NeverEmptyHanded
PROPERTIES ImplementsFifo Delivered
