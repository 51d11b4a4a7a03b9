CONSTANTS
    Parts = {p1}
    NumSectors = 2
    Erased = ff
    Vals = {v1, ff}
    ZeroSumBlank = {p1}
    ZeroSum = zero
    Garbage = garbage
    Unread = unread
    MaxFaults = 0
    Writes <- MCWrites
SPECIFICATION RamDiskSpec
INVARIANTS OriginFixed
