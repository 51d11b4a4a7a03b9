CONSTANTS
    Parts = {p1}
    NumSectors = 2
    Vals = {v1, ff}
    Erased = ff
    Unread = unread
    NoPart = none
    Cali = FALSE
    Writes <- MCWrites
    Words = 3
    Before <- MCBefore
SPECIFICATION MCSpec
INVARIANTS Durable CleanMeansSaved NothingForgotten MarksRange
