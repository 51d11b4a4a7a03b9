CONSTANTS
    Half = 8
    THRES = 14
    BlankCounters = {15}
    NumBlocks = 3
    MaxCounter = 5
    Versions = {v1, v2}
    MaxChanges = 3
    MaxCrashes = 3
    Chunks = 2
    MaxRequests = 3
    MaxLosses = 2
    MaxEnds = 1
SPECIFICATION MCSpec
INVARIANTS OldOrNew OwnContent 
 
CHECK_DEADLOCK FALSE
