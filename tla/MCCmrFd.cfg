CONSTANTS
    MaxFrames = 5
    MaxStarts = 4
    MaxAllocs = 3
    Overlaps <- MCOverlaps
SPECIFICATION MCSpec
INVARIANTS SemBalanced FrameHeld MemoryLive LibraryReady RotatedWhenDone EventForFrame
CHECK_DEADLOCK FALSE
