CONSTANTS
    Threads = {t1}
    MAX_CLIENT_NUM = 3
    Clients = {c1, c2, c3}
    MaxFd = 2
    MaxFailures = 2
    MaxResets = 1
    MaxAsserts = 2
    MaxDowns = 2
    MaxRetry = 5
    Images = 2
    MaxNacks = 1
    MaxCrashes = 1
    MaxLineChanges = 2
    Bytes = {126, 125, 94, 93, 0}
    MaxLen = 3
    MaxNoise = 1
    Tries = 2
    MaxLines = 2
    MaxUnsolicited = 1
    MaxFails = 1
SPECIFICATION MCSpec
INVARIANTS  ReadyKnown  
PROPERTIES Recovers
CHECK_DEADLOCK FALSE
