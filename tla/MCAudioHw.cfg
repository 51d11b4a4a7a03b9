CONSTANTS
    tg = tg
    CPs = {tg}
    MaxErrors = 1
SPECIFICATION FairSpec
INVARIANTS NoMediaInCall  VoipTracked
  
