CONSTANTS
    speaker = speaker headset = headset mic = mic
    Outs <- MCOuts
    Ins <- MCIns
    dev_cfgs <- MCCfgs
    Blocks = 2
    MaxCalls = 6
    MaxFaults = 2
SPECIFICATION MCSpec
INVARIANTS NoLostChange  
PROPERTIES MixedOnlyInPlay
CHECK_DEADLOCK FALSE
