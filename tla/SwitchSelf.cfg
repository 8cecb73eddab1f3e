CONSTANTS
    N = 2
    Schema = {1, 2}
    InitValid = {1, 2}
    MaxMtime = 1
    MaxCalls = 0
    MaxSwitches = 2
    ChanBound = 1
    HttpEnabled = FALSE
    MayVanish = FALSE
    CoarseClock = FALSE
    NoInstance = NoInstance
    NoCall = NoCall

SPECIFICATION Spec
PROPERTY SwitchLeavesContract
