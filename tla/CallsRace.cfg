CONSTANTS
    N = 2
    Schema = {}
    InitValid = {1, 2}
    MaxMtime = 1
    MaxCalls = 2
    MaxSwitches = 0
    ChanBound = 1
    HttpEnabled = TRUE
    MayVanish = FALSE
    CoarseClock = FALSE
    NoInstance = NoInstance
    NoCall = NoCall

SPECIFICATION Spec
INVARIANT CallsSerialized
