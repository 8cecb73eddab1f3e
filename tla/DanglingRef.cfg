CONSTANTS
    N = 2
    Schema = {}
    InitValid = {1}
    MaxMtime = 2
    MaxCalls = 1
    MaxSwitches = 0
    ChanBound = 1
    HttpEnabled = FALSE
    MayVanish = FALSE
    CoarseClock = FALSE
    NoInstance = NoInstance
    NoCall = NoCall

SPECIFICATION Spec
INVARIANT SessionRefValid
