CONSTANTS
    N = 2
    Schema = {}
    InitValid = {2}
    MaxMtime = 1
    MaxCalls = 0
    MaxSwitches = 0
    ChanBound = 1
    HttpEnabled = FALSE
    MayVanish = FALSE
    CoarseClock = FALSE
    NoInstance = NoInstance
    NoCall = NoCall

SPECIFICATION Spec
INVARIANT SessionOutlivesFailedLoad
