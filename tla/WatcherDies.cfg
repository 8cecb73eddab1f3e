\* A vanished artifact ends the watcher: the process keeps running and never
\* reloads again.  The session may then wait forever, so no deadlock check.
CONSTANTS
    N = 2
    Schema = {}
    InitValid = {1, 2}
    MaxMtime = 2
    MaxCalls = 0
    MaxSwitches = 0
    ChanBound = 1
    HttpEnabled = FALSE
    MayVanish = TRUE
    CoarseClock = FALSE
    NoInstance = NoInstance
    NoCall = NoCall

SPECIFICATION FairSpec
PROPERTY RegistryFair
CHECK_DEADLOCK FALSE
