\* Two writes of one artifact within one timestamp tick: the watcher compares
\* modification times only, and the second build is never loaded.
CONSTANTS
    N = 2
    Schema = {1}
    InitValid = {1, 2}
    MaxMtime = 2
    MaxCalls = 0
    MaxSwitches = 0
    ChanBound = 1
    HttpEnabled = FALSE
    MayVanish = FALSE
    CoarseClock = TRUE
    NoInstance = NoInstance
    NoCall = NoCall
SPECIFICATION FairSpec
PROPERTY RegistryFair
