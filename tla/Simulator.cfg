\* Two contracts, the second of which does not load at startup, each rebuilt
\* once into a loadable or broken build, calls from the session and the REST
\* worker, two switches, under the threads' fairness.
CONSTANTS
    N = 2
    Schema = {1}
    InitValid = {1}
    MaxMtime = 2
    MaxCalls = 2
    MaxSwitches = 2
    ChanBound = 1
    HttpEnabled = TRUE
    MayVanish = FALSE
    CoarseClock = FALSE
    NoInstance = NoInstance
    NoCall = NoCall

SPECIFICATION FairSpec

INVARIANT TypeOK
INVARIANT SessionContractRegistered
INVARIANT StorageNoPhantom

PROPERTY RegistryFair
