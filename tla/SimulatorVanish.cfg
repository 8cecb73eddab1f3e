\* Artifacts may vanish during a rebuild, which ends the watcher thread;
\* the session then only waits for the operator, so deadlock is not a fault.
\* Checks the safety of the refinement of Registry under this fault.
CONSTANTS
    N = 2
    Schema = {1}
    InitValid = {1, 2}
    MaxMtime = 2
    MaxCalls = 1
    MaxSwitches = 2
    ChanBound = 1
    HttpEnabled = TRUE
    MayVanish = TRUE
    CoarseClock = FALSE
    NoInstance = NoInstance
    NoCall = NoCall

SPECIFICATION Spec
PROPERTY RegistrySpec
CHECK_DEADLOCK FALSE
