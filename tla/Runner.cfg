\* Two threads start and stop the runner, in turn or racing, and the creation
\* of the worker may fail; two clients with two commands each share a queue of
\* two places.  A race or a failure can leave the runner accepting without a
\* worker, and clients that fill its queue then wait forever: the system
\* really may stop.
CONSTANTS
    Clients = {c1, c2}
    Controllers = {k1, k2}
    Capacity = 2
    MaxCommands = 2
    MaxCalls = 2
    ThreadMayFail = TRUE
SPECIFICATION Spec
INVARIANTS
    TypeOK
    OneFate
    ClientOrderKept
    StopDrains
    NeverTerminates
    RunningMeansServed
PROPERTIES
    FuturesBecomeReady
    CallsReturn
CHECK_DEADLOCK FALSE
