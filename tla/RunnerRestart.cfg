\* Two threads start and stop the runner.
CONSTANTS
    Clients = {c1}
    Controllers = {k1, k2}
    Capacity = 1
    MaxCommands = 1
    MaxCalls = 2
    ThreadMayFail = FALSE
SPECIFICATION Spec
INVARIANTS
    NotRestarted
