\* A signal and at most two datagrams.
CONSTANTS
    LastSequence = 3
    FirstSequence = 0
    MaxPending = 2
    MaxGap = 2
    ConsumerMayThrow = FALSE
    StopAfter = 0
    MaxDatagrams = 2
SPECIFICATION Spec
PROPERTIES
    ShutdownHonoured
CHECK_DEADLOCK FALSE
