\* Sequence numbers 1 to 6, the last one standing for 2^64 - 1, arriving in
\* any order and any number of times among six datagrams.
CONSTANTS
    LastSequence = 6
    FirstSequence = 0
    MaxPending = 2
    MaxGap = 2
    ConsumerMayThrow = FALSE
    StopAfter = 3
    MaxDatagrams = 6
SPECIFICATION Spec
INVARIANTS
    TypeOK
    OrderedDelivery
    PendingAhead
    CapacitySuffices
    CountersAddUp
    StatusTruthful
    StopsAfter
PROPERTIES
    ProcessingEnds
CHECK_DEADLOCK FALSE
