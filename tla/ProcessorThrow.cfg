\* A consumer that may throw.
CONSTANTS
    LastSequence = 5
    FirstSequence = 0
    MaxPending = 3
    MaxGap = 3
    ConsumerMayThrow = TRUE
SPECIFICATION ProcessorSpec
INVARIANTS
    PendingAhead
