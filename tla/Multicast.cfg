\* The walkthrough and --messages 2 to 5, with burst sizes 1 to 3 and the
\* largest value of size_t.  The fourth number stands for 2^64 - 1, so that
\* five messages use up the numbers.  The listener stops after three packets
\* and receives up to six datagrams.
CONSTANTS
    LastNumber = 4
    SendMayFail = TRUE
    MessageCounts = {0, 2, 3, 4, 5}
    BurstSizes = {1, 2, 3, 15}
    SizeTValues = 16
    LastSequence = 4
    FirstSequence = 0
    MaxPending = 2
    MaxGap = 2
    ConsumerMayThrow = FALSE
    StopAfter = 3
    MaxDatagrams = 6
SPECIFICATION DemoSpec
INVARIANTS
    SummaryTruthful
    StopAfterMeansAll
PROPERTIES
    SimulatorEnds
CHECK_DEADLOCK FALSE
