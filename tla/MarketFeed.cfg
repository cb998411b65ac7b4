\* Two books and three feed numbers, the third one the largest there is, so that
\* the numbers run out in most behaviours; sends may fail.  The receiver holds
\* back two packets and gives up at a gap of two.  When the numbers are used up
\* the system really stops.
CONSTANTS
    LastNumber = 3
    SendMayFail = TRUE
    LastSequence = 3
    FirstSequence = 0
    MaxPending = 2
    MaxGap = 2
    ConsumerMayThrow = FALSE
    Instruments = {1, 2}
    Tops <- MCTops
    MaxCommands = 1
SPECIFICATION Spec
INVARIANTS
    UniqueNumbers
    ShownIsTruthful
    CaughtUpIsLive
CHECK_DEADLOCK FALSE
