\* Two books and three order keys, one shared client order id among them, and
\* one key that is refused; prices 1 and 2; sizes modulo 3, so that totals wrap;
\* every sequence of three commands.
CONSTANTS
    MaxPrice = 2
    SizeModulus = 3
    Keys <- SafetyKeys
    Symbols = {1, 2}
    MaxSequence = 3
SPECIFICATION Spec
INVARIANTS
    TypeOK
    HandlesValid
    RestingOrdersIndexed
    LevelsOrdered
    BookUncrossed
    LevelTotals
    SizeConserved
    IndexNeverCorrupt
    SnapshotTruthful
PROPERTIES
    PriorityEarned
    CommandsEnd
