\* Three orders on one symbol, four sequence numbers, sizes 1 and 2.
CONSTANTS
    MaxPrice = 2
    SizeModulus = 3
    Keys <- RefinementKeys
    Symbols = {0, 1}
    MaxSequence = 4
SPECIFICATION HSpec
INVARIANTS
    ViewIsTopOfBook
PROPERTIES
    ImplementsPriceTime
