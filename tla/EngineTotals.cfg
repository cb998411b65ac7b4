\* Two orders of one side at one price are enough.
CONSTANTS
    MaxPrice = 2
    SizeModulus = 3
    Keys <- TotalsKeys
    Symbols = {0, 1}
    MaxSequence = 4
SPECIFICATION Spec
INVARIANTS
    LevelTotalsExact
