\* Every field takes its legal values, zero and a value out of range; lengths
\* lie on both sides of the header's and the packet's.
CONSTANTS
    Lengths = {0, 15, 16, 37, 38, 39}
    Signatures = {0, 1329748557}
    Versions = {1, 2}
    Types = {0, 1}
    Sequences = {0, 1, 2}
    Sides = {0, 1, 2}
    Flags = {0, 1, 2, 3}
    Prices = {0, 1, 2}
    Sizes = {0, 1, 2}
    Symbols = {0, 1}
SPECIFICATION Spec
INVARIANTS
    DecodeCanonical
    EncodedAccepted
CHECK_DEADLOCK FALSE
