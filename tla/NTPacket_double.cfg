SPECIFICATION ntSpec
CONSTANTS
    StringSizes = {3, 16}
    Enumerations = {0, 1}
    MaxAppends = 5
    MaxSends = 1
    BlockLen = 16
    BufferLen = 96
INVARIANTS
    DoublesAreFound
