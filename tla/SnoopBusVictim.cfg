\* Two cores, one line, two blocks.
CONSTANTS
    NumCores = 2
    Running = {0, 1}
    NumLines = 1
    NumTags = 2
    BlockSize = 2
    Stalls = 3
    Values = {0}
SPECIFICATION Spec
INVARIANT OnlyVictimWritten
