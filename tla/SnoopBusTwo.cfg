\* Two cores whose addresses all compete for one line, and one without a program.
CONSTANTS
    NumCores = 3
    Running = {0, 1}
    NumLines = 1
    NumTags = 2
    BlockSize = 2
    Stalls = 3
    Values = {0}
SPECIFICATION FairSpec
INVARIANTS IInv IdleClean SingleWriter
PROPERTIES TransactionAdvances BusFreed
