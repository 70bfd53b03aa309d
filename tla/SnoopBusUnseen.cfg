\* Core 2 is outside the range of check_shared_bus.
CONSTANTS
    NumCores = 3
    Running = {0, 2}
    NumLines = 1
    NumTags = 1
    BlockSize = 2
    Stalls = 3
    Values = {0}
SPECIFICATION Spec
INVARIANT SingleWriterAll
