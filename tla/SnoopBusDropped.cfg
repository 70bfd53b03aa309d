\* Two cores miss at the same time.
CONSTANTS
    NumCores = 2
    Running = {0, 1}
    NumLines = 1
    NumTags = 1
    BlockSize = 2
    Stalls = 3
    Values = {0}
SPECIFICATION Spec
PROPERTY LoadServed
