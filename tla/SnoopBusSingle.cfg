\* One core runs; two blocks of two words compete for its one line.
CONSTANTS
    NumCores = 2
    Running = {0}
    NumLines = 1
    NumTags = 2
    BlockSize = 2
    Stalls = 3
    Values = {0, 1}
SPECIFICATION HistoryFairSpec
INVARIANTS CleanMatchesMemory SoloInv VictimSaved
PROPERTIES LoadServed ImplementsFlatMemory AccessesComplete
