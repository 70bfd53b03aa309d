\* Two cores, two blocks that compete for one line, so that a core can miss again and
\* again, and addresses beyond main memory.
CONSTANTS
    NumCores = 2
    NumLines = 1
    NumTags = 2
    Highs = {FALSE, TRUE}
    Values = {0}
    Latency = 3
SPECIFICATION FairSpec
INVARIANTS NoLostWakeup ExclusiveAlone
PROPERTIES WaitsAreBounded RequestGranted StallEnds
