\* Calls two instructions behind a load or a store that may miss.
CONSTANTS
    Regs = {0, 1, 2, 3, 15}
    Modulus = 4
    PCs = 4
    MemWords = 2
    Compute <- McCompute
    Programs <- LinkPrograms
    Memin <- McMemin
    Latency = 3
    Stale = {FALSE}
    Leftover <- McLeftover
    Sizes = {1, 2, 3}
SPECIFICATION FairSpec
INVARIANTS LinkIsNext
