\* Programs of up to three lines, misses of one or two stalled cycles.
CONSTANTS
    Regs = {0, 1, 2, 3, 15}
    Modulus = 4
    PCs = 4
    MemWords = 2
    Compute <- McCompute
    Programs <- McPrograms
    Memin <- McMemin
    Latency = 3
    Stale = {FALSE}
    Leftover <- McLeftover
    Sizes = {1, 2, 3}
SPECIFICATION FairSpec
INVARIANTS OperandsCurrent IInv SequentialInv HaltedIsOver
PROPERTIES ImplementsSequential ExecutionAdvances KeepsExecuting OverIsHalted
