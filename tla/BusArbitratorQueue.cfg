\* The real number of slots and two commands that can be told apart.
CONSTANTS
    Commands = {c1, c2}
    NumCores = 4
    Null = Null
SPECIFICATION Spec
INVARIANTS TypeOK RingAgrees
PROPERTY ImplementsFifo
