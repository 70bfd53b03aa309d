\* The real number of cores.
CONSTANT NumCores = 4
SPECIFICATION Spec
PROPERTY NextInTurn
