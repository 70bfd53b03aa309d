\* Texts of up to three lines, and of four, for which imem may be too small.
CONSTANTS
    Names <- McNames
    NoName = NoName
    Cut <- McCut
    Files <- McFiles
    ImemSize = 3
    DmemSize = 2
    Garbage = {0, 77777}
SPECIFICATION FairSpec
INVARIANTS IInv ProgramInv CoreGetsProgram OutcomeFitsText
PROPERTIES Terminates
CHECK_DEADLOCK FALSE
