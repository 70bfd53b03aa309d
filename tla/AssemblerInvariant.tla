------------------------- MODULE AssemblerInvariant -------------------------
(***************************************************************************)
(* Where the lines that have been read are found in labels, jumplabels and *)
(* imem, and which of the jumps have their addresses.                      *)
(***************************************************************************)
EXTENDS Assembler

IsCode(j) == file[j].kind = "code"

\* PC counts the instructions up to the line that is read next.
Places ==
    /\ status = "reading" => PC = Position(at + 1)
    /\ status \in {"fixing", "loaded"} => at = Len(file)

\* The label of line d is the last one so far at its place.
LastAt(d) ==
    /\ file[d].label # NoName
    /\ \A e \in d + 1 .. at : Position(e) = Position(d) => file[e].label = NoName

LabelsEntered ==
    /\ \A d \in 1 .. at : LastAt(d) => labels[Position(d)] = file[d].label
    /\ \A k \in 0 .. ImemSize - 1 : labels[k] # NoName =>
            \E d \in 1 .. at : LastAt(d) /\ Position(d) = k /\ file[d].label = labels[k]

\* The label that is looked for on behalf of line j, or none.
JumpTo(j) == IF file[j].arg = "name" THEN Cut[file[j].name] ELSE NoName

JumpsNoted ==
    /\ \A j \in 1 .. at : IsCode(j) => jumplabels[Position(j)] = JumpTo(j)
    /\ \A k \in 0 .. ImemSize - 1 : jumplabels[k] # NoName =>
            \E j \in 1 .. at : IsCode(j) /\ Position(j) = k

Fixed(j) == status # "reading" /\ Position(j) < PC /\ JumpTo(j) # NoName

\* The word of line j has its fields, and in the lowest one its number, nothing yet,
\* or the place of its label.
HasWord(j, low) ==
    /\ imem[Position(j)] = Inst(file[j].op, file[j].rd, file[j].rs, file[j].rt, low)
    /\ file[j].arg = "number" => low = LowBits(file[j].num)
    /\ file[j].arg = "name" =>
            IF Fixed(j) THEN low \in 0 .. ImemSize - 1 /\ FirstAt(JumpTo(j), low)
            ELSE low = 0
Assembled == \A j \in 1 .. at : IsCode(j) => \E low \in Imm : HasWord(j, low)

\* No line so far has made the assembler give up or leave its arrays.
Accepted ==
    \A j \in 1 .. at :
        /\ file[j].kind # "unknown"
        /\ file[j].kind = "word" => InDmem(file[j].addr)
        /\ ~TooFar(j)

\* The words but for the zeros at the end have come to the core.
Loaded ==
    status = "loaded" =>
        /\ PC = ImemSize
        /\ instruction_array = [k \in 0 .. Len(file) - 1 |->
                                  IF Printed(k) THEN imem[k] ELSE NOP]

\* With IInv this is inductive.
ProgramInv ==
    IF status = "exit" THEN \E j \in DOMAIN file : Faulty(j) \/ JumpIsCut(j)
    ELSE IF status = "overrun" THEN \E j \in DOMAIN file : TooFar(j)
    ELSE Places /\ LabelsEntered /\ JumpsNoted /\ Assembled /\ Accepted /\ Loaded
=============================================================================
