----------------------------- MODULE Assembler -----------------------------
(***************************************************************************)
(* How the text of a program becomes the commands of a core:               *)
(* interpret_file of asm.c, one line or label per step, and                *)
(* initialize_instruction_array of initialize.c.                           *)
(***************************************************************************)
EXTENDS Encoding, Sequences, FiniteSets

CONSTANTS
    Names, NoName,      \* the labels, and the empty string
    Cut,                \* a label up to its first "n"
    Files,              \* the texts: sequences of lines
    ImemSize, DmemSize,
    Garbage             \* what the uninitialised imm may be found to be

ASSUME NamesAssumption ==
    /\ NoName \notin Names
    /\ Cut \in [Names -> Names \cup {NoName}]
ASSUME SizesAssumption == ImemSize \in 1 .. 1024 /\ DmemSize \in Nat \ {0}
ASSUME GarbageAssumption == Garbage \subseteq Int /\ Garbage # {}

\* A line has a label or none and one of these after it: nothing, also data that is not
\* complete; a word that is no opcode (also that of an empty line); an opcode that lacks
\* an operand or has an unknown register; data of two numbers; or an instruction, whose
\* last operand is a number, a name or neither.
Labelled(kinds) == [label : Names \cup {NoName}, kind : kinds]
DataLines ==
    [label : Names \cup {NoName}, kind : {"word"}, addr : Int, data : Int]
CodeLines ==
    {l \in [label : Names \cup {NoName}, kind : {"code"}, op : Opcodes, rd : Fields,
            rs : Fields, rt : Fields, arg : {"number", "name", "neither"}, num : Int,
            name : Names \cup {NoName}] : l.arg = "name" => l.name \in Names}
SourceLines == Labelled({"nothing", "unknown", "short"}) \cup DataLines \cup CodeLines

ASSUME FilesAssumption == \A f \in Files : f \in Seq(SourceLines)

VARIABLES
    file, at,           \* the text, and how many lines are read
    status,
    PC, labels, jumplabels, imem, dmem,
    imm,                \* keeps its value from line to line
    instruction_array   \* of the core, from the imem file

vars == <<file, at, status, PC, labels, jumplabels, imem, dmem, imm, instruction_array>>

\* The entry of a line that the imem file does not have.
NOP == -1

Init ==
    /\ file \in Files /\ at = 0
    /\ status = "reading"
    /\ PC = 0
    /\ labels = [k \in 0 .. ImemSize - 1 |-> NoName]
    /\ jumplabels = [k \in 0 .. ImemSize - 1 |-> NoName]
    /\ imem = [k \in 0 .. ImemSize - 1 |-> 0]
    /\ dmem = [a \in 0 .. DmemSize - 1 |-> 0]
    /\ imm \in Garbage
    /\ instruction_array = <<>>
-----------------------------------------------------------------------------
line == file[at + 1]

\* The line has something for the entry behind the last one of labels or of imem.
Outside == PC = ImemSize /\ (line.label # NoName \/ line.kind = "code")

\* Mutant of ReadLine: a label that is there already is kept.
MutReadLine(kinds) ==
    /\ status = "reading" /\ at < Len(file) /\ ~Outside
    /\ line.kind \in kinds
    /\ at' = at + 1
    /\ labels' = IF line.label = NoName \/ labels[PC] # NoName THEN labels
                 ELSE [labels EXCEPT ![PC] = line.label]
    /\ UNCHANGED <<file, instruction_array>>

\* A label is entered at the program counter, whatever else the line has; one
\* that is there already is overwritten.
ReadLine(kinds) ==
    /\ status = "reading" /\ at < Len(file) /\ ~Outside
    /\ line.kind \in kinds
    /\ at' = at + 1
    /\ labels' = IF line.label = NoName THEN labels ELSE [labels EXCEPT ![PC] = line.label]
    /\ UNCHANGED <<file, instruction_array>>

\* PC is not compared with the size of the arrays: what is stored behind them, and
\* all that may come of it, is not followed any further.
Overrun ==
    /\ status = "reading" /\ at < Len(file) /\ Outside
    /\ at' = at + 1
    /\ status' = "overrun"
    /\ UNCHANGED <<file, PC, labels, jumplabels, imem, dmem, imm, instruction_array>>

\* An instruction that lacks an operand, or whose register is none, is skipped without
\* a word.
Pass ==
    /\ ReadLine({"nothing", "short"})
    /\ UNCHANGED <<status, PC, jumplabels, imem, dmem, imm>>

Unsupported ==
    /\ ReadLine({"unknown"})
    /\ status' = "exit"
    /\ UNCHANGED <<PC, jumplabels, imem, dmem, imm>>

\* Mutant of InDmem: the end of the memory belongs to it.
MutInDmem(a) == 0 <= a /\ a <= DmemSize

InDmem(a) == 0 <= a /\ a < DmemSize

Data ==
    /\ ReadLine({"word"})
    /\ IF InDmem(line.addr)
       THEN /\ dmem' = [dmem EXCEPT ![line.addr] = line.data]
            /\ UNCHANGED status
       ELSE /\ status' = "exit"
            /\ UNCHANGED dmem
    /\ UNCHANGED <<PC, jumplabels, imem, imm>>

\* sscanf leaves imm as it was where there is no number.
Code ==
    /\ ReadLine({"code"})
    /\ imm' = LowBits(CASE line.arg = "number"  -> line.num
                        [] line.arg = "name"    -> 0
                        [] line.arg = "neither" -> imm)
    /\ jumplabels' = IF line.arg = "name" THEN [jumplabels EXCEPT ![PC] = Cut[line.name]]
                     ELSE jumplabels
    /\ imem' = [imem EXCEPT ![PC] = Inst(line.op, line.rd, line.rs, line.rt, imm')]
    /\ PC' = PC + 1
    /\ UNCHANGED <<status, dmem>>

EndOfFile ==
    /\ status = "reading" /\ at = Len(file)
    /\ status' = "fixing" /\ PC' = 0
    /\ UNCHANGED <<file, at, labels, jumplabels, imem, dmem, imm, instruction_array>>

FirstAt(name, i) == labels[i] = name /\ \A j \in 0 .. i - 1 : labels[j] # name

\* Mutant of NextPC: the loop stays with an instruction it has fixed.
MutNextPC(fixed) == IF fixed THEN PC ELSE PC + 1

NextPC(fixed) == PC + 1

\* The loop over the jumps; the immediate they have so far is 0, so that or is plus.
FixLabel ==
    /\ status = "fixing" /\ PC < ImemSize
    /\ LET name == jumplabels[PC]
       IN \/ /\ name = NoName
             /\ PC' = NextPC(FALSE)
             /\ UNCHANGED <<imem, status>>
          \/ /\ name # NoName
             /\ \E i \in 0 .. ImemSize - 1 :
                    /\ FirstAt(name, i)
                    /\ imem' = [imem EXCEPT ![PC] = @ + i]
             /\ PC' = NextPC(TRUE)
             /\ UNCHANGED status
          \/ /\ name # NoName
             /\ \A i \in 0 .. ImemSize - 1 : labels[i] # name
             /\ status' = "exit"
             /\ UNCHANGED <<imem, PC>>
    /\ UNCHANGED <<file, at, labels, jumplabels, dmem, imm, instruction_array>>

Printed(k) == \E last \in k .. ImemSize - 1 : imem[last] # 0

\* The words but for the zeros at the end are written, and the core's array is filled
\* with them: it has an entry for each line of the text.
Load ==
    /\ status = "fixing" /\ PC = ImemSize
    /\ instruction_array' = [k \in 0 .. Len(file) - 1 |-> IF Printed(k) THEN imem[k] ELSE NOP]
    /\ status' = "loaded"
    /\ UNCHANGED <<file, at, PC, labels, jumplabels, imem, dmem, imm>>

Next == Overrun \/ Pass \/ Unsupported \/ Data \/ Code \/ EndOfFile \/ FixLabel \/ Load

Spec == Init /\ [][Next]_vars
FairSpec == Spec /\ WF_vars(Next)
-----------------------------------------------------------------------------
TypeOK ==
    /\ file \in Files /\ at \in 0 .. Len(file)
    /\ status \in {"reading", "overrun", "fixing", "loaded", "exit"}
    /\ PC \in 0 .. ImemSize
    /\ labels \in [0 .. ImemSize - 1 -> Names \cup {NoName}]
    /\ jumplabels \in [0 .. ImemSize - 1 -> Names \cup {NoName}]
    /\ imem \in [0 .. ImemSize - 1 -> Words]
    /\ dmem \in [0 .. DmemSize - 1 -> Int]
    /\ imm \in Int

\* A jump that has not been fixed has no address yet, so that the one that is put in
\* does not touch its registers: all words are those of instructions (TypeOK).
IInv ==
    /\ TypeOK
    /\ \A k \in 0 .. ImemSize - 1 :
        /\ status = "reading" /\ k >= PC => jumplabels[k] = NoName
        /\ jumplabels[k] # NoName /\ (status = "reading" \/ k >= PC) => imem[k] % 4096 = 0

\* The index of the instruction in line j, or of the next one.
Position(j) == Cardinality({i \in 1 .. j - 1 : file[i].kind = "code"})

\* The number of 12 bits with a sign that v stands for.
Wrapped(v) == CHOOSE n \in -2048 .. 2047 : (n - v) % 4096 = 0

\* The core decodes what the lines say, one instruction for one instruction: opcode,
\* registers and numbers, and for a label, if it has no n, a place where
\* the program has it.  Entries that the imem file lacks stood for zeros.
CoreGetsProgram ==
    status = "loaded" => \A j \in DOMAIN file : file[j].kind = "code" =>
        LET i == file[j]
            w == instruction_array[Position(j)]
            c == BuildCommand(IF w = NOP THEN 0 ELSE w)
        IN /\ c.op = i.op /\ c.rd = i.rd /\ c.rs = i.rs /\ c.rt = i.rt
           /\ i.arg = "number" => c.imm = Wrapped(i.num)
           /\ i.arg = "name" /\ Cut[i.name] = i.name =>
                \E d \in DOMAIN file : file[d].label = i.name /\ c.imm = Position(d)

\* A label in line j can be jumped to: no other one follows at the same place.
Survives(j) ==
    /\ file[j].label # NoName
    /\ \A d \in j + 1 .. Len(file) : Position(d) = Position(j) => file[d].label = NoName

\* Line j jumps to a name with an n, which is looked for without what follows.
JumpIsCut(j) ==
    file[j].kind = "code" /\ file[j].arg = "name" /\ Cut[file[j].name] # file[j].name

\* An opcode that there is not, an address outside dmem, a name without a label.
Faulty(j) ==
    \/ file[j].kind = "unknown"
    \/ file[j].kind = "word" /\ file[j].addr \notin 0 .. DmemSize - 1
    \/ /\ file[j].kind = "code" /\ file[j].arg = "name" /\ ~JumpIsCut(j)
       /\ \A d \in DOMAIN file : ~(Survives(d) /\ file[d].label = file[j].name)

\* There is no entry for the instruction or the label of line j.
TooFar(j) ==
    (file[j].label # NoName \/ file[j].kind = "code") /\ Position(j) >= ImemSize

\* A text without these faults and without jumps to names with an n comes to the core;
\* one with a fault does not.  Of a text that does come nothing more is said here: lines
\* that lack an operand or have an unknown register are left out of it silently, a last
\* operand that cannot be read is what imm was, and a jump to a name with an n
\* may have been refused or have got the place of another label.
OutcomeFitsText ==
    /\ status = "exit"    => \E j \in DOMAIN file : Faulty(j) \/ JumpIsCut(j)
    /\ status = "overrun" => \E j \in DOMAIN file : TooFar(j)
    /\ status = "loaded"  => \A j \in DOMAIN file : ~Faulty(j) /\ ~TooFar(j)

\* What the loops over the lines and the jumps have left to do.
Remaining ==
    IF status = "reading" THEN Len(file) - at + ImemSize + 2
    ELSE IF status = "fixing" THEN ImemSize - PC + 1
    ELSE 0

\* No step of the assembler is taken in vain: each leaves less to do.
Advances == [][Remaining' < Remaining]_vars

\* The loops over the lines and the jumps end.
Terminates == <>(status \in {"loaded", "exit", "overrun"})
=============================================================================
