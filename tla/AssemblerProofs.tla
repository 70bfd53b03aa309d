-------------------------- MODULE AssemblerProofs --------------------------
(***************************************************************************)
(* Theorems about Assembler, for every text, any labels and sizes of the   *)
(* memories.                                                               *)
(***************************************************************************)
EXTENDS AssemblerInvariant, EncodingProofs, FiniteSetTheorems

LEMMA LinesAreSourceLines ==
  ASSUME TypeOK, at < Len(file)
  PROVE  /\ at \in Nat /\ at + 1 \in 1 .. Len(file)
         /\ line.label \in Names \cup {NoName}
         /\ line.kind = "word" => line.data \in Int
         /\ line.kind = "code" =>
                /\ line.op \in Opcodes /\ line.rd \in Fields /\ line.rs \in Fields
                /\ line.rt \in Fields /\ line.num \in Int
                /\ line.arg \in {"number", "name", "neither"}
                /\ line.arg = "name" => line.name \in Names
  <1>1. at \in 0 .. Len(file) /\ file \in Seq(SourceLines)
    BY FilesAssumption DEF TypeOK
  <1>2. Len(file) \in Nat /\ file \in [1 .. Len(file) -> SourceLines]
    BY <1>1
  <1>3. at \in Nat /\ at + 1 \in 1 .. Len(file)
    BY <1>1, <1>2
  <1>4. line \in SourceLines
    BY <1>2, <1>3 DEF line
  <1>5. /\ line.label \in Names \cup {NoName}
        /\ line.kind = "word" => line \in DataLines
        /\ line.kind = "code" => line \in CodeLines
    BY <1>4 DEF SourceLines, Labelled, DataLines, CodeLines
  <1>6. QED
    BY <1>3, <1>5, NamesAssumption DEF DataLines, CodeLines

LEMMA WordIsWord ==
  ASSUME NEW op \in Opcodes, NEW rd \in Fields, NEW rs \in Fields, NEW rt \in Fields,
         NEW i \in Imm
  PROVE  /\ Inst(op, rd, rs, rt, i) \in Words
         /\ i = 0 => Inst(op, rd, rs, rt, i) % 4096 = 0
  <1>1. Inst(op, rd, rs, rt, i) \in Words
    BY FieldsRoundTrip
  <1>2. i = 0 => Inst(op, rd, rs, rt, i) = 4096 * (((op * 16 + rd) * 16 + rs) * 16 + rt)
    BY SMT DEF Inst, Opcodes, Fields
  <1>3. (4096 * (((op * 16 + rd) * 16 + rs) * 16 + rt)) % 4096 = 0
    BY SMT DEF Opcodes, Fields
  <1>4. QED BY <1>1, <1>2, <1>3

\* The address of a label fits below the registers of a jump.
LEMMA FixedIsWord ==
  ASSUME NEW w \in Words, w % 4096 = 0, NEW i \in 0 .. ImemSize - 1
  PROVE  w + i \in Words
  <1>1. w \in Nat /\ w <= 352321535 /\ i \in Nat /\ i <= 1023
    BY SMT, SizesAssumption DEF Words
  <1>2. w + i <= 352321535
    BY SMT, <1>1
  <1>3. QED BY SMT, <1>1, <1>2 DEF Words

LEMMA InitIInv == Init => IInv
  <1> SUFFICES ASSUME Init PROVE IInv
    OBVIOUS
  <1>1. 0 \in Words
    BY SMT DEF Words
  <1>2. file \in Files /\ Len(file) \in Nat
    BY FilesAssumption DEF Init
  <1>3. imm \in Int /\ at = 0 /\ at \in 0 .. Len(file) /\ PC = 0 /\ PC \in 0 .. ImemSize
    BY <1>2, SizesAssumption, GarbageAssumption DEF Init
  <1>4. /\ imem \in [0 .. ImemSize - 1 -> Words]
        /\ dmem \in [0 .. DmemSize - 1 -> Int]
        /\ labels \in [0 .. ImemSize - 1 -> Names \cup {NoName}]
        /\ jumplabels \in [0 .. ImemSize - 1 -> Names \cup {NoName}]
        /\ \A k \in 0 .. ImemSize - 1 : jumplabels[k] = NoName
        /\ status = "reading"
    BY <1>1 DEF Init
  <1>5. TypeOK
    BY <1>2, <1>3, <1>4 DEF TypeOK
  <1>6. QED BY <1>4, <1>5 DEF IInv

\* What all the lines have in common.
LEMMA ReadIInv ==
  ASSUME IInv, NEW kinds, ReadLine(kinds)
  PROVE  /\ file' \in Files /\ at' \in 0 .. Len(file')
         /\ labels' \in [0 .. ImemSize - 1 -> Names \cup {NoName}]
         /\ line.label # NoName \/ line.kind = "code" => PC \in 0 .. ImemSize - 1
         /\ PC \in Nat /\ at \in Nat /\ at' = at + 1
         /\ status = "reading" /\ at < Len(file) /\ line.kind \in kinds
  <1>1. status = "reading" /\ at < Len(file) /\ TypeOK
    BY DEF ReadLine, IInv
  <1>2. /\ at \in Nat /\ at + 1 \in 1 .. Len(file)
        /\ line.label \in Names \cup {NoName}
    BY <1>1, LinesAreSourceLines
  <1>3. PC \in Nat /\ PC \in 0 .. ImemSize
    BY <1>1, SizesAssumption DEF TypeOK
  <1>4. line.label # NoName \/ line.kind = "code" => PC \in 0 .. ImemSize - 1
    BY <1>3, SizesAssumption DEF ReadLine, Outside
  <1>5. file' = file /\ at' = at + 1 /\ file \in Files /\ line.kind \in kinds
    BY <1>1 DEF ReadLine, TypeOK
  <1>6. labels' \in [0 .. ImemSize - 1 -> Names \cup {NoName}]
    <2>1. labels \in [0 .. ImemSize - 1 -> Names \cup {NoName}]
      BY <1>1 DEF TypeOK
    <2>2. \/ labels' = labels
          \/ labels' = [labels EXCEPT ![PC] = line.label] /\ line.label # NoName
      BY DEF ReadLine
    <2>3. QED BY <1>2, <1>4, <2>1, <2>2
  <1>7. QED BY <1>1, <1>2, <1>3, <1>4, <1>5, <1>6

\* A line that holds no instruction leaves the program as it is.
LEMMA OtherLineIInv == IInv /\ (Pass \/ Unsupported \/ Data) => IInv'
  <1> SUFFICES ASSUME IInv, Pass \/ Unsupported \/ Data PROVE IInv'
    OBVIOUS
  <1>1. PICK kinds : ReadLine(kinds) /\ kinds \in {{"nothing", "short"}, {"unknown"}, {"word"}}
    BY DEF Pass, Unsupported, Data
  <1>2. /\ file' \in Files /\ at' \in 0 .. Len(file')
        /\ labels' \in [0 .. ImemSize - 1 -> Names \cup {NoName}]
        /\ PC \in Nat /\ at \in Nat /\ at' = at + 1
        /\ status = "reading" /\ at < Len(file)
    BY <1>1, ReadIInv
  <1>3. /\ PC' = PC /\ jumplabels' = jumplabels /\ imem' = imem /\ imm' = imm
        /\ status' \in {"reading", "exit"}
    BY <1>2 DEF Pass, Unsupported, Data
  <1>4. dmem' \in [0 .. DmemSize - 1 -> Int]
    <2>1. dmem \in [0 .. DmemSize - 1 -> Int] /\ TypeOK
      BY DEF IInv, TypeOK
    <2>2. CASE Data
      <3>1. ReadLine({"word"})
        BY <2>2 DEF Data
      <3>2. line.kind = "word"
        BY <3>1 DEF ReadLine
      <3>3. line.data \in Int
        BY <1>2, <2>1, <3>2, LinesAreSourceLines
      <3>4. QED BY <2>1, <2>2, <3>3 DEF Data
    <2>3. CASE Pass \/ Unsupported
      BY <2>1, <2>3 DEF Pass, Unsupported
    <2>4. QED BY <2>2, <2>3
  <1>5. TypeOK'
    <2>1. TypeOK
      BY DEF IInv
    <2>2. QED BY <1>2, <1>3, <1>4, <2>1 DEF TypeOK
  <1>6. \A k \in 0 .. ImemSize - 1 :
            /\ k >= PC => jumplabels[k] = NoName
            /\ jumplabels[k] # NoName => imem[k] % 4096 = 0
    BY <1>2 DEF IInv
  <1>7. QED BY <1>3, <1>5, <1>6 DEF IInv

\* Nothing is stored when an entry is lacking.
LEMMA OverrunIInv == IInv /\ Overrun => IInv'
  <1> SUFFICES ASSUME IInv, Overrun PROVE IInv'
    OBVIOUS
  <1>1. TypeOK /\ at < Len(file) /\ at' = at + 1 /\ status' = "overrun" /\ status = "reading"
        /\ UNCHANGED <<file, PC, labels, jumplabels, imem, dmem, imm, instruction_array>>
    BY DEF Overrun, IInv
  <1>2. at' \in 0 .. Len(file)
    BY <1>1, LinesAreSourceLines
  <1>3. TypeOK'
    BY <1>1, <1>2 DEF TypeOK
  <1>4. QED BY <1>1, <1>3 DEF IInv

LEMMA CodeIInv == IInv /\ Code => IInv'
  <1> SUFFICES ASSUME IInv, Code PROVE IInv'
    OBVIOUS
  <1>1. ReadLine({"code"}) /\ TypeOK
    BY DEF Code, IInv
  <1>2. /\ file' \in Files /\ at' \in 0 .. Len(file')
        /\ labels' \in [0 .. ImemSize - 1 -> Names \cup {NoName}]
        /\ PC \in Nat /\ PC \in 0 .. ImemSize - 1
        /\ at \in Nat /\ at' = at + 1
        /\ status = "reading" /\ at < Len(file) /\ line.kind = "code"
    BY <1>1, ReadIInv
  <1>3. /\ line.op \in Opcodes /\ line.rd \in Fields /\ line.rs \in Fields
        /\ line.rt \in Fields /\ line.num \in Int
        /\ line.arg \in {"number", "name", "neither"}
        /\ line.arg = "name" => line.name \in Names
    BY <1>1, <1>2, LinesAreSourceLines
  <1>4. imm' \in Imm /\ (line.arg = "name" => imm' = 0)
    <2>1. \A v \in Int : LowBits(v) \in Imm
      BY ImmediateIsWrapped
    <2>2. LowBits(0) = 0 /\ imm \in Int
      BY <1>1 DEF LowBits, TypeOK
    <2>3. QED BY <1>3, <2>1, <2>2 DEF Code
  <1> DEFINE w == Inst(line.op, line.rd, line.rs, line.rt, imm')
  <1>5. w \in Words /\ (imm' = 0 => w % 4096 = 0)
    BY <1>3, <1>4, WordIsWord
  <1>6. /\ imem' = [imem EXCEPT ![PC] = w]
        /\ line.arg # "name" => jumplabels' = jumplabels
        /\ line.arg = "name" => jumplabels' = [jumplabels EXCEPT ![PC] = Cut[line.name]]
        /\ status' = "reading" /\ dmem' = dmem /\ PC' = PC + 1
    BY <1>2 DEF Code
  <1> HIDE DEF w
  <1>7. /\ imem \in [0 .. ImemSize - 1 -> Words]
        /\ jumplabels \in [0 .. ImemSize - 1 -> Names \cup {NoName}]
        /\ \A k \in 0 .. ImemSize - 1 :
            /\ k >= PC => jumplabels[k] = NoName
            /\ jumplabels[k] # NoName => imem[k] % 4096 = 0
    BY <1>2 DEF IInv, TypeOK
  <1>8. imem' \in [0 .. ImemSize - 1 -> Words]
    BY <1>2, <1>5, <1>6, <1>7
  <1>9. line.arg = "name" => Cut[line.name] \in Names \cup {NoName}
    BY <1>3, NamesAssumption
  <1>10. jumplabels' \in [0 .. ImemSize - 1 -> Names \cup {NoName}]
    BY <1>6, <1>7, <1>9
  <1>11. PC' \in 0 .. ImemSize
    BY <1>2, <1>6, SizesAssumption
  <1>12. imm' \in Int
    BY <1>4 DEF Imm
  <1>13. TypeOK'
    BY <1>1, <1>2, <1>6, <1>8, <1>10, <1>11, <1>12 DEF TypeOK
  <1>14. ASSUME NEW k \in 0 .. ImemSize - 1
         PROVE  /\ k >= PC' => jumplabels'[k] = NoName
                /\ jumplabels'[k] # NoName => imem'[k] % 4096 = 0
    <2>1. CASE k = PC
      <3>1. PC >= PC /\ ~(PC >= PC')
        BY <1>2, <1>6
      <3>2. imem'[PC] = w
        BY <1>2, <1>6, <1>7
      <3>3. jumplabels[PC] = NoName
        BY <1>2, <1>7, <3>1
      <3>4. line.arg # "name" => jumplabels'[PC] = NoName
        BY <1>6, <3>3
      <3>5. QED BY <1>3, <1>4, <1>5, <2>1, <3>1, <3>2, <3>4
    <2>2. CASE k # PC
      <3>1. imem'[k] = imem[k] /\ jumplabels'[k] = jumplabels[k]
        <4>1. imem'[k] = imem[k]
          BY <1>2, <1>6, <1>7, <2>2
        <4>2. CASE line.arg = "name"
          BY <1>2, <1>6, <1>7, <2>2, <4>1, <4>2
        <4>3. CASE line.arg # "name"
          BY <1>6, <4>1, <4>3
        <4>4. QED BY <4>2, <4>3
      <3>2. k >= PC' => k >= PC
        BY <1>2, <1>6
      <3>3. QED BY <1>7, <3>1, <3>2
    <2>3. QED BY <2>1, <2>2
  <1>15. QED BY <1>6, <1>11, <1>13, <1>14 DEF IInv

LEMMA EndOfFileIInv == IInv /\ EndOfFile => IInv'
  <1> SUFFICES ASSUME IInv, EndOfFile PROVE IInv'
    OBVIOUS
  <1>1. TypeOK'
    BY SizesAssumption DEF EndOfFile, IInv, TypeOK
  <1>2. QED BY <1>1 DEF EndOfFile, IInv

LEMMA FixLabelIInv == IInv /\ FixLabel => IInv'
  <1> SUFFICES ASSUME IInv, FixLabel PROVE IInv'
    OBVIOUS
  <1>1. /\ TypeOK /\ status = "fixing" /\ status' \in {"fixing", "exit"}
        /\ PC \in 0 .. ImemSize /\ PC < ImemSize
        /\ imem \in [0 .. ImemSize - 1 -> Words]
        /\ UNCHANGED <<file, at, labels, jumplabels, dmem, imm, instruction_array>>
    BY DEF FixLabel, IInv, TypeOK
  <1>2. PC \in Nat /\ PC \in 0 .. ImemSize - 1
    BY <1>1, SizesAssumption
  <1>3. \A k \in 0 .. ImemSize - 1 :
            jumplabels[k] # NoName /\ k >= PC => imem[k] % 4096 = 0
    BY DEF IInv
  <1>4. \/ imem' = imem /\ PC' \in {PC, PC + 1}
        \/ /\ jumplabels[PC] # NoName /\ PC' = PC + 1
           /\ \E i \in 0 .. ImemSize - 1 : imem' = [imem EXCEPT ![PC] = imem[PC] + i]
    BY DEF FixLabel, NextPC
  <1>5. PC' \in 0 .. ImemSize /\ (\A k \in 0 .. ImemSize - 1 : k >= PC' => k >= PC)
    BY <1>2, <1>4, SizesAssumption
  <1>6. imem' \in [0 .. ImemSize - 1 -> Words]
    <2>1. ASSUME NEW i \in 0 .. ImemSize - 1, jumplabels[PC] # NoName
          PROVE  imem[PC] + i \in Words
      <3>1. imem[PC] \in Words /\ imem[PC] % 4096 = 0
        BY <1>1, <1>2, <1>3, <2>1
      <3>2. QED BY <3>1, FixedIsWord
    <2>2. QED BY <1>1, <1>4, <2>1
  <1>7. TypeOK'
    BY <1>1, <1>5, <1>6 DEF TypeOK
  <1>8. ASSUME NEW k \in 0 .. ImemSize - 1, jumplabels[k] # NoName, k >= PC'
        PROVE  imem'[k] % 4096 = 0
    <2>1. imem'[k] = imem[k]
      <3>1. CASE imem' = imem
        BY <3>1
      <3>2. CASE PC' = PC + 1
        <4>1. k # PC
          BY <1>2, <1>8, <3>2
        <4>2. QED BY <1>1, <1>2, <1>4, <4>1
      <3>3. QED BY <1>4, <3>1, <3>2
    <2>2. QED BY <1>3, <1>5, <1>8, <2>1
  <1>9. QED BY <1>1, <1>7, <1>8 DEF IInv

LEMMA LoadIInv == IInv /\ Load => IInv'
  <1> SUFFICES ASSUME IInv, Load PROVE IInv'
    OBVIOUS
  <1>1. TypeOK'
    BY DEF Load, IInv, TypeOK
  <1>2. QED BY <1>1 DEF Load, IInv

\* The addresses of labels stay clear of the registers of the jumps they are put into, so
\* that all words are those of instructions, for every text of any length, any
\* names and sizes, up to the first store behind labels or imem.
THEOREM Inductive == Spec => []IInv
  <1>1. Init => IInv
    BY InitIInv
  <1>2. IInv /\ [Next]_vars => IInv'
    <2>1. IInv /\ UNCHANGED vars => IInv'
      BY DEF vars, IInv, TypeOK
    <2>2. QED
      BY <2>1, OverrunIInv, OtherLineIInv, CodeIInv, EndOfFileIInv, FixLabelIInv, LoadIInv DEF Next
  <1>3. QED BY <1>1, <1>2, PTL DEF Spec

-----------------------------------------------------------------------------
(***************************************************************************)
(* The places of the lines: Position counts the instructions before a line.*)
(***************************************************************************)

\* The instructions before line j.
LEMMA CodeIsFinite ==
  ASSUME NEW j \in Nat
  PROVE  /\ IsFiniteSet({i \in 1 .. j - 1 : file[i].kind = "code"})
         /\ Position(j) \in Nat
         /\ j >= 1 => Position(j) <= j - 1
  <1> DEFINE C == {i \in 1 .. j - 1 : file[i].kind = "code"}
  <1>1. IsFiniteSet(1 .. j - 1) /\ (j >= 1 => Cardinality(1 .. j - 1) = j - 1)
    BY FS_Interval
  <1>2. C \in SUBSET (1 .. j - 1)
    OBVIOUS
  <1>3. IsFiniteSet(C) /\ Cardinality(C) <= Cardinality(1 .. j - 1)
    BY <1>1, <1>2, FS_Subset
  <1>4. Cardinality(C) \in Nat
    BY <1>3, FS_CardinalityType
  <1> HIDE DEF C
  <1>5. Position(j) = Cardinality(C)
    BY DEF Position, C
  <1>6. QED BY <1>1, <1>3, <1>4, <1>5 DEF C

\* The first line has place 0, and a line that is no instruction takes none.
LEMMA NextPosition ==
  /\ Position(1) = 0
  /\ \A j \in Nat \ {0} : Position(j + 1) = IF IsCode(j) THEN Position(j) + 1 ELSE Position(j)
  <1>1. Position(1) = 0
    <2>1. {i \in 1 .. 1 - 1 : file[i].kind = "code"} = {}
      OBVIOUS
    <2>2. QED BY <2>1, FS_EmptySet DEF Position
  <1>2. ASSUME NEW j \in Nat \ {0}
        PROVE  Position(j + 1) = IF IsCode(j) THEN Position(j) + 1 ELSE Position(j)
    <2> DEFINE C == {i \in 1 .. j - 1 : file[i].kind = "code"}
               D == {i \in 1 .. (j + 1) - 1 : file[i].kind = "code"}
    <2>1. D = IF IsCode(j) THEN C \cup {j} ELSE C
      BY DEF IsCode
    <2>2. IsFiniteSet(C) /\ j \notin C
      BY CodeIsFinite
    <2>3. Position(j + 1) = Cardinality(D) /\ Position(j) = Cardinality(C)
      BY DEF Position
    <2> HIDE DEF C, D
    <2>4. Cardinality(C \cup {j}) = Cardinality(C) + 1
      BY <2>2, FS_AddElement
    <2>5. QED BY <2>1, <2>3, <2>4
  <1>3. QED BY <1>1, <1>2

\* Later lines have later places, and an instruction has its place alone.
LEMMA PositionGrows ==
  ASSUME NEW j \in Nat, NEW k \in Nat, 1 <= j, j < k
  PROVE  /\ Position(j) \in Nat /\ Position(k) \in Nat
         /\ Position(j) <= Position(k)
         /\ IsCode(j) => Position(j) < Position(k)
  <1> DEFINE C(n) == {i \in 1 .. n - 1 : file[i].kind = "code"}
  <1>1. IsFiniteSet(C(j + 1)) /\ IsFiniteSet(C(k)) /\ C(j + 1) \in SUBSET C(k)
    <2>1. j + 1 \in Nat
      OBVIOUS
    <2>2. C(j + 1) \in SUBSET C(k)
      OBVIOUS
    <2>3. QED BY <2>1, <2>2, CodeIsFinite
  <1>2. Cardinality(C(j + 1)) <= Cardinality(C(k))
    BY <1>1, FS_Subset
  <1>3. Position(j + 1) = Cardinality(C(j + 1)) /\ Position(k) = Cardinality(C(k))
    BY DEF Position
  <1> HIDE DEF C
  <1>4. Position(j + 1) = IF IsCode(j) THEN Position(j) + 1 ELSE Position(j)
    BY NextPosition
  <1>5. Position(j) \in Nat /\ Position(k) \in Nat
    BY CodeIsFinite
  <1>6. QED BY <1>2, <1>3, <1>4, <1>5

\* Every line has a place in the core, and the instructions and labels that have been
\* read have one in imem.
LEMMA PlaceInMemory ==
  ASSUME TypeOK, NEW j \in 1 .. Len(file)
  PROVE  /\ Position(j) \in 0 .. Len(file) - 1
         /\ Accepted /\ j \in 1 .. at /\ (IsCode(j) \/ file[j].label # NoName) =>
                Position(j) \in 0 .. ImemSize - 1
  <1>1. Len(file) \in Nat
    BY FilesAssumption DEF TypeOK
  <1>2. j \in Nat /\ 1 <= j /\ j <= Len(file)
    BY <1>1
  <1>3. Position(j) \in Nat /\ Position(j) <= j - 1
    BY <1>2, CodeIsFinite
  <1>4. Accepted /\ j \in 1 .. at /\ (IsCode(j) \/ file[j].label # NoName) =>
                Position(j) < ImemSize
    BY <1>3, SizesAssumption DEF Accepted, TooFar, IsCode
  <1>5. QED BY <1>1, <1>2, <1>3, <1>4, SizesAssumption

\* The text stays what it is, and with it the places.
LEMMA PlacesKept ==
  ASSUME UNCHANGED file
  PROVE  /\ \A j : Position(j)' = Position(j)
         /\ \A j : IsCode(j)' = IsCode(j)
         /\ \A j : JumpTo(j)' = JumpTo(j)
         /\ \A j : Faulty(j)' = Faulty(j) /\ JumpIsCut(j)' = JumpIsCut(j)
         /\ \A j : TooFar(j)' = TooFar(j)
  <1>1. \A j : Position(j)' = Position(j)
    BY DEF Position
  <1>2. \A j : Survives(j)' = Survives(j)
    BY <1>1 DEF Survives
  <1>3. \A j : JumpIsCut(j)' = JumpIsCut(j)
    BY DEF JumpIsCut
  <1>4. \A j : Faulty(j)' = Faulty(j)
    BY <1>2, <1>3 DEF Faulty
  <1>5. QED BY <1>1, <1>3, <1>4 DEF IsCode, JumpTo, TooFar

\* Before the first line.
LEMMA ProgramInit == Init => ProgramInv
  <1> SUFFICES ASSUME Init PROVE ProgramInv
    OBVIOUS
  <1>1. at = 0 /\ status = "reading" /\ PC = 0
    BY DEF Init
  <1>2. 1 .. at = {}
    BY <1>1
  <1>3. Position(at + 1) = 0
    BY <1>1, NextPosition
  <1>4. \A k \in 0 .. ImemSize - 1 : labels[k] = NoName /\ jumplabels[k] = NoName
    BY DEF Init
  <1>5. Places /\ LabelsEntered /\ JumpsNoted /\ Assembled /\ Accepted /\ Loaded
    BY <1>1, <1>2, <1>3, <1>4
       DEF Places, LabelsEntered, JumpsNoted, Assembled, Accepted, Loaded
  <1>6. QED BY <1>1, <1>5 DEF ProgramInv

\* The label of a line is entered at its place, where it takes the place of others.
LEMMA LabelsStep ==
  ASSUME TypeOK, Places, LabelsEntered, Accepted, NEW kinds, ReadLine(kinds)
  PROVE  LabelsEntered'
  <1>1. /\ status = "reading" /\ at < Len(file) /\ file' = file /\ at' = at + 1
        /\ labels' = IF line.label = NoName THEN labels
                     ELSE [labels EXCEPT ![PC] = line.label]
        /\ line = file[at + 1]
    BY DEF ReadLine, line
  <1>2. at \in Nat /\ at + 1 \in 1 .. Len(file) /\ 1 .. at + 1 = (1 .. at) \cup {at + 1}
    BY <1>1, LinesAreSourceLines
  <1>3. PC = Position(at + 1) /\ (line.label # NoName => PC \in 0 .. ImemSize - 1)
    <2>1. PC \in 0 .. ImemSize
      BY DEF TypeOK
    <2>2. QED BY <1>1, <2>1, SizesAssumption DEF Places, ReadLine, Outside
  <1>4. labels \in [0 .. ImemSize - 1 -> Names \cup {NoName}]
    BY DEF TypeOK
  <1>5. \A j : Position(j)' = Position(j)
    BY <1>1, PlacesKept
  \* Those before the line are the last ones still, unless it is at their place.
  <1>6. ASSUME NEW d \in 1 .. at
        PROVE  LastAt(d)' <=> LastAt(d) /\ (Position(d) = PC => line.label = NoName)
    <2>1. d + 1 .. at + 1 = (d + 1 .. at) \cup {at + 1}
      BY <1>2
    <2>2. QED BY <1>1, <1>3, <1>5, <2>1 DEF LastAt
  <1>7. ASSUME NEW d, d = at + 1
        PROVE  LastAt(d)' <=> line.label # NoName
    <2>1. d + 1 .. at + 1 = {}
      BY <1>2, <1>7
    <2>2. QED BY <1>1, <1>7, <2>1 DEF LastAt
  <1>8. ASSUME NEW d \in 1 .. at', LastAt(d)'
        PROVE  labels'[Position(d)'] = file'[d].label
    <2>1. CASE d = at + 1
      <3>1. Position(d)' = PC
        BY <1>3, <1>5, <2>1
      <3>2. QED BY <1>1, <1>3, <1>4, <1>7, <1>8, <2>1, <3>1
    <2>2. CASE d \in 1 .. at
      <3>1. LastAt(d) /\ (Position(d) = PC => line.label = NoName)
        BY <1>6, <1>8, <2>2
      <3>2. labels[Position(d)] = file[d].label
        BY <2>2, <3>1 DEF LabelsEntered
      <3>3. labels'[Position(d)] = labels[Position(d)]
        <4>1. Position(d) \in 0 .. ImemSize - 1
          BY <1>2, <2>2, <3>1, PlaceInMemory DEF LastAt
        <4>2. QED BY <1>1, <1>3, <1>4, <3>1, <4>1
      <3>4. QED BY <1>1, <1>5, <3>2, <3>3
    <2>3. QED BY <1>1, <1>2, <1>8, <2>1, <2>2
  <1>9. ASSUME NEW k \in 0 .. ImemSize - 1, labels'[k] # NoName
        PROVE  \E d \in 1 .. at' : LastAt(d)' /\ Position(d)' = k /\ file'[d].label = labels'[k]
    <2>1. CASE k = PC /\ line.label # NoName
      <3>1. labels'[k] = line.label
        BY <1>1, <1>3, <1>4, <2>1
      <3>2. PICK d : d = at + 1
        OBVIOUS
      <3>3. Position(d)' = k /\ LastAt(d)' /\ d \in 1 .. at'
        BY <1>1, <1>2, <1>3, <1>5, <1>7, <2>1, <3>2
      <3>4. QED BY <1>1, <3>1, <3>2, <3>3
    <2>2. CASE k # PC \/ line.label = NoName
      <3>1. labels'[k] = labels[k]
        BY <1>1, <1>4, <2>2
      <3>2. PICK d \in 1 .. at : LastAt(d) /\ Position(d) = k /\ file[d].label = labels[k]
        BY <1>9, <3>1 DEF LabelsEntered
      <3>3. LastAt(d)' /\ d \in 1 .. at'
        BY <1>1, <1>2, <1>6, <2>2, <3>2
      <3>4. QED BY <1>1, <1>5, <3>1, <3>2, <3>3
    <2>3. QED BY <2>1, <2>2
  <1>10. QED BY <1>8, <1>9 DEF LabelsEntered

\* A line that is read has its entries.
LEMMA AcceptedLine ==
  ASSUME TypeOK, Places, NEW kinds, ReadLine(kinds)
  PROVE  ~TooFar(at + 1)
  <1>1. PC \in 0 .. ImemSize /\ PC = Position(at + 1) /\ ~Outside
    BY DEF TypeOK, Places, ReadLine
  <1>2. QED BY <1>1, SizesAssumption DEF TooFar, Outside, line

\* The first line that has not is the end.
LEMMA OverrunProgram ==
  ASSUME TypeOK, ProgramInv, Overrun
  PROVE  ProgramInv'
  <1>1. /\ status = "reading" /\ at < Len(file) /\ Outside /\ status' = "overrun"
        /\ file' = file
    BY DEF Overrun
  <1>2. PC = Position(at + 1) /\ PC = ImemSize
    BY <1>1 DEF ProgramInv, Places, Outside
  <1>3. TooFar(at + 1)
    BY <1>1, <1>2, SizesAssumption DEF TooFar, Outside, line
  <1>4. at + 1 \in DOMAIN file
    <2>1. file \in Seq(SourceLines)
      BY FilesAssumption DEF TypeOK
    <2>2. QED BY <1>1, <2>1, LinesAreSourceLines
  <1>5. (\E j \in DOMAIN file : TooFar(j))'
    BY <1>1, <1>3, <1>4, PlacesKept
  <1>6. QED BY <1>1, <1>5 DEF ProgramInv

\* A line that is no instruction takes no place.
LEMMA OtherLineProgram ==
  ASSUME TypeOK, ProgramInv, Pass \/ Unsupported \/ Data
  PROVE  ProgramInv'
  <1>1. PICK kinds : ReadLine(kinds) /\ kinds \in {{"nothing", "short"}, {"unknown"}, {"word"}}
    BY DEF Pass, Unsupported, Data
  <1>2. /\ status = "reading" /\ at < Len(file) /\ file' = file /\ at' = at + 1
        /\ line = file[at + 1] /\ line.kind \in kinds
    BY <1>1 DEF ReadLine, line
  <1>3. Places /\ LabelsEntered /\ JumpsNoted /\ Assembled /\ Accepted
    BY <1>2 DEF ProgramInv
  <1>4. /\ at \in Nat /\ at + 1 \in 1 .. Len(file)
        /\ \A j \in 1 .. at' : j \in 1 .. at \/ j = at + 1
    BY <1>2, LinesAreSourceLines
  <1>5. PC' = PC /\ jumplabels' = jumplabels /\ imem' = imem /\ ~IsCode(at + 1)
    BY <1>1, <1>2 DEF Pass, Unsupported, Data, IsCode
  <1>6. /\ \A j : Position(j)' = Position(j) /\ IsCode(j)' = IsCode(j) /\ JumpTo(j)' = JumpTo(j)
    BY <1>2, PlacesKept
  <1>7. CASE status' = "exit"
    <2>1. Faulty(at + 1)
      <3>1. \/ line.kind = "unknown"
            \/ line.kind = "word" /\ ~InDmem(line.addr)
        BY <1>2, <1>7 DEF Pass, Unsupported, Data, ReadLine
      <3>2. line.addr \in 0 .. DmemSize - 1 => InDmem(line.addr)
        BY SizesAssumption DEF InDmem
      <3>3. QED BY <1>2, <3>1, <3>2 DEF Faulty
    <2>2. \E j \in DOMAIN file : Faulty(j)
      <3>1. file \in Seq(SourceLines)
        BY FilesAssumption DEF TypeOK
      <3>2. QED BY <1>4, <2>1, <3>1
    <2>3. (\E j \in DOMAIN file : Faulty(j))'
      BY <1>2, <2>2, PlacesKept
    <2>4. QED BY <1>7, <2>3, <1>2, PlacesKept DEF ProgramInv
  <1>8. CASE status' = "reading"
    <2>1. LabelsEntered'
      BY <1>1, <1>3, LabelsStep
    <2>2. Places'
      <3>1. PC = Position(at + 1)
        BY <1>2, <1>3 DEF Places
      <3>2. PICK n \in Nat \ {0} : n = at + 1
        BY <1>4
      <3>3. Position(n + 1) = Position(n)
        BY <1>5, <3>2, NextPosition
      <3>4. Position(n + 1)' = Position(n + 1) /\ at' + 1 = n + 1
        BY <1>2, <1>6, <3>2
      <3>5. PC' = Position(at + 1)'
        BY <1>5, <3>1, <3>2, <3>3, <3>4
      <3>6. QED BY <1>8, <3>5 DEF Places
    <2>3. JumpsNoted'
      BY <1>2, <1>3, <1>4, <1>5, <1>6 DEF JumpsNoted
    <2>4. Assembled'
      <3>1. \A j, low : HasWord(j, low)' <=> HasWord(j, low)
        BY <1>2, <1>5, <1>6, <1>8 DEF HasWord, Fixed
      <3>2. QED BY <1>3, <1>4, <1>5, <1>6, <3>1 DEF Assembled
    <2>5. Accepted'
      <3>1. line.kind # "unknown" /\ (line.kind = "word" => InDmem(line.addr))
        BY <1>2, <1>8 DEF Pass, Unsupported, Data, ReadLine
      <3>2. ~TooFar(at + 1)
        BY <1>1, <1>2, <1>3, <1>5, AcceptedLine
      <3>3. QED BY <1>2, <1>3, <1>4, <3>1, <3>2, PlacesKept DEF Accepted, InDmem
    <2>6. QED BY <1>8, <2>1, <2>2, <2>3, <2>4, <2>5 DEF ProgramInv, Loaded
  <1>9. QED BY <1>1, <1>2, <1>7, <1>8 DEF Pass, Unsupported, Data

\* An instruction is put at its place, behind all others.
LEMMA CodeProgram ==
  ASSUME TypeOK, ProgramInv, Code
  PROVE  ProgramInv'
  <1>1. ReadLine({"code"})
    BY DEF Code
  <1>2. /\ status = "reading" /\ status' = "reading" /\ at < Len(file) /\ file' = file
        /\ at' = at + 1 /\ line = file[at + 1] /\ line.kind = "code" /\ PC' = PC + 1
    BY <1>1 DEF Code, ReadLine, line
  <1>3. Places /\ LabelsEntered /\ JumpsNoted /\ Assembled /\ Accepted
    BY <1>2 DEF ProgramInv
  <1>4. /\ at \in Nat /\ at + 1 \in 1 .. Len(file)
        /\ \A j \in 1 .. at' : j \in 1 .. at \/ j = at + 1
        /\ line.num \in Int /\ line.arg \in {"number", "name", "neither"}
    BY <1>2, LinesAreSourceLines
  <1>5. PC = Position(at + 1) /\ PC \in 0 .. ImemSize - 1
    <2>1. PC \in 0 .. ImemSize
      BY DEF TypeOK
    <2>2. QED BY <1>1, <1>2, <1>3, <2>1, SizesAssumption DEF Places, ReadLine, Outside
  <1>6. /\ \A j : Position(j)' = Position(j) /\ IsCode(j)' = IsCode(j) /\ JumpTo(j)' = JumpTo(j)
        /\ IsCode(at + 1)
    BY <1>2, PlacesKept DEF IsCode
  <1>7. /\ imem \in [0 .. ImemSize - 1 -> Words]
        /\ jumplabels \in [0 .. ImemSize - 1 -> Names \cup {NoName}]
        /\ imm \in Int
    BY DEF TypeOK
  <1>8. ASSUME NEW j \in 1 .. at, IsCode(j)
        PROVE  Position(j) # PC /\ Position(j) \in 0 .. ImemSize - 1
    <2>1. Position(j) < Position(at + 1)
      BY <1>4, <1>8, PositionGrows
    <2>2. j \in 1 .. Len(file)
      BY <1>4
    <2>3. QED BY <1>3, <1>5, <1>8, <2>1, <2>2, PlaceInMemory
  \* Nothing has been noted at the new place.
  <1>9. jumplabels[PC] = NoName
    BY <1>3, <1>5, <1>8 DEF JumpsNoted
  <1>10. jumplabels' = [jumplabels EXCEPT ![PC] = JumpTo(at + 1)]
    <2>1. JumpTo(at + 1) = IF line.arg = "name" THEN Cut[line.name] ELSE NoName
      BY <1>2 DEF JumpTo
    <2>2. CASE line.arg = "name"
      BY <2>1, <2>2 DEF Code
    <2>3. CASE line.arg # "name"
      <3>1. jumplabels' = jumplabels /\ JumpTo(at + 1) = NoName
        BY <2>1, <2>3 DEF Code
      <3>2. QED BY <1>5, <1>7, <1>9, <3>1
    <2>4. QED BY <2>2, <2>3
  <1>11. LabelsEntered'
    BY <1>1, <1>3, LabelsStep
  <1>12. Places'
    <2>1. PICK n \in Nat \ {0} : n = at + 1
      BY <1>4
    <2>2. Position(n + 1) = Position(n) + 1
      BY <1>6, <2>1, NextPosition
    <2>3. Position(n + 1)' = Position(n + 1) /\ at' + 1 = n + 1
      BY <1>2, <1>6, <2>1
    <2>4. PC' = Position(at + 1)'
      BY <1>2, <1>5, <2>1, <2>2, <2>3
    <2>5. QED BY <1>2, <2>4 DEF Places
  <1>13. JumpsNoted'
    <2>1. ASSUME NEW j \in 1 .. at', IsCode(j)
          PROVE  jumplabels'[Position(j)] = JumpTo(j)
      <3>1. CASE j = at + 1
        BY <1>5, <1>7, <1>10, <3>1
      <3>2. CASE j \in 1 .. at
        <4>1. jumplabels[Position(j)] = JumpTo(j)
          BY <1>3, <2>1, <3>2 DEF JumpsNoted
        <4>2. QED BY <1>7, <1>8, <1>10, <2>1, <3>2, <4>1
      <3>3. QED BY <1>4, <3>1, <3>2
    <2>2. ASSUME NEW k \in 0 .. ImemSize - 1, jumplabels'[k] # NoName
          PROVE  \E j \in 1 .. at' : IsCode(j) /\ Position(j) = k
      <3>1. CASE k = PC
        <4>1. at + 1 \in 1 .. at' /\ IsCode(at + 1) /\ Position(at + 1) = k
          BY <1>2, <1>4, <1>5, <1>6, <3>1
        <4>2. QED BY <4>1
      <3>2. CASE k # PC
        <4>1. PICK j \in 1 .. at : IsCode(j) /\ Position(j) = k
          BY <1>3, <1>7, <1>10, <2>2, <3>2 DEF JumpsNoted
        <4>2. j \in 1 .. at'
          BY <1>2, <1>4
        <4>3. QED BY <4>1, <4>2
      <3>3. QED BY <3>1, <3>2
    <2>3. QED BY <1>6, <2>1, <2>2 DEF JumpsNoted
  <1>14. Assembled'
    <2> DEFINE w == Inst(line.op, line.rd, line.rs, line.rt, imm')
    <2>1. imem' = [imem EXCEPT ![PC] = w]
      BY DEF Code
    <2>2. /\ imm' \in Imm
          /\ line.arg = "number" => imm' = LowBits(line.num)
          /\ line.arg = "name" => imm' = 0
      <3>1. \A v \in Int : LowBits(v) \in Imm
        BY ImmediateIsWrapped
      <3>2. LowBits(0) = 0
        BY DEF LowBits
      <3>3. QED BY <1>4, <1>7, <3>1, <3>2 DEF Code
    <2>3. \A j : ~Fixed(j)'
      BY <1>2 DEF Fixed
    <2>4. ASSUME NEW j \in 1 .. at', IsCode(j)
          PROVE  \E low \in Imm : HasWord(j, low)'
      <3>1. CASE j = at + 1
        <4>1. imem'[Position(j)'] = w
          BY <1>5, <1>6, <1>7, <2>1, <3>1
        <4>2. PICK low \in Imm : low = imm'
          BY <2>2
        <4>3. HasWord(j, low)'
          BY <1>2, <2>2, <2>3, <3>1, <4>1, <4>2 DEF HasWord
        <4>4. QED BY <4>3
      <3>2. CASE j \in 1 .. at
        <4>1. PICK low \in Imm : HasWord(j, low)
          BY <1>3, <2>4, <3>2 DEF Assembled
        <4>2. imem'[Position(j)'] = imem[Position(j)]
          <5> HIDE DEF w
          <5>1. QED BY <1>6, <1>7, <1>8, <2>1, <2>4, <3>2
        <4>3. ~Fixed(j)
          BY <1>2 DEF Fixed
        <4>4. HasWord(j, low)'
          BY <1>2, <2>3, <4>1, <4>2, <4>3 DEF HasWord
        <4>5. QED BY <4>4
      <3>3. QED BY <1>4, <3>1, <3>2
    <2>5. QED BY <1>6, <2>4 DEF Assembled
  <1>15. Accepted'
    <2>1. ~TooFar(at + 1)
      BY <1>1, <1>2, <1>3, AcceptedLine
    <2>2. QED BY <1>2, <1>3, <1>4, <2>1, PlacesKept DEF Accepted, InDmem
  <1>16. QED BY <1>2, <1>11, <1>12, <1>13, <1>14, <1>15 DEF ProgramInv, Loaded

\* The loop over the jumps starts with no jump fixed.
LEMMA EndOfFileProgram ==
  ASSUME TypeOK, ProgramInv, EndOfFile
  PROVE  ProgramInv'
  <1>1. /\ status = "reading" /\ at = Len(file) /\ status' = "fixing" /\ PC' = 0
        /\ UNCHANGED <<file, at, labels, jumplabels, imem, dmem, imm, instruction_array>>
    BY DEF EndOfFile
  <1>2. Places /\ LabelsEntered /\ JumpsNoted /\ Assembled /\ Accepted
    BY <1>1 DEF ProgramInv
  <1>3. Places' /\ LabelsEntered' /\ JumpsNoted' /\ Accepted'
    <2>1. Places'
      BY <1>1 DEF Places
    <2>2. LabelsEntered'
      <3>1. \A d : Position(d)' = Position(d)
        BY <1>1, PlacesKept
      <3>2. \A d : LastAt(d)' = LastAt(d)
        BY <1>1, <3>1 DEF LastAt
      <3>3. QED BY <1>1, <1>2, <3>1, <3>2 DEF LabelsEntered
    <2>3. JumpsNoted'
      BY <1>1, <1>2, PlacesKept DEF JumpsNoted
    <2>4. Accepted'
      BY <1>1, <1>2, PlacesKept DEF Accepted, InDmem
    <2>5. QED BY <2>1, <2>2, <2>3, <2>4
  <1>4. Assembled'
    <2>1. \A j : Position(j)' = Position(j) /\ IsCode(j)' = IsCode(j)
      BY <1>1, PlacesKept
    <2>2. ASSUME NEW j \in 1 .. at
          PROVE  ~Fixed(j) /\ ~Fixed(j)'
      <3>1. at \in Nat
        BY FilesAssumption DEF TypeOK
      <3>2. j \in Nat
        BY <3>1
      <3>3. Position(j) \in Nat
        BY <3>2, CodeIsFinite
      <3>4. QED BY <1>1, <2>1, <3>3 DEF Fixed
    <2>3. \A j \in 1 .. at, low \in Imm : HasWord(j, low)' <=> HasWord(j, low)
      BY <1>1, <2>1, <2>2 DEF HasWord
    <2>4. QED BY <1>1, <1>2, <2>1, <2>3 DEF Assembled
  <1>5. QED BY <1>1, <1>3, <1>4 DEF ProgramInv, Loaded

\* An address that is added to a word without an immediate is its immediate.
LEMMA AddressFits ==
  ASSUME NEW op \in Opcodes, NEW rd \in Fields, NEW rs \in Fields, NEW rt \in Fields,
         NEW i \in Imm
  PROVE  Inst(op, rd, rs, rt, 0) + i = Inst(op, rd, rs, rt, i)
  BY SMT DEF Inst, Opcodes, Fields, Imm

\* The loop over the jumps puts the place of its label into each of them, or gives up.
LEMMA FixLabelProgram ==
  ASSUME TypeOK, ProgramInv, FixLabel
  PROVE  ProgramInv'
  <1>1. /\ status = "fixing" /\ PC < ImemSize
        /\ UNCHANGED <<file, at, labels, jumplabels, dmem, imm, instruction_array>>
    BY DEF FixLabel
  <1>2. Places /\ LabelsEntered /\ JumpsNoted /\ Assembled /\ Accepted /\ at = Len(file)
    BY <1>1 DEF ProgramInv, Places
  <1>3. /\ PC \in 0 .. ImemSize - 1 /\ at \in Nat
        /\ imem \in [0 .. ImemSize - 1 -> Words]
        /\ labels \in [0 .. ImemSize - 1 -> Names \cup {NoName}]
        /\ file \in Seq(SourceLines) /\ DOMAIN file = 1 .. at
    <2>1. file \in Seq(SourceLines) /\ Len(file) \in Nat
      BY FilesAssumption DEF TypeOK
    <2>2. QED BY <1>1, <1>2, <2>1, SizesAssumption DEF TypeOK
  <1>4. \A j : /\ Position(j)' = Position(j) /\ IsCode(j)' = IsCode(j)
              /\ JumpTo(j)' = JumpTo(j) /\ Faulty(j)' = Faulty(j)
              /\ JumpIsCut(j)' = JumpIsCut(j) /\ TooFar(j)' = TooFar(j)
    BY <1>1, PlacesKept
  <1>5. \A j \in 1 .. at : IsCode(j) \/ file[j].label # NoName =>
            Position(j) \in 0 .. ImemSize - 1
    BY <1>2, PlaceInMemory
  <1> DEFINE name == jumplabels[PC]
  <1>6. CASE status' = "exit"
    <2>1. name # NoName /\ \A i \in 0 .. ImemSize - 1 : labels[i] # name
      BY <1>1, <1>6 DEF FixLabel
    <2>2. PICK j \in 1 .. at : IsCode(j) /\ Position(j) = PC
      BY <1>2, <1>3, <2>1 DEF JumpsNoted
    <2>3. JumpTo(j) = name
      BY <1>2, <2>2 DEF JumpsNoted
    <2>4. file[j].kind = "code" /\ file[j].arg = "name" /\ Cut[file[j].name] = name
      BY <2>1, <2>2, <2>3 DEF JumpTo, IsCode
    <2>5. ASSUME NEW d \in 1 .. at, Survives(d), file[d].label = name
          PROVE  FALSE
      <3>1. LastAt(d)
        BY <1>2, <2>5 DEF Survives, LastAt
      <3>2. labels[Position(d)] = name
        BY <1>2, <2>5, <3>1 DEF LabelsEntered
      <3>3. QED BY <1>5, <2>1, <2>5, <3>2 DEF Survives
    <2>6. Faulty(j) \/ JumpIsCut(j)
      BY <1>3, <2>1, <2>4, <2>5 DEF Faulty, JumpIsCut
    <2>7. (\E k \in DOMAIN file : Faulty(k) \/ JumpIsCut(k))'
      BY <1>1, <1>3, <1>4, <2>6
    <2>8. QED BY <1>6, <2>7 DEF ProgramInv
  <1>7. CASE status' = "fixing"
    <2>1. Places' /\ LabelsEntered' /\ JumpsNoted' /\ Accepted'
      <3>1. Places'
        BY <1>1, <1>2, <1>7 DEF Places
      <3>2. LabelsEntered'
        <4>1. \A d : LastAt(d)' = LastAt(d)
          BY <1>1, <1>4 DEF LastAt
        <4>2. QED BY <1>1, <1>2, <1>4, <4>1 DEF LabelsEntered
      <3>3. JumpsNoted'
        BY <1>1, <1>2, <1>4 DEF JumpsNoted
      <3>4. Accepted'
        BY <1>1, <1>2, <1>4 DEF Accepted, InDmem
      <3>5. QED BY <3>1, <3>2, <3>3, <3>4
    <2>2. /\ PC' = PC + 1
          /\ \/ name = NoName /\ imem' = imem
             \/ /\ name # NoName
                /\ \E i \in 0 .. ImemSize - 1 :
                        FirstAt(name, i) /\ imem' = [imem EXCEPT ![PC] = imem[PC] + i]
      BY <1>1, <1>7 DEF FixLabel, NextPC
    <2>3. ASSUME NEW j \in 1 .. at, IsCode(j)
          PROVE  \E low \in Imm : HasWord(j, low)'
      <3>1. PICK low \in Imm : HasWord(j, low)
        BY <1>2, <2>3 DEF Assembled
      <3>2. jumplabels[Position(j)] = JumpTo(j) /\ Position(j) \in 0 .. ImemSize - 1
        BY <1>2, <1>5, <2>3 DEF JumpsNoted
      <3>3. CASE Position(j) = PC /\ name # NoName
        <4>1. JumpTo(j) = name /\ ~Fixed(j) /\ file[j].arg = "name"
          BY <1>3, <3>2, <3>3 DEF Fixed, JumpTo
        <4>2. low = 0
          BY <3>1, <4>1 DEF HasWord
        <4>3. PICK i \in 0 .. ImemSize - 1 :
                    FirstAt(name, i) /\ imem' = [imem EXCEPT ![PC] = imem[PC] + i]
          BY <2>2, <3>3
        <4>4. i \in Imm /\ Fixed(j)'
          <5>1. i \in Imm
            BY SizesAssumption DEF Imm
          <5>2. Fixed(j)'
            BY <1>3, <1>4, <1>7, <2>2, <3>3, <4>1 DEF Fixed
          <5>3. QED BY <5>1, <5>2
        <4>5. imem'[Position(j)'] = Inst(file[j].op, file[j].rd, file[j].rs, file[j].rt, i)
          <5>1. imem'[Position(j)'] = imem[PC] + i
            BY <1>3, <1>4, <3>3, <4>3
          <5>2. imem[PC] = Inst(file[j].op, file[j].rd, file[j].rs, file[j].rt, 0)
            BY <3>1, <3>3, <4>2 DEF HasWord
          <5>3. /\ file[j].op \in Opcodes /\ file[j].rd \in Fields /\ file[j].rs \in Fields
                /\ file[j].rt \in Fields
            BY <1>3, <2>3 DEF SourceLines, Labelled, DataLines, CodeLines, IsCode
          <5>4. QED BY <4>4, <5>1, <5>2, <5>3, AddressFits
        <4>6. FirstAt(JumpTo(j), i)'
          BY <1>1, <1>4, <4>1, <4>3 DEF FirstAt
        <4>7. HasWord(j, i)'
          BY <1>1, <4>1, <4>4, <4>5, <4>6 DEF HasWord
        <4>8. QED BY <4>4, <4>7
      <3>4. CASE ~(Position(j) = PC /\ name # NoName)
        <4>1. imem'[Position(j)] = imem[Position(j)]
          BY <1>3, <2>2, <3>2, <3>4
        <4>2. Fixed(j)' <=> Fixed(j)
          BY <1>1, <1>3, <1>4, <1>7, <2>2, <3>2, <3>4 DEF Fixed
        <4>3. \A i : FirstAt(JumpTo(j), i)' <=> FirstAt(JumpTo(j), i)
          BY <1>1, <1>4 DEF FirstAt
        <4>4. HasWord(j, low)'
          BY <1>1, <1>4, <3>1, <4>1, <4>2, <4>3 DEF HasWord
        <4>5. QED BY <4>4
      <3>5. QED BY <3>3, <3>4
    <2>4. Assembled'
      BY <1>1, <1>4, <2>3 DEF Assembled
    <2>5. QED BY <1>7, <2>1, <2>4 DEF ProgramInv, Loaded
  <1>8. QED BY <1>1, <1>6, <1>7 DEF FixLabel

\* The core gets the words as they are.
LEMMA LoadProgram ==
  ASSUME TypeOK, ProgramInv, Load
  PROVE  ProgramInv'
  <1>1. /\ status = "fixing" /\ status' = "loaded" /\ PC = ImemSize
        /\ UNCHANGED <<file, at, PC, labels, jumplabels, imem, dmem, imm>>
        /\ instruction_array' = [k \in 0 .. Len(file) - 1 |-> IF Printed(k) THEN imem[k] ELSE NOP]
    BY DEF Load
  <1>2. Places /\ LabelsEntered /\ JumpsNoted /\ Assembled /\ Accepted
    BY <1>1 DEF ProgramInv
  <1>3. \A j : /\ Position(j)' = Position(j) /\ IsCode(j)' = IsCode(j)
              /\ JumpTo(j)' = JumpTo(j)
    BY <1>1, PlacesKept
  <1>4. Places'
    BY <1>1, <1>2 DEF Places
  <1>5. LabelsEntered'
    <2>1. \A d : LastAt(d)' = LastAt(d)
      BY <1>1, <1>3 DEF LastAt
    <2>2. QED BY <1>1, <1>2, <1>3, <2>1 DEF LabelsEntered
  <1>6. JumpsNoted'
    BY <1>1, <1>2, <1>3 DEF JumpsNoted
  <1>7. Assembled'
    <2>1. \A j : Fixed(j)' <=> Fixed(j)
      BY <1>1, <1>3 DEF Fixed
    <2>2. \A j, i : FirstAt(JumpTo(j), i)' <=> FirstAt(JumpTo(j), i)
      BY <1>1, <1>3 DEF FirstAt
    <2>3. \A j, low : HasWord(j, low)' <=> HasWord(j, low)
      BY <1>1, <1>3, <2>1, <2>2 DEF HasWord
    <2>4. QED BY <1>1, <1>2, <1>3, <2>3 DEF Assembled
  <1>8. Accepted'
    BY <1>1, <1>2, PlacesKept DEF Accepted, InDmem
  <1>9. Loaded'
    <2>1. \A k : Printed(k)' <=> Printed(k)
      BY <1>1 DEF Printed
    <2>2. QED BY <1>1, <2>1 DEF Loaded
  <1>10. QED BY <1>1, <1>4, <1>5, <1>6, <1>7, <1>8, <1>9 DEF ProgramInv

\* Where the lines are found in labels, jumplabels and imem, for every text, any names
\* and sizes (interpret_file).
THEOREM ProgramInductive == Spec => []ProgramInv
  <1>1. Init => ProgramInv
    BY ProgramInit
  <1>2. IInv /\ ProgramInv /\ [Next]_vars => ProgramInv'
    <2> SUFFICES ASSUME TypeOK, ProgramInv, [Next]_vars PROVE ProgramInv'
      BY DEF IInv
    <2>1. CASE UNCHANGED vars
      <3>1. /\ \A j : /\ Position(j)' = Position(j) /\ IsCode(j)' = IsCode(j)
                      /\ JumpTo(j)' = JumpTo(j) /\ Faulty(j)' = Faulty(j)
                      /\ JumpIsCut(j)' = JumpIsCut(j) /\ TooFar(j)' = TooFar(j)
        BY <2>1, PlacesKept DEF vars
      <3>2. /\ \A d : LastAt(d)' = LastAt(d) /\ Fixed(d)' = Fixed(d)
            /\ \A k : Printed(k)' = Printed(k)
            /\ \A name, i : FirstAt(name, i)' = FirstAt(name, i)
        BY <2>1, <3>1 DEF vars, LastAt, Fixed, Printed, FirstAt
      <3>3. \A j, low : HasWord(j, low)' = HasWord(j, low)
        BY <2>1, <3>1, <3>2 DEF vars, HasWord
      <3>4. CASE status \in {"exit", "overrun"}
        BY <2>1, <3>1, <3>4 DEF vars, ProgramInv
      <3>5. CASE status \notin {"exit", "overrun"}
        <4>1. Places /\ LabelsEntered /\ JumpsNoted /\ Assembled /\ Accepted /\ Loaded
          BY <3>5 DEF ProgramInv
        <4>2. Places'
          BY <2>1, <4>1 DEF vars, Places, Position
        <4>3. LabelsEntered'
          BY <2>1, <3>1, <3>2, <4>1 DEF vars, LabelsEntered
        <4>4. JumpsNoted'
          BY <2>1, <3>1, <4>1 DEF vars, JumpsNoted
        <4>5. Assembled'
          BY <2>1, <3>1, <3>3, <4>1 DEF vars, Assembled
        <4>6. Accepted' /\ Loaded'
          BY <2>1, <3>1, <3>2, <4>1 DEF vars, Accepted, InDmem, Loaded
        <4>7. QED BY <2>1, <3>5, <4>2, <4>3, <4>4, <4>5, <4>6 DEF vars, ProgramInv
      <3>6. QED BY <3>4, <3>5
    <2>2. QED
      BY <2>1, OverrunProgram, OtherLineProgram, CodeProgram, EndOfFileProgram, FixLabelProgram, LoadProgram
         DEF Next
  <1>3. QED BY <1>1, <1>2, Inductive, PTL DEF Spec

\* A text without unknown opcodes, addresses outside dmem, names without a label, lines too
\* many for the arrays and jumps to names with an n comes to the core, and one with
\* any of the first four does not, for every text, any names and sizes.
THEOREM OutcomeSafe == Spec => []OutcomeFitsText
  <1>1. IInv /\ ProgramInv => OutcomeFitsText
    <2> SUFFICES ASSUME TypeOK, ProgramInv PROVE OutcomeFitsText
      BY DEF IInv
    <2>1. /\ status = "exit" => \E j \in DOMAIN file : Faulty(j) \/ JumpIsCut(j)
          /\ status = "overrun" => \E j \in DOMAIN file : TooFar(j)
      BY DEF ProgramInv
    <2>2. ASSUME status = "loaded", NEW j \in DOMAIN file, Faulty(j)
          PROVE  FALSE
      <3>1. /\ LabelsEntered /\ JumpsNoted /\ Assembled /\ Accepted /\ PC = ImemSize
            /\ at = Len(file)
        BY <2>2 DEF ProgramInv, Places, Loaded
      <3>2. file \in Seq(SourceLines) /\ j \in 1 .. at
        BY <2>2, <3>1, FilesAssumption DEF TypeOK
      <3>3. IsCode(j) /\ file[j].arg = "name" /\ JumpTo(j) # NoName
        <4>1. file[j].kind # "unknown"
          BY <3>1, <3>2 DEF Accepted
        <4>2. ~(file[j].kind = "word" /\ file[j].addr \notin 0 .. DmemSize - 1)
          <5>1. file[j].kind = "word" => InDmem(file[j].addr) /\ file[j].addr \in Int
            BY <3>1, <3>2 DEF Accepted, SourceLines, Labelled, DataLines, CodeLines
          <5>2. QED BY <5>1, SizesAssumption DEF InDmem
        <4>3. /\ IsCode(j) /\ file[j].arg = "name" /\ Cut[file[j].name] = file[j].name
          BY <2>2, <4>1, <4>2 DEF Faulty, IsCode, JumpIsCut
        <4>4. file[j].name \in Names
          BY <3>2, <4>3 DEF SourceLines, Labelled, DataLines, CodeLines, IsCode
        <4>5. QED BY <4>3, <4>4, NamesAssumption DEF JumpTo
      <3>4. Fixed(j)
        <4>1. Position(j) \in 0 .. ImemSize - 1
          BY <3>1, <3>2, <3>3, PlaceInMemory
        <4>2. Position(j) < PC
          BY <3>1, <4>1, SizesAssumption
        <4>3. QED BY <2>2, <3>3, <4>2 DEF Fixed
      <3>5. PICK low \in 0 .. ImemSize - 1 : FirstAt(JumpTo(j), low)
        BY <3>1, <3>2, <3>3, <3>4 DEF Assembled, HasWord
      <3>6. PICK d \in 1 .. at : LastAt(d) /\ file[d].label = JumpTo(j)
        BY <3>1, <3>3, <3>5 DEF FirstAt, LabelsEntered
      <3>7. Survives(d) /\ d \in DOMAIN file
        BY <3>1, <3>2, <3>6 DEF Survives, LastAt
      <3>8. JumpTo(j) = Cut[file[j].name]
        BY <3>3 DEF JumpTo
      <3>9. QED BY <2>2, <3>3, <3>6, <3>7, <3>8 DEF Faulty, IsCode, JumpIsCut
    <2>3. ASSUME status = "loaded", NEW j \in DOMAIN file
          PROVE  ~TooFar(j)
      <3>1. Accepted /\ at = Len(file)
        BY <2>3 DEF ProgramInv, Places
      <3>2. j \in 1 .. at
        BY <2>3, <3>1, FilesAssumption DEF TypeOK
      <3>3. QED BY <3>1, <3>2 DEF Accepted
    <2>4. QED BY <2>1, <2>2, <2>3 DEF OutcomeFitsText
  <1>2. QED BY <1>1, Inductive, ProgramInductive, PTL

\* There is one number of twelve bits with a sign that v stands for.
LEMMA WrappedIs ==
  ASSUME NEW v \in Int
  PROVE  SignExtended(LowBits(v)) = Wrapped(v)
  <1> DEFINE s == SignExtended(LowBits(v))
             S == -2048 .. 2047
             P(n) == (n - v) % 4096 = 0
  <1>1. s \in S /\ P(s)
    <2>1. s \in Int /\ -2048 <= s /\ s <= 2047 /\ (s - v) % 4096 = 0
      BY ImmediateIsWrapped
    <2> HIDE DEF s
    <2>2. QED BY SMT, <2>1
  <1> HIDE DEF s
  <1>2. ASSUME NEW n \in S, P(n)
        PROVE  n = s
    <2>1. \A k \in Int : k = 4096 * (k \div 4096) + (k % 4096) /\ k \div 4096 \in Int
      BY SMT
    <2>2. PICK q \in Int : n - v = 4096 * q
      <3>1. n - v = 4096 * ((n - v) \div 4096) /\ (n - v) \div 4096 \in Int
        BY SMT, <1>2, <2>1
      <3>2. QED BY <3>1
    <2>3. PICK r \in Int : s - v = 4096 * r
      <3>1. s - v = 4096 * ((s - v) \div 4096) /\ (s - v) \div 4096 \in Int
        BY SMT, <1>1, <2>1
      <3>2. QED BY <3>1
    <2>4. /\ n - s = 4096 * (q - r) /\ n - s <= 4095 /\ -4095 <= n - s
          /\ n \in Int /\ s \in Int
      BY SMT, <1>1, <1>2, <2>2, <2>3
    <2>5. q - r = 0
      BY SMT, <2>4
    <2>6. QED BY SMT, <2>4, <2>5
  <1>3. Wrapped(v) = CHOOSE n \in S : P(n)
    BY Zenon DEF Wrapped
  <1> HIDE DEF S, P
  <1>4. s = Wrapped(v)
    BY Zenon, <1>1, <1>2, <1>3
  <1>5. QED BY Zenon, <1>4 DEF s

\* The core decodes what the lines say, one instruction for one instruction, with
\* the places of their labels in the jumps.
THEOREM ProgramArrives == Spec => []CoreGetsProgram
  <1>1. IInv /\ ProgramInv => CoreGetsProgram
    <2> SUFFICES ASSUME TypeOK, ProgramInv, status = "loaded", NEW j \in DOMAIN file,
                        file[j].kind = "code"
                 PROVE  LET i == file[j]
                            w == instruction_array[Position(j)]
                            c == BuildCommand(IF w = NOP THEN 0 ELSE w)
                        IN /\ c.op = i.op /\ c.rd = i.rd /\ c.rs = i.rs /\ c.rt = i.rt
                           /\ i.arg = "number" => c.imm = Wrapped(i.num)
                           /\ i.arg = "name" /\ Cut[i.name] = i.name =>
                                \E d \in DOMAIN file :
                                    file[d].label = i.name /\ c.imm = Position(d)
      BY DEF IInv, CoreGetsProgram
    <2> DEFINE i == file[j]
               w == instruction_array[Position(j)]
               word == IF w = NOP THEN 0 ELSE w
               c == BuildCommand(word)
    <2>1. /\ LabelsEntered /\ Assembled /\ Accepted /\ Loaded /\ PC = ImemSize
          /\ at = Len(file)
      BY DEF ProgramInv, Places, Loaded
    <2>2. file \in Seq(SourceLines) /\ j \in 1 .. at
      BY <2>1, FilesAssumption DEF TypeOK
    <2>3. /\ i.op \in Opcodes /\ i.rd \in Fields /\ i.rs \in Fields /\ i.rt \in Fields
          /\ i.num \in Int /\ (i.arg = "name" => i.name \in Names)
      BY <2>2 DEF SourceLines, Labelled, DataLines, CodeLines
    <2>4. Position(j) \in 0 .. Len(file) - 1 /\ Position(j) \in 0 .. ImemSize - 1
      BY <2>1, <2>2, PlaceInMemory DEF IsCode
    <2>5. PICK low \in Imm : HasWord(j, low)
      BY <2>1, <2>2 DEF Assembled, IsCode
    <2>6. word = imem[Position(j)]
      <3>1. imem[Position(j)] \in Words
        BY <2>4 DEF TypeOK
      <3>2. w = IF Printed(Position(j)) THEN imem[Position(j)] ELSE NOP
        BY <2>1, <2>4 DEF Loaded
      <3>3. imem[Position(j)] # NOP
        BY SMT, <3>1 DEF Words, NOP
      <3>4. ~Printed(Position(j)) => imem[Position(j)] = 0
        BY <2>4 DEF Printed
      <3>5. QED BY <3>2, <3>3, <3>4
    <2>7. c = [op |-> i.op, rd |-> i.rd, rs |-> i.rs, rt |-> i.rt, imm |-> SignExtended(low)]
      <3>1. word = Inst(i.op, i.rd, i.rs, i.rt, low)
        BY <2>5, <2>6 DEF HasWord
      <3> HIDE DEF word
      <3>2. QED BY <2>3, <3>1, FieldsRoundTrip
    <2>8. i.arg = "number" => SignExtended(low) = Wrapped(i.num)
      <3>1. i.arg = "number" => low = LowBits(i.num)
        BY <2>5 DEF HasWord
      <3>2. \A v \in Int : SignExtended(LowBits(v)) = Wrapped(v)
        BY WrappedIs
      <3>3. QED BY <2>3, <3>1, <3>2
    <2>9. ASSUME i.arg = "name", Cut[i.name] = i.name
          PROVE  \E d \in DOMAIN file : file[d].label = i.name /\ SignExtended(low) = Position(d)
      <3>1. JumpTo(j) = i.name /\ JumpTo(j) # NoName
        <4>1. JumpTo(j) = i.name
          BY <2>9 DEF JumpTo
        <4>2. i.name \in Names
          BY <2>3, <2>9
        <4>3. QED BY <4>1, <4>2, NamesAssumption
      <3>2. Fixed(j)
        <4>1. Position(j) < PC
          BY <2>1, <2>4, SizesAssumption
        <4>2. QED BY <3>1, <4>1 DEF Fixed
      <3>3. low \in 0 .. ImemSize - 1 /\ FirstAt(i.name, low)
        BY <2>5, <2>9, <3>1, <3>2 DEF HasWord
      <3>4. SignExtended(low) = low
        BY SMT, <3>3, SizesAssumption DEF SignExtended
      <3>5. PICK d \in 1 .. at : Position(d) = low /\ file[d].label = i.name
        BY <2>1, <3>1, <3>3 DEF FirstAt, LabelsEntered
      <3>6. d \in DOMAIN file
        BY <2>1, <2>2
      <3>7. QED BY <3>4, <3>5, <3>6
    <2> HIDE DEF c
    <2>10. /\ c.op = i.op /\ c.rd = i.rd /\ c.rs = i.rs /\ c.rt = i.rt
           /\ c.imm = SignExtended(low)
      BY <2>7
    <2>11. QED BY <2>8, <2>9, <2>10 DEF c
  <1>2. QED BY <1>1, Inductive, ProgramInductive, PTL

\* What is left to do is a number and each step makes it smaller, so that no run has more
\* than Len(file) + ImemSize + 2 steps: the loops of interpret_file end on any text.
THEOREM EveryStepAdvances == Spec => [](Remaining \in Nat) /\ Advances
  <1>1. IInv => /\ Len(file) \in Nat /\ at \in Nat /\ at <= Len(file)
                /\ PC \in Nat /\ PC <= ImemSize /\ ImemSize \in Nat
    BY FilesAssumption, SizesAssumption DEF IInv, TypeOK
  <1>2. IInv => Remaining \in Nat
    BY SMT, <1>1 DEF Remaining
  <1>3. IInv /\ Next => Remaining' < Remaining
    <2> SUFFICES ASSUME IInv, Next PROVE Remaining' < Remaining
      OBVIOUS
    <2>1. CASE Overrun \/ Pass \/ Unsupported \/ Data \/ Code
      <3>1. /\ status = "reading" /\ at < Len(file) /\ at' = at + 1 /\ file' = file
            /\ status' \in {"reading", "exit", "overrun"}
        BY <2>1 DEF Overrun, Pass, Unsupported, Data, Code, ReadLine
      <3>2. QED BY SMT, <1>1, <3>1 DEF Remaining
    <2>2. CASE EndOfFile
      BY SMT, <1>1, <2>2 DEF EndOfFile, Remaining
    <2>3. CASE FixLabel
      <3>1. /\ status = "fixing" /\ PC < ImemSize
            /\ \/ status' = "fixing" /\ PC' = PC + 1
               \/ status' = "exit"
        BY <2>3 DEF FixLabel, NextPC
      <3>2. QED BY SMT, <1>1, <3>1 DEF Remaining
    <2>4. CASE Load
      BY SMT, <1>1, <2>4 DEF Load, Remaining
    <2>5. QED BY <2>1, <2>2, <2>3, <2>4 DEF Next
  <1>4. QED BY <1>2, <1>3, Inductive, PTL DEF Spec, Advances
=============================================================================
