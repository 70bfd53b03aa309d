--------------------------- MODULE PipelineProofs ---------------------------
(***************************************************************************)
(* Theorems about Pipeline, for every program, ALU and memory latency and  *)
(* whatever uninitialised fields hold.                                     *)
(***************************************************************************)
EXTENDS PipelineInvariant, TLAPS

USE DEF zero, immReg, ra, FETCH, DECODE, EXEC, MEM, WB, SHIFT, AGAIN, END, none

\* A value written to a register is a word.
LEMMA HexIsWord == \A n \in Int : Int_2_Hex(n) \in Word
  BY SizesAssumption DEF Int_2_Hex, Word

\* A register read is an operand of the ALU.
LEMMA WordIsOperand == \A h \in Word : Hex_2_Int_2s_Comp(h) \in Operand
  BY SizesAssumption DEF Hex_2_Int_2s_Comp, Word, Operand

\* The remainders that cut addresses and jump targets are in range.
LEMMA CutInRange ==
  \A v \in Int : Target(v) \in Nat /\ Address(v) \in 0 .. MemWords - 1
  BY SizesAssumption DEF Target, Address

\* execute computes an integer.
LEMMA ResultIsInt ==
  \A op \in Ops \cup {"none"}, s, t \in Operand : Result(op, s, t) \in Int
  BY SizesAssumption, ComputeAssumption DEF Result, Operand, Ops, AluOps, MemOps

\* A command with registers for operands.
LEMMA CommandType ==
  ASSUME NEW op \in Ops, NEW rd \in Regs, NEW rs \in Regs, NEW rt \in Regs,
         NEW imm \in Int, NEW at \in Int
  PROVE  Command("code", op, rd, rs, rt, imm, at) \in Commands
  <1>1. rd \in Int /\ rs \in Int /\ rt \in Int
    BY RegsAssumption
  <1>2. QED BY <1>1 DEF Command, Commands

\* What the slots and the array of instructions start with are commands.
LEMMA CommandTypes ==
  /\ DONE \in Commands
  /\ NOP(none) \in Commands
  /\ \A p \in Programs : \A k \in DOMAIN p : k \in Nat /\ Entry(p, k) \in Commands
  <1>1. DONE \in Commands /\ \A k \in Int : NOP(k) \in Commands
    BY RegsAssumption DEF DONE, NOP, Command, Commands, Ops, AluOps
  <1>2. ASSUME NEW p \in Programs, NEW k \in DOMAIN p
        PROVE  k \in Nat /\ Entry(p, k) \in Commands
    <2>1. k \in Nat /\ p[k] \in Lines
      BY PipelineAssumption
    <2>2. p[k].op = "nop" \/ p[k] \in Instructions
      BY <2>1 DEF Lines, Blank
    <2>3. CASE p[k].op = "nop"
      BY <1>1, <2>1, <2>3 DEF Entry
    <2>4. CASE p[k].op # "nop"
      <3>1. /\ p[k].op \in Ops /\ p[k].imm \in Int
            /\ p[k].rd \in Regs /\ p[k].rs \in Regs /\ p[k].rt \in Regs
        BY <2>2, <2>4 DEF Instructions
      <3>2. QED BY <2>1, <2>4, <3>1, CommandType DEF Entry
    <2>5. QED BY <2>1, <2>3, <2>4
  <1>3. QED BY <1>1, <1>2

\* A command that is not nothing names registers, and what it computes and
\* the values it reads are of their types.
LEMMA SlotTypes ==
  ASSUME TypeOK, NEW i \in FETCH .. WB
  PROVE  /\ pipeline_array[i] \in Commands
         /\ pipeline_array[i].op \in Ops \cup {"none"}
         /\ pipeline_array[i].imm \in Int /\ pipeline_array[i].link \in Int
         /\ ~Idle(i) => /\ pipeline_array[i].rd \in Regs
                        /\ pipeline_array[i].rs \in Regs
                        /\ pipeline_array[i].rt \in Regs
  BY DEF TypeOK, Commands, Idle

LEMMA InitTypeOK == Init => TypeOK
  <1> SUFFICES ASSUME Init PROVE TypeOK
    OBVIOUS
  <1>1. instruction_array \in [DOMAIN program -> Commands]
    BY CommandTypes DEF Init
  <1>2. pipeline_array \in [FETCH .. WB -> Commands]
    BY CommandTypes DEF Init
  <1>3. regs \in [Regs -> Word]
    BY SizesAssumption DEF Init, Word
  <1>4. decode_buf \in [rs : Operand, rt : Operand, rd : Operand]
    BY SizesAssumption DEF Init, Operand
  <1>5. execute_buf \in [result : Int, destination : Regs, memory : BOOLEAN, rd : Operand]
    BY SizesAssumption, RegsAssumption DEF Init, Operand
  <1>6. mem_buf \in [load_result : Int, destination : Regs, address : 0 .. MemWords - 1]
    BY SizesAssumption, RegsAssumption DEF Init
  <1>7. request \in [left : 0 .. Latency, write : BOOLEAN, addr : 0 .. MemWords - 1, val : Int]
    BY SizesAssumption, PipelineAssumption DEF Init, NoRequest
  <1>8. halted \in BOOLEAN /\ btaken \in BOOLEAN
    BY Zenon DEF Init
  <1>9. /\ pc \in Nat /\ last_command \in FETCH .. WB
        /\ first \in {0, EXEC, WB} /\ stage \in END .. SHIFT
        /\ stage \in FETCH .. WB => stage \in first .. last_command
    <2>1. pc = 0 /\ last_command = 0 /\ first = 0 /\ stage = SHIFT
      BY DEF Init
    <2>2. QED BY <2>1
  <1>10. program \in Programs /\ store \in [0 .. MemWords - 1 -> Int]
    BY PipelineAssumption DEF Init
  <1>11. QED
    BY <1>1, <1>2, <1>3, <1>4, <1>5, <1>6, <1>7, <1>8, <1>9, <1>10 DEF TypeOK

\* After(i) is a stage of the loop or what follows it.
LEMMA AfterType ==
  ASSUME TypeOK, stage \in FETCH .. WB
  PROVE  /\ After(stage) \in END .. SHIFT /\ After(stage) < stage
         /\ After(stage) \in FETCH .. WB => After(stage) \in first .. last_command
  BY DEF TypeOK, After

LEMMA ShiftType == TypeOK /\ Shift => TypeOK'
  <1> SUFFICES ASSUME TypeOK, Shift PROVE TypeOK'
    OBVIOUS
  <1>1. Hazard \in {0, EXEC, WB}
    BY DEF Hazard
  <1>2. \A h \in {0, EXEC, WB} : NewSlot(h) \in Commands
    BY CommandTypes DEF NewSlot
  <1>3. pipeline_array' \in [FETCH .. WB -> Commands]
    BY <1>1, <1>2 DEF Shift, TypeOK
  <1>4. instruction_array' \in [DOMAIN program -> Commands]
    BY CommandTypes DEF Shift, TypeOK
  <1>5. btaken' \in BOOLEAN
    BY PipelineAssumption DEF Shift, TypeOK
  <1>6. /\ first' \in {0, EXEC, WB} /\ stage' \in END .. SHIFT
        /\ stage' \in FETCH .. WB => stage' \in first' .. last_command'
    BY <1>1 DEF Shift, TypeOK
  <1>7. QED
    BY <1>3, <1>4, <1>5, <1>6 DEF Shift, TypeOK

LEMMA SkipType == TypeOK /\ Skip => TypeOK'
  BY AfterType DEF Skip, TypeOK

LEMMA WriteBackType == TypeOK /\ writeback_state => TypeOK'
  <1> SUFFICES ASSUME TypeOK, writeback_state PROVE TypeOK'
    OBVIOUS
  <1>1. \A r \in Regs, v \in Int : [regs EXCEPT ![r] = Int_2_Hex(v)] \in [Regs -> Word]
    BY HexIsWord DEF TypeOK
  <1>2. /\ mem_buf.destination \in Regs /\ mem_buf.load_result \in Int
        /\ store[mem_buf.address] \in Int
    BY DEF TypeOK
  <1>3. regs' \in [Regs -> Word]
    <2>1. pipeline_array[WB].rd \in Regs /\ pipeline_array[WB].link \in Int
      BY SlotTypes DEF writeback_state
    <2>2. regs \in [Regs -> Word]
      BY DEF TypeOK
    <2>3. QED
      BY <1>1, <1>2, <2>1, <2>2, RegsAssumption DEF writeback_state
  <1>4. QED
    BY <1>3, AfterType DEF writeback_state, TypeOK

LEMMA MemoryType == TypeOK /\ memory_state => TypeOK'
  <1> SUFFICES ASSUME TypeOK, memory_state PROVE TypeOK'
    OBVIOUS
  <1>1. Address(execute_buf.result) \in 0 .. MemWords - 1
    BY CutInRange DEF TypeOK
  <1>2. execute_buf.rd \in Int /\ execute_buf.result \in Int /\ mem_buf.load_result \in Int
        /\ execute_buf.destination \in Regs
    BY SizesAssumption DEF TypeOK, Operand
  <1>3. mem_buf' \in [load_result : Int, destination : Regs, address : 0 .. MemWords - 1]
    BY <1>1, <1>2 DEF memory_state, TypeOK
  <1>4. store' \in [0 .. MemWords - 1 -> Int]
    BY <1>1, <1>2 DEF memory_state, TypeOK
  <1>5. request' \in [left : 0 .. Latency, write : BOOLEAN, addr : 0 .. MemWords - 1, val : Int]
    <2>1. \A n \in 2 .. Latency, w \in BOOLEAN :
            [left |-> n, write |-> w, addr |-> Address(execute_buf.result),
             val |-> execute_buf.rd]
            \in [left : 0 .. Latency, write : BOOLEAN, addr : 0 .. MemWords - 1, val : Int]
      BY <1>1, <1>2, PipelineAssumption
    <2>2. \/ request' = request
          \/ \E n \in 2 .. Latency, w \in BOOLEAN :
                request' = [left |-> n, write |-> w, addr |-> Address(execute_buf.result),
                            val |-> execute_buf.rd]
      BY DEF memory_state, TypeOK
    <2>3. QED BY <2>1, <2>2 DEF TypeOK
  <1>6. /\ stage' \in END .. SHIFT
        /\ stage' \in FETCH .. WB => stage' \in first' .. last_command'
    BY AfterType DEF memory_state
  <1>7. QED
    BY <1>3, <1>4, <1>5, <1>6 DEF memory_state, TypeOK

LEMMA ExecuteType == TypeOK /\ execute => TypeOK'
  <1> SUFFICES ASSUME TypeOK, execute PROVE TypeOK'
    OBVIOUS
  <1>1. decode_buf.rs \in Operand /\ decode_buf.rt \in Operand /\ decode_buf.rd \in Operand
    BY DEF TypeOK
  <1>2. pipeline_array[EXEC].rd \in Regs
        /\ Result(pipeline_array[EXEC].op, decode_buf.rs, decode_buf.rt) \in Int
    BY <1>1, SlotTypes, ResultIsInt DEF execute
  <1>3. execute_buf' \in [result : Int, destination : Regs, memory : BOOLEAN, rd : Operand]
    BY <1>1, <1>2 DEF execute, TypeOK
  <1>4. QED
    BY <1>3, AfterType DEF execute, TypeOK

\* decode, in either of its places.
LEMMA DecodeKeepsTypes ==
  ASSUME TypeOK, ~Idle(DECODE), decode
  PROVE  /\ pipeline_array' \in [FETCH .. WB -> Commands]
         /\ regs' \in [Regs -> Word]
         /\ decode_buf' \in [rs : Operand, rt : Operand, rd : Operand]
         /\ btaken' \in BOOLEAN /\ halted' \in BOOLEAN
  <1> DEFINE c == pipeline_array[DECODE]
  <1>1. PICK com \in BuildCommand(c) : ReadOperands(com)
    BY DEF decode
  <1>2. c \in Commands /\ c.rd \in Regs /\ c.rs \in Regs /\ c.rt \in Regs /\ c.inst # "DONE"
    BY SlotTypes DEF Idle
  <1>3. /\ com \in Commands /\ com.imm \in Int
        /\ com.rd \in Regs /\ com.rs \in Regs /\ com.rt \in Regs
    <2>1. CASE c.inst = "code"
      BY <1>1, <1>2, <2>1 DEF BuildCommand, Commands
    <2>2. CASE c.inst # "code"
      <3>1. PICK g \in Leftover : com = [c EXCEPT !.op = "add", !.rt = g[1], !.imm = g[2]]
        BY <1>1, <2>2 DEF BuildCommand
      <3>2. g \in Regs \X Int
        BY PipelineAssumption
      <3>3. g[1] \in Regs /\ g[2] \in Int
        BY <3>2
      <3>4. \A r \in Regs : r \in Int
        BY RegsAssumption
      <3>5. QED
        BY <1>2, <2>2, <3>1, <3>3, <3>4 DEF Commands, Ops, AluOps
    <2>3. QED BY <2>1, <2>2
  <1> DEFINE now == [regs EXCEPT ![immReg] = Int_2_Hex(com.imm)]
  <1>4. now \in [Regs -> Word]
    BY <1>3, HexIsWord DEF TypeOK
  <1>5. \A r \in Regs : Hex_2_Int_2s_Comp(now[r]) \in Operand
    BY <1>4, WordIsOperand
  <1>6. /\ regs' \in [Regs -> Word]
        /\ decode_buf' \in [rs : Operand, rt : Operand, rd : Operand]
    BY <1>1, <1>3, <1>4, <1>5 DEF ReadOperands, TypeOK
  <1>7. btaken' \in BOOLEAN /\ halted' \in BOOLEAN
    BY <1>1 DEF ReadOperands, TypeOK, Taken
  <1>8. pipeline_array' \in [FETCH .. WB -> Commands]
    <2>1. pc - 1 \in Int
      BY DEF TypeOK
    <2>2. [com EXCEPT !.link = IF com.op = "jal" THEN pc - 1 ELSE @] \in Commands
      BY <1>3, <2>1 DEF Commands
    <2>3. QED
      BY <1>1, <1>3, <2>2 DEF ReadOperands, TypeOK
  <1>9. QED
    BY <1>6, <1>7, <1>8

LEMMA DecodeType == TypeOK /\ Decode => TypeOK'
  BY DecodeKeepsTypes, AfterType DEF Decode, TypeOK

LEMMA DecodeAgainType == TypeOK /\ DecodeAgain => TypeOK'
  <1> SUFFICES ASSUME TypeOK, DecodeAgain PROVE TypeOK'
    OBVIOUS
  <1>1. CASE Code(DECODE)
    BY <1>1, DecodeKeepsTypes DEF DecodeAgain, TypeOK, Code, Idle
  <1>2. CASE ~Code(DECODE)
    BY <1>2 DEF DecodeAgain, TypeOK
  <1>3. QED BY <1>1, <1>2

LEMMA EndCycleType == TypeOK /\ EndCycle => TypeOK'
  <1> SUFFICES ASSUME TypeOK, EndCycle PROVE TypeOK'
    OBVIOUS
  <1>1. decode_buf.rd \in Int
    BY SizesAssumption DEF TypeOK, Operand
  <1>2. pc' \in Nat
    BY <1>1, CutInRange DEF EndCycle, TypeOK
  <1>3. /\ request' \in [left : 0 .. Latency, write : BOOLEAN, addr : 0 .. MemWords - 1, val : Int]
        /\ store' \in [0 .. MemWords - 1 -> Int]
    <2>1. NoRequest \in [left : 0 .. Latency, write : BOOLEAN, addr : 0 .. MemWords - 1, val : Int]
      BY SizesAssumption, PipelineAssumption DEF NoRequest
    <2>2. CASE request.left > 0
      <3>0. /\ request.left \in 0 .. Latency /\ request.write \in BOOLEAN
            /\ request.addr \in 0 .. MemWords - 1 /\ request.val \in Int
        BY DEF TypeOK
      <3>1. request.left - 1 \in 0 .. Latency
        BY <2>2, <3>0, PipelineAssumption
      <3>2. [request EXCEPT !.left = @ - 1]
              \in [left : 0 .. Latency, write : BOOLEAN, addr : 0 .. MemWords - 1, val : Int]
        BY <3>0, <3>1 DEF TypeOK
      <3>3. QED
        BY <2>1, <2>2, <3>0, <3>2 DEF EndCycle, TypeOK
    <2>3. CASE ~(request.left > 0)
      BY <2>3 DEF EndCycle, TypeOK
    <2>4. QED BY <2>2, <2>3
  <1>4. /\ last_command' \in FETCH .. WB /\ stage' \in END .. SHIFT
        /\ stage' \notin FETCH .. WB
    BY DEF EndCycle, TypeOK
  <1>5. halted' \in BOOLEAN
    BY DEF EndCycle, finished
  <1>6. QED
    BY <1>2, <1>3, <1>4, <1>5 DEF EndCycle, TypeOK

LEMMA FetchType == TypeOK /\ Fetchable /\ fetch_instruction => TypeOK'
  <1> SUFFICES ASSUME TypeOK, Fetchable, fetch_instruction PROVE TypeOK'
    OBVIOUS
  <1>1. pc \in DOMAIN program
    BY DEF TypeOK, Fetchable, fetch_instruction
  <1>2. pipeline_array' \in [FETCH .. WB -> Commands]
    BY <1>1 DEF fetch_instruction, TypeOK
  <1>3. pc' \in Nat
    BY DEF fetch_instruction, TypeOK
  <1>4. /\ stage' \in END .. SHIFT
        /\ stage' \in FETCH .. WB => stage' \in first' .. last_command'
    BY AfterType DEF fetch_instruction
  <1>5. QED
    BY <1>2, <1>3, <1>4 DEF fetch_instruction, TypeOK

\* A step of any kind keeps the types.
LEMMA TypeStep == TypeOK /\ Fetchable /\ [Next]_vars => TypeOK'
  <1> SUFFICES ASSUME TypeOK, Fetchable, [Next]_vars PROVE TypeOK'
    OBVIOUS
  <1>1. CASE Next
    BY <1>1, ShiftType, SkipType, WriteBackType, MemoryType, ExecuteType, DecodeType,
       FetchType, DecodeAgainType, EndCycleType DEF Next
  <1>2. CASE UNCHANGED vars
    BY <1>2 DEF vars, TypeOK
  <1>3. QED BY <1>1, <1>2

LEMMA FetchableStep == TypeOK /\ Fetchable /\ [Next]_vars => Fetchable'
  <1> SUFFICES ASSUME TypeOK, Fetchable, [Next]_vars,
                      stage' \in FETCH .. WB, first' = 0, ~Idle(FETCH)'
               PROVE  pc' \in DOMAIN program'
    BY DEF Fetchable
  <1> USE DEF TypeOK
  <1>1. CASE Shift
    BY <1>1 DEF Shift, NewSlot, Idle, DONE, Command
  <1>2. CASE Skip \/ writeback_state \/ memory_state \/ execute
    BY <1>2 DEF Skip, writeback_state, memory_state, execute, Fetchable, Idle
  <1>3. CASE Decode
    <2>1. pipeline_array'[FETCH] = pipeline_array[FETCH]
      BY <1>3 DEF Decode, decode, ReadOperands
    <2>2. QED BY <1>3, <2>1 DEF Decode, Fetchable, Idle
  <1>4. CASE fetch_instruction
    BY <1>4 DEF fetch_instruction, After
  <1>5. CASE DecodeAgain \/ EndCycle
    BY <1>5 DEF DecodeAgain, EndCycle
  <1>6. CASE UNCHANGED vars
    BY <1>6 DEF vars, Fetchable, Idle
  <1>7. QED
    BY <1>1, <1>2, <1>3, <1>4, <1>5, <1>6 DEF Next

\* Which stages have been run, after the stage that is run now.
LEMMA RanAfter ==
  ASSUME TypeOK, stage \in FETCH .. WB, stage' = After(stage), first' = first,
         NEW i \in FETCH .. WB
  PROVE  Ran(i)' <=> (Ran(i) \/ i = stage)
  BY DEF TypeOK, After, Ran

\* decode changes no slot but its own, whose command it may read out of a line.
LEMMA DecodeSlot ==
  ASSUME TypeOK, decode
  PROVE  /\ \A i \in FETCH .. WB : i # DECODE => pipeline_array'[i] = pipeline_array[i]
         /\ Code(DECODE) =>
                \A f \in {"inst", "op", "rd", "rs", "rt", "imm"} :
                    pipeline_array'[DECODE][f] = pipeline_array[DECODE][f]
  <1>1. \A i \in FETCH .. WB : i # DECODE => pipeline_array'[i] = pipeline_array[i]
    BY DEF decode, ReadOperands, TypeOK
  <1>2. ASSUME Code(DECODE), NEW f \in {"inst", "op", "rd", "rs", "rt", "imm"}
        PROVE  pipeline_array'[DECODE][f] = pipeline_array[DECODE][f]
    <2>1. ReadOperands(pipeline_array[DECODE])
      BY <1>2 DEF decode, BuildCommand, Code
    <2>2. \/ pipeline_array' = [pipeline_array EXCEPT ![DECODE] = pipeline_array[DECODE]]
          \/ \E n : pipeline_array' = [pipeline_array EXCEPT ![DECODE] =
                        [pipeline_array[DECODE] EXCEPT !.link = n]]
      BY <2>1 DEF ReadOperands
    <2>3. pipeline_array[DECODE] \in Commands /\ pipeline_array \in [FETCH .. WB -> Commands]
      BY DEF TypeOK
    <2>4. QED BY <1>2, <2>2, <2>3 DEF Commands
  <1>3. QED BY <1>1, <1>2

LEMMA ReachedStep == TypeOK /\ Fetchable /\ Reached /\ [Next]_vars => Reached'
  <1> SUFFICES ASSUME TypeOK, Reached, [Next]_vars,
                      NEW i \in FETCH .. WB, pipeline_array'[i].op # "none"
               PROVE  \/ i < last_command'
                      \/ i = last_command' /\ (stage' # SHIFT \/ i = WB)
    BY DEF Reached
  <1>1. last_command \in FETCH .. WB
    BY DEF TypeOK
  <1>2. \A j \in FETCH .. WB : pipeline_array[j].op # "none" =>
            \/ j < last_command
            \/ j = last_command /\ (stage # SHIFT \/ j = WB)
    BY DEF Reached
  <1>3. CASE Shift
    <2>1. last_command' = last_command /\ stage' # SHIFT /\ stage = SHIFT
      BY <1>1, <1>3 DEF Shift
    <2>2. Hazard \in {0, EXEC, WB} /\ NewSlot(Hazard).op = "none"
      BY DEF Hazard, NewSlot, DONE, NOP, Command
    <2>3. \/ i > 0 /\ pipeline_array'[i] = pipeline_array[i - 1]
          \/ pipeline_array'[i] = pipeline_array[i]
      BY <1>3, <2>2 DEF Shift
    <2>4. QED BY <1>1, <1>2, <2>1, <2>3
  <1>4. CASE Skip \/ writeback_state \/ memory_state \/ execute
    <2>1. /\ last_command' = last_command /\ stage' # SHIFT
          /\ pipeline_array' = pipeline_array
      BY <1>4, AfterType DEF Skip, writeback_state, memory_state, execute
    <2>2. QED BY <1>2, <2>1
  <1>5. CASE Decode \/ fetch_instruction
    <2>1. last_command' = last_command /\ stage' # SHIFT
      BY <1>5, AfterType DEF Decode, fetch_instruction
    <2>2. i # stage => pipeline_array'[i] = pipeline_array[i]
      BY <1>5, DecodeSlot DEF Decode, fetch_instruction, TypeOK
    <2>3. stage \in FETCH .. DECODE
      BY <1>5 DEF Decode, fetch_instruction
    <2>4. stage <= last_command
      BY <2>3 DEF TypeOK
    <2>5. QED BY <1>1, <1>2, <2>1, <2>2, <2>3, <2>4
  <1>6. CASE DecodeAgain
    <2>1. last_command' = last_command /\ stage' # SHIFT
      BY <1>6 DEF DecodeAgain
    <2>2. pipeline_array'[i].op = pipeline_array[i].op
      BY <1>6, DecodeSlot DEF DecodeAgain
    <2>3. QED BY <1>2, <2>1, <2>2
  <1>7. CASE EndCycle
    <2>1. pipeline_array' = pipeline_array
          /\ last_command' = IF last_command < WB THEN last_command + 1 ELSE last_command
      BY <1>7 DEF EndCycle
    <2>2. QED BY <1>1, <1>2, <2>1
  <1>8. CASE UNCHANGED vars
    BY <1>2, <1>8 DEF vars
  <1>9. QED
    BY <1>3, <1>4, <1>5, <1>6, <1>7, <1>8 DEF Next

LEMMA StalledStep == TypeOK /\ Stalled /\ [Next]_vars => Stalled'
  <1> SUFFICES ASSUME TypeOK, Stalled, [Next]_vars, stage' # SHIFT, first' = EXEC
               PROVE  pipeline_array'[EXEC].inst = "DONE"
    BY DEF Stalled, Idle
  <1>1. stage # SHIFT /\ first = EXEC => pipeline_array[EXEC].inst = "DONE"
    BY DEF Stalled, Idle
  <1>2. CASE Shift
    BY <1>2 DEF Shift, NewSlot, DONE, Command
  <1>3. CASE Skip \/ writeback_state \/ memory_state \/ execute
    BY <1>1, <1>3 DEF Skip, writeback_state, memory_state, execute
  <1>4. CASE Decode \/ DecodeAgain
    <2>1. pipeline_array'[EXEC] = pipeline_array[EXEC]
      BY <1>4, DecodeSlot DEF Decode, DecodeAgain
    <2>2. QED BY <1>1, <1>4, <2>1 DEF Decode, DecodeAgain
  <1>5. CASE fetch_instruction
    BY <1>1, <1>5 DEF fetch_instruction, TypeOK
  <1>6. CASE EndCycle
    BY <1>6 DEF EndCycle
  <1>7. CASE UNCHANGED vars
    BY <1>1, <1>7 DEF vars
  <1>8. QED
    BY <1>2, <1>3, <1>4, <1>5, <1>6, <1>7 DEF Next

LEMMA BuffersStep ==
  TypeOK /\ Fetchable /\ Reached /\ Buffers /\ [Next]_vars => Buffers'
  <1> SUFFICES ASSUME TypeOK, Fetchable, Reached, Buffers, [Next]_vars
               PROVE  Buffers'
    OBVIOUS
  <1>1. Reached'
    BY ReachedStep
  <1>2. /\ \A i \in FETCH .. WB : Idle(i) => pipeline_array[i].op = "none"
        /\ \A i \in FETCH .. WB : WritesRd(pipeline_array[i]) => Active(i)
    BY DEF TypeOK, Commands, Idle, WritesRd, Active, AluOps
  <1>3. CASE Shift
    <2>1. /\ stage = SHIFT /\ first' = Hazard /\ last_command' = last_command
          /\ execute_buf' = execute_buf /\ mem_buf' = mem_buf
          /\ stage' = IF last_command >= Hazard THEN last_command ELSE AGAIN
      BY <1>3 DEF Shift
    <2>2. Hazard \in {0, EXEC, WB} /\ last_command \in FETCH .. WB
      BY DEF Hazard, TypeOK
    <2>3. \A i \in FETCH .. WB : Ran(i)
      BY <2>1 DEF Ran
    <2>4. \A i \in FETCH .. WB : Ran(i)' => i < Hazard \/ pipeline_array'[i].op = "none"
      BY <1>1, <2>1, <2>2 DEF Ran, Reached
    <2>5. \A i \in FETCH .. WB :
            /\ i < Hazard => pipeline_array'[i] = pipeline_array[i]
            /\ i > Hazard => pipeline_array'[i] = pipeline_array[i - 1]
      BY <1>3, <2>2 DEF Shift
    <2>6. pipeline_array'[Hazard].op = "none"
      BY <1>3, <2>2 DEF Shift, NewSlot, DONE, NOP, Command
    <2>7. Ran(EXEC)' /\ Active(EXEC)' => ExecuteBufOf(EXEC)'
      BY <2>1, <2>2, <2>3, <2>4, <2>5, <2>6 DEF Active, ExecuteBufOf, Buffers
    <2>8. ~Ran(MEM)' /\ Active(MEM)' => ExecuteBufOf(MEM)'
      <3>1. ~Ran(MEM)' => ~(MEM < Hazard)
        BY <2>1 DEF Ran
      <3>2. CASE MEM > Hazard
        BY <2>1, <2>3, <2>5, <3>2 DEF Active, ExecuteBufOf, Buffers
      <3>3. QED BY <2>2, <3>1, <3>2
    <2>9. Ran(MEM)' /\ WritesRd(pipeline_array[MEM])' =>
            mem_buf.destination' = pipeline_array[MEM].rd'
      BY <2>1, <2>2, <2>3, <2>4, <2>5 DEF WritesRd, AluOps, Buffers
    <2>10. ~Ran(WB)' /\ WritesRd(pipeline_array[WB])' =>
            mem_buf.destination' = pipeline_array[WB].rd'
      BY <2>1, <2>2, <2>3, <2>5, <2>6 DEF WritesRd, AluOps, Buffers
    <2>11. QED BY <2>7, <2>8, <2>9, <2>10 DEF Buffers
  <1>4. CASE Skip \/ writeback_state
    <2>1. /\ stage \in FETCH .. WB /\ stage' = After(stage) /\ first' = first
          /\ pipeline_array' = pipeline_array
          /\ execute_buf' = execute_buf /\ mem_buf' = mem_buf
      BY <1>4 DEF Skip, writeback_state
    <2>2. stage = WB \/ pipeline_array[stage].op = "none"
      BY <1>2, <1>4 DEF Skip, writeback_state
    <2>3. \A i \in FETCH .. WB : Ran(i)' <=> (Ran(i) \/ i = stage)
      BY <2>1, RanAfter
    <2>4. QED
      BY <2>1, <2>2, <2>3 DEF Buffers, Active, ExecuteBufOf, WritesRd, AluOps
  <1>5. CASE memory_state
    <2>1. /\ stage = MEM /\ stage' = After(stage) /\ first' = first
          /\ pipeline_array' = pipeline_array /\ execute_buf' = execute_buf
          /\ mem_buf'.destination = execute_buf.destination
      BY <1>5 DEF memory_state
    <2>2. \A i \in FETCH .. WB : Ran(i)' <=> (Ran(i) \/ i = stage)
      BY <2>1, RanAfter
    <2>3. ~Ran(MEM) /\ Ran(WB)
      BY <2>1 DEF TypeOK, Ran
    <2>4. QED
      BY <1>2, <2>1, <2>2, <2>3 DEF Buffers, Active, ExecuteBufOf
  <1>6. CASE execute
    <2>1. /\ stage = EXEC /\ stage' = After(stage) /\ first' = first
          /\ pipeline_array' = pipeline_array /\ mem_buf' = mem_buf
          /\ Active(EXEC) => ExecuteBufOf(EXEC)'
      BY <1>6 DEF execute, Active, ExecuteBufOf
    <2>2. \A i \in FETCH .. WB : Ran(i)' <=> (Ran(i) \/ i = stage)
      BY <2>1, RanAfter
    <2>3. Ran(MEM) /\ Ran(WB)
      BY <2>1 DEF Ran
    <2>4. QED
      BY <2>1, <2>2, <2>3 DEF Buffers, Active, ExecuteBufOf
  <1>7. CASE Decode \/ fetch_instruction \/ DecodeAgain \/ EndCycle
    <2>1. execute_buf' = execute_buf /\ mem_buf' = mem_buf
      BY <1>7 DEF Decode, fetch_instruction, DecodeAgain, EndCycle
    <2>2. \A i \in EXEC .. WB : pipeline_array'[i] = pipeline_array[i]
      BY <1>7, DecodeSlot DEF Decode, fetch_instruction, DecodeAgain, EndCycle, TypeOK
    <2>3. \A i \in EXEC .. WB : Ran(i)
      BY <1>7 DEF Decode, fetch_instruction, DecodeAgain, EndCycle, Ran
    <2>4. stage' \in {END, AGAIN, SHIFT, FETCH}
      BY <1>7 DEF Decode, fetch_instruction, DecodeAgain, EndCycle, After
    <2>5. \A i \in EXEC .. WB : Ran(i)'
      BY <2>4 DEF Ran
    <2>6. QED
      BY <2>1, <2>2, <2>3, <2>5 DEF Buffers, Active, ExecuteBufOf
  <1>8. CASE UNCHANGED vars
    BY <1>8 DEF vars, Buffers, Ran, Active, ExecuteBufOf
  <1>9. QED
    BY <1>3, <1>4, <1>5, <1>6, <1>7, <1>8 DEF Next

\* Waiting depends on what decode reads out of a line, which it reads only once.
LEMMA HazardKept ==
  ASSUME TypeOK, decode, Code(DECODE)
  PROVE  RawHazard' <=> RawHazard
  <1>1. \A i \in {EXEC, MEM} : pipeline_array'[i] = pipeline_array[i]
    BY DecodeSlot
  <1>2. /\ pipeline_array'[DECODE].inst = pipeline_array[DECODE].inst
        /\ pipeline_array'[DECODE].op = pipeline_array[DECODE].op
        /\ pipeline_array'[DECODE].rs = pipeline_array[DECODE].rs
        /\ pipeline_array'[DECODE].rt = pipeline_array[DECODE].rt
        /\ pipeline_array'[DECODE].rd = pipeline_array[DECODE].rd
    BY DecodeSlot
  <1>3. \A c : Conflict(pipeline_array'[DECODE], c) <=> Conflict(pipeline_array[DECODE], c)
    BY <1>2 DEF Conflict
  <1>4. QED BY <1>1, <1>2, <1>3 DEF RawHazard, Code

\* decode that does not wait leaves the values of the command's registers.
LEMMA DecodeReads ==
  ASSUME TypeOK, decode, Code(DECODE), ~RawHazard,
         NEW f \in {"rs", "rt", "rd"}
  PROVE  decode_buf'[f] = Value(pipeline_array[DECODE], pipeline_array[DECODE][f])'
  <1> DEFINE c == pipeline_array[DECODE]
  <1>1. ReadOperands(c)
    BY DEF decode, BuildCommand, Code
  <1>2. c.rs \in Regs /\ c.rt \in Regs /\ c.rd \in Regs
    BY SlotTypes DEF Code, Idle
  <1>3. decode_buf'[f] = Hex_2_Int_2s_Comp(regs'[c[f]])
    BY <1>1 DEF ReadOperands
  <1>4. \A r \in Regs : regs'[r] = IF r = immReg THEN Int_2_Hex(c.imm) ELSE regs[r]
    BY <1>1 DEF ReadOperands, TypeOK
  <1>5. c[f] \in Regs
    BY <1>2
  <1>6. pipeline_array'[DECODE][f] = c[f] /\ pipeline_array'[DECODE].imm = c.imm
    BY DecodeSlot
  <1>7. Value(c, c[f])' = Hex_2_Int_2s_Comp(IF c[f] = immReg THEN Int_2_Hex(c.imm)
                                            ELSE regs'[c[f]])
    BY <1>6 DEF Value
  <1>8. QED BY <1>3, <1>4, <1>5, <1>7

LEMMA DecodedStep == TypeOK /\ Fetchable /\ Decoded /\ [Next]_vars => Decoded'
  <1> SUFFICES ASSUME TypeOK, Decoded, [Next]_vars,
                      stage' \in {END, SHIFT}, Code(DECODE)', ~RawHazard',
                      NEW f \in {"rs", "rt", "rd"}
               PROVE  decode_buf'[f] = Value(pipeline_array[DECODE], pipeline_array[DECODE][f])'
    BY DEF Decoded
  <1>1. CASE Shift
    <2>1. stage' = last_command \/ stage' = AGAIN
      BY <1>1 DEF Shift
    <2>2. last_command \in FETCH .. WB
      BY DEF TypeOK
    <2>3. QED BY <2>1, <2>2
  <1>2. CASE Skip \/ writeback_state \/ memory_state \/ execute \/ Decode \/ fetch_instruction
    <2>1. stage \in FETCH .. WB /\ stage' = After(stage)
      BY <1>2 DEF Skip, writeback_state, memory_state, execute, Decode, fetch_instruction
    <2>2. stage' = stage - 1 \/ stage' = AGAIN
      BY <2>1 DEF After
    <2>3. QED BY <2>1, <2>2
  <1>3. CASE DecodeAgain
    <2>1. Code(DECODE)
      BY <1>3 DEF DecodeAgain, Code
    <2>2. QED BY <1>3, <2>1, HazardKept, DecodeReads DEF DecodeAgain
  <1>4. CASE EndCycle
    <2>1. /\ stage = END /\ pipeline_array' = pipeline_array
          /\ decode_buf' = decode_buf /\ regs' = regs
      BY <1>4 DEF EndCycle
    <2>2. Code(DECODE) /\ ~RawHazard
      BY <2>1 DEF Code, RawHazard
    <2>3. decode_buf[f] = Value(pipeline_array[DECODE], pipeline_array[DECODE][f])
      BY <2>1, <2>2 DEF Decoded
    <2>4. QED BY <2>1, <2>3 DEF Value
  <1>5. CASE UNCHANGED vars
    <2>1. /\ stage' = stage /\ pipeline_array' = pipeline_array
          /\ decode_buf' = decode_buf /\ regs' = regs
      BY <1>5 DEF vars
    <2>2. stage \in {END, SHIFT} /\ Code(DECODE) /\ ~RawHazard
      BY <2>1 DEF Code, RawHazard
    <2>3. decode_buf[f] = Value(pipeline_array[DECODE], pipeline_array[DECODE][f])
      BY <2>2 DEF Decoded
    <2>4. QED BY <2>1, <2>3 DEF Value
  <1>6. QED
    BY <1>1, <1>2, <1>3, <1>4, <1>5 DEF Next

\* Where the hazard unit lets a command go, no instruction ahead of it writes one of
\* the registers it protects.
LEMMA ConflictCovers ==
  ASSUME NEW d, NEW c, ~Conflict(d, c),
         NEW r \in Protected(d), r \in {d.rs, d.rt, d.rd}, r # immReg
  PROVE  r \notin Writes(c)
  <1>1. /\ zero # ra /\ r # zero
        /\ d.op = "jal" => r = d.rd /\ r # ra
        /\ d.op \in AluOps \cup {"lw"} => r \in {d.rs, d.rt}
        /\ d.op \in AluOps \cup {"lw", "sw", "jal"} \cup BranchOps
    BY DEF Protected, Reads, AluOps, BranchOps
  <1>2. CASE d.op \in AluOps \cup {"lw"}
    BY <1>1, <1>2 DEF Conflict, Writes
  <1>3. CASE d.op \in BranchOps
    BY <1>1, <1>3 DEF Conflict, Writes
  <1>4. CASE d.op = "jal"
    BY <1>1, <1>4 DEF Conflict, Writes
  <1>5. CASE d.op = "sw"
    BY <1>1, <1>5 DEF Conflict, Writes
  <1>6. QED BY <1>1, <1>2, <1>3, <1>4, <1>5

\* Write-back changes the register of its instruction only.
LEMMA WriteBackWrites ==
  ASSUME TypeOK, Buffers, writeback_state, NEW r \in Regs,
         r \notin Writes(pipeline_array[WB])
  PROVE  regs'[r] = regs[r]
  <1>1. ~Ran(WB)
    BY DEF writeback_state, TypeOK, Ran
  <1>2. CASE pipeline_array[WB].op \in AluOps
    <2>1. mem_buf.destination = pipeline_array[WB].rd /\ r # pipeline_array[WB].rd
      BY <1>1, <1>2 DEF Buffers, WritesRd, Writes
    <2>2. regs' = [regs EXCEPT ![mem_buf.destination] = Int_2_Hex(mem_buf.load_result)]
      BY <1>2 DEF writeback_state, AluOps
    <2>3. QED BY <2>1, <2>2 DEF TypeOK
  <1>3. CASE pipeline_array[WB].op \notin AluOps
    BY <1>3 DEF writeback_state, Writes, WritesRd, TypeOK
  <1>4. QED BY <1>2, <1>3

LEMMA UndisturbedStep ==
  TypeOK /\ Fetchable /\ Buffers /\ Decoded /\ Undisturbed /\ [Next]_vars => Undisturbed'
  <1> DEFINE com == pipeline_array[EXEC]
             Reading(f) ==
                /\ decode_buf[f] = Value(com, com[f])
                /\ com[f] # immReg => com[f] \notin Writes(pipeline_array[MEM])
                /\ com[f] # immReg /\ stage = WB => com[f] \notin Writes(pipeline_array[WB])
  <1> SUFFICES ASSUME TypeOK, Fetchable, Buffers, Decoded, Undisturbed, [Next]_vars,
                      stage' \in EXEC .. WB, first' = 0, Code(EXEC)',
                      NEW f \in {"rs", "rt", "rd"}, com'[f] \in Protected(com')
               PROVE  Reading(f)'
    BY DEF Undisturbed
  <1> HIDE DEF com, Reading
  <1>1. CASE Shift
    <2> DEFINE d == pipeline_array[DECODE]
    <2>1. /\ Hazard = 0 /\ stage = SHIFT
          /\ decode_buf' = decode_buf /\ regs' = regs
      BY <1>1 DEF Shift
    <2>2. /\ com' = d
          /\ pipeline_array'[MEM] = pipeline_array[EXEC]
          /\ pipeline_array'[WB] = pipeline_array[MEM]
      BY <1>1, <2>1 DEF Shift, com
    <2>3. Code(DECODE) /\ ~RawHazard
      BY <2>1, <2>2 DEF Hazard, Code, com
    <2>4. decode_buf[f] = Value(d, d[f])
      BY <2>1, <2>3 DEF Decoded
    <2>5. d[f] \in {d.rs, d.rt, d.rd} /\ d[f] \in Protected(d)
      BY <2>2
    <2>6. ~Conflict(d, pipeline_array[EXEC]) /\ ~Conflict(d, pipeline_array[MEM])
      BY <2>3 DEF RawHazard
    <2>7. d[f] # immReg => /\ d[f] \notin Writes(pipeline_array[EXEC])
                           /\ d[f] \notin Writes(pipeline_array[MEM])
      BY <2>5, <2>6, ConflictCovers
    <2>8. QED
      BY <2>1, <2>2, <2>4, <2>7 DEF Reading, Value
  <1>2. CASE Skip \/ memory_state \/ writeback_state
    <2>1. /\ stage \in EXEC .. WB /\ stage' < stage /\ first = 0
          /\ pipeline_array' = pipeline_array /\ decode_buf' = decode_buf
      BY <1>2, AfterType DEF Skip, memory_state, writeback_state, TypeOK
    <2>2. Reading(f) /\ Code(EXEC)
      BY <2>1 DEF Undisturbed, Code, Reading, com
    <2>3. CASE Skip \/ memory_state
      BY <2>1, <2>2, <2>3 DEF Skip, memory_state, Reading, com, Value
    <2>4. CASE writeback_state
      <3>1. com[f] \in Regs /\ stage = WB
        BY <2>2, <2>4, SlotTypes DEF writeback_state, Code, Idle, com
      <3>2. com[f] # immReg => regs'[com[f]] = regs[com[f]]
        BY <2>2, <2>4, <3>1, WriteBackWrites DEF Reading
      <3>3. Value(com, com[f])' = Value(com, com[f])
        BY <2>1, <3>2 DEF Value, com
      <3>4. QED
        BY <2>1, <2>2, <3>1, <3>3 DEF Reading, com
    <2>5. QED BY <1>2, <2>3, <2>4
  <1>3. CASE execute \/ Decode \/ fetch_instruction \/ DecodeAgain \/ EndCycle
    BY <1>3 DEF execute, Decode, fetch_instruction, DecodeAgain, EndCycle, After
  <1>4. CASE UNCHANGED vars
    BY <1>4 DEF vars, Undisturbed, Code, Reading, com, Value
  <1>5. QED
    BY <1>1, <1>2, <1>3, <1>4 DEF Next

LEMMA InitIInv == Init => IInv
  <1> SUFFICES ASSUME Init PROVE IInv
    OBVIOUS
  <1>1. TypeOK
    BY InitTypeOK
  <1>2. /\ \A i \in FETCH .. WB : pipeline_array[i] = NOP(none)
        /\ stage = SHIFT
        /\ execute_buf.memory = FALSE
    BY DEF Init
  <1>3. \A i \in FETCH .. WB :
            pipeline_array[i].op = "none" /\ pipeline_array[i].inst = "NOP"
    BY <1>2 DEF NOP, Command
  <1>4. QED
    BY <1>1, <1>2, <1>3
    DEF IInv, Fetchable, Reached, Buffers, Active, WritesRd, AluOps, Ran, Decoded, Code,
        Undisturbed, Stalled

LEMMA IInvStep == IInv /\ [Next]_vars => IInv'
  BY TypeStep, FetchableStep, ReachedStep, BuffersStep, DecodedStep, UndisturbedStep,
     StalledStep
  DEF IInv

\* What the pipeline keeps between its stages, for every program, ALU, memory latency
\* and content of the uninitialised fields.
THEOREM Inductive == Spec => []IInv
  BY InitIInv, IInvStep, PTL DEF Spec

\* Every variable of the pipeline holds what its C counterpart can hold.
THEOREM TypeInvariant == Spec => []TypeOK
  <1>1. IInv => TypeOK
    BY DEF IInv
  <1>2. QED BY Inductive, <1>1, PTL

\* Whatever the order of the stages and their shared buffers, an instruction is executed
\* with the values that its registers hold.
THEOREM OperandsSafe == Spec => []OperandsCurrent
  <1>1. IInv => OperandsCurrent
    <2> SUFFICES ASSUME IInv, stage = EXEC, Code(EXEC)
                 PROVE  first = 0 /\ Undisturbed
      BY DEF OperandsCurrent, Undisturbed
    <2>1. first \in {0, EXEC, WB} /\ first <= EXEC
      BY DEF IInv, TypeOK
    <2>2. first # EXEC
      BY DEF IInv, Stalled, Code, Idle
    <2>3. QED BY <2>1, <2>2 DEF IInv
  <1>2. QED BY Inductive, <1>1, PTL
=============================================================================
