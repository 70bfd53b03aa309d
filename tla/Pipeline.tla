------------------------------ MODULE Pipeline ------------------------------
(***************************************************************************)
(* The pipeline of one core: pipeline.c and state_machine.c, called once   *)
(* per cycle by the loop of simulate_cores.  pipeline() moves the commands *)
(* and then runs the stages from WB back to FETCH over buffers that they   *)
(* share; every stage is an action.  No other core has a program, so the   *)
(* memory is the flat one that caches and bus implement for one core       *)
(* (ImplementsFlatMemory of SnoopBusSingle).                               *)
(***************************************************************************)
EXTENDS InstructionSet

CONSTANTS
    Programs,   \* the programs: functions from 0 .. n-1
    Memin,      \* the memory at the start
    Latency,    \* a miss keeps the bus for 2 .. Latency cycles
    Stale,      \* what an uninitialised btaken may be found to be
    Leftover    \* rt and imm, as decoded from the bytes after "NOP"

FETCH == 0
DECODE == 1
EXEC == 2
MEM == 3
WB == 4
\* The places in pipeline() before and after the loop over the stages.
SHIFT == 5
AGAIN == -1
END == -2

\* A slot of pipeline_array: "at" (for the properties) is the command's index in
\* instruction_array, none for a command that does not come from there.
none == -1
Command(kind, op, rd, rs, rt, imm, at) ==
    [inst |-> kind, op |-> op, rd |-> rd, rs |-> rs, rt |-> rt, imm |-> imm,
     link |-> 0, at |-> at]
DONE == Command("DONE", "none", -1, -1, -1, -1, none)
NOP(at) == Command("NOP", "none", 0, 0, 0, 0, at)
Entry(p, k) ==
    IF p[k].op = "nop" THEN NOP(k)
    ELSE Command("code", p[k].op, p[k].rd, p[k].rs, p[k].rt, p[k].imm, k)

ASSUME PipelineAssumption ==
    /\ \A p \in Programs : \E n \in 1 .. PCs :
            p \in [0 .. n - 1 -> Lines]
    /\ Memin \in [0 .. MemWords - 1 -> Int]
    /\ Latency \in Nat /\ Latency >= 2
    /\ Stale \subseteq BOOLEAN /\ Stale # {}
    /\ Leftover \subseteq Regs \X Int /\ Leftover # {}

VARIABLES
    program,            \* the instructions of the imem file
    instruction_array,
    pipeline_array,
    pc, halted, last_command,
    first,              \* first_command: the hazard at the start of the cycle
    stage,              \* the place in pipeline()
    btaken,             \* btaken == 1 of the command in the DECODE slot
    regs,               \* regout_array
    decode_buf, execute_buf, mem_buf,
    store,              \* the memory
    request             \* the core's transaction: cycles left, and a store's word

vars == <<program, instruction_array, pipeline_array, pc, halted, last_command,
          first, stage, btaken, regs, decode_buf, execute_buf, mem_buf, store,
          request>>

NoRequest == [left |-> 0, write |-> FALSE, addr |-> 0, val |-> 0]

Init ==
    /\ program \in Programs
    /\ instruction_array = [k \in DOMAIN program |-> Entry(program, k)]
    /\ pipeline_array = [i \in FETCH .. WB |-> NOP(none)]
    /\ pc = 0 /\ halted = FALSE /\ last_command = 0
    /\ first = 0 /\ stage = SHIFT /\ btaken = FALSE
    /\ regs = [r \in Regs |-> 0]
    /\ decode_buf = [rs |-> 0, rt |-> 0, rd |-> 0]
    /\ execute_buf = [result |-> 0, destination |-> 0, memory |-> FALSE, rd |-> 0]
    /\ mem_buf = [load_result |-> 0, destination |-> 0, address |-> 0]
    /\ store = Memin
    /\ request = NoRequest
-----------------------------------------------------------------------------
Code(i) == pipeline_array[i].inst = "code"
Idle(i) == pipeline_array[i].inst = "DONE"

\* Mutant of Conflict: nothing waits for a register it names as rd.
MutConflict(d, c) ==
    /\ d.op \in AluOps \cup BranchOps \cup MemOps
    /\ \/ c.op = "jal" /\ ra \in {d.rs, d.rt, d.rd}
       \/ WritesRd(c) /\ c.rd \in {d.rs, d.rt} \ {zero}

\* Must d, in DECODE, wait for c, further on?
Conflict(d, c) ==
    LET general == {d.rs, d.rt} \ {zero}
        withRd  == {d.rs, d.rt, d.rd} \ {zero}
        link    == c.op = "jal" /\ ra \in {d.rs, d.rt, d.rd}
    IN \/ /\ d.op \in AluOps \cup {"lw"}
          /\ link \/ (/\ WritesRd(c) \/ c.op = "jal"
                      /\ c.rd \in general)
       \/ /\ d.op \in BranchOps
          /\ link \/ (WritesRd(c) /\ c.rd \in withRd)
       \/ /\ d.op = "jal"
          /\ WritesRd(c) /\ c.rd = d.rd
       \/ /\ d.op = "sw"
          /\ link \/ (/\ WritesRd(c) \/ c.op = "jal"
                      /\ c.rd \in withRd)

\* The command on its way from DECODE has to wait: detect_raw_hazard.
RawHazard ==
    Code(DECODE) /\ \E i \in {EXEC, MEM} : Conflict(pipeline_array[DECODE], pipeline_array[i])

\* Mutant of Hazard: the pipeline does not wait for the bus.
MutHazard == IF RawHazard THEN EXEC ELSE 0

\* detect_hazard: EXEC, or WB while the bus serves this core, or none.
Hazard == IF request.left > 0 THEN WB ELSE IF RawHazard THEN EXEC ELSE 0

\* Mutant of After: the loop over the stages ends one too early.
MutAfter(i) == IF i > first + 1 THEN i - 1 ELSE AGAIN

\* Where the loop over the stages goes from stage i.
After(i) == IF i > first THEN i - 1 ELSE AGAIN

-----------------------------------------------------------------------------
\* The slot at the hazard is filled with nothing, or, at the front, with a
\* command to fetch into.
NewSlot(h) ==
    IF h > 0 \/ halted \/ pc \notin DOMAIN program THEN DONE ELSE NOP(none)

\* The slots from the hazard on advance.  The FETCH slot points into
\* instruction_array: nullify_command overwrites the entry.  copy_command
\* leaves btaken of the copy uninitialised.
Shift ==
    /\ stage = SHIFT
    /\ LET h == Hazard
           k == pipeline_array[FETCH].at
       IN /\ first' = h
          /\ pipeline_array' = [i \in FETCH .. WB |->
                IF i > h THEN pipeline_array[i - 1]
                ELSE IF i = h THEN NewSlot(h)
                ELSE pipeline_array[i]]
          /\ instruction_array' =
                IF h = 0 /\ NewSlot(h) = DONE /\ k # none
                THEN [instruction_array EXCEPT ![k] = DONE]
                ELSE instruction_array
          /\ IF h = 0 THEN btaken' \in Stale ELSE UNCHANGED btaken
          /\ stage' = IF last_command >= h THEN last_command ELSE AGAIN
    /\ UNCHANGED <<program, pc, halted, last_command, regs, decode_buf, execute_buf,
                   mem_buf, store, request>>

\* A slot that is DONE is passed over.
Skip ==
    /\ stage \in FETCH .. WB /\ Idle(stage)
    /\ stage' = After(stage)
    /\ UNCHANGED <<program, instruction_array, pipeline_array, pc, halted, last_command,
                   first, btaken, regs, decode_buf, execute_buf, mem_buf, store, request>>

writeback_state ==
    /\ stage = WB /\ ~Idle(WB)
    /\ LET com == pipeline_array[WB]
       IN regs' = CASE com.op \in AluOps ->
                            [regs EXCEPT ![mem_buf.destination] = Int_2_Hex(mem_buf.load_result)]
                    [] com.op = "jal" -> [regs EXCEPT ![ra] = Int_2_Hex(com.link)]
                    [] com.op = "lw" ->
                            [regs EXCEPT ![com.rd] = Int_2_Hex(store[mem_buf.address])]
                    [] OTHER -> regs
    /\ stage' = After(WB)
    /\ UNCHANGED <<program, instruction_array, pipeline_array, pc, halted, last_command,
                   first, btaken, decode_buf, execute_buf, mem_buf, store, request>>

\* A load or a store hits and takes effect, or misses and waits for the bus.
memory_state ==
    /\ stage = MEM /\ ~Idle(MEM)
    /\ LET op == pipeline_array[MEM].op
           a  == Address(execute_buf.result)
           load  == execute_buf.memory /\ op = "lw"
           write == execute_buf.memory /\ op = "sw"
           Buffer(v) == [load_result |-> v, destination |-> execute_buf.destination,
                         address |-> a]
       IN \/ /\ mem_buf' = Buffer(IF ~execute_buf.memory THEN execute_buf.result
                                  ELSE IF load THEN store[a] ELSE mem_buf.load_result)
             /\ store' = IF write THEN [store EXCEPT ![a] = execute_buf.rd] ELSE store
             /\ UNCHANGED request
          \/ /\ load \/ write
             /\ mem_buf' = Buffer(mem_buf.load_result)
             /\ \E n \in 2 .. Latency :
                    request' = [left |-> n, write |-> write, addr |-> a,
                                val |-> execute_buf.rd]
             /\ UNCHANGED store
    /\ stage' = After(MEM)
    /\ UNCHANGED <<program, instruction_array, pipeline_array, pc, halted, last_command,
                   first, btaken, regs, decode_buf, execute_buf>>

\* HALT returns before the buffer is written.
execute ==
    /\ stage = EXEC /\ ~Idle(EXEC)
    /\ LET com == pipeline_array[EXEC]
       IN execute_buf' =
            IF com.op = "halt" THEN execute_buf
            ELSE [result |-> Result(com.op, decode_buf.rs, decode_buf.rt),
                  destination |-> com.rd,
                  memory |-> com.op \in MemOps,
                  rd |-> decode_buf.rd]
    /\ stage' = After(EXEC)
    /\ UNCHANGED <<program, instruction_array, pipeline_array, pc, halted, last_command,
                   first, btaken, regs, decode_buf, mem_buf, store, request>>

\* BuildCommand: the command of the DECODE slot from its text.  A line that the imem
\* file does not have is "NOP", whose digits are those of an add.
BuildCommand(com) ==
    IF com.inst = "code" THEN {com}
    ELSE {[com EXCEPT !.op = "add", !.rt = g[1], !.imm = g[2]] : g \in Leftover}

\* The rest of decode: the register file is read, unless the command has to wait.
ReadOperands(com) ==
    LET now == [regs EXCEPT ![immReg] = Int_2_Hex(com.imm)]
        Val(r) == Hex_2_Int_2s_Comp(now[r])
    IN /\ regs' = now
       /\ IF RawHazard
          THEN /\ pipeline_array' = [pipeline_array EXCEPT ![DECODE] = com]
               /\ UNCHANGED <<decode_buf, btaken, halted>>
          ELSE /\ decode_buf' = [rs |-> Val(com.rs), rt |-> Val(com.rt), rd |-> Val(com.rd)]
               /\ pipeline_array' = [pipeline_array EXCEPT ![DECODE] =
                        [com EXCEPT !.link = IF com.op = "jal" THEN pc - 1 ELSE @]]
               /\ btaken' = IF com.op \in {"ll", "sc"} THEN btaken
                            ELSE Taken(com.op, Val(com.rs), Val(com.rt))
               /\ halted' = (halted \/ com.op = "halt")

\* decode, from the loop over the stages and once more at the end of it.
decode == \E com \in BuildCommand(pipeline_array[DECODE]) : ReadOperands(com)

Decode ==
    /\ stage = DECODE /\ ~Idle(DECODE)
    /\ decode
    /\ stage' = After(DECODE)
    /\ UNCHANGED <<program, instruction_array, pc, last_command, first, execute_buf,
                   mem_buf, store, request>>

fetch_instruction ==
    /\ stage = FETCH /\ ~Idle(FETCH)
    /\ pipeline_array' = [pipeline_array EXCEPT ![FETCH] = instruction_array[pc]]
    /\ pc' = pc + 1
    /\ stage' = After(FETCH)
    /\ UNCHANGED <<program, instruction_array, halted, last_command, first, btaken, regs,
                   decode_buf, execute_buf, mem_buf, store, request>>

\* Mutant of DecodeAgain: the DECODE slot is decoded once.
MutDecodeAgain ==
    /\ stage = AGAIN
    /\ stage' = END
    /\ UNCHANGED <<program, instruction_array, pipeline_array, pc, halted, last_command,
                   first, btaken, regs, decode_buf, execute_buf, mem_buf, store, request>>

DecodeAgain ==
    /\ stage = AGAIN
    /\ IF Code(DECODE) THEN decode
       ELSE UNCHANGED <<pipeline_array, regs, decode_buf, btaken, halted>>
    /\ stage' = END
    /\ UNCHANGED <<program, instruction_array, pc, last_command, first, execute_buf,
                   mem_buf, store, request>>

\* Mutants of finished: one slot less; slots that have not been filled.
MutFinished == \A i \in FETCH .. EXEC : Idle(i)
MutFinishedNop == \A i \in FETCH .. MEM : pipeline_array[i].inst = "NOP"

finished == \A i \in FETCH .. MEM : Idle(i)

\* The end of pipeline(), whose result simulate_cores assigns to halted, and the
\* step of snoop_bus that follows in the same cycle.
EndCycle ==
    /\ stage = END
    /\ last_command' = IF last_command < WB THEN last_command + 1 ELSE last_command
    /\ pc' = IF btaken THEN Target(decode_buf.rd) ELSE pc
    /\ halted' = finished
    /\ IF request.left > 0
       THEN /\ request' = IF request.left > 1 THEN [request EXCEPT !.left = @ - 1]
                          ELSE NoRequest
            /\ store' = IF request.left = 1 /\ request.write
                        THEN [store EXCEPT ![request.addr] = request.val] ELSE store
       ELSE UNCHANGED <<request, store>>
    /\ stage' = SHIFT
    /\ UNCHANGED <<program, instruction_array, pipeline_array, first, btaken, regs,
                   decode_buf, execute_buf, mem_buf>>

Next ==
    \/ Shift \/ Skip \/ writeback_state \/ memory_state \/ execute
    \/ Decode \/ fetch_instruction \/ DecodeAgain \/ EndCycle

Spec == Init /\ [][Next]_vars
FairSpec == Spec /\ WF_vars(Next)
-----------------------------------------------------------------------------
Commands ==
    {c \in [inst : {"DONE", "NOP", "code"}, op : Ops \cup {"none"}, rd : Int, rs : Int,
            rt : Int, imm : Int, link : Int, at : Int] :
        /\ c.inst # "DONE" => {c.rd, c.rs, c.rt} \subseteq Regs
        /\ c.inst = "code" => c.op \in Ops
        /\ c.inst = "DONE" => c.op = "none"}

Operand == -Modulus .. Modulus

\* Every variable holds what its C counterpart can hold.
TypeOK ==
    /\ program \in Programs
    /\ instruction_array \in [DOMAIN program -> Commands]
    /\ pipeline_array \in [FETCH .. WB -> Commands]
    /\ pc \in Nat /\ halted \in BOOLEAN /\ last_command \in FETCH .. WB
    /\ first \in {0, EXEC, WB} /\ stage \in END .. SHIFT
    /\ stage \in FETCH .. WB => stage \in first .. last_command
    /\ btaken \in BOOLEAN
    /\ regs \in [Regs -> Word]
    /\ decode_buf \in [rs : Operand, rt : Operand, rd : Operand]
    /\ execute_buf \in [result : Int, destination : Regs, memory : BOOLEAN, rd : Operand]
    /\ mem_buf \in [load_result : Int, destination : Regs, address : 0 .. MemWords - 1]
    /\ store \in [0 .. MemWords - 1 -> Int]
    /\ request \in [left : 0 .. Latency, write : BOOLEAN, addr : 0 .. MemWords - 1, val : Int]

\* The value of register r for command com.
Value(com, r) == Hex_2_Int_2s_Comp(IF r = immReg THEN Int_2_Hex(com.imm) ELSE regs[r])

\* detect_raw_hazard protects all operands but $zero, and a jump to $ra.
Protected(com) == Reads(com) \ ({zero} \cup IF com.op = "jal" THEN {ra} ELSE {})

\* decode reads registers before older instructions have written theirs, and reads
\* them again each cycle (state_machine.c:242, pipeline.c:149).  When a command
\* is executed its operands are those of the register file, and the
\* only older instruction that has not been written back does not write them.
OperandsCurrent ==
    stage = EXEC /\ Code(EXEC) =>
        LET com == pipeline_array[EXEC]
        IN \A f \in {"rs", "rt", "rd"} :
            com[f] \in Protected(com) =>
                /\ decode_buf[f] = Value(com, com[f])
                /\ com[f] # immReg => com[f] \notin Writes(pipeline_array[MEM])
=============================================================================
