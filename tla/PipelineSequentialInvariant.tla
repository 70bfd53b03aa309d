-------------------- MODULE PipelineSequentialInvariant --------------------
(***************************************************************************)
(* Why the pipeline executes its program one instruction after the other:  *)
(* which instructions are in its slots, what comes after each of them, and *)
(* what the buffers know of them.                                          *)
(***************************************************************************)
EXTENDS PipelineSequential, PipelineInvariant

\* The programs that the pipeline executes as its assembler programmer expects: a jump
\* is followed by an instruction that is none, nobody writes $zero or jumps
\* to $ra by JAL, and calls are not mixed with accesses to memory.
IsJump(i) == i.op \in BranchOps \cup {"jal"}
Regular(p) ==
    /\ \A k \in DOMAIN p : IsJump(p[k]) => k + 1 \in DOMAIN p /\ ~IsJump(p[k + 1])
    /\ \A k \in DOMAIN p : WritesRd(p[k]) => p[k].rd # zero
    /\ \A k \in DOMAIN p : p[k].op = "jal" => p[k].rd # ra
    /\ \A j, k \in DOMAIN p : ~(p[j].op = "jal" /\ p[k].op \in MemOps)

\* What the theorems assume besides: no uninitialised btaken is found to be set, and
\* a blank line adds zero to $zero.
Executable ==
    /\ \A p \in Programs : Regular(p)
    /\ Stale = {FALSE}
    /\ \A g \in Leftover : g[1] = zero
    /\ Compute("add", 0, 0) = 0

Slot(i) == pipeline_array[i]
Jump(i) == IsJump(Slot(i))

\* What an instruction computes from the registers as they are.
Computed(com) == Result(com.op, Value(com, com.rs), Value(com, com.rt))
Going(i) == Taken(Slot(i).op, Value(Slot(i), Slot(i).rs), Value(Slot(i), Slot(i).rt))
Destination(i) == Target(Value(Slot(i), Slot(i).rd))

-----------------------------------------------------------------------------
\* A slot holds a line of the program, a blank one as the add that decode makes of
\* it, or nothing.
Blanks(i) == IF i > DECODE THEN {"add"} ELSE {"none", "add"}
HoldsLine(i) ==
    LET com  == Slot(i)
        line == program[com.at]
    IN IF Live(i)
       THEN /\ com.at \in DOMAIN program
            /\ IF line.op = "nop"
               THEN com.inst = "NOP" /\ com.op \in Blanks(i) /\ {com.rd, com.rs, com.rt} = {zero}
               ELSE /\ com.inst = "code" /\ com.op = line.op /\ com.imm = line.imm
                    /\ com.rd = line.rd /\ com.rs = line.rs /\ com.rt = line.rt
       ELSE com.inst # "code" /\ com.op = "none"
HoldLines == \A i \in FETCH .. WB : HoldsLine(i)

\* The slots that are decoded have been filled.
Empty(i) == ~Live(i) /\ ~Idle(i)
Filled ==
    /\ last_command = 0 /\ stage = SHIFT => Empty(FETCH)
    /\ last_command > 0 \/ stage # SHIFT =>
            (stage \in FETCH .. WB /\ first = 0) \/ ~Empty(FETCH)
    /\ last_command > 1 \/ (last_command = 1 /\ stage # SHIFT) => ~Empty(DECODE)

\* Nothing is fetched any more when pc has left the program, and no jump is left that
\* could lead back: nullify_command overwrites instructions only then.
Fetching ==
    /\ first = 0 /\ stage \in FETCH .. WB => ~Live(FETCH)
    /\ Idle(FETCH) => pc \notin DOMAIN program /\ ~Jump(DECODE)
    /\ Idle(FETCH) \/ instruction_array = [k \in DOMAIN program |-> Entry(program, k)]
    /\ stage = SHIFT /\ halted => finished

\* A jump is decided when it has been decoded with its operands, and has set pc from
\* the end of that cycle on.
Resolved == stage \in {END, SHIFT} \/ first = WB
Jumped == btaken /\ (stage = SHIFT \/ first = WB)
Branching ==
    /\ btaken => Code(DECODE) /\ Jump(DECODE) /\ ~RawHazard
    /\ Resolved /\ Code(DECODE) /\ ~RawHazard => (btaken <=> Going(DECODE))

\* The instruction after the next one is that after it, or where a jump goes to.
Follows(i) ==
    Pending(i) => NextNpc(i) = IF Going(i) THEN Destination(i) ELSE NextPc(i) + 1
Order ==
    /\ Jump(FETCH) => pc = Slot(FETCH).at + 1
    /\ Jump(DECODE) => NextPc(DECODE) = Slot(DECODE).at + 1
    /\ Live(DECODE) /\ Live(FETCH) =>
            pc = IF Jumped THEN Destination(DECODE) ELSE Slot(FETCH).at + 1
    /\ \A i \in EXEC .. WB : Follows(i)

\* No instruction ahead of another one is going to write what that one has read.
Clear ==
    \A i \in {EXEC, MEM} : \A j \in i + 1 .. WB :
        Code(i) /\ (j = WB => stage = WB) =>
            Protected(Slot(i)) \cap Writes(Slot(j)) \subseteq {immReg}

\* The buffers hold what the instructions read and compute.
DecodeBuf ==
    /\ Live(DECODE) /\ ~Code(DECODE) /\ Ran(DECODE) =>
            Slot(DECODE).op = "add" /\ decode_buf = [rs |-> 0, rt |-> 0, rd |-> 0]
    /\ Live(EXEC) /\ first = 0 /\ stage \in EXEC .. WB =>
            \A f \in {"rs", "rt", "rd"} :
                Slot(EXEC)[f] \in Reads(Slot(EXEC)) =>
                    decode_buf[f] = Value(Slot(EXEC), Slot(EXEC)[f])
ExecuteBuf(i) ==
    /\ Slot(i).op \in AluOps \cup MemOps => execute_buf.result = Computed(Slot(i))
    /\ Slot(i).op = "sw" => execute_buf.rd = Value(Slot(i), Slot(i).rd)
MemBuf(i) ==
    /\ Slot(i).op \in AluOps => mem_buf.load_result = Computed(Slot(i))
    /\ Slot(i).op = "lw" => mem_buf.address = Address(Computed(Slot(i)))
Contents ==
    /\ DecodeBuf
    /\ Ran(EXEC) => ExecuteBuf(EXEC)
    /\ ~Ran(MEM) => ExecuteBuf(MEM)
    /\ Ran(MEM) => MemBuf(MEM)
    /\ ~Ran(WB) => MemBuf(WB)

\* The bus serves the instruction in MEM, for which the pipeline waits.
Waiting ==
    /\ request.left > 0 =>
            /\ Slot(MEM).op \in MemOps
            /\ request.write = (Slot(MEM).op = "sw")
            /\ request.write => /\ request.addr = Address(Computed(Slot(MEM)))
                                /\ request.val = Value(Slot(MEM), Slot(MEM).rd)
            /\ stage \in {MEM, WB} => first = WB
    /\ first = WB /\ stage # SHIFT =>
            Idle(WB) /\ request.left > 0 /\ stage \in {WB, AGAIN, END}

\* A call's link is the address after its own.
Links(i) == Slot(i).op = "jal" => Slot(i).link = Slot(i).at + 1
Linked ==
    /\ \A i \in EXEC .. WB : Links(i)
    /\ stage \in {END, SHIFT} /\ ~RawHazard => Links(DECODE)

\* The inductive invariant of the refinement.
SequentialInv ==
    /\ Regular(program) /\ regs[zero] = 0
    /\ HoldLines /\ Filled /\ Fetching /\ Branching /\ Order /\ Clear /\ Contents
    /\ Waiting /\ Linked
=============================================================================
