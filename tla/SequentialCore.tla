--------------------------- MODULE SequentialCore ---------------------------
(***************************************************************************)
(* What a core promises to its program: the instructions take effect one   *)
(* after the other, a taken branch after the instruction that follows it.  *)
(***************************************************************************)
EXTENDS InstructionSet

CONSTANTS Programs, Memin

VARIABLES
    program,  \* the instructions
    pc, npc,  \* the next instruction to take effect, and the one after it
    regs,     \* the registers except the immediate
    store     \* the memory

vars == <<program, pc, npc, regs, store>>

General == Regs \ {immReg}

Init ==
    /\ program \in Programs
    /\ pc = 0 /\ npc = 1
    /\ regs = [r \in General |-> 0]
    /\ store = Memin

\* Register immReg reads as the immediate of the instruction that reads it.
Read(i, r) == Hex_2_Int_2s_Comp(IF r = immReg THEN Int_2_Hex(i.imm) ELSE regs[r])

\* The value an instruction leaves in the register it writes.
Written(i) ==
    LET s == Read(i, i.rs)
        t == Read(i, i.rt)
    IN CASE i.op = "jal" -> Int_2_Hex(pc + 1)
         [] i.op = "lw"  -> Int_2_Hex(store[Address(s + t)])
         [] OTHER        -> Int_2_Hex(Result(i.op, s, t))

Step ==
    /\ pc \in DOMAIN program
    /\ LET i == program[pc]
           s == Read(i, i.rs)
           t == Read(i, i.rt)
       IN /\ regs' = [r \in General |-> IF r \in Writes(i) THEN Written(i) ELSE regs[r]]
          /\ store' = IF i.op = "sw"
                      THEN [store EXCEPT ![Address(s + t)] = Read(i, i.rd)]
                      ELSE store
          /\ npc' = IF Taken(i.op, s, t) THEN Target(Read(i, i.rd)) ELSE npc + 1
    /\ pc' = npc
    /\ UNCHANGED program

Spec == Init /\ [][Step]_vars

\* The program is executed up to its end.
Fairness == WF_vars(Step)
=============================================================================
