----------------------------- MODULE MCPipeline -----------------------------
(***************************************************************************)
(* Small programs for TLC.                                                 *)
(***************************************************************************)
EXTENDS PipelineSequentialInvariant

CONSTANT Sizes      \* lengths of the programs

I(op, rd, rs, rt, imm) == [op |-> op, rd |-> rd, rs |-> rs, rt |-> rt, imm |-> imm]

\* Registers 2 and 3 are computed, stored, loaded, compared and jumped to.
Alu3 == {I("add", 2, 2, 1, 1), I("sub", 3, 2, 3, 0)}
Mem3 == {I("lw", 2, 2, 1, 0), I("lw", 3, 0, 1, 1), I("sw", 2, 3, 1, 1), I("sw", 3, 2, 0, 0)}
Branch3 == {I("beq", 1, 2, 3, 0), I("bne", 1, 2, 0, 1), I("blt", 3, 0, 2, 0), I("beq", 15, 0, 0, 0)}
Jal3 == {I("jal", 1, 0, 0, 1), I("jal", 2, 0, 0, 0)}

Long == {I("add", 2, 2, 1, 1), I("sub", 3, 2, 3, 0), I("lw", 2, 2, 1, 0), I("sw", 2, 3, 1, 1),
         I("bne", 1, 2, 0, 1)}
Halt == I("halt", 0, 0, 0, 0)

Jumps(p) == {k \in DOMAIN p : p[k].op \in BranchOps \cup {"jal"}}

\* A jump is followed by an instruction that is none.
DelaySlots(p) == \A k \in Jumps(p) : k + 1 \in DOMAIN p \ Jumps(p)

Up(set) == UNION {[0 .. n - 1 -> set] : n \in Sizes}

\* Calls and memory accesses are not mixed: LinkIsNext is about what happens then.
McPrograms ==
    {p \in Up(Alu3 \cup Mem3 \cup Branch3) \cup Up(Alu3 \cup Branch3 \cup Jal3) :
        DelaySlots(p)}
    \cup {p \in [0 .. 2 -> Alu3 \cup Branch3 \cup {Halt, Blank}] :
            DelaySlots(p) /\ p[0] # Blank /\ (p[1] = Blank => p[2] = Blank)}
    \cup {p \in [0 .. 3 -> Long] : DelaySlots(p)}

LinkPrograms == {p \in [0 .. 3 -> Alu3 \cup Mem3 \cup Jal3] : DelaySlots(p)}

McMemin == [a \in 0 .. MemWords - 1 |-> a]

McLeftover == {<<0, 0>>}

McCompute(op, s, t) == IF op = "add" THEN s + t ELSE s - t
=============================================================================
