------------------------- MODULE PipelineSequential -------------------------
(***************************************************************************)
(* What the pipeline of one core is for: it executes its program as if the *)
(* instructions were executed one by one.                                  *)
(***************************************************************************)
EXTENDS Pipeline

Live(i) == pipeline_array[i].at # none

\* The command in the MEM or WB slot has not taken effect on registers and memory:
\* a store does in MEM or when its miss is over, all others at write-back.
Pending(i) ==
    /\ Live(i)
    /\ \/ i < MEM
       \/ i = MEM /\ pipeline_array[MEM].op # "sw"
       \/ i = MEM /\ (stage \in {MEM, WB} \/ request.left > 0)
       \/ i = WB /\ stage = WB /\ pipeline_array[WB].op # "sw"

\* The instructions that have yet to take effect, the oldest first, are those of the
\* pending slots, as far as they are fetched, and then those from pc on.
InFlight(n) == \E i \in FETCH .. n - 1 : Pending(i)
Oldest(n) ==
    CHOOSE i \in FETCH .. n - 1 : Pending(i) /\ \A j \in i + 1 .. n - 1 : ~Pending(j)

\* The first and the second of them, leaving out those from slot n on.
NextPc(n)  == IF InFlight(n) THEN pipeline_array[Oldest(n)].at ELSE pc
NextNpc(n) == IF InFlight(n) THEN NextPc(Oldest(n)) ELSE pc + 1

Core == INSTANCE SequentialCore WITH
            pc   <- NextPc(WB + 1),
            npc  <- NextNpc(WB + 1),
            regs <- [r \in Regs \ {immReg} |-> regs[r]]

\* Stalls, bubbles, the delay slot, misses and the sharing of the buffers are
\* invisible: registers and memory change as by one instruction after the other ...
ImplementsSequential == Core!Spec

\* ... as long as there is one.
KeepsExecuting == Core!Fairness

Over == NextPc(WB + 1) \notin DOMAIN program

\* finished() looks at four of the five slots and at no register or bus: a core is
\* found halted only when its program has taken effect as a whole ...
HaltedIsOver == stage = SHIFT /\ halted => Over

\* ... and when it has, the core is found halted: halted is also assigned by
\* decode of HALT and overwritten by simulate_cores.
OverIsHalted == Over ~> stage = SHIFT /\ halted

\* The slot of the next instruction to take effect, if only the one to be fetched into.
Front ==
    IF InFlight(WB + 1) THEN Oldest(WB + 1)
    ELSE IF stage = SHIFT THEN FETCH - 1 ELSE FETCH

\* How many more cycles it takes at most to take effect: a slot a cycle, and a miss.
CyclesToEffect ==
    IF request.left > 0 THEN request.left
    ELSE (IF stage = SHIFT THEN MEM ELSE WB) - Front
         + (IF Front < MEM \/ (Front = MEM /\ stage \in {MEM, WB}) THEN Latency ELSE 0)

\* How many more cycles the slots in front of WB take to be passed over.
Tail ==
    IF finished THEN WB
    ELSE CHOOSE i \in FETCH .. MEM : ~Idle(i) /\ \A j \in FETCH .. i - 1 : Idle(j)
CyclesToDrain == IF stage = SHIFT /\ Tail < WB THEN MEM - Tail ELSE WB - Tail

\* The steps that are left, of the eight at most that a cycle has.
StepsLeft ==
    8 * (IF Over THEN CyclesToDrain ELSE CyclesToEffect) + (stage - END)

\* Every step of a stage has an instruction take effect, ends the last cycle, or leaves
\* fewer steps until one of these: no hazard and no miss holds the pipeline for good.
ExecutionAdvances ==
    [][Core!Step \/ (stage' = SHIFT /\ halted') \/ StepsLeft' < StepsLeft]_vars

\* "Store the return address (PC + 1) into the link register"
\* (state_machine.c:531).
LinkIsNext ==
    stage = WB /\ Code(WB) /\ pipeline_array[WB].op = "jal" =>
        pipeline_array[WB].link = pipeline_array[WB].at + 1
=============================================================================
