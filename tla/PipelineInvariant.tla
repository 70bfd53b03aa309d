------------------------- MODULE PipelineInvariant -------------------------
(***************************************************************************)
(* What the pipeline keeps between the stages, so that an instruction gets *)
(* its operands and its result gets to its register.                       *)
(***************************************************************************)
EXTENDS Pipeline

Active(i) == pipeline_array[i].op \notin {"none", "halt"}

\* The stage of the command in slot i has been run for it.
Ran(i) == stage = SHIFT \/ i < first \/ stage < i

\* A slot at the front that is to be fetched into has an instruction to fetch.
Fetchable ==
    stage \in FETCH .. WB /\ first = 0 /\ ~Idle(FETCH) => pc \in DOMAIN program

\* The loop over the stages has got to every slot with a command in it.
Reached ==
    \A i \in FETCH .. WB : pipeline_array[i].op # "none" =>
        \/ i < last_command
        \/ i = last_command /\ (stage # SHIFT \/ i = WB)

\* The buffers belong to the command that filled them, until the next one does.
ExecuteBufOf(i) ==
    /\ execute_buf.destination = pipeline_array[i].rd
    /\ execute_buf.memory = (pipeline_array[i].op \in MemOps)
Buffers ==
    /\ Ran(EXEC) /\ Active(EXEC) => ExecuteBufOf(EXEC)
    /\ ~Ran(MEM) /\ Active(MEM) => ExecuteBufOf(MEM)
    /\ Ran(MEM) /\ WritesRd(pipeline_array[MEM]) =>
            mem_buf.destination = pipeline_array[MEM].rd
    /\ ~Ran(WB) /\ WritesRd(pipeline_array[WB]) =>
            mem_buf.destination = pipeline_array[WB].rd

\* The DECODE slot has been decoded once more at the end of the cycle.
Decoded ==
    stage \in {END, SHIFT} /\ Code(DECODE) /\ ~RawHazard =>
        \A f \in {"rs", "rt", "rd"} :
            decode_buf[f] = Value(pipeline_array[DECODE], pipeline_array[DECODE][f])

\* Nothing on its way past the command that has left DECODE writes what it read.
Undisturbed ==
    stage \in EXEC .. WB /\ first = 0 /\ Code(EXEC) =>
        LET com == pipeline_array[EXEC]
        IN \A f \in {"rs", "rt", "rd"} :
            com[f] \in Protected(com) =>
                /\ decode_buf[f] = Value(com, com[f])
                /\ com[f] # immReg => com[f] \notin Writes(pipeline_array[MEM])
                /\ com[f] # immReg /\ stage = WB => com[f] \notin Writes(pipeline_array[WB])

Stalled == stage # SHIFT /\ first = EXEC => Idle(EXEC)

\* The inductive invariant.
IInv == TypeOK /\ Fetchable /\ Reached /\ Buffers /\ Decoded /\ Undisturbed /\ Stalled
=============================================================================
