---------------------- MODULE PipelineSequentialProofs ----------------------
(***************************************************************************)
(* The pipeline executes its program as if the instructions were executed  *)
(* one by one: for every regular program, ALU and memory latency.          *)
(***************************************************************************)
EXTENDS PipelineSequentialInvariant, PipelineProofs

USE DEF zero, immReg, ra, FETCH, DECODE, EXEC, MEM, WB, SHIFT, AGAIN, END, none

\* From the front: what a pending slot adds to the instructions in flight.
Flight ==
    /\ NextPc(0) = pc /\ NextNpc(0) = pc + 1
    /\ NextPc(1) = IF Pending(0) THEN Slot(0).at ELSE pc
    /\ NextNpc(1) = IF Pending(0) THEN pc ELSE pc + 1
    /\ NextPc(2) = IF Pending(1) THEN Slot(1).at ELSE NextPc(1)
    /\ NextNpc(2) = IF Pending(1) THEN NextPc(1) ELSE NextNpc(1)
    /\ NextPc(3) = IF Pending(2) THEN Slot(2).at ELSE NextPc(2)
    /\ NextNpc(3) = IF Pending(2) THEN NextPc(2) ELSE NextNpc(2)
    /\ NextPc(4) = IF Pending(3) THEN Slot(3).at ELSE NextPc(3)
    /\ NextNpc(4) = IF Pending(3) THEN NextPc(3) ELSE NextNpc(3)
    /\ NextPc(5) = IF Pending(4) THEN Slot(4).at ELSE NextPc(4)
    /\ NextNpc(5) = IF Pending(4) THEN NextPc(4) ELSE NextNpc(4)

LEMMA FlightNow == Flight
<1> DEFINE Top(n, i) ==
        i \in 0 .. n - 1 /\ Pending(i) /\ \A j \in i + 1 .. n - 1 : ~Pending(j)
<1>1. \A n \in 0 .. 5 : \A i : Top(n, i) => InFlight(n) /\ Oldest(n) = i
  <2> SUFFICES ASSUME NEW n \in 0 .. 5, NEW i, Top(n, i) PROVE InFlight(n) /\ Oldest(n) = i
    OBVIOUS
  <2>1. InFlight(n)
    BY DEF InFlight
  <2>2. \A k : Top(n, k) => k = i
    OBVIOUS
  <2>3. Oldest(n) = CHOOSE k \in 0 .. n - 1 :
                        Pending(k) /\ \A j \in k + 1 .. n - 1 : ~Pending(j)
    BY DEF Oldest
  <2>4. Top(n, Oldest(n))
    BY <2>3
  <2> QED
    BY <2>1, <2>2, <2>4
<1>2. \A n \in 0 .. 4 : Pending(n) => Top(n + 1, n)
  OBVIOUS
<1>3. \A n \in 0 .. 4 : \A i : ~Pending(n) => (Top(n + 1, i) <=> Top(n, i))
  OBVIOUS
<1>4. \A n \in 0 .. 5 : InFlight(n) => \E i : Top(n, i)
  <2>1. ~InFlight(0)
    BY DEF InFlight
  <2>2. ASSUME NEW n \in 0 .. 4, InFlight(n) => \E i : Top(n, i), InFlight(n + 1)
        PROVE  \E i : Top(n + 1, i)
    <3>1. CASE Pending(n)
      BY <1>2, <3>1
    <3>2. CASE ~Pending(n)
      <4>1. InFlight(n)
        BY <2>2, <3>2 DEF InFlight
      <4> QED
        BY <1>3, <2>2, <3>2, <4>1
    <3> QED
      BY <3>1, <3>2
  <2> HIDE DEF Top
  <2> DEFINE P(n) == InFlight(n) => \E i : Top(n, i)
  <2>3. P(0) /\ \A n \in 0 .. 4 : P(n) => P(n + 1)
    BY <2>1, <2>2
  <2> HIDE DEF P
  <2>4. P(0) /\ P(1) /\ P(2) /\ P(3) /\ P(4) /\ P(5)
    BY <2>3, 0 + 1 = 1, 1 + 1 = 2, 2 + 1 = 3, 3 + 1 = 4, 4 + 1 = 5
  <2>5. \A n \in 0 .. 5 : P(n)
    BY <2>4
  <2> QED
    BY <2>5 DEF P
<1>5. ASSUME NEW n \in 0 .. 4, Pending(n)
      PROVE  NextPc(n + 1) = Slot(n).at /\ NextNpc(n + 1) = NextPc(n)
  <2>1. InFlight(n + 1) /\ Oldest(n + 1) = n
    BY <1>1, <1>2, <1>5
  <2> QED
    BY <2>1 DEF NextPc, NextNpc, Slot
<1>6. ASSUME NEW n \in 0 .. 4, ~Pending(n)
      PROVE  NextPc(n + 1) = NextPc(n) /\ NextNpc(n + 1) = NextNpc(n)
  <2>1. CASE InFlight(n)
    <3>1. PICK i : Top(n, i)
      BY <1>4, <2>1
    <3>2. Top(n + 1, i)
      BY <1>3, <1>6, <3>1
    <3>3. Oldest(n) = i /\ InFlight(n + 1) /\ Oldest(n + 1) = i
      BY <1>1, <3>1, <3>2
    <3> QED
      BY <2>1, <3>3 DEF NextPc, NextNpc
  <2>2. CASE ~InFlight(n)
    <3>1. ~InFlight(n + 1)
      BY <1>6, <2>2 DEF InFlight
    <3> QED
      BY <2>2, <3>1 DEF NextPc, NextNpc
  <2> QED
    BY <2>1, <2>2
<1>7. NextPc(0) = pc /\ NextNpc(0) = pc + 1
  BY DEF NextPc, NextNpc, InFlight
<1> QED
  BY <1>5, <1>6, <1>7, 0 + 1 = 1, 1 + 1 = 2, 2 + 1 = 3, 3 + 1 = 4, 4 + 1 = 5 DEF Flight

LEMMA FlightNext == Flight'
BY FlightNow, PTL

\* Slots that stay what they are, up to slot m.
LEMMA FlightKept ==
    ASSUME pc' = pc, NEW m \in 0 .. 5,
           \A i \in 0 .. m - 1 : /\ Pending(i)' <=> Pending(i)
                                 /\ Pending(i) => pipeline_array'[i].at = pipeline_array[i].at
    PROVE  \A n \in 0 .. m : NextPc(n)' = NextPc(n) /\ NextNpc(n)' = NextNpc(n)
<1> DEFINE S(n) == NextPc(n)' = NextPc(n) /\ NextNpc(n)' = NextNpc(n)
           K(i) == (Pending(i)' <=> Pending(i)) /\ (Pending(i) => Slot(i)'.at = Slot(i).at)
<1>1. \A i \in 0 .. m - 1 : K(i)
  BY DEF Slot
<1> HIDE DEF K
<1>2. m >= 1 => K(0)
  BY <1>1
<1>3. m >= 2 => K(1)
  BY <1>1
<1>4. m >= 3 => K(2)
  BY <1>1
<1>5. m >= 4 => K(3)
  BY <1>1
<1>6. m >= 5 => K(4)
  BY <1>1
<1>7. S(0) /\ (K(0) => S(1))
  BY FlightNow, FlightNext DEF Flight, K
<1>8. /\ K(1) /\ S(1) => S(2)
      /\ K(2) /\ S(2) => S(3)
      /\ K(3) /\ S(3) => S(4)
      /\ K(4) /\ S(4) => S(5)
  BY FlightNow, FlightNext DEF Flight, K
<1> HIDE DEF S
<1>9. /\ m >= 1 => S(1)
      /\ m >= 2 => S(2)
      /\ m >= 3 => S(3)
      /\ m >= 4 => S(4)
      /\ m >= 5 => S(5)
  BY <1>2, <1>3, <1>4, <1>5, <1>6, <1>7, <1>8
<1>10. \A n \in 0 .. m : S(n)
  BY <1>7, <1>9
<1> QED
  BY <1>10 DEF S

-----------------------------------------------------------------------------
(***************************************************************************)
(* What the steps do to the slots and to the values that instructions read. *)
(***************************************************************************)

\* Slot j holds after the step what slot i held before, and reads the same values.
Carried(i, j) ==
    /\ \A f \in {"inst", "op", "at", "rd", "rs", "rt", "imm"} : Slot(j)'[f] = Slot(i)[f]
    /\ \A f \in {"rd", "rs", "rt"} : Slot(i)[f] \in Reads(Slot(i)) =>
            Value(Slot(j), Slot(j)[f])' = Value(Slot(i), Slot(i)[f])

\* What is carried computes, and jumps to, the same.
LEMMA CarriedKeeps ==
    ASSUME NEW i, NEW j, Carried(i, j)
    PROVE  /\ Jump(j)' <=> Jump(i)
           /\ Code(j)' <=> Code(i)
           /\ Live(j)' <=> Live(i)
           /\ Idle(j)' <=> Idle(i)
           /\ Going(j)' <=> Going(i)
           /\ Jump(i) => Destination(j)' = Destination(i)
           /\ Slot(i).op \in AluOps \cup MemOps => Computed(Slot(j))' = Computed(Slot(i))
           /\ Slot(i).op = "sw" => Value(Slot(j), Slot(j).rd)' = Value(Slot(i), Slot(i).rd)
<1> DEFINE c == Slot(i)
<1>1. /\ Slot(j)'.inst = c.inst /\ Slot(j)'.op = c.op /\ Slot(j)'.at = c.at
      /\ Slot(j)'.rd = c.rd /\ Slot(j)'.rs = c.rs /\ Slot(j)'.rt = c.rt
      /\ Slot(j)'.imm = c.imm
    BY DEF Carried
<1>2. /\ c.rd \in Reads(c) => Value(Slot(j), Slot(j).rd)' = Value(c, c.rd)
      /\ c.rs \in Reads(c) => Value(Slot(j), Slot(j).rs)' = Value(c, c.rs)
      /\ c.rt \in Reads(c) => Value(Slot(j), Slot(j).rt)' = Value(c, c.rt)
    BY DEF Carried
<1>3. /\ c.op \in AluOps \cup MemOps \cup BranchOps => c.rs \in Reads(c) /\ c.rt \in Reads(c)
      /\ c.op \in BranchOps \cup {"sw", "jal"} => c.rd \in Reads(c)
    BY DEF Reads, AluOps, MemOps, BranchOps
<1>4. Jump(j)' <=> Jump(i)
    BY <1>1 DEF Jump, IsJump
<1>5. (Code(j)' <=> Code(i)) /\ (Live(j)' <=> Live(i)) /\ (Idle(j)' <=> Idle(i))
    BY <1>1 DEF Code, Live, Idle, Slot
<1>6. Going(j)' <=> Going(i)
    BY <1>1, <1>2, <1>3 DEF Going, Taken, BranchOps
<1>7. Jump(i) => Destination(j)' = Destination(i)
    BY <1>1, <1>2, <1>3 DEF Jump, IsJump, Destination
<1>8. c.op \in AluOps \cup MemOps => Computed(Slot(j))' = Computed(c)
    BY <1>1, <1>2, <1>3 DEF Computed
<1>9. c.op = "sw" => Value(Slot(j), Slot(j).rd)' = Value(c, c.rd)
    BY <1>2, <1>3
<1> QED
    BY <1>4, <1>5, <1>6, <1>7, <1>8, <1>9

\* A command that is carried, and what it reads.
LEMMA CarriedWith ==
    ASSUME NEW i, NEW j,
           \A f \in {"inst", "op", "at", "rd", "rs", "rt", "imm"} : Slot(j)'[f] = Slot(i)[f],
           \A f \in {"rd", "rs", "rt"} : Slot(i)[f] \in Reads(Slot(i)) \ {immReg} =>
                regs'[Slot(i)[f]] = regs[Slot(i)[f]]
    PROVE  Carried(i, j)
<1> SUFFICES ASSUME NEW f \in {"rd", "rs", "rt"}, Slot(i)[f] \in Reads(Slot(i))
             PROVE  Value(Slot(j), Slot(j)[f])' = Value(Slot(i), Slot(i)[f])
    BY DEF Carried
<1>1. Slot(j)'[f] = Slot(i)[f] /\ Slot(j)'.imm = Slot(i).imm
    OBVIOUS
<1>2. Value(Slot(j), Slot(j)[f])' =
        Hex_2_Int_2s_Comp(IF Slot(j)'[f] = immReg THEN Int_2_Hex(Slot(j)'.imm)
                          ELSE regs'[Slot(j)'[f]])
    BY DEF Value
<1> QED
    BY <1>1, <1>2 DEF Value

\* Steps that leave the slots and the registers alone.
LEMMA QuietCarries ==
    ASSUME pipeline_array' = pipeline_array, regs' = regs
    PROVE  \A i \in FETCH .. WB : Carried(i, i)
BY DEF Carried, Value, Slot

\* decode: its slot, whose command it may read out of a line, and no register but $imm.
LEMMA DecodeEffect ==
    ASSUME Executable, TypeOK, ~Idle(DECODE), decode, regs[zero] = 0,
           ~Code(DECODE) => Slot(DECODE).rs = zero /\ Slot(DECODE).rd = zero
    PROVE  /\ \A i \in FETCH .. WB : i # DECODE => pipeline_array'[i] = pipeline_array[i]
           /\ \A i \in FETCH .. WB : i # DECODE => Carried(i, i)
           /\ \A f \in {"inst", "at", "rd", "rs"} : Slot(DECODE)'[f] = Slot(DECODE)[f]
           /\ Code(DECODE) => Carried(DECODE, DECODE)
           /\ ~Code(DECODE) => /\ Slot(DECODE)'.op = "add" /\ Slot(DECODE)'.rt = zero
                               /\ decode_buf' = [rs |-> 0, rt |-> 0, rd |-> 0]
           /\ \A r \in Regs \ {immReg} : regs'[r] = regs[r]
           /\ RawHazard => UNCHANGED <<decode_buf, btaken, halted>>
           /\ ~RawHazard =>
                /\ btaken' = IF Slot(DECODE)'.op \in {"ll", "sc"} THEN btaken
                             ELSE Taken(Slot(DECODE)'.op, decode_buf'.rs, decode_buf'.rt)
                /\ Slot(DECODE)'.op = "jal" => Slot(DECODE)'.link = pc - 1
<1> DEFINE c == pipeline_array[DECODE]
<1>1. PICK com \in BuildCommand(c) : ReadOperands(com)
    BY DEF decode
<1>2. /\ c \in Commands /\ c.rd \in Regs /\ c.rs \in Regs /\ c.rt \in Regs
      /\ c.inst # "DONE"
    BY SlotTypes DEF Idle
<1>3. Code(DECODE) => com = c
    BY <1>1 DEF BuildCommand, Code
<1>4. ~Code(DECODE) =>
        \E g \in Leftover : com = [c EXCEPT !.op = "add", !.rt = g[1], !.imm = g[2]]
    BY <1>1 DEF BuildCommand, Code
<1>5. /\ com.inst = c.inst /\ com.at = c.at /\ com.rd = c.rd /\ com.rs = c.rs
      /\ Code(DECODE) => com.op = c.op /\ com.rt = c.rt /\ com.imm = c.imm
      /\ ~Code(DECODE) => com.op = "add" /\ com.rt = zero
  <2>1. CASE Code(DECODE)
    BY <1>3, <2>1
  <2>2. CASE ~Code(DECODE)
    <3>1. PICK g \in Leftover : com = [c EXCEPT !.op = "add", !.rt = g[1], !.imm = g[2]]
      BY <1>4, <2>2
    <3>2. g[1] = zero
      BY DEF Executable
    <3>3. DOMAIN c = {"inst", "op", "rd", "rs", "rt", "imm", "link", "at"}
      BY <1>2 DEF Commands
    <3> HIDE DEF c
    <3>4. QED BY <2>2, <3>1, <3>2, <3>3
  <2>3. QED BY <2>1, <2>2
<1>6. com = [com EXCEPT !.link = com.link] /\ DOMAIN com = DOMAIN c
    BY <1>2, <1>3, <1>4 DEF Commands
<1>7. DOMAIN com = {"inst", "op", "rd", "rs", "rt", "imm", "link", "at"}
    BY <1>2, <1>6 DEF Commands
<1>8. \/ pipeline_array' = [pipeline_array EXCEPT ![DECODE] = com]
      \/ pipeline_array' = [pipeline_array EXCEPT ![DECODE] =
                [com EXCEPT !.link = IF com.op = "jal" THEN pc - 1 ELSE @]]
    BY <1>1 DEF ReadOperands
<1>9. \A i \in FETCH .. WB : i # DECODE => pipeline_array'[i] = pipeline_array[i]
    BY <1>8 DEF TypeOK
<1>10. \A f \in {"inst", "op", "at", "rd", "rs", "rt", "imm"} :
            pipeline_array'[DECODE][f] = com[f]
    BY <1>6, <1>7, <1>8 DEF TypeOK
<1>11. regs' = [regs EXCEPT ![immReg] = Int_2_Hex(com.imm)]
    BY <1>1 DEF ReadOperands
<1>12. \A r \in Regs \ {immReg} : regs'[r] = regs[r]
    BY <1>11 DEF TypeOK
<1>13. \A i \in FETCH .. WB : \A f \in {"rd", "rs", "rt"} :
            Slot(i)[f] \in Reads(Slot(i)) => Slot(i)[f] \in Regs
    <2>1. \A i \in FETCH .. WB : Idle(i) => Reads(Slot(i)) = {}
        BY DEF TypeOK, Commands, Idle, Reads, Slot, AluOps, BranchOps
    <2>2. \A i \in FETCH .. WB : ~Idle(i) =>
            Slot(i).rd \in Regs /\ Slot(i).rs \in Regs /\ Slot(i).rt \in Regs
        BY SlotTypes DEF Slot
    <2> QED
        BY <2>1, <2>2
<1>14. ASSUME NEW i \in FETCH .. WB, i # DECODE PROVE Carried(i, i)
    BY <1>9, <1>12, <1>13, <1>14, CarriedWith DEF Slot
<1>15. Code(DECODE) => Carried(DECODE, DECODE)
    <2> SUFFICES ASSUME Code(DECODE) PROVE Carried(DECODE, DECODE)
        OBVIOUS
    <2>1. \A f \in {"inst", "op", "at", "rd", "rs", "rt", "imm"} :
            Slot(DECODE)'[f] = Slot(DECODE)[f]
        BY <1>3, <1>10 DEF Slot
    <2> QED
        BY <1>12, <1>13, <2>1, CarriedWith
<1>16. RawHazard => UNCHANGED <<decode_buf, btaken, halted>>
    BY <1>1 DEF ReadOperands
<1>17. ~RawHazard =>
        /\ decode_buf' = [rs |-> Hex_2_Int_2s_Comp(regs'[com.rs]),
                          rt |-> Hex_2_Int_2s_Comp(regs'[com.rt]),
                          rd |-> Hex_2_Int_2s_Comp(regs'[com.rd])]
        /\ btaken' = IF com.op \in {"ll", "sc"} THEN btaken
                     ELSE Taken(com.op, Hex_2_Int_2s_Comp(regs'[com.rs]),
                                Hex_2_Int_2s_Comp(regs'[com.rt]))
        /\ pipeline_array' = [pipeline_array EXCEPT ![DECODE] =
                [com EXCEPT !.link = IF com.op = "jal" THEN pc - 1 ELSE @]]
    BY <1>1, <1>11 DEF ReadOperands
<1>18. ~RawHazard =>
        /\ btaken' = IF Slot(DECODE)'.op \in {"ll", "sc"} THEN btaken
                     ELSE Taken(Slot(DECODE)'.op, decode_buf'.rs, decode_buf'.rt)
        /\ Slot(DECODE)'.op = "jal" => Slot(DECODE)'.link = pc - 1
    <2> SUFFICES ASSUME ~RawHazard
                 PROVE  /\ btaken' = IF Slot(DECODE)'.op \in {"ll", "sc"} THEN btaken
                               ELSE Taken(Slot(DECODE)'.op, decode_buf'.rs, decode_buf'.rt)
                        /\ Slot(DECODE)'.op = "jal" => Slot(DECODE)'.link = pc - 1
        OBVIOUS
    <2>1. Slot(DECODE)'.op = com.op
        BY <1>10 DEF Slot
    <2>2. com.op = "jal" => Slot(DECODE)'.link = pc - 1
        BY <1>7, <1>17 DEF Slot, TypeOK
    <2> QED
        BY <1>17, <2>1, <2>2
<1>19. ~Code(DECODE) => decode_buf' = [rs |-> 0, rt |-> 0, rd |-> 0]
    <2> SUFFICES ASSUME ~Code(DECODE) PROVE decode_buf' = [rs |-> 0, rt |-> 0, rd |-> 0]
        OBVIOUS
    <2>1. com.rs = zero /\ com.rt = zero /\ com.rd = zero /\ ~RawHazard
        BY <1>5 DEF RawHazard, Slot
    <2>2. regs'[zero] = 0
        BY <1>12, RegsAssumption
    <2>3. Hex_2_Int_2s_Comp(0) = 0
        BY SizesAssumption DEF Hex_2_Int_2s_Comp
    <2> QED
        BY <1>17, <2>1, <2>2, <2>3
<1>20. /\ \A f \in {"inst", "at", "rd", "rs"} : Slot(DECODE)'[f] = Slot(DECODE)[f]
       /\ ~Code(DECODE) => Slot(DECODE)'.op = "add" /\ Slot(DECODE)'.rt = zero
    BY <1>5, <1>10 DEF Slot
<1> QED
    BY <1>9, <1>12, <1>14, <1>15, <1>16, <1>18, <1>19, <1>20

\* What a slot that holds a line knows of it.
LEMMA LineFacts ==
    ASSUME TypeOK, HoldLines, Regular(program), NEW i \in FETCH .. WB
    PROVE  /\ Live(i) => Slot(i).at \in DOMAIN program /\ ~Idle(i)
           /\ Slot(i).op # "none" \/ Code(i) => Live(i)
           /\ Live(i) /\ ~Code(i) =>
                /\ Slot(i).rd = zero /\ Slot(i).rs = zero /\ Slot(i).rt = zero
                /\ Slot(i).op \in Blanks(i) /\ program[Slot(i).at].op = "nop"
           /\ Code(i) =>
                /\ Slot(i).op = program[Slot(i).at].op /\ Slot(i).imm = program[Slot(i).at].imm
                /\ Slot(i).rd = program[Slot(i).at].rd /\ Slot(i).rs = program[Slot(i).at].rs
                /\ Slot(i).rt = program[Slot(i).at].rt
                /\ WritesRd(Slot(i)) => Slot(i).rd # zero
                /\ Slot(i).op = "jal" => Slot(i).rd # ra
           /\ Jump(i) \/ Slot(i).op \in MemOps => Code(i)
           /\ Live(i) => (Jump(i) <=> IsJump(program[Slot(i).at]))
<1> DEFINE com == Slot(i)
           line == program[com.at]
<1>1. HoldsLine(i)
    BY DEF HoldLines
<1>2. Live(i) => com.at \in DOMAIN program /\ (com.inst = "NOP" \/ com.inst = "code")
    BY <1>1 DEF HoldsLine
<1>3. Live(i) /\ ~Code(i) =>
        com.rd = zero /\ com.rs = zero /\ com.rt = zero /\ com.op \in Blanks(i) /\ line.op = "nop"
    BY <1>1 DEF HoldsLine, Code, Slot
<1>4. Live(i) /\ Code(i) =>
        /\ com.op = line.op /\ com.imm = line.imm
        /\ com.rd = line.rd /\ com.rs = line.rs /\ com.rt = line.rt
    BY <1>1 DEF HoldsLine, Code, Slot
<1>5. ~Live(i) => ~Code(i) /\ com.op = "none"
    BY <1>1 DEF HoldsLine, Code, Slot
<1>6. Live(i) /\ Code(i) =>
        /\ WritesRd(com) => com.rd # zero
        /\ com.op = "jal" => com.rd # ra
    <2> SUFFICES ASSUME Live(i), Code(i)
                 PROVE  /\ WritesRd(com) => com.rd # zero
                        /\ com.op = "jal" => com.rd # ra
        OBVIOUS
    <2>1. /\ WritesRd(line) => line.rd # zero
          /\ line.op = "jal" => line.rd # ra
        BY <1>2 DEF Regular
    <2> QED
        BY <1>4, <2>1 DEF WritesRd
<1>7. Jump(i) \/ com.op \in MemOps => Live(i) /\ Code(i)
    BY <1>3, <1>5 DEF Jump, IsJump, BranchOps, MemOps, Blanks
<1>8. Live(i) => (Jump(i) <=> IsJump(line))
    BY <1>3, <1>4 DEF Jump, IsJump, BranchOps, Blanks
<1>9. Live(i) => ~Idle(i)
    BY <1>2 DEF Idle, Slot
<1> QED
    BY <1>2, <1>3, <1>4, <1>5, <1>6, <1>7, <1>8, <1>9

\* Write-back: $zero stays, and no instruction behind loses what it reads.
LEMMA WriteBackEffect ==
    ASSUME Executable, IInv, SequentialInv, writeback_state
    PROVE  /\ regs'[zero] = 0
           /\ first # WB /\ stage' = MEM
           /\ Carried(EXEC, EXEC) /\ Carried(MEM, MEM)
<1>1. /\ TypeOK /\ Buffers /\ HoldLines /\ Regular(program) /\ regs[zero] = 0 /\ Clear
      /\ Contents /\ Waiting
    BY DEF IInv, SequentialInv
<1>2. stage = WB /\ ~Idle(WB) /\ stage' = After(WB) /\ pipeline_array' = pipeline_array
    BY DEF writeback_state
<1>3. first # WB
    BY <1>1, <1>2 DEF Waiting
<1>4. stage' = MEM
    BY <1>1, <1>2, <1>3 DEF TypeOK, After
<1>5. regs'[zero] = 0
    <2>1. CASE zero \notin Writes(Slot(WB))
        BY <1>1, <2>1, WriteBackWrites, RegsAssumption DEF Slot
    <2>2. CASE zero \in Writes(Slot(WB))
        <3>1. WritesRd(Slot(WB)) /\ Slot(WB).rd = zero
            BY <2>2 DEF Writes
        <3>2. Live(WB) /\ ~Code(WB)
            BY <1>1, <3>1, LineFacts DEF WritesRd, AluOps
        <3>3. /\ Slot(WB).op = "add" /\ Slot(WB).rs = zero /\ Slot(WB).rt = zero
            BY <1>1, <3>2, LineFacts DEF Blanks
        <3>4. ~Ran(WB)
            BY <1>1, <1>2 DEF TypeOK, Ran
        <3>5. mem_buf.load_result = Computed(Slot(WB)) /\ mem_buf.destination = zero
            BY <1>1, <3>1, <3>3, <3>4 DEF Contents, MemBuf, Buffers, Slot, AluOps
        <3>6. Value(Slot(WB), zero) = 0
            BY <1>1, SizesAssumption DEF Value, Hex_2_Int_2s_Comp
        <3>7. Computed(Slot(WB)) = 0
            BY <3>3, <3>6 DEF Computed, Result, AluOps, Executable
        <3>8. Int_2_Hex(0) = 0
            BY SizesAssumption DEF Int_2_Hex
        <3>9. regs' = [regs EXCEPT ![zero] = 0]
            BY <3>3, <3>5, <3>7, <3>8 DEF writeback_state, AluOps, Slot
        <3> QED
            BY <1>1, <3>9, RegsAssumption DEF TypeOK
    <2> QED
        BY <2>1, <2>2
<1>6. ASSUME NEW i \in {EXEC, MEM} PROVE Carried(i, i)
    <2> SUFFICES ASSUME NEW f \in {"rd", "rs", "rt"},
                        Slot(i)[f] \in Reads(Slot(i)) \ {immReg}
                 PROVE  regs'[Slot(i)[f]] = regs[Slot(i)[f]]
        BY <1>2, CarriedWith DEF Slot
    <2>1. CASE Slot(i)[f] = zero
        BY <1>1, <1>5, <2>1
    <2>2. CASE Slot(i)[f] # zero
        <3>1. Slot(i).op # "none"
            BY DEF Reads, AluOps, BranchOps
        <3>2. Code(i)
            BY <1>1, <2>2, <3>1, LineFacts
        <3>3. Slot(i)[f] \in Protected(Slot(i))
            BY <1>1, <2>2, <3>2, LineFacts DEF Protected, Reads, AluOps, BranchOps
        <3>4. Slot(i)[f] \notin Writes(Slot(WB))
            BY <1>1, <1>2, <3>2, <3>3 DEF Clear
        <3>5. Slot(i)[f] \in Regs
            BY <1>1, <3>2, SlotTypes DEF Code, Idle, Slot
        <3> QED
            BY <1>1, <3>4, <3>5, WriteBackWrites DEF Slot
    <2> QED
        BY <2>1, <2>2
<1> QED
    BY <1>3, <1>4, <1>5, <1>6

\* The stages that leave the slots, pc and the registers alone.
Still == Skip \/ memory_state \/ execute

\* The DECODE slot is decoded, in the loop or at the end of it, or is not.
Decodes == Decode \/ (DecodeAgain /\ Code(DECODE))
Passes == DecodeAgain /\ ~Code(DECODE)

LEMMA StepCases ==
    ASSUME [Next]_vars
    PROVE  \/ Shift \/ Still \/ writeback_state \/ Decodes \/ Passes
           \/ fetch_instruction \/ EndCycle \/ UNCHANGED vars
<1>1. DecodeAgain => Decodes \/ Passes
    BY DEF Decodes, Passes
<1>2. Decode => Decodes
    BY DEF Decodes
<1> QED
    BY <1>1, <1>2 DEF Next, Still

LEMMA StillEffect ==
    ASSUME TypeOK, Still
    PROVE  /\ UNCHANGED <<program, instruction_array, pipeline_array, pc, halted,
                          last_command, first, btaken, regs, decode_buf>>
           /\ stage \in FETCH .. WB /\ stage' = After(stage)
           /\ stage' \in AGAIN .. MEM /\ stage' < stage
           /\ \A i \in FETCH .. WB : Carried(i, i)
<1>1. /\ UNCHANGED <<program, instruction_array, pipeline_array, pc, halted,
                     last_command, first, btaken, regs, decode_buf>>
      /\ stage \in FETCH .. WB /\ stage' = After(stage)
    BY DEF Still, Skip, memory_state, execute
<1>2. stage' \in AGAIN .. MEM /\ stage' < stage
    BY <1>1 DEF After
<1> QED
    BY <1>1, <1>2, QuietCarries

\* The slots after the pipeline has been shifted.
LEMMA ShiftEffect ==
    ASSUME TypeOK, Shift
    PROVE  /\ first' = Hazard /\ Hazard \in {FETCH, EXEC, WB} /\ stage = SHIFT
           /\ UNCHANGED <<program, pc, halted, last_command, regs, decode_buf, execute_buf,
                          mem_buf, store, request>>
           /\ stage' = IF last_command >= Hazard THEN last_command ELSE AGAIN
           /\ stage' \in AGAIN .. WB
           /\ \A i \in FETCH .. WB :
                /\ i > Hazard => Slot(i)' = Slot(i - 1) /\ Carried(i - 1, i)
                /\ i = Hazard => Slot(i)' = NewSlot(i)
                /\ i < Hazard => Slot(i)' = Slot(i) /\ Carried(i, i)
<1>1. /\ first' = Hazard /\ Hazard \in {FETCH, EXEC, WB} /\ stage = SHIFT
      /\ UNCHANGED <<program, pc, halted, last_command, regs, decode_buf, execute_buf,
                     mem_buf, store, request>>
      /\ stage' = IF last_command >= Hazard THEN last_command ELSE AGAIN
    BY DEF Shift, Hazard
<1>2. stage' \in AGAIN .. WB
    BY <1>1 DEF TypeOK
<1>3. ASSUME NEW i \in FETCH .. WB
      PROVE  /\ i > Hazard => Slot(i)' = Slot(i - 1)
             /\ i = Hazard => Slot(i)' = NewSlot(i)
             /\ i < Hazard => Slot(i)' = Slot(i)
    <2>1. pipeline_array'[i] = IF i > Hazard THEN pipeline_array[i - 1]
                               ELSE IF i = Hazard THEN NewSlot(Hazard)
                               ELSE pipeline_array[i]
        BY DEF Shift
    <2>2. CASE i = Hazard
        BY <2>1, <2>2 DEF Slot
    <2>3. CASE i # Hazard
        BY <1>1, <2>1, <2>3 DEF Slot
    <2> QED
        BY <2>2, <2>3
<1>4. ASSUME NEW i \in FETCH .. WB, NEW j, Slot(j)' = Slot(i) PROVE Carried(i, j)
    BY <1>1, <1>4, CarriedWith
<1>5. ASSUME NEW i \in FETCH .. WB
      PROVE  /\ i > Hazard => Carried(i - 1, i)
             /\ i < Hazard => Carried(i, i)
    <2>1. i > Hazard => i - 1 \in FETCH .. WB
        BY <1>1
    <2> QED
        BY <1>3, <1>4, <2>1
<1> QED
    BY <1>1, <1>2, <1>3, <1>5

\* What the new slot holds.
LEMMA NewSlotFacts ==
    ASSUME NEW h
    PROVE  /\ NewSlot(h).at = none /\ NewSlot(h).inst # "code" /\ NewSlot(h).op = "none"
           /\ NewSlot(h).inst = "DONE" <=> (h > 0 \/ halted \/ pc \notin DOMAIN program)
BY DEF NewSlot, DONE, NOP, Command

\* The DECODE slot holds a command when the loop over the stages gets to it.
LEMMA DecodesLine ==
    ASSUME TypeOK, HoldLines, Filled, Decodes
    PROVE  Live(DECODE) /\ ~Idle(DECODE)
<1>1. CASE Decode
    <2>1. stage = DECODE /\ ~Idle(DECODE)
        BY <1>1 DEF Decode
    <2>2. last_command >= DECODE
        BY <2>1 DEF TypeOK
    <2>3. ~Empty(DECODE)
        BY <2>1, <2>2 DEF Filled, TypeOK
    <2> QED
        BY <2>1, <2>3 DEF Empty
<1>2. CASE DecodeAgain /\ Code(DECODE)
    <2>1. Live(DECODE)
        BY <1>2 DEF HoldLines, HoldsLine, Code, Slot
    <2> QED
        BY <1>2, <2>1 DEF Code, Idle
<1> QED
    BY <1>1, <1>2 DEF Decodes

\* decode, from the loop and at the end of it.
LEMMA Decoding ==
    ASSUME Executable, IInv, SequentialInv, Decodes
    PROVE  /\ decode /\ Live(DECODE) /\ Live(DECODE)' /\ (Code(DECODE)' <=> Code(DECODE))
           /\ UNCHANGED <<program, instruction_array, pc, last_command, first, execute_buf,
                          mem_buf, store, request>>
           /\ \/ stage = DECODE /\ first = 0 /\ stage' = FETCH
              \/ stage = AGAIN /\ stage' = END
           /\ \A i \in FETCH .. WB : i # DECODE => Slot(i)' = Slot(i)
           /\ \A i \in FETCH .. WB : i # DECODE => Carried(i, i)
           /\ \A f \in {"inst", "at", "rd", "rs"} : Slot(DECODE)'[f] = Slot(DECODE)[f]
           /\ Code(DECODE) => Carried(DECODE, DECODE)
           /\ ~Code(DECODE) => /\ Slot(DECODE)'.op = "add" /\ Slot(DECODE)'.rt = zero
                               /\ decode_buf' = [rs |-> 0, rt |-> 0, rd |-> 0]
           /\ \A r \in Regs \ {immReg} : regs'[r] = regs[r]
           /\ RawHazard => UNCHANGED <<decode_buf, btaken, halted>>
           /\ ~RawHazard =>
                /\ btaken' = IF Slot(DECODE)'.op \in {"ll", "sc"} THEN btaken
                             ELSE Taken(Slot(DECODE)'.op, decode_buf'.rs, decode_buf'.rt)
                /\ Slot(DECODE)'.op = "jal" => Slot(DECODE)'.link = pc - 1
           /\ RawHazard' <=> RawHazard
<1>1. /\ TypeOK /\ HoldLines /\ Filled /\ regs[zero] = 0 /\ Regular(program)
    BY DEF IInv, SequentialInv
<1>2. Live(DECODE) /\ ~Idle(DECODE) /\ decode
    BY <1>1, DecodesLine DEF Decodes, Decode, DecodeAgain
<1>3. ~Code(DECODE) => Slot(DECODE).rs = zero /\ Slot(DECODE).rd = zero
    BY <1>1, <1>2, LineFacts
<1>4. /\ UNCHANGED <<program, instruction_array, pc, last_command, first, execute_buf,
                     mem_buf, store, request>>
      /\ \/ stage = DECODE /\ stage' = After(DECODE)
         \/ stage = AGAIN /\ stage' = END
    BY DEF Decodes, Decode, DecodeAgain
<1>5. stage = DECODE => first = 0 /\ After(DECODE) = FETCH
    BY <1>1 DEF TypeOK, After
<1>6. /\ \A i \in FETCH .. WB : i # DECODE => pipeline_array'[i] = pipeline_array[i]
      /\ \A i \in FETCH .. WB : i # DECODE => Carried(i, i)
      /\ \A f \in {"inst", "at", "rd", "rs"} : Slot(DECODE)'[f] = Slot(DECODE)[f]
      /\ Code(DECODE) => Carried(DECODE, DECODE)
      /\ ~Code(DECODE) => /\ Slot(DECODE)'.op = "add" /\ Slot(DECODE)'.rt = zero
                          /\ decode_buf' = [rs |-> 0, rt |-> 0, rd |-> 0]
      /\ \A r \in Regs \ {immReg} : regs'[r] = regs[r]
      /\ RawHazard => UNCHANGED <<decode_buf, btaken, halted>>
      /\ ~RawHazard =>
            /\ btaken' = IF Slot(DECODE)'.op \in {"ll", "sc"} THEN btaken
                         ELSE Taken(Slot(DECODE)'.op, decode_buf'.rs, decode_buf'.rt)
            /\ Slot(DECODE)'.op = "jal" => Slot(DECODE)'.link = pc - 1
    BY <1>1, <1>2, <1>3, DecodeEffect
<1>7. Live(DECODE)' /\ (Code(DECODE)' <=> Code(DECODE))
    BY <1>2, <1>6 DEF Live, Code, Slot
<1>8. RawHazard' <=> RawHazard
    <2>1. CASE Code(DECODE)
        BY <1>1, <1>2, <2>1, HazardKept
    <2>2. CASE ~Code(DECODE)
        BY <1>7, <2>2 DEF RawHazard
    <2> QED
        BY <2>1, <2>2
<1>9. \A i \in FETCH .. WB : i # DECODE => Slot(i)' = Slot(i)
    BY <1>6 DEF Slot
<1> QED
    BY <1>2, <1>4, <1>5, <1>6, <1>7, <1>8, <1>9

\* The FETCH slot gets the instruction at pc.
LEMMA Fetches ==
    ASSUME IInv, SequentialInv, fetch_instruction
    PROVE  /\ stage = FETCH /\ first = 0 /\ stage' = AGAIN
           /\ pc \in DOMAIN program /\ pc' = pc + 1 /\ Slot(FETCH)' = Entry(program, pc)
           /\ UNCHANGED <<program, instruction_array, halted, last_command, first, btaken,
                          regs, decode_buf, execute_buf, mem_buf, store, request>>
           /\ ~Live(FETCH) /\ ~Idle(FETCH)
           /\ \A i \in DECODE .. WB : Slot(i)' = Slot(i) /\ Carried(i, i)
<1>1. TypeOK /\ Fetchable /\ Fetching
    BY DEF IInv, SequentialInv
<1>2. /\ stage = FETCH /\ ~Idle(FETCH) /\ pc' = pc + 1 /\ stage' = After(FETCH)
      /\ UNCHANGED <<program, instruction_array, halted, last_command, first, btaken,
                     regs, decode_buf, execute_buf, mem_buf, store, request>>
      /\ pipeline_array' = [pipeline_array EXCEPT ![FETCH] = instruction_array[pc]]
    BY DEF fetch_instruction
<1>3. first = 0 /\ stage' = AGAIN
    BY <1>1, <1>2 DEF TypeOK, After
<1>4. pc \in DOMAIN program /\ ~Live(FETCH)
    BY <1>1, <1>2, <1>3 DEF Fetchable, Fetching
<1>5. instruction_array[pc] = Entry(program, pc)
    BY <1>1, <1>2, <1>4 DEF Fetching
<1>6. Slot(FETCH)' = Entry(program, pc)
    BY <1>1, <1>2, <1>5 DEF TypeOK, Slot
<1>7. \A i \in DECODE .. WB : Slot(i)' = Slot(i)
    BY <1>1, <1>2 DEF TypeOK, Slot
<1>8. \A i \in DECODE .. WB : Carried(i, i)
    BY <1>2, <1>7, CarriedWith
<1> QED
    BY <1>2, <1>3, <1>4, <1>6, <1>7, <1>8

\* An entry of instruction_array.
LEMMA EntryFacts ==
    ASSUME NEW p, NEW k
    PROVE  /\ Entry(p, k).at = k
           /\ p[k].op = "nop" => Entry(p, k) = NOP(k)
           /\ p[k].op # "nop" => /\ Entry(p, k).inst = "code" /\ Entry(p, k).op = p[k].op
                                 /\ Entry(p, k).rd = p[k].rd /\ Entry(p, k).rs = p[k].rs
                                 /\ Entry(p, k).rt = p[k].rt /\ Entry(p, k).imm = p[k].imm
BY DEF Entry, NOP, Command

-----------------------------------------------------------------------------
(***************************************************************************)
(* Every part of the invariant is kept by every step.                      *)
(***************************************************************************)

\* A slot that has been carried to another place holds its line.
LEMMA CarriedHolds ==
    ASSUME program' = program, NEW i, NEW j, Carried(i, j), HoldsLine(i),
           Live(i) /\ ~Code(i) /\ Slot(i).op \in Blanks(i) => Slot(i).op \in Blanks(j)
    PROVE  HoldsLine(j)'
<1>1. /\ Slot(j)'.inst = Slot(i).inst /\ Slot(j)'.op = Slot(i).op /\ Slot(j)'.at = Slot(i).at
      /\ Slot(j)'.rd = Slot(i).rd /\ Slot(j)'.rs = Slot(i).rs /\ Slot(j)'.rt = Slot(i).rt
      /\ Slot(j)'.imm = Slot(i).imm /\ (Live(j)' <=> Live(i))
    BY CarriedKeeps DEF Carried
<1> QED
    BY <1>1 DEF HoldsLine, Code, Slot

LEMMA HoldLinesStep ==
    ASSUME Executable, IInv, SequentialInv, [Next]_vars
    PROVE  HoldLines'
<1>1. /\ TypeOK /\ \A i \in FETCH .. WB : HoldsLine(i)
      /\ HoldLines /\ Contents /\ Regular(program)
    BY DEF IInv, SequentialInv, HoldLines
<1> SUFFICES ASSUME NEW i \in FETCH .. WB PROVE HoldsLine(i)'
    BY DEF HoldLines
<1>2. CASE Shift
    <2>1. program' = program /\ Hazard \in {FETCH, EXEC, WB}
        BY <1>1, <1>2, ShiftEffect
    <2>2. CASE i > Hazard
        <3>1. Carried(i - 1, i) /\ HoldsLine(i - 1)
            BY <1>1, <1>2, <2>1, <2>2, ShiftEffect
        <3>2. Live(i - 1) /\ ~Code(i - 1) /\ Slot(i - 1).op \in Blanks(i - 1)
                => Slot(i - 1).op \in Blanks(i)
            <4>1. CASE i = EXEC
                <5>1. Ran(DECODE)
                    BY <1>2 DEF Shift, Ran
                <5>2. Live(DECODE) /\ ~Code(DECODE) => Slot(DECODE).op = "add"
                    BY <1>1, <5>1 DEF Contents, DecodeBuf
                <5> QED
                    BY <4>1, <5>2, <2>2 DEF Blanks
            <4>2. CASE i # EXEC
                BY <2>1, <2>2, <4>2 DEF Blanks
            <4> QED
                BY <4>1, <4>2
        <3> QED
            BY <2>1, <3>1, <3>2, CarriedHolds
    <2>3. CASE i = Hazard
        <3>1. Slot(i)' = NewSlot(i)
            BY <1>1, <1>2, <2>3, ShiftEffect
        <3> QED
            BY <3>1, NewSlotFacts DEF HoldsLine, Live, Slot
    <2>4. CASE i < Hazard
        BY <1>1, <1>2, <2>1, <2>4, ShiftEffect, CarriedHolds
    <2> QED
        BY <2>1, <2>2, <2>3, <2>4
<1>3. CASE Still
    BY <1>1, <1>3, StillEffect, CarriedHolds
<1>4. CASE writeback_state \/ Passes \/ EndCycle \/ UNCHANGED vars
    <2>1. program' = program /\ pipeline_array' = pipeline_array
        BY <1>4 DEF writeback_state, Passes, DecodeAgain, EndCycle, vars
    <2> QED
        BY <1>1, <2>1 DEF HoldsLine, Live, Slot
<1>5. CASE Decodes
    <2>1. /\ program' = program /\ (i # DECODE \/ Code(DECODE) => Carried(i, i))
          /\ Live(DECODE) /\ Live(DECODE)' /\ (Code(DECODE)' <=> Code(DECODE))
        BY <1>5, Decoding
    <2>2. CASE i # DECODE \/ Code(DECODE)
        BY <1>1, <2>1, <2>2, CarriedHolds
    <2>3. CASE i = DECODE /\ ~Code(DECODE)
        <3>1. /\ Slot(DECODE)'.inst = Slot(DECODE).inst /\ Slot(DECODE)'.at = Slot(DECODE).at
              /\ Slot(DECODE)'.rd = Slot(DECODE).rd /\ Slot(DECODE)'.rs = Slot(DECODE).rs
              /\ Slot(DECODE)'.op = "add" /\ Slot(DECODE)'.rt = zero
            BY <1>5, <2>3, Decoding
        <3>2. HoldsLine(DECODE)
            BY <1>1
        <3> QED
            BY <2>1, <2>3, <3>1, <3>2 DEF HoldsLine, Blanks, Code, Slot
    <2> QED
        BY <2>2, <2>3
<1>6. CASE fetch_instruction
    <2>1. program' = program /\ (i # FETCH => Carried(i, i))
        BY <1>6, Fetches
    <2>2. CASE i # FETCH
        BY <1>1, <2>1, <2>2, CarriedHolds
    <2>3. CASE i = FETCH
        <3>1. Slot(FETCH)' = Entry(program, pc) /\ pc \in DOMAIN program
            BY <1>6, Fetches
        <3>2. NOP(pc).inst = "NOP" /\ NOP(pc).op = "none" /\ NOP(pc).rd = zero
              /\ NOP(pc).rs = zero /\ NOP(pc).rt = zero
            BY DEF NOP, Command
        <3>3. pc # none
            BY <1>1 DEF TypeOK
        <3> QED
            BY <2>1, <2>3, <3>1, <3>2, <3>3, EntryFacts DEF HoldsLine, Live, Slot, Blanks
    <2> QED
        BY <2>2, <2>3
<1> QED
    BY <1>2, <1>3, <1>4, <1>5, <1>6, StepCases

\* The steps that end the cycle.
LEMMA PassesEffect ==
    ASSUME Passes
    PROVE  /\ stage = AGAIN /\ stage' = END /\ ~Code(DECODE)
           /\ UNCHANGED <<program, instruction_array, pipeline_array, pc, halted, last_command,
                          first, btaken, regs, decode_buf, execute_buf, mem_buf, store, request>>
           /\ \A i \in FETCH .. WB : Carried(i, i)
BY QuietCarries DEF Passes, DecodeAgain

LEMMA EndCycleEffect ==
    ASSUME EndCycle
    PROVE  /\ stage = END /\ stage' = SHIFT
           /\ last_command' = IF last_command < WB THEN last_command + 1 ELSE last_command
           /\ pc' = IF btaken THEN Target(decode_buf.rd) ELSE pc
           /\ halted' = finished
           /\ UNCHANGED <<program, instruction_array, pipeline_array, first, btaken, regs,
                          decode_buf, execute_buf, mem_buf>>
           /\ \A i \in FETCH .. WB : Carried(i, i)
BY QuietCarries DEF EndCycle

LEMMA StutterEffect ==
    ASSUME UNCHANGED vars
    PROVE  /\ UNCHANGED <<program, instruction_array, pipeline_array, pc, halted, last_command,
                          first, stage, btaken, regs, decode_buf, execute_buf, mem_buf,
                          store, request>>
           /\ \A i \in FETCH .. WB : Carried(i, i)
BY QuietCarries DEF vars

\* A hazard is met by instructions that have got as far as EXEC.
LEMMA HazardIsLate ==
    ASSUME TypeOK, Reached, Waiting, stage = SHIFT, Hazard # 0
    PROVE  last_command > EXEC
<1>1. \A i \in FETCH .. WB : Slot(i).op # "none" => i < last_command \/ i = WB
    BY DEF Reached, Slot
<1>2. last_command \in FETCH .. WB
    BY DEF TypeOK
<1>3. CASE request.left > 0
    <2>1. Slot(MEM).op # "none"
        BY <1>3 DEF Waiting, MemOps
    <2> QED
        BY <1>1, <1>2, <2>1
<1>4. CASE RawHazard
    <2>1. PICK i \in {EXEC, MEM} : Conflict(Slot(DECODE), Slot(i))
        BY <1>4 DEF RawHazard, Slot
    <2>2. Slot(i).op # "none"
        BY <2>1 DEF Conflict, WritesRd, AluOps
    <2> QED
        BY <1>1, <1>2, <2>2
<1> QED
    BY <1>3, <1>4 DEF Hazard

LEMMA FilledStep ==
    ASSUME Executable, IInv, SequentialInv, [Next]_vars
    PROVE  Filled'
<1>1. TypeOK /\ Reached /\ Waiting /\ Filled
    BY DEF IInv, SequentialInv
<1>2. last_command \in FETCH .. WB
    BY <1>1 DEF TypeOK
<1>3. \A i, j : Carried(i, j) => (Empty(j)' <=> Empty(i))
    BY CarriedKeeps DEF Empty
<1>4. CASE Shift
    <2>1. /\ first' = Hazard /\ stage = SHIFT /\ last_command' = last_command
          /\ stage' = IF last_command >= Hazard THEN last_command ELSE AGAIN
          /\ Hazard \in {FETCH, EXEC, WB}
        BY <1>1, <1>4, ShiftEffect
    <2>2. CASE Hazard = 0
        <3>1. Carried(FETCH, DECODE)
            BY <1>1, <1>4, <2>2, ShiftEffect
        <3> QED
            BY <1>1, <1>2, <1>3, <2>1, <2>2, <3>1 DEF Filled
    <2>3. CASE Hazard # 0
        <3>1. Carried(FETCH, FETCH) /\ Carried(DECODE, DECODE)
            BY <1>1, <1>4, <2>1, <2>3, ShiftEffect
        <3>2. last_command > EXEC
            BY <1>1, <2>1, <2>3, HazardIsLate
        <3> QED
            BY <1>1, <1>2, <1>3, <2>1, <2>3, <3>1, <3>2 DEF Filled
    <2> QED
        BY <2>2, <2>3
<1>5. CASE Still
    <2>1. /\ stage \in FETCH .. WB /\ stage' \in AGAIN .. MEM /\ stage' = After(stage)
          /\ first' = first /\ last_command' = last_command
          /\ Carried(FETCH, FETCH) /\ Carried(DECODE, DECODE)
        BY <1>1, <1>5, StillEffect
    <2>2. first = 0 /\ stage' = AGAIN => Idle(FETCH)
        <3>1. first = 0 /\ stage' = AGAIN => stage = FETCH
            BY <2>1 DEF After
        <3>2. stage = FETCH => Idle(FETCH)
            BY <1>5 DEF Still, Skip, memory_state, execute
        <3> QED
            BY <3>1, <3>2
    <2> QED
        BY <1>1, <1>2, <1>3, <2>1, <2>2 DEF Filled, Empty
<1>6. CASE writeback_state
    <2>1. /\ stage = WB /\ stage' = MEM /\ first' = first /\ last_command' = last_command
          /\ pipeline_array' = pipeline_array /\ first # WB
        BY <1>6, WriteBackEffect DEF writeback_state
    <2> QED
        BY <1>1, <2>1 DEF Filled, Empty, Live, Idle
<1>7. CASE Decodes
    <2>1. /\ Live(DECODE)' /\ Carried(FETCH, FETCH)
          /\ first' = first /\ last_command' = last_command
          /\ \/ stage = DECODE /\ first = 0 /\ stage' = FETCH
             \/ stage = AGAIN /\ stage' = END
        BY <1>7, Decoding
    <2> QED
        BY <1>1, <1>2, <1>3, <2>1 DEF Filled, Empty
<1>8. CASE Passes
    <2>1. /\ stage = AGAIN /\ stage' = END /\ first' = first /\ last_command' = last_command
          /\ Carried(FETCH, FETCH) /\ Carried(DECODE, DECODE)
        BY <1>8, PassesEffect
    <2> QED
        BY <1>1, <1>2, <1>3, <2>1 DEF Filled
<1>9. CASE fetch_instruction
    <2>1. /\ stage = FETCH /\ stage' = AGAIN /\ last_command' = last_command
          /\ Carried(DECODE, DECODE) /\ Slot(FETCH)' = Entry(program, pc)
        BY <1>9, Fetches
    <2>2. Live(FETCH)'
        BY <1>1, <2>1, EntryFacts DEF Live, Slot, TypeOK
    <2> QED
        BY <1>1, <1>2, <1>3, <2>1, <2>2 DEF Filled, Empty
<1>10. CASE EndCycle
    <2>1. /\ stage = END /\ stage' = SHIFT /\ Carried(FETCH, FETCH) /\ Carried(DECODE, DECODE)
          /\ last_command' = IF last_command < WB THEN last_command + 1 ELSE last_command
        BY <1>10, EndCycleEffect
    <2> QED
        BY <1>1, <1>2, <1>3, <2>1 DEF Filled
<1>11. CASE UNCHANGED vars
    BY <1>1, <1>11, StutterEffect DEF Filled, Empty, Live, Idle
<1> QED
    BY <1>4, <1>5, <1>6, <1>7, <1>8, <1>9, <1>10, <1>11, StepCases

LEMMA FetchingStep ==
    ASSUME Executable, IInv, SequentialInv, [Next]_vars
    PROVE  Fetching'
<1>1. /\ TypeOK /\ HoldLines /\ Regular(program) /\ Fetching /\ Branching /\ Order
    BY DEF IInv, SequentialInv
<1>2. CASE Shift
    <2>1. /\ first' = Hazard /\ Hazard \in {FETCH, EXEC, WB} /\ stage = SHIFT
          /\ stage' \in AGAIN .. WB /\ UNCHANGED <<program, pc, halted>>
        BY <1>1, <1>2, ShiftEffect
    <2>2. CASE Hazard = 0
        <3>1. Slot(FETCH)' = NewSlot(FETCH) /\ Carried(FETCH, DECODE)
            BY <1>1, <1>2, <2>2, ShiftEffect
        <3>2. ~Live(FETCH)' /\ (Idle(FETCH)' <=> halted \/ pc \notin DOMAIN program)
            BY <3>1, NewSlotFacts DEF Live, Idle, Slot
        <3>3. halted => Idle(FETCH)
            BY <1>1, <2>1 DEF Fetching, finished
        <3>4. Idle(FETCH)' => pc \notin DOMAIN program
            BY <1>1, <3>2, <3>3 DEF Fetching
        <3>5. Jump(FETCH) => pc \in DOMAIN program
            <4> SUFFICES ASSUME Jump(FETCH) PROVE pc \in DOMAIN program
                OBVIOUS
            <4>1. Live(FETCH) /\ Slot(FETCH).at \in DOMAIN program
                BY <1>1, LineFacts
            <4>2. IsJump(program[Slot(FETCH).at])
                BY <1>1, <4>1, LineFacts
            <4> QED
                BY <1>1, <4>1, <4>2 DEF Order, Regular
        <3>6. ~Idle(FETCH)' => instruction_array' = instruction_array /\ ~Idle(FETCH)
            <4>1. ~Idle(FETCH)' => NewSlot(FETCH) # DONE
                BY <3>1 DEF Idle, Slot, DONE, Command
            <4>2. ~Idle(FETCH)' => ~Idle(FETCH)
                BY <1>1, <3>2 DEF Fetching
            <4> QED
                BY <1>2, <2>2, <4>1, <4>2 DEF Shift
        <3>7. Jump(DECODE)' <=> Jump(FETCH)
            BY <3>1, CarriedKeeps
        <3> QED
            BY <1>1, <2>1, <3>2, <3>4, <3>5, <3>6, <3>7 DEF Fetching
    <2>3. CASE Hazard # 0
        <3>1. Carried(FETCH, FETCH) /\ Carried(DECODE, DECODE)
            BY <1>1, <1>2, <2>1, <2>3, ShiftEffect
        <3>2. instruction_array' = instruction_array
            BY <1>2, <2>3 DEF Shift
        <3>3. (Idle(FETCH)' <=> Idle(FETCH)) /\ (Jump(DECODE)' <=> Jump(DECODE))
            BY <3>1, CarriedKeeps
        <3> QED
            BY <1>1, <2>1, <2>3, <3>2, <3>3 DEF Fetching
    <2> QED
        BY <2>2, <2>3
<1>3. CASE Still \/ writeback_state \/ Passes
    <2>1. /\ UNCHANGED <<program, instruction_array, pipeline_array, pc, halted, first>>
          /\ stage' # SHIFT /\ (stage' \in FETCH .. WB => stage \in FETCH .. WB)
        BY <1>1, <1>3, StillEffect, WriteBackEffect, PassesEffect DEF writeback_state
    <2> QED
        BY <1>1, <2>1 DEF Fetching, Live, Idle, Jump, Slot
<1>4. CASE Decodes
    <2>1. /\ UNCHANGED <<program, instruction_array, pc, first>>
          /\ Carried(FETCH, FETCH) /\ (Code(DECODE) => Carried(DECODE, DECODE))
          /\ ~Code(DECODE) => Slot(DECODE)'.op = "add"
          /\ stage' # SHIFT /\ (stage' \in FETCH .. WB => stage \in FETCH .. WB)
        BY <1>4, Decoding
    <2>2. (Live(FETCH)' <=> Live(FETCH)) /\ (Idle(FETCH)' <=> Idle(FETCH))
        BY <2>1, CarriedKeeps
    <2>3. Jump(DECODE)' => Jump(DECODE)
        <3>1. CASE Code(DECODE)
            BY <2>1, <3>1, CarriedKeeps
        <3>2. CASE ~Code(DECODE)
            BY <2>1, <3>2 DEF Jump, IsJump, BranchOps
        <3> QED
            BY <3>1, <3>2
    <2> QED
        BY <1>1, <2>1, <2>2, <2>3 DEF Fetching
<1>5. CASE fetch_instruction
    <2>1. /\ stage' = AGAIN /\ UNCHANGED <<program, instruction_array>> /\ ~Idle(FETCH)
          /\ Slot(FETCH)' = Entry(program, pc)
        BY <1>5, Fetches
    <2>2. ~Idle(FETCH)'
        BY <2>1, EntryFacts DEF Idle, Slot, NOP, Command
    <2> QED
        BY <1>1, <2>1, <2>2 DEF Fetching
<1>6. CASE EndCycle
    <2>1. /\ stage' = SHIFT /\ halted' = finished
          /\ UNCHANGED <<program, instruction_array, pipeline_array>>
          /\ (~btaken => pc' = pc)
        BY <1>6, EndCycleEffect
    <2>2. Idle(FETCH) => ~btaken
        BY <1>1 DEF Fetching, Branching
    <2> QED
        BY <1>1, <2>1, <2>2 DEF Fetching, Live, Idle, Jump, Slot, finished
<1>7. CASE UNCHANGED vars
    BY <1>1, <1>7, StutterEffect DEF Fetching, Live, Idle, Jump, Slot, finished
<1> QED
    BY <1>2, <1>3, <1>4, <1>5, <1>6, <1>7, StepCases

\* Waiting is about three slots.
LEMMA HazardCarried ==
    ASSUME \A i \in {DECODE, EXEC, MEM} : Carried(i, i)
    PROVE  RawHazard' <=> RawHazard
<1>1. \A i \in {DECODE, EXEC, MEM} :
        /\ Slot(i)'.inst = Slot(i).inst /\ Slot(i)'.op = Slot(i).op
        /\ Slot(i)'.rd = Slot(i).rd /\ Slot(i)'.rs = Slot(i).rs /\ Slot(i)'.rt = Slot(i).rt
    BY DEF Carried
<1>2. \A i \in {EXEC, MEM} : Conflict(Slot(DECODE)', Slot(i)') <=> Conflict(Slot(DECODE), Slot(i))
    BY <1>1 DEF Conflict, WritesRd
<1>3. Code(DECODE)' <=> Code(DECODE)
    BY <1>1 DEF Code, Slot
<1> QED
    BY <1>2, <1>3 DEF RawHazard, Slot

LEMMA BranchingStep ==
    ASSUME Executable, IInv, SequentialInv, [Next]_vars
    PROVE  Branching'
<1>1. TypeOK /\ HoldLines /\ Regular(program) /\ Branching
    BY DEF IInv, SequentialInv
<1> DEFINE Unchanged ==
        /\ btaken' = btaken /\ (RawHazard' <=> RawHazard)
        /\ (Code(DECODE)' <=> Code(DECODE)) /\ (Jump(DECODE)' <=> Jump(DECODE))
<1>2. CASE Shift
    <2>1. /\ first' = Hazard /\ Hazard \in {FETCH, EXEC, WB} /\ stage = SHIFT
          /\ stage' \in AGAIN .. WB
        BY <1>1, <1>2, ShiftEffect
    <2>2. CASE Hazard = 0
        <3>1. btaken' = FALSE
            BY <1>2, <2>2 DEF Shift, Executable
        <3> QED
            BY <2>1, <2>2, <3>1 DEF Branching, Resolved
    <2>3. CASE Hazard = EXEC
        <3>1. RawHazard
            BY <2>3 DEF Hazard
        <3>2. ~btaken /\ btaken' = btaken
            BY <1>1, <1>2, <2>3, <3>1 DEF Branching, Shift
        <3> QED
            BY <2>1, <2>3, <3>2 DEF Branching, Resolved
    <2>4. CASE Hazard = WB
        <3>1. \A i \in {DECODE, EXEC, MEM} : Carried(i, i)
            BY <1>1, <1>2, <2>4, ShiftEffect
        <3>2. Unchanged /\ (Going(DECODE)' <=> Going(DECODE))
            BY <1>2, <2>4, <3>1, HazardCarried, CarriedKeeps DEF Shift
        <3> QED
            BY <1>1, <2>1, <3>2 DEF Branching, Resolved
    <2> QED
        BY <2>1, <2>2, <2>3, <2>4
<1>3. CASE Still \/ Passes \/ EndCycle \/ UNCHANGED vars
    <2>1. \A i \in FETCH .. WB : Carried(i, i)
        BY <1>1, <1>3, StillEffect, PassesEffect, EndCycleEffect, StutterEffect
    <2>2. Unchanged /\ (Going(DECODE)' <=> Going(DECODE))
        BY <1>1, <1>3, <2>1, StillEffect, PassesEffect, EndCycleEffect, StutterEffect,
           HazardCarried, CarriedKeeps
    <2>3. Resolved' /\ Code(DECODE) => Resolved
        BY <1>1, <1>3, StillEffect, PassesEffect, EndCycleEffect, StutterEffect DEF Resolved
    <2> QED
        BY <1>1, <2>2, <2>3 DEF Branching
<1>4. CASE writeback_state \/ fetch_instruction
    <2>1. /\ ~Resolved' /\ btaken' = btaken
          /\ \A i \in {DECODE, EXEC, MEM} : Slot(i)' = Slot(i)
        BY <1>4, WriteBackEffect, Fetches DEF writeback_state, Resolved, Slot
    <2>2. Unchanged
        BY <2>1 DEF RawHazard, Code, Jump, Slot
    <2> QED
        BY <1>1, <2>1, <2>2 DEF Branching
<1>5. CASE Decodes
    <2>1. /\ decode /\ (Code(DECODE)' <=> Code(DECODE)) /\ (RawHazard' <=> RawHazard)
          /\ Code(DECODE) => Carried(DECODE, DECODE)
          /\ ~Code(DECODE) => Slot(DECODE)'.op = "add"
          /\ RawHazard => btaken' = btaken
          /\ ~RawHazard =>
                btaken' = IF Slot(DECODE)'.op \in {"ll", "sc"} THEN btaken
                          ELSE Taken(Slot(DECODE)'.op, decode_buf'.rs, decode_buf'.rt)
        BY <1>5, Decoding
    <2>2. CASE RawHazard
        BY <1>1, <2>1, <2>2 DEF Branching
    <2>3. CASE ~RawHazard /\ ~Code(DECODE)
        <3>1. btaken' = FALSE
            BY <2>1, <2>3 DEF Taken
        <3> QED
            BY <2>1, <2>3, <3>1 DEF Branching
    <2>4. CASE ~RawHazard /\ Code(DECODE)
        <3>1. \A f \in {"rs", "rt"} : decode_buf'[f] = Value(Slot(DECODE), Slot(DECODE)[f])'
            BY <1>1, <2>1, <2>4, DecodeReads DEF Slot
        <3>2. decode_buf'.rs = Value(Slot(DECODE), Slot(DECODE).rs)'
              /\ decode_buf'.rt = Value(Slot(DECODE), Slot(DECODE).rt)'
            BY <3>1
        <3>3. Jump(DECODE)' <=> Jump(DECODE)
            BY <2>1, <2>4, CarriedKeeps
        <3>4. CASE Slot(DECODE)'.op \in {"ll", "sc"}
            <4>1. ~Jump(DECODE)' /\ ~Going(DECODE)'
                BY <3>4 DEF Jump, IsJump, BranchOps, Going, Taken
            <4>2. btaken' = btaken
                BY <2>1, <2>4, <3>4
            <4> QED
                BY <1>1, <3>3, <4>1, <4>2 DEF Branching
        <3>5. CASE Slot(DECODE)'.op \notin {"ll", "sc"}
            <4>1. btaken' = Taken(Slot(DECODE)'.op, decode_buf'.rs, decode_buf'.rt)
                BY <2>1, <2>4, <3>5
            <4>2. Going(DECODE)' <=> Taken(Slot(DECODE)'.op, decode_buf'.rs, decode_buf'.rt)
                BY <3>2 DEF Going
            <4>3. btaken' <=> Going(DECODE)'
                BY <4>1, <4>2
            <4>4. Going(DECODE)' => Jump(DECODE)'
                BY DEF Going, Taken, Jump, IsJump, BranchOps
            <4> QED
                BY <2>1, <2>4, <4>3, <4>4 DEF Branching
        <3> QED
            BY <3>4, <3>5
    <2> QED
        BY <2>2, <2>3, <2>4
<1> QED
    BY <1>2, <1>3, <1>4, <1>5, StepCases

-----------------------------------------------------------------------------
(***************************************************************************)
(* The order of the instructions.                                          *)
(***************************************************************************)

\* Which slots are pending.
LEMMA PendingSlots ==
    /\ Pending(FETCH) <=> Live(FETCH)
    /\ Pending(DECODE) <=> Live(DECODE)
    /\ Pending(EXEC) <=> Live(EXEC)
    /\ Pending(MEM) <=> Live(MEM) /\ \/ Slot(MEM).op # "sw"
                                     \/ stage \in {MEM, WB} \/ request.left > 0
    /\ Pending(WB) <=> Live(WB) /\ stage = WB /\ Slot(WB).op # "sw"
BY DEF Pending, Slot

LEMMA PendingSlotsNext ==
    /\ Pending(FETCH)' <=> Live(FETCH)'
    /\ Pending(DECODE)' <=> Live(DECODE)'
    /\ Pending(EXEC)' <=> Live(EXEC)'
    /\ Pending(MEM)' <=> Live(MEM)' /\ \/ Slot(MEM)'.op # "sw"
                                       \/ stage' \in {MEM, WB} \/ request'.left > 0
    /\ Pending(WB)' <=> Live(WB)' /\ stage' = WB /\ Slot(WB)'.op # "sw"
BY DEF Pending, Slot, Live

\* The loop gets in this cycle to what has been shifted.
LEMMA ShiftReaches ==
    ASSUME IInv, IInv', SequentialInv, HoldLines', Shift, NEW i \in {MEM, WB}, Live(i)'
    PROVE  stage' = last_command /\ last_command >= i
<1>1. TypeOK /\ TypeOK' /\ Reached /\ Reached' /\ Waiting /\ Regular(program)
    BY DEF IInv, SequentialInv
<1>2. /\ last_command' = last_command /\ program' = program /\ stage = SHIFT
      /\ stage' = IF last_command >= Hazard THEN last_command ELSE AGAIN
      /\ stage' # SHIFT
    BY <1>1, ShiftEffect
<1>3. Slot(i)'.op # "none"
    <2>1. Slot(i)' \in Commands
        <3>1. pipeline_array' \in [FETCH .. WB -> Commands]
            BY <1>1 DEF TypeOK
        <3> QED
            BY <3>1 DEF Slot
    <2>2. HoldsLine(i)'
        BY DEF HoldLines
    <2> QED
        BY <2>1, <2>2 DEF HoldsLine, Commands, Blanks, Ops, AluOps, BranchOps, MemOps
<1>4. last_command >= i
    <2>1. i < last_command' \/ i = last_command'
        BY <1>1, <1>3 DEF Reached, Slot
    <2> QED
        BY <1>1, <1>2, <2>1 DEF TypeOK
<1>5. last_command >= Hazard
    <2>1. Hazard \in {FETCH, EXEC, WB} /\ last_command \in FETCH .. WB
        BY <1>1, ShiftEffect DEF TypeOK
    <2>2. CASE Hazard = WB
        <3>1. Slot(MEM).op # "none" /\ request.left > 0
            BY <1>1, <2>2 DEF Hazard, Waiting, MemOps
        <3>2. MEM < last_command
            BY <1>1, <1>2, <3>1 DEF Reached, Slot
        <3> QED
            BY <2>1, <2>2, <3>2
    <2> QED
        BY <1>4, <2>1, <2>2
<1> QED
    BY <1>2, <1>4, <1>5

\* Shifting the slots leaves the instructions in flight what they are.
LEMMA ShiftFlight ==
    ASSUME IInv, IInv', SequentialInv, HoldLines', Shift
    PROVE  /\ ~Pending(WB)
           /\ Hazard = 0 =>
                /\ NextPc(1)' = pc /\ NextNpc(1)' = pc + 1 /\ ~Live(FETCH)'
                /\ NextPc(2)' = NextPc(1) /\ NextNpc(2)' = NextNpc(1)
                /\ NextPc(3)' = NextPc(2) /\ NextNpc(3)' = NextNpc(2)
                /\ NextPc(4)' = NextPc(3) /\ NextNpc(4)' = NextNpc(3)
                /\ NextPc(5)' = NextPc(4) /\ NextNpc(5)' = NextNpc(4)
                /\ Pending(MEM)' <=> Pending(EXEC)
                /\ Pending(WB)' <=> Pending(MEM)
           /\ Hazard = EXEC =>
                /\ NextPc(1)' = NextPc(1) /\ ~Pending(EXEC)'
                /\ NextPc(3)' = NextPc(2) /\ NextNpc(3)' = NextNpc(2)
                /\ NextPc(4)' = NextPc(3) /\ NextNpc(4)' = NextNpc(3)
                /\ NextPc(5)' = NextPc(4) /\ NextNpc(5)' = NextNpc(4)
                /\ Pending(MEM)' <=> Pending(EXEC)
                /\ Pending(WB)' <=> Pending(MEM)
           /\ Hazard = WB =>
                /\ NextPc(1)' = NextPc(1) /\ ~Pending(WB)'
                /\ NextPc(2)' = NextPc(2) /\ NextNpc(2)' = NextNpc(2)
                /\ NextPc(3)' = NextPc(3) /\ NextNpc(3)' = NextNpc(3)
                /\ NextPc(5)' = NextPc(4) /\ NextNpc(5)' = NextNpc(4)
                /\ Pending(MEM)' <=> Pending(MEM)
                /\ Pending(EXEC)' <=> Pending(EXEC)
<1>1. TypeOK /\ TypeOK' /\ Waiting
    BY DEF IInv, SequentialInv
<1>2. /\ stage = SHIFT /\ pc' = pc /\ request' = request
      /\ \A i \in FETCH .. WB :
            /\ i > Hazard => Slot(i)' = Slot(i - 1) /\ (Live(i)' <=> Live(i - 1))
            /\ i = Hazard => ~Live(i)'
            /\ i < Hazard => Slot(i)' = Slot(i) /\ (Live(i)' <=> Live(i))
    BY <1>1, ShiftEffect, NewSlotFacts DEF Live, Slot
<1>3. \A i \in {MEM, WB} : Live(i)' => stage' = last_command /\ last_command >= i
    BY ShiftReaches
<1>4. last_command \in FETCH .. WB
    BY <1>1 DEF TypeOK
<1>5. ~Pending(WB)
    BY <1>2, PendingSlots
<1>6. ASSUME Hazard < MEM
      PROVE  (Pending(MEM)' <=> Pending(EXEC)) /\ (Pending(WB)' <=> Pending(MEM))
    <2>1. /\ Slot(MEM)' = Slot(EXEC) /\ (Live(MEM)' <=> Live(EXEC))
          /\ Slot(WB)' = Slot(MEM) /\ (Live(WB)' <=> Live(MEM))
        BY <1>1, <1>2, <1>6, ShiftEffect, MEM - 1 = EXEC, WB - 1 = MEM
    <2>2. request.left > 0 => Hazard = WB
        BY DEF Hazard
    <2>3. (Live(MEM)' => stage' \in {MEM, WB}) /\ (Live(WB)' => stage' = WB)
        BY <1>3, <1>4
    <2>4. request.left \in Nat
        BY <1>1 DEF TypeOK
    <2> QED
        BY <1>2, <1>6, <2>1, <2>2, <2>3, <2>4, PendingSlots, PendingSlotsNext
<1>7. CASE Hazard = 0
    <2>1. /\ ~Live(FETCH)' /\ (Live(DECODE)' <=> Live(FETCH)) /\ Slot(DECODE)' = Slot(FETCH)
          /\ (Live(EXEC)' <=> Live(DECODE)) /\ Slot(EXEC)' = Slot(DECODE)
          /\ Slot(MEM)' = Slot(EXEC) /\ Slot(WB)' = Slot(MEM)
        BY <1>2, <1>7
    <2>2. (Pending(MEM)' <=> Pending(EXEC)) /\ (Pending(WB)' <=> Pending(MEM))
        BY <1>6, <1>7
    <2>3. NextPc(1)' = pc /\ NextNpc(1)' = pc + 1 /\ NextPc(0) = pc /\ NextNpc(0) = pc + 1
        BY <1>2, <2>1, FlightNow, FlightNext, PendingSlotsNext DEF Flight
    <2>4. NextPc(2)' = NextPc(1) /\ NextNpc(2)' = NextNpc(1)
        BY <2>1, <2>3, FlightNow, FlightNext, PendingSlots, PendingSlotsNext DEF Flight
    <2>5. NextPc(3)' = NextPc(2) /\ NextNpc(3)' = NextNpc(2)
        BY <2>1, <2>4, FlightNow, FlightNext, PendingSlots, PendingSlotsNext DEF Flight
    <2>6. NextPc(4)' = NextPc(3) /\ NextNpc(4)' = NextNpc(3)
        BY <2>1, <2>2, <2>5, FlightNow, FlightNext DEF Flight
    <2>7. NextPc(5)' = NextPc(4) /\ NextNpc(5)' = NextNpc(4)
        BY <2>1, <2>2, <2>6, FlightNow, FlightNext DEF Flight
    <2> QED
        BY <1>5, <1>7, <2>1, <2>2, <2>3, <2>4, <2>5, <2>6, <2>7
<1>8. CASE Hazard = EXEC
    <2>1. /\ (Live(FETCH)' <=> Live(FETCH)) /\ Slot(FETCH)' = Slot(FETCH)
          /\ (Live(DECODE)' <=> Live(DECODE)) /\ Slot(DECODE)' = Slot(DECODE)
          /\ ~Live(EXEC)' /\ Slot(MEM)' = Slot(EXEC) /\ Slot(WB)' = Slot(MEM)
        BY <1>2, <1>8
    <2>2. (Pending(MEM)' <=> Pending(EXEC)) /\ (Pending(WB)' <=> Pending(MEM))
        BY <1>6, <1>8
    <2>3. /\ NextPc(1)' = NextPc(1) /\ NextNpc(1)' = NextNpc(1)
          /\ NextPc(2)' = NextPc(2) /\ NextNpc(2)' = NextNpc(2)
        BY <1>2, <2>1, FlightNow, FlightNext, PendingSlots, PendingSlotsNext DEF Flight
    <2>4. NextPc(3)' = NextPc(2) /\ NextNpc(3)' = NextNpc(2) /\ ~Pending(EXEC)'
        BY <2>1, <2>3, FlightNext, PendingSlotsNext DEF Flight
    <2>5. NextPc(4)' = NextPc(3) /\ NextNpc(4)' = NextNpc(3)
        BY <2>1, <2>2, <2>4, FlightNow, FlightNext DEF Flight
    <2>6. NextPc(5)' = NextPc(4) /\ NextNpc(5)' = NextNpc(4)
        BY <2>1, <2>2, <2>5, FlightNow, FlightNext DEF Flight
    <2> QED
        BY <1>5, <1>8, <2>2, <2>3, <2>4, <2>5, <2>6
<1>9. CASE Hazard = WB
    <2>1. /\ (Live(FETCH)' <=> Live(FETCH)) /\ Slot(FETCH)' = Slot(FETCH)
          /\ (Live(DECODE)' <=> Live(DECODE)) /\ Slot(DECODE)' = Slot(DECODE)
          /\ (Live(EXEC)' <=> Live(EXEC)) /\ Slot(EXEC)' = Slot(EXEC)
          /\ (Live(MEM)' <=> Live(MEM)) /\ Slot(MEM)' = Slot(MEM)
          /\ ~Live(WB)'
        BY <1>2, <1>9
    <2>2. request.left > 0
        BY <1>9 DEF Hazard
    <2>3. /\ Pending(MEM)' <=> Pending(MEM)
          /\ Pending(EXEC)' <=> Pending(EXEC)
          /\ ~Pending(WB)'
        BY <1>2, <2>1, <2>2, PendingSlots, PendingSlotsNext
    <2>4. /\ NextPc(1)' = NextPc(1) /\ NextNpc(1)' = NextNpc(1)
          /\ NextPc(2)' = NextPc(2) /\ NextNpc(2)' = NextNpc(2)
        BY <1>2, <2>1, FlightNow, FlightNext, PendingSlots, PendingSlotsNext DEF Flight
    <2>5. NextPc(3)' = NextPc(3) /\ NextNpc(3)' = NextNpc(3)
        BY <2>1, <2>3, <2>4, FlightNow, FlightNext DEF Flight
    <2>6. NextPc(5)' = NextPc(4) /\ NextNpc(5)' = NextNpc(4)
        BY <2>1, <2>3, <2>5, FlightNow, FlightNext DEF Flight
    <2> QED
        BY <1>5, <1>9, <2>3, <2>4, <2>5, <2>6
<1> QED
    BY <1>1, <1>5, <1>7, <1>8, <1>9, ShiftEffect

\* A slot is followed as the one was that it has been carried from.
LEMMA CarriedFollows ==
    ASSUME NEW i, NEW j, Carried(i, j), Follows(i), Pending(j)' => Pending(i),
           NextPc(j)' = NextPc(i), NextNpc(j)' = NextNpc(i)
    PROVE  Follows(j)'
<1>1. (Going(j)' <=> Going(i)) /\ (Jump(i) => Destination(j)' = Destination(i))
    BY CarriedKeeps
<1>2. Going(i) => Jump(i)
    BY DEF Going, Taken, Jump, IsJump, BranchOps
<1> QED
    BY <1>1, <1>2 DEF Follows

LEMMA ShiftOrder ==
    ASSUME IInv, IInv', SequentialInv, HoldLines', Shift
    PROVE  Order'
<1>1. /\ TypeOK /\ HoldLines /\ Regular(program) /\ Filled /\ Fetching /\ Branching /\ Order
      /\ Reached /\ Contents
    BY DEF IInv, SequentialInv
<1>2. /\ first' = Hazard /\ Hazard \in {FETCH, EXEC, WB} /\ stage = SHIFT /\ pc' = pc
      /\ stage' # SHIFT
    BY <1>1, ShiftEffect
<1>3. CASE Hazard = 0
    <2>1. Carried(FETCH, DECODE) /\ Carried(DECODE, EXEC) /\ Carried(EXEC, MEM) /\ Carried(MEM, WB)
        BY <1>1, <1>3, ShiftEffect, DECODE - 1 = FETCH, EXEC - 1 = DECODE, MEM - 1 = EXEC,
           WB - 1 = MEM
    <2>2. ~Jump(FETCH)' /\ ~Live(FETCH)'
        BY <1>1, <1>3, ShiftEffect, NewSlotFacts DEF Jump, IsJump, BranchOps, Live, Slot
    <2>3. Jump(DECODE)' => NextPc(DECODE)' = Slot(DECODE)'.at + 1
        BY <1>1, <1>3, <2>1, CarriedKeeps, ShiftFlight DEF Order, Carried
    <2>4. Follows(EXEC)'
        <3>1. NextPc(2)' = NextPc(1) /\ NextNpc(2)' = NextNpc(1)
            BY <1>3, ShiftFlight
        <3>2. (Going(EXEC)' <=> Going(DECODE)) /\ (Jump(DECODE) => Destination(EXEC)' = Destination(DECODE))
            BY <2>1, CarriedKeeps
        <3>3. Going(DECODE) => Jump(DECODE)
            BY DEF Going, Taken, Jump, IsJump, BranchOps
        <3>4. CASE Live(FETCH) /\ Live(DECODE)
            <4>1. ~RawHazard
                BY <1>3 DEF Hazard
            <4>2. btaken <=> Going(DECODE)
                <5>1. CASE Code(DECODE)
                    BY <1>1, <1>2, <4>1, <5>1 DEF Branching, Resolved
                <5>2. CASE ~Code(DECODE)
                    BY <1>1, <3>3, <5>2, LineFacts DEF Branching
                <5> QED
                    BY <5>1, <5>2
            <4>3. pc = IF Going(DECODE) THEN Destination(DECODE) ELSE Slot(FETCH).at + 1
                BY <1>1, <1>2, <3>4, <4>2 DEF Order, Jumped
            <4>4. NextPc(1) = Slot(FETCH).at /\ NextNpc(1) = pc
                BY <3>4, FlightNow, PendingSlots DEF Flight
            <4> QED
                BY <3>1, <3>2, <3>3, <4>3, <4>4 DEF Follows
        <3>5. CASE ~Live(FETCH) /\ Live(DECODE)
            <4>1. ~Going(DECODE)
                <5>1. CASE last_command > 0
                    <6>1. Idle(FETCH)
                        BY <1>1, <1>2, <3>5, <5>1 DEF Filled, Empty
                    <6> QED
                        BY <1>1, <3>3, <6>1 DEF Fetching
                <5>2. CASE ~(last_command > 0)
                    <6>1. Slot(DECODE).op = "none"
                        BY <1>1, <1>2, <5>2 DEF Reached, TypeOK, Slot
                    <6> QED
                        BY <3>3, <6>1 DEF Jump, IsJump, BranchOps
                <5> QED
                    BY <5>1, <5>2
            <4>2. NextPc(1) = pc /\ NextNpc(1) = pc + 1
                BY <3>5, FlightNow, PendingSlots DEF Flight
            <4> QED
                BY <3>1, <3>2, <4>1, <4>2 DEF Follows
        <3>6. CASE ~Live(DECODE)
            BY <2>1, <3>6, CarriedKeeps, PendingSlotsNext DEF Follows
        <3> QED
            BY <3>4, <3>5, <3>6
    <2>5. Follows(MEM)' /\ Follows(WB)'
        BY <1>1, <1>3, <2>1, ShiftFlight, CarriedFollows DEF Order
    <2> QED
        BY <2>2, <2>3, <2>4, <2>5 DEF Order
<1>4. CASE Hazard = EXEC
    <2>1. /\ Carried(FETCH, FETCH) /\ Carried(DECODE, DECODE)
          /\ Carried(EXEC, MEM) /\ Carried(MEM, WB)
        BY <1>1, <1>4, ShiftEffect, MEM - 1 = EXEC, WB - 1 = MEM
    <2>2. /\ Slot(FETCH)'.at = Slot(FETCH).at /\ Slot(DECODE)'.at = Slot(DECODE).at
          /\ (Jump(FETCH)' <=> Jump(FETCH)) /\ (Jump(DECODE)' <=> Jump(DECODE))
          /\ (Live(FETCH)' <=> Live(FETCH)) /\ (Live(DECODE)' <=> Live(DECODE))
        BY <2>1, CarriedKeeps DEF Carried
    <2>3. NextPc(1)' = NextPc(1)
        BY <1>4, ShiftFlight
    <2>4. ~Jumped /\ ~Jumped'
        <3>1. RawHazard
            BY <1>4 DEF Hazard
        <3> QED
            BY <1>1, <1>2, <1>4, <3>1 DEF Branching, Jumped
    <2>5. Follows(EXEC)'
        BY <1>4, ShiftFlight DEF Follows
    <2>6. Follows(MEM)' /\ Follows(WB)'
        BY <1>1, <1>4, <2>1, ShiftFlight, CarriedFollows DEF Order
    <2> QED
        BY <1>1, <1>2, <2>2, <2>3, <2>4, <2>5, <2>6 DEF Order
<1>5. CASE Hazard = WB
    <2>1. /\ Carried(FETCH, FETCH) /\ Carried(DECODE, DECODE)
          /\ Carried(EXEC, EXEC) /\ Carried(MEM, MEM)
        BY <1>1, <1>5, ShiftEffect
    <2>2. /\ Slot(FETCH)'.at = Slot(FETCH).at /\ Slot(DECODE)'.at = Slot(DECODE).at
          /\ (Jump(FETCH)' <=> Jump(FETCH)) /\ (Jump(DECODE)' <=> Jump(DECODE))
          /\ (Live(FETCH)' <=> Live(FETCH)) /\ (Live(DECODE)' <=> Live(DECODE))
          /\ (Jump(DECODE) => Destination(DECODE)' = Destination(DECODE))
        BY <2>1, CarriedKeeps DEF Carried
    <2>3. NextPc(1)' = NextPc(1)
        BY <1>5, ShiftFlight
    <2>4. (Jumped' <=> Jumped) /\ (Jumped => Jump(DECODE))
        <3>1. btaken' = btaken
            BY <1>5 DEF Shift
        <3> QED
            BY <1>1, <1>2, <1>5, <3>1 DEF Branching, Jumped
    <2>5. Follows(WB)'
        BY <1>5, ShiftFlight DEF Follows
    <2>6. Follows(EXEC)' /\ Follows(MEM)'
        BY <1>1, <1>5, <2>1, ShiftFlight, CarriedFollows DEF Order
    <2> QED
        BY <1>1, <1>2, <2>2, <2>3, <2>4, <2>5, <2>6 DEF Order
<1> QED
    BY <1>2, <1>3, <1>4, <1>5

\* The instructions of the slots up to EXEC, when neither they nor pc change.
LEMMA FrontKept ==
    ASSUME pc' = pc, Slot(FETCH)'.at = Slot(FETCH).at, Slot(DECODE)'.at = Slot(DECODE).at,
           Slot(EXEC)'.at = Slot(EXEC).at
    PROVE  /\ NextPc(1)' = NextPc(1) /\ NextNpc(1)' = NextNpc(1)
           /\ NextPc(2)' = NextPc(2) /\ NextNpc(2)' = NextNpc(2)
           /\ NextPc(3)' = NextPc(3) /\ NextNpc(3)' = NextNpc(3)
<1>1. /\ Pending(FETCH)' <=> Pending(FETCH)
      /\ Pending(DECODE)' <=> Pending(DECODE)
      /\ Pending(EXEC)' <=> Pending(EXEC)
    BY PendingSlots, PendingSlotsNext DEF Live, Slot
<1> QED
    BY <1>1, FlightNow, FlightNext DEF Flight

\* A step that leaves pc, the slots up to EXEC and what is decided in DECODE alone.
LEMMA KeptOrder ==
    ASSUME Order, pc' = pc, stage' # WB,
           Slot(FETCH)'.at = Slot(FETCH).at, Jump(FETCH)' => Jump(FETCH),
           Slot(DECODE)'.at = Slot(DECODE).at, Jump(DECODE)' => Jump(DECODE),
           Carried(EXEC, EXEC), Carried(MEM, MEM), Pending(MEM)' => Pending(MEM),
           Jumped' <=> Jumped, Jumped => Destination(DECODE)' = Destination(DECODE)
    PROVE  Order'
<1>1. /\ NextPc(1)' = NextPc(1)
      /\ NextPc(2)' = NextPc(2) /\ NextNpc(2)' = NextNpc(2)
      /\ NextPc(3)' = NextPc(3) /\ NextNpc(3)' = NextNpc(3)
    BY FrontKept DEF Carried
<1>2. (Live(FETCH)' <=> Live(FETCH)) /\ (Live(DECODE)' <=> Live(DECODE))
      /\ (Live(EXEC)' <=> Live(EXEC))
    BY DEF Live, Slot, Carried
<1>3. Pending(EXEC)' => Pending(EXEC)
    BY <1>2, PendingSlots, PendingSlotsNext
<1>4. Follows(EXEC)' /\ Follows(MEM)'
    BY <1>1, <1>3, CarriedFollows DEF Order
<1>5. Follows(WB)'
    BY PendingSlotsNext DEF Follows
<1> QED
    BY <1>1, <1>2, <1>4, <1>5 DEF Order

\* Fetching and the end of the cycle leave the instructions in flight what they are.
LEMMA FetchFlight ==
    ASSUME IInv, SequentialInv, fetch_instruction
    PROVE  /\ Live(FETCH)' /\ Slot(FETCH)'.at = pc
           /\ NextPc(1)' = NextPc(1) /\ NextNpc(1)' = NextNpc(1)
           /\ NextPc(2)' = NextPc(2) /\ NextNpc(2)' = NextNpc(2)
           /\ NextPc(3)' = NextPc(3) /\ NextNpc(3)' = NextNpc(3)
<1>1. TypeOK
    BY DEF IInv
<1>2. /\ pc' = pc + 1 /\ Slot(FETCH)' = Entry(program, pc) /\ ~Live(FETCH)
      /\ \A i \in DECODE .. WB : Slot(i)' = Slot(i) /\ (Live(i)' <=> Live(i))
    BY Fetches, CarriedKeeps
<1>3. Live(FETCH)' /\ Slot(FETCH)'.at = pc
    BY <1>1, <1>2, EntryFacts DEF Live, Slot, TypeOK
<1>4. NextPc(1)' = NextPc(1) /\ NextNpc(1)' = NextNpc(1)
    BY <1>2, <1>3, FlightNow, FlightNext, PendingSlots, PendingSlotsNext DEF Flight
<1>5. /\ NextPc(2)' = NextPc(2) /\ NextNpc(2)' = NextNpc(2)
      /\ NextPc(3)' = NextPc(3) /\ NextNpc(3)' = NextNpc(3)
    BY <1>2, <1>4, FlightNow, FlightNext, PendingSlots, PendingSlotsNext DEF Flight
<1> QED
    BY <1>3, <1>4, <1>5

LEMMA EndCycleFlight ==
    ASSUME IInv, SequentialInv, EndCycle
    PROVE  /\ btaken => /\ Jump(DECODE) /\ Live(DECODE) /\ Live(FETCH)
                        /\ Slot(FETCH).at = Slot(DECODE).at + 1 /\ ~Jump(FETCH)
           /\ NextPc(2)' = NextPc(2) /\ NextNpc(2)' = NextNpc(2)
           /\ NextPc(3)' = NextPc(3) /\ NextNpc(3)' = NextNpc(3)
           /\ Jump(DECODE) => NextPc(1)' = NextPc(1)
<1>1. /\ TypeOK /\ HoldLines /\ Regular(program) /\ Filled /\ Fetching /\ Branching /\ Order
    BY DEF IInv, SequentialInv
<1>2. /\ stage = END /\ (~btaken => pc' = pc)
      /\ \A i \in FETCH .. WB : Slot(i)' = Slot(i) /\ (Live(i)' <=> Live(i))
    BY EndCycleEffect DEF Slot, Live
<1>3. ASSUME btaken
      PROVE  /\ Jump(DECODE) /\ Live(DECODE) /\ Live(FETCH)
             /\ Slot(FETCH).at = Slot(DECODE).at + 1 /\ ~Jump(FETCH)
    <2>1. Jump(DECODE) /\ Live(DECODE) /\ Slot(DECODE).at \in DOMAIN program
        BY <1>1, <1>3, LineFacts DEF Branching
    <2>2. Live(FETCH)
        BY <1>1, <1>2, <2>1 DEF Filled, Empty, Fetching
    <2>3. NextPc(1) = Slot(FETCH).at
        BY <2>2, FlightNow, PendingSlots DEF Flight
    <2>4. Slot(FETCH).at = Slot(DECODE).at + 1
        BY <1>1, <2>1, <2>3 DEF Order
    <2>5. IsJump(program[Slot(DECODE).at])
        BY <1>1, <2>1, LineFacts
    <2>6. ~IsJump(program[Slot(FETCH).at])
        BY <1>1, <2>1, <2>4, <2>5 DEF Regular
    <2>7. ~Jump(FETCH)
        BY <1>1, <2>2, <2>6, LineFacts
    <2> QED
        BY <2>1, <2>2, <2>4, <2>7
<1>4. /\ NextPc(2)' = NextPc(2) /\ NextNpc(2)' = NextNpc(2)
      /\ NextPc(3)' = NextPc(3) /\ NextNpc(3)' = NextNpc(3)
      /\ Jump(DECODE) => NextPc(1)' = NextPc(1)
    <2>1. CASE ~btaken
        BY <1>2, <2>1, FrontKept
    <2>2. CASE btaken
        <3>1. NextPc(1) = Slot(FETCH).at /\ NextPc(1)' = Slot(FETCH).at
            BY <1>2, <1>3, <2>2, FlightNow, FlightNext, PendingSlots, PendingSlotsNext DEF Flight
        <3>2. NextPc(2)' = NextPc(2) /\ NextNpc(2)' = NextNpc(2)
            BY <1>2, <1>3, <2>2, <3>1, FlightNow, FlightNext, PendingSlots, PendingSlotsNext
            DEF Flight
        <3>3. NextPc(3)' = NextPc(3) /\ NextNpc(3)' = NextNpc(3)
            BY <1>2, <3>2, FlightNow, FlightNext, PendingSlots, PendingSlotsNext DEF Flight
        <3> QED
            BY <3>1, <3>2, <3>3
    <2> QED
        BY <2>1, <2>2
<1> QED
    BY <1>3, <1>4

LEMMA OrderStep ==
    ASSUME Executable, IInv, IInv', SequentialInv, HoldLines', Branching', [Next]_vars
    PROVE  Order'
<1>1. /\ TypeOK /\ HoldLines /\ Regular(program) /\ Filled /\ Fetching /\ Branching /\ Order
      /\ Waiting /\ Decoded
    BY DEF IInv, SequentialInv
<1>2. CASE Shift
    BY <1>2, ShiftOrder
<1>3. CASE Still \/ Passes
    <2>1. /\ pc' = pc /\ stage' # WB /\ stage' # SHIFT /\ stage # SHIFT
          /\ first' = first /\ btaken' = btaken
          /\ \A i \in FETCH .. WB : Carried(i, i)
        BY <1>1, <1>3, StillEffect, PassesEffect
    <2>2. (Jumped' <=> Jumped) /\ (Jumped => Jump(DECODE))
        BY <1>1, <2>1 DEF Jumped, Branching
    <2>3. Pending(MEM)' => Pending(MEM)
        <3>1. Slot(MEM)'.op = Slot(MEM).op /\ (Live(MEM)' <=> Live(MEM))
            BY <2>1, CarriedKeeps DEF Carried
        <3>2. stage' \in {MEM, WB} => stage = WB
            BY <1>1, <1>3, StillEffect, PassesEffect
        <3>3. memory_state \/ request' = request
            BY <1>3, PassesEffect DEF Still, Skip, execute
        <3>4. memory_state => stage = MEM
            BY DEF memory_state
        <3> QED
            BY <3>1, <3>2, <3>3, <3>4, PendingSlots, PendingSlotsNext
    <2>4. /\ Slot(FETCH)'.at = Slot(FETCH).at /\ Slot(DECODE)'.at = Slot(DECODE).at
          /\ (Jump(FETCH)' <=> Jump(FETCH)) /\ (Jump(DECODE)' <=> Jump(DECODE))
          /\ (Jump(DECODE) => Destination(DECODE)' = Destination(DECODE))
        BY <2>1, CarriedKeeps DEF Carried
    <2> QED
        BY <1>1, <2>1, <2>2, <2>3, <2>4, KeptOrder
<1>4. CASE writeback_state
    <2>1. /\ pc' = pc /\ stage = WB /\ stage' = MEM /\ first' = first /\ first # WB
          /\ pipeline_array' = pipeline_array
          /\ Carried(EXEC, EXEC) /\ Carried(MEM, MEM) /\ request' = request
        BY <1>4, WriteBackEffect DEF writeback_state
    <2>2. ~Jumped' /\ ~Jumped
        BY <2>1 DEF Jumped
    <2>3. Pending(MEM)' => Pending(MEM)
        BY <2>1 DEF Pending, Live
    <2>4. /\ Slot(FETCH)' = Slot(FETCH) /\ Slot(DECODE)' = Slot(DECODE)
          /\ (Jump(FETCH)' <=> Jump(FETCH)) /\ (Jump(DECODE)' <=> Jump(DECODE))
        BY <2>1 DEF Slot, Jump
    <2> QED
        BY <1>1, <2>1, <2>2, <2>3, <2>4, KeptOrder
<1>5. CASE Decodes
    <2>1. /\ pc' = pc /\ stage' # WB /\ stage \notin {MEM, WB} /\ stage' \notin {MEM, WB}
          /\ first' = first /\ request' = request
          /\ \A i \in FETCH .. WB : i # DECODE => Carried(i, i)
          /\ Slot(DECODE)'.at = Slot(DECODE).at
          /\ Code(DECODE) => Carried(DECODE, DECODE)
          /\ ~Code(DECODE) => Slot(DECODE)'.op = "add"
          /\ \/ stage = DECODE /\ first = 0 /\ stage' = FETCH
             \/ stage = AGAIN /\ stage' = END
          /\ (Code(DECODE)' <=> Code(DECODE)) /\ (RawHazard' <=> RawHazard)
          /\ RawHazard => btaken' = btaken
        BY <1>5, Decoding
    <2>2. Jump(DECODE)' => Jump(DECODE)
        <3>1. CASE Code(DECODE)
            BY <2>1, <3>1, CarriedKeeps
        <3>2. CASE ~Code(DECODE)
            BY <2>1, <3>2 DEF Jump, IsJump, BranchOps
        <3> QED
            BY <3>1, <3>2
    <2>3. Jumped' <=> Jumped
        <3>1. CASE first # WB
            BY <2>1, <3>1 DEF Jumped
        <3>2. CASE first = WB /\ RawHazard
            BY <2>1, <3>2 DEF Jumped
        <3>3. CASE first = WB /\ ~RawHazard
            <4>1. Code(DECODE) => (btaken <=> Going(DECODE)) /\ (btaken' <=> Going(DECODE)')
                BY <1>1, <2>1, <3>3 DEF Branching, Resolved
            <4>2. Code(DECODE) => (Going(DECODE)' <=> Going(DECODE))
                BY <2>1, CarriedKeeps
            <4>3. ~Code(DECODE) => ~btaken /\ ~btaken'
                BY <1>1, <2>1 DEF Branching
            <4> QED
                BY <2>1, <3>3, <4>1, <4>2, <4>3 DEF Jumped
        <3> QED
            BY <3>1, <3>2, <3>3
    <2>4. Jumped => Destination(DECODE)' = Destination(DECODE)
        <3>1. Jumped => Code(DECODE) /\ Jump(DECODE)
            BY <1>1 DEF Branching, Jumped
        <3> QED
            BY <2>1, <3>1, CarriedKeeps
    <2>5. /\ Slot(FETCH)'.at = Slot(FETCH).at /\ (Jump(FETCH)' <=> Jump(FETCH))
          /\ Slot(MEM)'.op = Slot(MEM).op /\ (Live(MEM)' <=> Live(MEM))
        BY <2>1, CarriedKeeps DEF Carried
    <2>6. Pending(MEM)' => Pending(MEM)
        BY <2>1, <2>5, PendingSlots, PendingSlotsNext
    <2> QED
        BY <1>1, <2>1, <2>2, <2>3, <2>4, <2>5, <2>6, KeptOrder
<1>6. CASE fetch_instruction
    <2>1. /\ stage' = AGAIN /\ stage = FETCH /\ first = 0 /\ first' = first /\ pc' = pc + 1
          /\ Slot(FETCH)' = Entry(program, pc) /\ ~Live(FETCH) /\ request' = request
          /\ \A i \in DECODE .. WB : Slot(i)' = Slot(i) /\ Carried(i, i)
        BY <1>6, Fetches
    <2>2. /\ Live(FETCH)' /\ Slot(FETCH)'.at = pc
          /\ NextPc(1)' = NextPc(1) /\ NextNpc(1)' = NextNpc(1)
          /\ NextPc(2)' = NextPc(2) /\ NextNpc(2)' = NextNpc(2)
          /\ NextPc(3)' = NextPc(3) /\ NextNpc(3)' = NextNpc(3)
        BY <1>6, FetchFlight
    <2>3. ~Jumped'
        BY <2>1 DEF Jumped
    <2>4. /\ Live(DECODE)' <=> Live(DECODE)
          /\ Live(EXEC)' <=> Live(EXEC)
          /\ Slot(DECODE)' = Slot(DECODE) /\ Slot(EXEC)' = Slot(EXEC)
          /\ Jump(DECODE)' <=> Jump(DECODE)
        BY <2>1, CarriedKeeps
    <2>5. (Pending(EXEC)' => Pending(EXEC)) /\ (Pending(MEM)' => Pending(MEM)) /\ ~Pending(WB)'
        <3>1. Slot(MEM)' = Slot(MEM) /\ (Live(MEM)' <=> Live(MEM))
            BY <2>1, CarriedKeeps
        <3> QED
            BY <2>1, <2>4, <3>1, PendingSlots, PendingSlotsNext
    <2>6. Follows(EXEC)' /\ Follows(MEM)' /\ Follows(WB)'
        <3>1. Follows(EXEC) /\ Follows(MEM) /\ Carried(EXEC, EXEC) /\ Carried(MEM, MEM)
            BY <1>1, <2>1 DEF Order
        <3> QED
            BY <2>2, <2>5, <3>1, CarriedFollows DEF Follows
    <2> QED
        BY <1>1, <2>1, <2>2, <2>3, <2>4, <2>6 DEF Order
<1>7. CASE EndCycle
    <2>1. /\ stage = END /\ stage' = SHIFT /\ pipeline_array' = pipeline_array
          /\ pc' = IF btaken THEN Target(decode_buf.rd) ELSE pc
          /\ btaken' = btaken /\ \A i \in FETCH .. WB : Carried(i, i)
          /\ regs' = regs
        BY <1>7, EndCycleEffect
    <2>2. /\ \A i \in FETCH .. WB : Slot(i)' = Slot(i) /\ (Live(i)' <=> Live(i))
          /\ \A i \in FETCH .. WB : Jump(i)' <=> Jump(i)
        BY <2>1 DEF Slot, Live, Jump
    <2>3. /\ btaken => /\ Jump(DECODE) /\ Live(DECODE) /\ Live(FETCH)
                       /\ Slot(FETCH).at = Slot(DECODE).at + 1 /\ ~Jump(FETCH)
          /\ NextPc(2)' = NextPc(2) /\ NextNpc(2)' = NextNpc(2)
          /\ NextPc(3)' = NextPc(3) /\ NextNpc(3)' = NextNpc(3)
          /\ Jump(DECODE) => NextPc(1)' = NextPc(1)
        BY <1>7, EndCycleFlight
    <2>4. btaken => pc' = Destination(DECODE)'
        <3> SUFFICES ASSUME btaken PROVE pc' = Destination(DECODE)'
            OBVIOUS
        <3>1. decode_buf.rd = Value(Slot(DECODE), Slot(DECODE).rd)
            BY <1>1, <2>1 DEF Decoded, Branching, Slot
        <3>2. pc' = Destination(DECODE)
            BY <2>1, <3>1 DEF Destination
        <3>3. Destination(DECODE)' = Destination(DECODE)
            BY <2>1, <2>3, CarriedKeeps
        <3> QED
            BY <3>2, <3>3
    <2>5. Pending(MEM)' => Pending(MEM)
        <3>1. request'.left > 0 => request.left > 0
            <4>1. ~(request.left > 0) => request' = request
                BY <1>7 DEF EndCycle
            <4> QED
                BY <4>1
        <3> QED
            BY <2>1, <2>2, <3>1, PendingSlots, PendingSlotsNext
    <2>6. Follows(EXEC)' /\ Follows(MEM)' /\ Follows(WB)'
        <3>1. Pending(EXEC)' => Pending(EXEC)
            BY <2>2, PendingSlots, PendingSlotsNext
        <3>2. ~Pending(WB)'
            BY <2>1, PendingSlotsNext
        <3> QED
            BY <1>1, <2>1, <2>3, <2>5, <3>1, <3>2, CarriedFollows DEF Order, Follows
    <2>7. CASE ~btaken
        <3>1. ~Jumped /\ ~Jumped'
            BY <2>1, <2>7 DEF Jumped
        <3> QED
            BY <1>1, <2>1, <2>2, <2>3, <2>6, <2>7, <3>1 DEF Order
    <2>8. CASE btaken
        <3>1. Jumped'
            BY <2>1, <2>8 DEF Jumped
        <3> QED
            BY <1>1, <2>1, <2>2, <2>3, <2>4, <2>6, <2>8, <3>1 DEF Order
    <2> QED
        BY <2>7, <2>8
<1>8. CASE UNCHANGED vars
    <2>1. /\ pc' = pc /\ stage' = stage /\ first' = first /\ btaken' = btaken
          /\ pipeline_array' = pipeline_array /\ request' = request
          /\ \A i \in FETCH .. WB : Carried(i, i)
        BY <1>8, StutterEffect
    <2>2. /\ \A i \in FETCH .. WB : Slot(i)' = Slot(i) /\ (Live(i)' <=> Live(i))
          /\ \A i \in FETCH .. WB : (Jump(i)' <=> Jump(i)) /\ (Pending(i)' <=> Pending(i))
          /\ Jumped' <=> Jumped
          /\ Jump(DECODE) => Destination(DECODE)' = Destination(DECODE)
        BY <2>1, CarriedKeeps DEF Slot, Live, Jump, Pending, Jumped
    <2>3. \A n \in 0 .. 5 : NextPc(n)' = NextPc(n) /\ NextNpc(n)' = NextNpc(n)
        BY <2>1, <2>2, FlightKept DEF Slot
    <2>4. \A i \in EXEC .. WB : Follows(i)'
        BY <1>1, <2>1, <2>2, <2>3, CarriedFollows DEF Order
    <2>5. NextPc(DECODE)' = NextPc(DECODE) /\ (Jumped => Jump(DECODE))
        BY <1>1, <2>3 DEF Branching, Jumped
    <2> QED
        BY <1>1, <2>1, <2>2, <2>4, <2>5 DEF Order
<1> QED
    BY <1>2, <1>3, <1>4, <1>5, <1>6, <1>7, <1>8, StepCases

-----------------------------------------------------------------------------
(***************************************************************************)
(* What the buffers hold, and what is written while they hold it.          *)
(***************************************************************************)

\* Only the shift changes the slots behind DECODE, and only it leads to WB.
LEMMA LateSlots ==
    ASSUME Executable, IInv, SequentialInv, [Next]_vars, ~Shift
    PROVE  /\ \A i \in EXEC .. WB : Slot(i)' = Slot(i)
           /\ \A i \in {EXEC, MEM} : Carried(i, i)
           /\ program' = program /\ first' = first
           /\ stage' = WB => UNCHANGED vars
<1>1. TypeOK
    BY DEF IInv
<1>2. CASE Still \/ Passes \/ EndCycle
    BY <1>1, <1>2, StillEffect, PassesEffect, EndCycleEffect DEF Slot
<1>3. CASE writeback_state
    BY <1>3, WriteBackEffect DEF writeback_state, Slot
<1>4. CASE Decodes
    BY <1>4, Decoding
<1>5. CASE fetch_instruction
    BY <1>5, Fetches
<1>6. CASE UNCHANGED vars
    BY <1>6, StutterEffect DEF Slot
<1> QED
    BY <1>2, <1>3, <1>4, <1>5, <1>6, StepCases

LEMMA ClearStep ==
    ASSUME Executable, IInv, SequentialInv, [Next]_vars
    PROVE  Clear'
<1>1. TypeOK /\ Clear
    BY DEF IInv, SequentialInv
<1>2. CASE ~Shift
    <2>1. /\ \A i \in EXEC .. WB : Slot(i)' = Slot(i)
          /\ stage' = WB => stage = WB
        BY <1>2, LateSlots DEF vars
    <2>2. \A i \in {EXEC, MEM} : Code(i)' <=> Code(i)
        BY <2>1 DEF Code, Slot
    <2> QED
        BY <1>1, <2>1, <2>2 DEF Clear
<1>3. CASE Shift
    <2> DEFINE Apart(c, d) == Protected(c) \cap Writes(d) \subseteq {immReg}
    <2> HIDE DEF Apart
    <2>1. Hazard \in {FETCH, EXEC, WB}
        BY <1>1, <1>3, ShiftEffect
    <2>2. Code(EXEC) => Apart(Slot(EXEC), Slot(MEM))
        BY <1>1 DEF Clear, Apart
    <2>3. CASE Hazard = 0
        <3>1. Slot(EXEC)' = Slot(DECODE) /\ Slot(MEM)' = Slot(EXEC) /\ Slot(WB)' = Slot(MEM)
            BY <1>1, <1>3, <2>3, ShiftEffect, EXEC - 1 = DECODE, MEM - 1 = EXEC, WB - 1 = MEM
        <3>2. ASSUME Code(DECODE), NEW i \in {EXEC, MEM} PROVE Apart(Slot(DECODE), Slot(i))
            <4>1. ~Conflict(Slot(DECODE), Slot(i))
                BY <2>3, <3>2 DEF Hazard, RawHazard, Slot
            <4>2. \A r \in Protected(Slot(DECODE)) :
                    r \in {Slot(DECODE).rs, Slot(DECODE).rt, Slot(DECODE).rd}
                BY DEF Protected, Reads
            <4> QED
                BY <4>1, <4>2, ConflictCovers DEF Apart
        <3>3. (Code(EXEC)' <=> Code(DECODE)) /\ (Code(MEM)' <=> Code(EXEC))
            BY <3>1 DEF Code, Slot
        <3>4. Code(EXEC)' => Apart(Slot(EXEC)', Slot(MEM)') /\ Apart(Slot(EXEC)', Slot(WB)')
            BY <3>1, <3>2, <3>3
        <3>5. Code(MEM)' => Apart(Slot(MEM)', Slot(WB)')
            BY <2>2, <3>1, <3>3
        <3> QED
            BY <3>4, <3>5 DEF Clear, Apart
    <2>4. CASE Hazard = EXEC
        <3>1. /\ Slot(EXEC)' = NewSlot(EXEC) /\ Slot(MEM)' = Slot(EXEC) /\ Slot(WB)' = Slot(MEM)
            BY <1>1, <1>3, <2>4, ShiftEffect, MEM - 1 = EXEC, WB - 1 = MEM
        <3>2. ~Code(EXEC)' /\ (Code(MEM)' <=> Code(EXEC))
            BY <3>1, NewSlotFacts DEF Code, Slot
        <3>3. Code(MEM)' => Apart(Slot(MEM)', Slot(WB)')
            BY <2>2, <3>1, <3>2
        <3> QED
            BY <3>2, <3>3 DEF Clear, Apart
    <2>5. CASE Hazard = WB
        <3>1. Slot(EXEC)' = Slot(EXEC) /\ Slot(MEM)' = Slot(MEM) /\ Slot(WB)' = NewSlot(WB)
            BY <1>1, <1>3, <2>5, ShiftEffect
        <3>2. Writes(Slot(WB)') = {}
            BY <3>1, NewSlotFacts DEF Writes, WritesRd, AluOps
        <3>3. (Code(EXEC)' <=> Code(EXEC)) /\ (Code(MEM)' <=> Code(MEM))
            BY <3>1 DEF Code, Slot
        <3>4. Code(EXEC)' => Apart(Slot(EXEC)', Slot(MEM)')
            BY <2>2, <3>1, <3>3
        <3>5. \A i \in {EXEC, MEM} : Apart(Slot(i)', Slot(WB)')
            BY <3>2 DEF Apart
        <3> QED
            BY <3>4, <3>5 DEF Clear, Apart
    <2> QED
        BY <2>1, <2>3, <2>4, <2>5
<1> QED
    BY <1>2, <1>3

LEMMA DecodeBufStep ==
    ASSUME Executable, IInv, SequentialInv, [Next]_vars
    PROVE  DecodeBuf'
<1>1. /\ TypeOK /\ HoldLines /\ Regular(program) /\ Filled /\ DecodeBuf /\ Decoded
      /\ regs[zero] = 0
    BY DEF IInv, SequentialInv, Contents
<1> DEFINE Blank1 == Live(DECODE) /\ ~Code(DECODE) /\ Ran(DECODE) =>
                        Slot(DECODE).op = "add" /\ decode_buf = [rs |-> 0, rt |-> 0, rd |-> 0]
           Read1 == Live(EXEC) /\ first = 0 /\ stage \in EXEC .. WB =>
                        \A f \in {"rs", "rt", "rd"} :
                            Slot(EXEC)[f] \in Reads(Slot(EXEC)) =>
                                decode_buf[f] = Value(Slot(EXEC), Slot(EXEC)[f])
<1>2. Blank1 /\ Read1
    BY <1>1 DEF DecodeBuf
<1> SUFFICES Blank1' /\ Read1'
    BY DEF DecodeBuf
<1>3. ASSUME Carried(DECODE, DECODE), Ran(DECODE)' => Ran(DECODE) \/ ~Live(DECODE),
             decode_buf' = decode_buf
      PROVE  Blank1'
    BY <1>2, <1>3, CarriedKeeps DEF Carried
<1>4. ASSUME Carried(EXEC, EXEC), stage' \in EXEC .. WB => stage \in EXEC .. WB,
             first' = first, decode_buf' = decode_buf
      PROVE  Read1'
    <2>1. /\ Live(EXEC)' <=> Live(EXEC)
          /\ \A f \in {"rs", "rt", "rd"} : Slot(EXEC)'[f] = Slot(EXEC)[f]
          /\ Reads(Slot(EXEC))' = Reads(Slot(EXEC))
        BY <1>4, CarriedKeeps DEF Carried, Reads
    <2> QED
        BY <1>2, <1>4, <2>1 DEF Carried
<1>5. CASE Shift
    <2>1. /\ first' = Hazard /\ Hazard \in {FETCH, EXEC, WB} /\ stage = SHIFT
          /\ stage' = IF last_command >= Hazard THEN last_command ELSE AGAIN
          /\ decode_buf' = decode_buf /\ last_command \in FETCH .. WB
        BY <1>1, <1>5, ShiftEffect DEF TypeOK
    <2>2. CASE Hazard = 0
        <3>1. Carried(FETCH, DECODE) /\ Carried(DECODE, EXEC)
            BY <1>1, <1>5, <2>2, ShiftEffect, DECODE - 1 = FETCH, EXEC - 1 = DECODE
        <3>2. Blank1'
            <4>1. Ran(DECODE)' => last_command = 0
                BY <2>1, <2>2 DEF Ran
            <4>2. last_command = 0 => ~Live(FETCH)
                BY <1>1, <2>1 DEF Filled, Empty
            <4> QED
                BY <3>1, <4>1, <4>2, CarriedKeeps
        <3>3. Read1'
            <4> SUFFICES ASSUME Live(EXEC)', NEW f \in {"rs", "rt", "rd"},
                                Slot(EXEC)'[f] \in Reads(Slot(EXEC)')
                         PROVE  decode_buf'[f] = Value(Slot(EXEC), Slot(EXEC)[f])'
                OBVIOUS
            <4>1. Live(DECODE) /\ Slot(DECODE)[f] \in Reads(Slot(DECODE))
                BY <3>1, CarriedKeeps DEF Carried, Reads
            <4>2. Value(Slot(EXEC), Slot(EXEC)[f])' = Value(Slot(DECODE), Slot(DECODE)[f])
                BY <3>1, <4>1 DEF Carried
            <4>3. CASE Code(DECODE)
                <5>1. ~RawHazard
                    BY <2>2 DEF Hazard
                <5> QED
                    BY <1>1, <2>1, <4>2, <4>3, <5>1 DEF Decoded, Slot
            <4>4. CASE ~Code(DECODE)
                <5>1. Slot(DECODE)[f] = zero
                    BY <1>1, <4>1, <4>4, LineFacts
                <5>2. decode_buf[f] = 0
                    BY <1>2, <2>1, <4>1, <4>4 DEF Ran
                <5>3. Value(Slot(DECODE), zero) = 0
                    BY <1>1, SizesAssumption DEF Value, Hex_2_Int_2s_Comp
                <5> QED
                    BY <2>1, <4>2, <5>1, <5>2, <5>3
            <4> QED
                BY <4>3, <4>4
        <3> QED
            BY <3>2, <3>3
    <2>3. CASE Hazard # 0
        <3>1. Carried(DECODE, DECODE)
            BY <1>1, <1>5, <2>1, <2>3, ShiftEffect
        <3>2. Blank1'
            BY <1>3, <2>1, <3>1 DEF Ran
        <3> QED
            BY <2>1, <2>3, <3>2
    <2> QED
        BY <2>2, <2>3
<1>6. CASE Still
    <2>1. /\ \A i \in FETCH .. WB : Carried(i, i)
          /\ first' = first /\ decode_buf' = decode_buf
          /\ stage \in FETCH .. WB /\ stage' = After(stage)
        BY <1>1, <1>6, StillEffect
    <2>2. Ran(DECODE)' <=> Ran(DECODE) \/ stage = DECODE
        BY <1>1, <2>1, RanAfter
    <2>3. stage = DECODE => ~Live(DECODE)
        <3>1. stage = DECODE => Idle(DECODE)
            BY <1>6 DEF Still, Skip, memory_state, execute
        <3> QED
            BY <1>1, <3>1, LineFacts
    <2>4. Blank1'
        BY <1>3, <2>1, <2>2, <2>3
    <2>5. Read1'
        BY <1>1, <1>4, <1>6, <2>1, StillEffect
    <2> QED
        BY <2>4, <2>5
<1>7. CASE writeback_state
    <2>1. /\ stage = WB /\ stage' = MEM /\ pipeline_array' = pipeline_array /\ first' = first
          /\ decode_buf' = decode_buf /\ Carried(EXEC, EXEC)
        BY <1>7, WriteBackEffect DEF writeback_state
    <2>2. Blank1'
        BY <1>2, <2>1 DEF Live, Code, Ran, Slot
    <2> QED
        BY <1>4, <2>1, <2>2
<1>8. CASE Decodes
    <2>1. /\ stage' \in {FETCH, END} /\ (Code(DECODE)' <=> Code(DECODE))
          /\ ~Code(DECODE) => /\ Slot(DECODE)'.op = "add"
                              /\ decode_buf' = [rs |-> 0, rt |-> 0, rd |-> 0]
        BY <1>8, Decoding
    <2> QED
        BY <2>1
<1>9. CASE Passes \/ EndCycle \/ UNCHANGED vars
    <2>1. /\ \A i \in FETCH .. WB : Carried(i, i)
          /\ first' = first /\ decode_buf' = decode_buf
          /\ stage' \in EXEC .. WB => stage \in EXEC .. WB
          /\ Ran(DECODE)' => Ran(DECODE)
        BY <1>9, PassesEffect, EndCycleEffect, StutterEffect DEF Ran
    <2> QED
        BY <1>3, <1>4, <2>1
<1>10. CASE fetch_instruction
    <2>1. /\ Carried(DECODE, DECODE) /\ stage = FETCH /\ stage' = AGAIN
          /\ decode_buf' = decode_buf
        BY <1>10, Fetches
    <2>2. Blank1'
        BY <1>3, <2>1 DEF Ran
    <2> QED
        BY <2>1, <2>2
<1> QED
    BY <1>5, <1>6, <1>7, <1>8, <1>9, <1>10, StepCases

\* The steps behind the stages EXEC to WB of a cycle.
LEMMA BackKept ==
    ASSUME Executable, IInv, SequentialInv,
           Decodes \/ Passes \/ fetch_instruction \/ EndCycle \/ UNCHANGED vars
    PROVE  /\ \A i \in EXEC .. WB : Carried(i, i) /\ (Ran(i)' <=> Ran(i))
           /\ UNCHANGED <<execute_buf, mem_buf>>
<1>1. CASE Decodes
    BY <1>1, Decoding DEF Ran
<1>2. CASE fetch_instruction
    BY <1>2, Fetches DEF Ran
<1>3. CASE Passes
    BY <1>3, PassesEffect DEF Ran
<1>4. CASE EndCycle
    BY <1>4, EndCycleEffect DEF Ran
<1>5. CASE UNCHANGED vars
    BY <1>5, StutterEffect DEF Ran
<1> QED
    BY <1>1, <1>2, <1>3, <1>4, <1>5

\* What is carried is found in the buffers as before.
LEMMA CarriedContents ==
    ASSUME NEW i, NEW j, Carried(i, j)
    PROVE  /\ execute_buf' = execute_buf /\ ExecuteBuf(i) => ExecuteBuf(j)'
           /\ mem_buf' = mem_buf /\ MemBuf(i) => MemBuf(j)'
<1>1. /\ Slot(j)'.op = Slot(i).op
      /\ Slot(i).op \in AluOps \cup MemOps => Computed(Slot(j))' = Computed(Slot(i))
      /\ Slot(i).op = "sw" => Value(Slot(j), Slot(j).rd)' = Value(Slot(i), Slot(i).rd)
    BY CarriedKeeps DEF Carried
<1>2. execute_buf' = execute_buf /\ ExecuteBuf(i) => ExecuteBuf(j)'
    BY <1>1 DEF ExecuteBuf
<1>3. mem_buf' = mem_buf /\ MemBuf(i) => MemBuf(j)'
    BY <1>1 DEF MemBuf, MemOps
<1> QED
    BY <1>2, <1>3

LEMMA ContentsStep ==
    ASSUME Executable, IInv, IInv', SequentialInv, HoldLines', [Next]_vars
    PROVE  Contents'
<1>1. /\ TypeOK /\ HoldLines /\ Regular(program) /\ Buffers /\ Stalled /\ Contents /\ Reached'
    BY DEF IInv, SequentialInv
<1>2. DecodeBuf'
    BY DecodeBufStep
<1> DEFINE Held ==
        /\ Ran(EXEC) => ExecuteBuf(EXEC)
        /\ ~Ran(MEM) => ExecuteBuf(MEM)
        /\ Ran(MEM) => MemBuf(MEM)
        /\ ~Ran(WB) => MemBuf(WB)
<1>3. Held
    BY <1>1 DEF Contents
<1> SUFFICES Held'
    BY <1>2 DEF Contents
<1>4. \A i \in FETCH .. WB : /\ Slot(i).op = "none" => ExecuteBuf(i) /\ MemBuf(i)
                             /\ Slot(i)'.op = "none" => ExecuteBuf(i)' /\ MemBuf(i)'
    BY DEF ExecuteBuf, MemBuf, AluOps, MemOps
<1>5. \A i \in FETCH .. WB : Idle(i) => Slot(i).op = "none"
    BY <1>1 DEF TypeOK, Commands, Idle, Slot
<1>6. CASE Shift
    <2>1. /\ first' = Hazard /\ Hazard \in {FETCH, EXEC, WB} /\ stage = SHIFT
          /\ stage' = IF last_command >= Hazard THEN last_command ELSE AGAIN
          /\ execute_buf' = execute_buf /\ mem_buf' = mem_buf
          /\ last_command' = last_command /\ last_command \in FETCH .. WB
        BY <1>1, <1>6, ShiftEffect DEF TypeOK
    <2>2. ExecuteBuf(EXEC) /\ MemBuf(MEM)
        BY <1>3, <2>1 DEF Ran
    <2>3. \A i \in EXEC .. WB : Slot(i)'.op # "none" => last_command >= i
        BY <1>1, <2>1 DEF Reached, Slot
    <2>4. ASSUME NEW i \in {EXEC, MEM}, Hazard < i, Ran(i)' PROVE Slot(i)'.op = "none"
        BY <2>1, <2>3, <2>4 DEF Ran
    <2>5. CASE Hazard < MEM
        <3>1. Carried(EXEC, MEM) /\ Carried(MEM, WB)
            BY <1>1, <1>6, <2>5, ShiftEffect, MEM - 1 = EXEC, WB - 1 = MEM
        <3>2. ExecuteBuf(MEM)' /\ MemBuf(WB)'
            BY <2>1, <2>2, <3>1, CarriedContents
        <3>3. Ran(EXEC)' => ExecuteBuf(EXEC)'
            <4>1. CASE Hazard = EXEC
                BY <1>1, <1>4, <1>6, <4>1, ShiftEffect, NewSlotFacts
            <4>2. CASE Hazard # EXEC
                BY <1>4, <2>1, <2>4, <2>5, <4>2
            <4> QED
                BY <4>1, <4>2
        <3>4. Ran(MEM)' => MemBuf(MEM)'
            BY <1>4, <2>4, <2>5
        <3> QED
            BY <3>2, <3>3, <3>4
    <2>6. CASE Hazard = WB
        <3>1. Carried(EXEC, EXEC) /\ Carried(MEM, MEM) /\ Slot(WB)' = NewSlot(WB)
            BY <1>1, <1>6, <2>6, ShiftEffect
        <3>2. ExecuteBuf(EXEC)' /\ MemBuf(MEM)'
            BY <2>1, <2>2, <3>1, CarriedContents
        <3>3. MemBuf(WB)'
            BY <1>4, <3>1, NewSlotFacts
        <3>4. Ran(MEM)'
            BY <2>1, <2>6 DEF Ran
        <3> QED
            BY <3>2, <3>3, <3>4
    <2> QED
        BY <2>1, <2>5, <2>6
<1>7. CASE Still
    <2>1. /\ \A i \in FETCH .. WB : Carried(i, i)
          /\ first' = first /\ UNCHANGED <<pipeline_array, regs, decode_buf>>
          /\ stage \in FETCH .. WB /\ stage' = After(stage)
        BY <1>1, <1>7, StillEffect
    <2>2. \A i \in FETCH .. WB : Ran(i)' <=> Ran(i) \/ i = stage
        BY <1>1, <2>1, RanAfter
    <2>3. ~Ran(stage)
        BY <1>1, <2>1 DEF TypeOK, Ran
    <2>4. CASE Skip
        <3>1. execute_buf' = execute_buf /\ mem_buf' = mem_buf /\ Slot(stage).op = "none"
            BY <1>5, <2>1, <2>4 DEF Skip
        <3>2. \A i \in FETCH .. WB : /\ ExecuteBuf(i) => ExecuteBuf(i)'
                                     /\ MemBuf(i) => MemBuf(i)'
            BY <2>1, <3>1, CarriedContents
        <3>3. ExecuteBuf(stage) /\ MemBuf(stage)
            BY <1>4, <2>1, <3>1
        <3> QED
            BY <1>3, <2>2, <3>2, <3>3
    <2>5. CASE memory_state
        <3>1. stage = MEM /\ execute_buf' = execute_buf
            BY <2>5 DEF memory_state
        <3>2. (Ran(EXEC)' <=> Ran(EXEC)) /\ Ran(MEM)' /\ (Ran(WB)' <=> Ran(WB))
            BY <2>2, <3>1
        <3>3. Ran(EXEC)' => ExecuteBuf(EXEC)'
            BY <1>3, <2>1, <3>1, <3>2, CarriedContents
        <3>4. ExecuteBuf(MEM)
            BY <1>3, <2>3, <3>1
        <3>5. MemBuf(MEM)'
            <4>1. Slot(MEM).op \in AluOps => ~execute_buf.memory
                BY <1>1, <2>3, <3>1 DEF Buffers, Active, ExecuteBufOf, Slot, AluOps, MemOps
            <4>2. \E v \in {execute_buf.result, store[Address(execute_buf.result)],
                            mem_buf.load_result} :
                    mem_buf' = [load_result |-> v, destination |-> execute_buf.destination,
                                address |-> Address(execute_buf.result)]
                BY <2>5 DEF memory_state
            <4>3. Slot(MEM).op \in AluOps => mem_buf'.load_result = execute_buf.result
                BY <2>5, <4>1 DEF memory_state, Slot, AluOps
            <4>4. mem_buf'.address = Address(execute_buf.result)
                BY <4>2
            <4>5. /\ Slot(MEM)'.op = Slot(MEM).op
                  /\ Slot(MEM).op \in AluOps \cup MemOps =>
                        Computed(Slot(MEM))' = Computed(Slot(MEM))
                BY <2>1, CarriedKeeps DEF Carried
            <4> QED
                BY <3>4, <4>3, <4>4, <4>5 DEF MemBuf, ExecuteBuf, MemOps
        <3>6. Ran(WB)'
            BY <1>1, <2>2, <3>1 DEF TypeOK, Ran
        <3> QED
            BY <3>2, <3>3, <3>5, <3>6
    <2>6. CASE execute
        <3>1. stage = EXEC /\ ~Idle(EXEC) /\ mem_buf' = mem_buf
            BY <2>6 DEF execute
        <3>2. first = 0
            BY <1>1, <3>1 DEF TypeOK, Stalled
        <3>3. Ran(MEM)' /\ Ran(WB)' /\ Ran(MEM)
            BY <2>2, <3>1 DEF Ran
        <3>4. MemBuf(MEM)'
            BY <1>3, <2>1, <3>1, <3>3, CarriedContents
        <3>5. ExecuteBuf(EXEC)'
            <4> SUFFICES ASSUME Slot(EXEC).op \in AluOps \cup MemOps
                         PROVE  /\ execute_buf'.result = Computed(Slot(EXEC))
                                /\ Slot(EXEC).op = "sw" =>
                                        execute_buf'.rd = Value(Slot(EXEC), Slot(EXEC).rd)
                <5>1. /\ Slot(EXEC)' = Slot(EXEC)
                      /\ Computed(Slot(EXEC))' = Computed(Slot(EXEC))
                      /\ Value(Slot(EXEC), Slot(EXEC).rd)' = Value(Slot(EXEC), Slot(EXEC).rd)
                    BY <2>1 DEF Slot, Computed, Value
                <5> QED
                    BY <5>1 DEF ExecuteBuf, MemOps
            <4>1. Live(EXEC)
                BY <1>1, LineFacts DEF AluOps, MemOps
            <4>2. /\ Slot(EXEC).rs \in Reads(Slot(EXEC)) /\ Slot(EXEC).rt \in Reads(Slot(EXEC))
                  /\ Slot(EXEC).op = "sw" => Slot(EXEC).rd \in Reads(Slot(EXEC))
                BY DEF Reads, AluOps, MemOps, BranchOps
            <4>3. \A f \in {"rs", "rt", "rd"} : Slot(EXEC)[f] \in Reads(Slot(EXEC)) =>
                        decode_buf[f] = Value(Slot(EXEC), Slot(EXEC)[f])
                BY <1>1, <3>1, <3>2, <4>1 DEF Contents, DecodeBuf
            <4>4. /\ decode_buf.rs = Value(Slot(EXEC), Slot(EXEC).rs)
                  /\ decode_buf.rt = Value(Slot(EXEC), Slot(EXEC).rt)
                  /\ Slot(EXEC).op = "sw" => decode_buf.rd = Value(Slot(EXEC), Slot(EXEC).rd)
                BY <4>2, <4>3
            <4>5. /\ execute_buf'.result = Result(Slot(EXEC).op, decode_buf.rs, decode_buf.rt)
                  /\ execute_buf'.rd = decode_buf.rd
                BY <2>6 DEF execute, Slot, AluOps, MemOps
            <4> QED
                BY <4>4, <4>5 DEF Computed
        <3> QED
            BY <3>3, <3>4, <3>5
    <2> QED
        BY <1>7, <2>4, <2>5, <2>6 DEF Still
<1>8. CASE writeback_state
    <2>1. /\ stage = WB /\ stage' = MEM /\ first # WB /\ first' = first
          /\ execute_buf' = execute_buf /\ Carried(MEM, MEM)
        BY <1>8, WriteBackEffect DEF writeback_state
    <2>2. first \in {0, EXEC}
        BY <1>1, <2>1 DEF TypeOK
    <2>3. ~Ran(EXEC)' /\ ~Ran(MEM)' /\ ~Ran(MEM) /\ Ran(WB)'
        BY <2>1, <2>2 DEF Ran
    <2>4. ExecuteBuf(MEM)'
        BY <1>3, <2>1, <2>3, CarriedContents
    <2> QED
        BY <2>3, <2>4
<1>9. CASE Decodes \/ Passes \/ fetch_instruction \/ EndCycle \/ UNCHANGED vars
    <2>1. /\ \A i \in EXEC .. WB : Carried(i, i) /\ (Ran(i)' <=> Ran(i))
          /\ UNCHANGED <<execute_buf, mem_buf>>
        BY <1>9, BackKept
    <2> QED
        BY <1>3, <2>1, CarriedContents
<1> QED
    BY <1>6, <1>7, <1>8, <1>9, StepCases

LEMMA WaitingStep ==
    ASSUME Executable, IInv, SequentialInv, [Next]_vars
    PROVE  Waiting'
<1> DEFINE Served ==
        /\ Slot(MEM).op \in MemOps
        /\ request.write = (Slot(MEM).op = "sw")
        /\ request.write => /\ request.addr = Address(Computed(Slot(MEM)))
                            /\ request.val = Value(Slot(MEM), Slot(MEM).rd)
<1>1. /\ TypeOK /\ HoldLines /\ Regular(program) /\ Buffers /\ Contents
      /\ request.left > 0 => Served /\ (stage \in {MEM, WB} => first = WB)
      /\ first = WB /\ stage # SHIFT =>
            Idle(WB) /\ request.left > 0 /\ stage \in {WB, AGAIN, END}
    BY DEF IInv, SequentialInv, Waiting
<1>2. ASSUME Carried(MEM, MEM), Served, request'.write = request.write,
             request'.addr = request.addr, request'.val = request.val
      PROVE  Served'
    <2>1. /\ Slot(MEM)'.op = Slot(MEM).op
          /\ Computed(Slot(MEM))' = Computed(Slot(MEM))
          /\ Slot(MEM).op = "sw" => Value(Slot(MEM), Slot(MEM).rd)' = Value(Slot(MEM), Slot(MEM).rd)
        BY <1>2, CarriedKeeps DEF Carried
    <2> QED
        BY <1>2, <2>1
<1>3. request.left \in Nat
    BY <1>1 DEF TypeOK
<1> SUFFICES /\ request'.left > 0 => Served' /\ (stage' \in {MEM, WB} => first' = WB)
             /\ first' = WB /\ stage' # SHIFT =>
                    Idle(WB)' /\ request'.left > 0 /\ stage' \in {WB, AGAIN, END}
    BY DEF Waiting
<1>4. ASSUME Carried(MEM, MEM), request' = request, first' = first, Idle(WB)' <=> Idle(WB),
             stage' \in {MEM, WB} => stage \in {MEM, WB},
             first = WB /\ stage' # SHIFT => stage # SHIFT /\ stage' \in {WB, AGAIN, END}
      PROVE  /\ request'.left > 0 => Served' /\ (stage' \in {MEM, WB} => first' = WB)
             /\ first' = WB /\ stage' # SHIFT =>
                    Idle(WB)' /\ request'.left > 0 /\ stage' \in {WB, AGAIN, END}
    BY <1>1, <1>2, <1>4
<1>5. CASE Shift
    <2>1. /\ first' = Hazard /\ stage' = IF last_command >= Hazard THEN last_command ELSE AGAIN
          /\ request' = request /\ last_command \in FETCH .. WB
        BY <1>1, <1>5, ShiftEffect DEF TypeOK
    <2>2. request.left > 0 <=> Hazard = WB
        BY DEF Hazard
    <2>3. CASE Hazard = WB
        <3>1. Carried(MEM, MEM) /\ Slot(WB)' = NewSlot(WB)
            BY <1>1, <1>5, <2>3, ShiftEffect
        <3>2. Idle(WB)'
            BY <3>1, NewSlotFacts DEF Idle, Slot
        <3> QED
            BY <1>1, <1>2, <2>1, <2>2, <2>3, <3>1, <3>2
    <2>4. CASE Hazard # WB
        BY <2>1, <2>2, <2>4
    <2> QED
        BY <2>3, <2>4
<1>6. CASE Skip \/ execute
    <2>1. /\ \A i \in FETCH .. WB : Carried(i, i)
          /\ first' = first /\ request' = request
          /\ stage \in FETCH .. WB /\ stage' = After(stage) /\ stage' \in AGAIN .. MEM
        BY <1>1, <1>6, StillEffect DEF Still, Skip, execute
    <2>2. Idle(WB)' <=> Idle(WB)
        BY <2>1, CarriedKeeps
    <2>3. stage' \in {MEM, WB} => stage = WB
        BY <2>1 DEF After
    <2>4. first = WB => stage = WB /\ stage' = AGAIN
        BY <1>1, <2>1 DEF TypeOK, After
    <2> QED
        BY <1>4, <2>1, <2>2, <2>3, <2>4
<1>7. CASE memory_state
    <2>1. /\ stage = MEM /\ first' = first /\ stage' \notin {MEM, WB}
          /\ Carried(MEM, MEM) /\ Slot(MEM)' = Slot(MEM)
        BY <1>1, <1>7, StillEffect DEF Still, memory_state, Slot, After
    <2>2. first # WB /\ ~(request.left > 0)
        BY <1>1, <2>1 DEF TypeOK
    <2>3. request'.left > 0 => Served'
        <3> SUFFICES ASSUME request'.left > 0 PROVE Served'
            OBVIOUS
        <3>1. ~Ran(MEM)
            BY <1>1, <2>1 DEF TypeOK, Ran
        <3>2. ExecuteBuf(MEM)
            BY <1>1, <3>1 DEF Contents
        <3>3. /\ execute_buf.memory /\ Slot(MEM).op \in MemOps
              /\ request'.write = (execute_buf.memory /\ Slot(MEM).op = "sw")
              /\ request'.addr = Address(execute_buf.result)
              /\ request'.val = execute_buf.rd
            BY <1>7, <2>2 DEF memory_state, Slot, MemOps
        <3>4. request'.write = (Slot(MEM).op = "sw")
            BY <1>1, <3>3 DEF TypeOK
        <3>5. /\ request'.addr = Address(Computed(Slot(MEM)))
              /\ Slot(MEM).op = "sw" => request'.val = Value(Slot(MEM), Slot(MEM).rd)
            BY <3>2, <3>3 DEF ExecuteBuf
        <3>6. /\ Computed(Slot(MEM))' = Computed(Slot(MEM))
              /\ Slot(MEM).op = "sw" => Value(Slot(MEM), Slot(MEM).rd)' = Value(Slot(MEM), Slot(MEM).rd)
            BY <2>1, <3>3, CarriedKeeps
        <3> QED
            BY <2>1, <3>3, <3>4, <3>5, <3>6
    <2> QED
        BY <2>1, <2>2, <2>3
<1>8. CASE writeback_state
    <2>1. stage = WB /\ first # WB /\ first' = first /\ request' = request
        BY <1>8, WriteBackEffect DEF writeback_state
    <2> QED
        BY <1>1, <2>1
<1>9. CASE Decodes \/ Passes \/ fetch_instruction \/ UNCHANGED vars
    <2>1. /\ Carried(MEM, MEM) /\ first' = first /\ request' = request
          /\ Carried(WB, WB)
          /\ stage' \in {MEM, WB} => stage \in {MEM, WB}
          /\ first = WB /\ stage' # SHIFT => stage # SHIFT
          /\ first = WB /\ stage' # SHIFT => stage' = stage \/ stage' = END
        BY <1>9, Decoding, PassesEffect, Fetches, StutterEffect
    <2>2. Idle(WB)' <=> Idle(WB)
        BY <2>1, CarriedKeeps
    <2> QED
        BY <1>1, <1>4, <2>1, <2>2
<1>10. CASE EndCycle
    <2>1. stage' = SHIFT /\ Carried(MEM, MEM)
        BY <1>10, EndCycleEffect
    <2>2. request'.left > 0 =>
            /\ request.left > 0 /\ request'.write = request.write
            /\ request'.addr = request.addr /\ request'.val = request.val
        <3> SUFFICES ASSUME request'.left > 0
                     PROVE  /\ request.left > 0 /\ request'.write = request.write
                            /\ request'.addr = request.addr /\ request'.val = request.val
            OBVIOUS
        <3>1. request.left > 0
            BY <1>10 DEF EndCycle
        <3>2. request' = [request EXCEPT !.left = request.left - 1]
            BY <1>10, <3>1 DEF EndCycle, NoRequest
        <3> QED
            BY <1>1, <3>1, <3>2 DEF TypeOK
    <2> QED
        BY <1>1, <1>2, <2>1, <2>2
<1> QED
    BY <1>5, <1>6, <1>7, <1>8, <1>9, <1>10, StepCases DEF Still

LEMMA LinkedStep ==
    ASSUME Executable, IInv, SequentialInv, [Next]_vars
    PROVE  Linked'
<1>1. /\ TypeOK /\ HoldLines /\ Regular(program) /\ Filled /\ Fetching /\ Order /\ Waiting
      /\ \A i \in EXEC .. WB : Links(i)
      /\ stage \in {END, SHIFT} /\ ~RawHazard => Links(DECODE)
    BY DEF IInv, SequentialInv, Linked
<1>2. \A i, j \in FETCH .. WB : Slot(j)' = Slot(i) /\ Links(i) => Links(j)'
    BY DEF Links
<1> SUFFICES /\ \A i \in EXEC .. WB : Links(i)'
             /\ stage' \in {END, SHIFT} /\ ~RawHazard' => Links(DECODE)'
    BY DEF Linked
<1>3. CASE Shift
    <2>1. Hazard \in {FETCH, EXEC, WB} /\ stage = SHIFT /\ stage' \notin {END, SHIFT}
        BY <1>1, <1>3, ShiftEffect
    <2>2. ASSUME NEW i \in EXEC .. WB PROVE Links(i)'
        <3>1. CASE i > Hazard
            <4>1. Slot(i)' = Slot(i - 1) /\ i - 1 \in DECODE .. WB
                BY <1>1, <1>3, <3>1, ShiftEffect
            <4>2. Links(i - 1)
                <5>1. CASE i = EXEC
                    <6>1. ~RawHazard
                        BY <2>1, <3>1, <5>1 DEF Hazard
                    <6> QED
                        BY <1>1, <2>1, <5>1, <6>1
                <5>2. CASE i # EXEC
                    BY <1>1, <5>2
                <5> QED
                    BY <5>1, <5>2
            <4> QED
                BY <1>2, <4>1, <4>2
        <3>2. CASE i = Hazard
            BY <1>1, <1>3, <3>2, ShiftEffect, NewSlotFacts DEF Links
        <3>3. CASE i < Hazard
            BY <1>1, <1>2, <1>3, <2>1, <3>3, ShiftEffect
        <3> QED
            BY <2>1, <3>1, <3>2, <3>3
    <2> QED
        BY <2>1, <2>2
<1>4. ASSUME ~Shift PROVE \A i \in EXEC .. WB : Links(i)'
    BY <1>1, <1>2, <1>4, LateSlots
<1>5. CASE Still \/ writeback_state \/ fetch_instruction
    <2>1. stage' \notin {END, SHIFT} /\ ~Shift
        BY <1>1, <1>5, StillEffect, WriteBackEffect, Fetches DEF writeback_state, Shift
    <2> QED
        BY <1>4, <2>1
<1>6. CASE Decodes
    <2>1. /\ Code(DECODE) => Carried(DECODE, DECODE)
          /\ ~Code(DECODE) => Slot(DECODE)'.op = "add"
          /\ \/ stage = DECODE /\ stage' = FETCH
             \/ stage = AGAIN /\ stage' = END
          /\ RawHazard' <=> RawHazard
          /\ ~RawHazard /\ Slot(DECODE)'.op = "jal" => Slot(DECODE)'.link = pc - 1
          /\ Slot(DECODE)'.at = Slot(DECODE).at
        BY <1>6, Decoding
    <2>2. ASSUME stage = AGAIN, ~RawHazard, Slot(DECODE)'.op = "jal"
          PROVE  Slot(DECODE)'.link = Slot(DECODE)'.at + 1
        <3>1. Code(DECODE) /\ Slot(DECODE).op = "jal" /\ Jump(DECODE)
            BY <2>1, <2>2 DEF Carried, Jump, IsJump
        <3>2. /\ Live(DECODE) /\ Slot(DECODE).at \in DOMAIN program
              /\ program[Slot(DECODE).at].op = "jal"
            BY <1>1, <3>1, LineFacts
        <3>3. Live(FETCH)
            BY <1>1, <2>2, <3>1 DEF Filled, Empty, Fetching
        <3>4. Slot(FETCH).at = Slot(DECODE).at + 1
            BY <1>1, <3>1, <3>3, FlightNow, PendingSlots DEF Order, Flight
        <3>5. ~Jumped
            <4> SUFFICES ASSUME first = WB PROVE FALSE
                BY <2>2 DEF Jumped
            <4>1. Slot(MEM).op \in MemOps
                BY <1>1, <2>2 DEF Waiting
            <4>2. Code(MEM) /\ Slot(MEM).at \in DOMAIN program /\ program[Slot(MEM).at].op \in MemOps
                BY <1>1, <4>1, LineFacts DEF MemOps
            <4> QED
                BY <1>1, <3>2, <4>2 DEF Regular
        <3>6. pc = Slot(FETCH).at + 1
            BY <1>1, <3>2, <3>3, <3>5 DEF Order
        <3>7. Slot(DECODE).at \in Nat
            BY <1>1, <3>2, PipelineAssumption DEF TypeOK
        <3> QED
            BY <2>1, <2>2, <3>4, <3>6, <3>7
    <2>3. ~Shift
        BY <2>1 DEF Shift
    <2> QED
        BY <1>4, <2>1, <2>2, <2>3 DEF Links
<1>7. CASE Passes
    <2>1. ~Shift /\ ~Code(DECODE) /\ pipeline_array' = pipeline_array
        BY <1>7, PassesEffect DEF Shift
    <2>2. Slot(DECODE).op # "jal"
        BY <1>1, <2>1, LineFacts DEF Jump, IsJump
    <2> QED
        BY <1>4, <2>1, <2>2 DEF Links, Slot
<1>8. CASE EndCycle \/ UNCHANGED vars
    <2>1. pipeline_array' = pipeline_array /\ (stage' \in {END, SHIFT} => stage \in {END, SHIFT})
        BY <1>8, EndCycleEffect, StutterEffect
    <2>2. (RawHazard' <=> RawHazard) /\ (\A i \in DECODE .. WB : Links(i)' <=> Links(i))
        BY <2>1 DEF RawHazard, Code, Links, Slot
    <2> QED
        BY <1>1, <2>1, <2>2
<1> QED
    BY <1>3, <1>5, <1>6, <1>7, <1>8, StepCases

-----------------------------------------------------------------------------
\* Nobody writes $zero, and the program is what it was.
LEMMA ZeroStep ==
    ASSUME Executable, IInv, SequentialInv, [Next]_vars
    PROVE  Regular(program)' /\ regs'[zero] = 0
<1>1. TypeOK /\ Regular(program) /\ regs[zero] = 0
    BY DEF IInv, SequentialInv
<1>2. CASE Shift \/ Still \/ Passes \/ EndCycle \/ UNCHANGED vars
    BY <1>1, <1>2, ShiftEffect, StillEffect, PassesEffect, EndCycleEffect, StutterEffect
<1>3. CASE writeback_state
    BY <1>1, <1>3, WriteBackEffect DEF writeback_state
<1>4. CASE Decodes
    BY <1>1, <1>4, Decoding, RegsAssumption
<1>5. CASE fetch_instruction
    BY <1>1, <1>5, Fetches
<1> QED
    BY <1>2, <1>3, <1>4, <1>5, StepCases

LEMMA SequentialInit ==
    ASSUME Executable, Init
    PROVE  SequentialInv
<1>1. /\ program \in Programs /\ instruction_array = [k \in DOMAIN program |-> Entry(program, k)]
      /\ halted = FALSE /\ last_command = 0 /\ first = 0 /\ stage = SHIFT /\ btaken = FALSE
      /\ request.left = 0
      /\ \A i \in FETCH .. WB : Slot(i) = NOP(none)
    BY DEF Init, NoRequest, Slot
<1>2. /\ NOP(none).at = none /\ NOP(none).inst = "NOP" /\ NOP(none).op = "none"
    BY DEF NOP, Command
<1>3. \A i \in FETCH .. WB : /\ ~Live(i) /\ ~Code(i) /\ ~Idle(i) /\ ~Jump(i)
                             /\ ~Pending(i)
                             /\ Slot(i).op = "none"
    BY <1>1, <1>2 DEF Live, Code, Idle, Slot, Jump, IsJump, BranchOps, Pending
<1>4. Regular(program) /\ regs[zero] = 0
    BY <1>1, RegsAssumption DEF Executable, Init
<1>5. HoldLines
    BY <1>3 DEF HoldLines, HoldsLine, Code, Slot
<1>6. Filled /\ Fetching /\ Branching
    BY <1>1, <1>3 DEF Filled, Empty, Fetching, Branching
<1>7. Order /\ Clear
    BY <1>3 DEF Order, Follows, Clear
<1>8. Contents
    BY <1>3 DEF Contents, DecodeBuf, ExecuteBuf, MemBuf, AluOps, MemOps
<1>9. Waiting /\ Linked
    BY <1>1, <1>3 DEF Waiting, Linked, Links
<1> QED
    BY <1>4, <1>5, <1>6, <1>7, <1>8, <1>9 DEF SequentialInv

LEMMA SequentialInvStep ==
    ASSUME Executable, IInv, IInv', SequentialInv, [Next]_vars
    PROVE  SequentialInv'
<1>1. Regular(program)' /\ regs'[zero] = 0
    BY ZeroStep
<1>2. HoldLines' /\ Branching'
    BY HoldLinesStep, BranchingStep
<1>3. Filled' /\ Fetching' /\ Clear' /\ Waiting' /\ Linked'
    BY FilledStep, FetchingStep, ClearStep, WaitingStep, LinkedStep
<1>4. Order' /\ Contents'
    BY <1>2, OrderStep, ContentsStep
<1> QED
    BY <1>1, <1>2, <1>3, <1>4 DEF SequentialInv

\* Which instructions are in the slots, what comes after each of them and what the
\* buffers know of them, in every pipeline with a regular program.
THEOREM SequentialInductive ==
    ASSUME Executable
    PROVE  Spec => []SequentialInv
<1>1. Init => SequentialInv
    BY SequentialInit
<1>2. IInv /\ IInv' /\ SequentialInv /\ [Next]_vars => SequentialInv'
    BY SequentialInvStep
<1> QED
    BY <1>1, <1>2, Inductive, PTL DEF Spec

\* A core is found halted only when its program has taken effect as a whole, though
\* finished() looks at four of the five slots and at no register or bus.
THEOREM HaltedAtTheEnd ==
    ASSUME Executable
    PROVE  Spec => []HaltedIsOver
<1>1. IInv /\ SequentialInv => HaltedIsOver
    <2> SUFFICES ASSUME IInv, SequentialInv, stage = SHIFT, halted PROVE Over
        BY DEF HaltedIsOver
    <2>1. TypeOK /\ HoldLines /\ Regular(program) /\ Fetching
        BY DEF IInv, SequentialInv
    <2>2. \A i \in FETCH .. MEM : Idle(i)
        BY <2>1 DEF Fetching, finished
    <2>3. \A i \in FETCH .. MEM : ~Live(i)
        BY <2>1, <2>2, LineFacts
    <2>4. NextPc(5) = pc
        BY <2>3, FlightNow, PendingSlots DEF Flight
    <2> QED
        BY <2>1, <2>2, <2>4 DEF Over, Fetching
<1> QED
    BY <1>1, Inductive, SequentialInductive, PTL

-----------------------------------------------------------------------------
(***************************************************************************)
(* The refinement: every step is the execution of one instruction by the   *)
(* sequential machine, or none.                                            *)
(***************************************************************************)

\* The registers that the sequential machine has.
Visible == [r \in Regs \ {immReg} |-> regs[r]]

\* Both machines have the same instructions.
LEMMA SameInstructions ==
    /\ \A v : Core!Target(v) = Target(v) /\ Core!Address(v) = Address(v)
    /\ \A v : Core!Int_2_Hex(v) = Int_2_Hex(v)
              /\ Core!Hex_2_Int_2s_Comp(v) = Hex_2_Int_2s_Comp(v)
    /\ \A op, s, t : Core!Taken(op, s, t) <=> Taken(op, s, t)
    /\ \A op, s, t : Core!Result(op, s, t) = Result(op, s, t)
    /\ \A i : Core!Writes(i) = Writes(i)
    /\ Core!immReg = immReg /\ Core!General = Regs \ {immReg}
<1>1. Core!AluOps = AluOps /\ Core!MemOps = MemOps
    BY DEF Core!AluOps, AluOps, Core!MemOps, MemOps
<1>2. \A op, s, t : Core!Result(op, s, t) = Result(op, s, t)
    BY <1>1 DEF Core!Result, Result
<1>3. \A i : Core!Writes(i) = Writes(i)
    BY <1>1 DEF Core!Writes, Writes, Core!WritesRd, WritesRd, Core!ra
<1>4. \A op, s, t : Core!Taken(op, s, t) <=> Taken(op, s, t)
    BY DEF Core!Taken, Taken
<1>5. \A v : Core!Target(v) = Target(v) /\ Core!Address(v) = Address(v)
    BY DEF Core!Target, Target, Core!Address, Address
<1>6. \A v : Core!Int_2_Hex(v) = Int_2_Hex(v)
             /\ Core!Hex_2_Int_2s_Comp(v) = Hex_2_Int_2s_Comp(v)
    BY DEF Core!Int_2_Hex, Int_2_Hex, Core!Hex_2_Int_2s_Comp, Hex_2_Int_2s_Comp
<1>7. Core!immReg = immReg /\ Core!General = Regs \ {immReg}
    BY DEF Core!immReg, Core!General
<1> QED
    BY <1>2, <1>3, <1>4, <1>5, <1>6, <1>7

\* The sequential machine reads what the command in slot i reads.
LEMMA SameRead ==
    ASSUME NEW i, NEW line, line.imm = Slot(i).imm, NEW r \in Regs
    PROVE  Core!Read(line, r) = Value(Slot(i), r)
<1>1. r # immReg => Visible[r] = regs[r]
    BY DEF Visible
<1>2. Core!Read(line, r) =
        Core!Hex_2_Int_2s_Comp(IF r = Core!immReg THEN Core!Int_2_Hex(line.imm) ELSE Visible[r])
    BY DEF Core!Read, Visible
<1> QED
    BY <1>1, <1>2, SameInstructions DEF Value

\* The fields of a line of the program, which are those of the command made of it.
LEMMA SameLine ==
    ASSUME TypeOK, HoldLines, Regular(program), NEW i \in {MEM, WB}, Live(i)
    PROVE  LET line == program[Slot(i).at]
           IN /\ Slot(i).at \in DOMAIN program
              /\ {line.rd, line.rs, line.rt} \subseteq Regs
              /\ line.rd = Slot(i).rd /\ line.rs = Slot(i).rs /\ line.rt = Slot(i).rt
              /\ Code(i) => line.op = Slot(i).op /\ line.imm = Slot(i).imm
              /\ ~Code(i) => line.op = "nop" /\ Slot(i).op = "add"
                             /\ line.rd = zero /\ line.rs = zero /\ line.rt = zero
<1> DEFINE line == program[Slot(i).at]
<1>1. Slot(i).at \in DOMAIN program /\ ~Idle(i)
    BY LineFacts
<1>2. line \in Lines
    <2>1. PICK n \in 1 .. PCs : program \in [0 .. n - 1 -> Lines]
        BY PipelineAssumption DEF TypeOK
    <2> QED
        BY <1>1, <2>1
<1>3. Slot(i).rd \in Regs /\ Slot(i).rs \in Regs /\ Slot(i).rt \in Regs
    BY <1>1, SlotTypes DEF Slot
<1>4. Code(i) => /\ line.op = Slot(i).op /\ line.imm = Slot(i).imm
                 /\ line.rd = Slot(i).rd /\ line.rs = Slot(i).rs /\ line.rt = Slot(i).rt
    BY LineFacts
<1>5. ~Code(i) => /\ line.op = "nop" /\ Slot(i).op = "add"
                  /\ Slot(i).rd = zero /\ Slot(i).rs = zero /\ Slot(i).rt = zero
    BY LineFacts DEF Blanks
<1>6. line.op = "nop" => line = Blank
    BY <1>2 DEF Lines, Instructions, Ops, AluOps, BranchOps, MemOps
<1>7. ~Code(i) => line.rd = zero /\ line.rs = zero /\ line.rt = zero
    BY <1>5, <1>6 DEF Blank
<1> QED
    BY <1>1, <1>3, <1>4, <1>5, <1>7

\* When the oldest instruction, in slot i, takes effect, the sequential machine
\* executes it.
LEMMA TakesEffect ==
    ASSUME TypeOK, HoldLines, Regular(program), NEW i \in {MEM, WB}, Live(i), Follows(i),
           Pending(i), NextPc(5) = Slot(i).at, NextNpc(5) = NextPc(i),
           program' = program, NextPc(5)' = NextPc(i), NextNpc(5)' = NextNpc(i),
           \A r \in Regs \ {immReg} :
                regs'[r] = IF Code(i) /\ r \in Writes(Slot(i))
                           THEN CASE Slot(i).op = "jal" -> Int_2_Hex(Slot(i).at + 1)
                                  [] Slot(i).op = "lw" ->
                                        Int_2_Hex(store[Address(Computed(Slot(i)))])
                                  [] OTHER -> Int_2_Hex(Computed(Slot(i)))
                           ELSE regs[r],
           store' = IF Slot(i).op = "sw"
                    THEN [store EXCEPT ![Address(Computed(Slot(i)))] = Value(Slot(i), Slot(i).rd)]
                    ELSE store
    PROVE  Core!Step
<1> DEFINE com == Slot(i)
           line == program[com.at]
           s == Core!Read(line, line.rs)
           t == Core!Read(line, line.rt)
<1>1. /\ com.at \in DOMAIN program
      /\ line.rd \in Regs /\ line.rs \in Regs /\ line.rt \in Regs
      /\ line.rd = com.rd /\ line.rs = com.rs /\ line.rt = com.rt
      /\ Code(i) => line.op = com.op /\ line.imm = com.imm
      /\ ~Code(i) => line.op = "nop" /\ com.op = "add"
    BY SameLine
<1>2. Code(i) => /\ s = Value(com, com.rs) /\ t = Value(com, com.rt)
                 /\ Core!Read(line, line.rd) = Value(com, com.rd)
    BY <1>1, SameRead
<1>3. ~Code(i) => ~Going(i)
    BY <1>1 DEF Going, Taken
<1>4. Core!Taken(line.op, s, t) <=> Going(i)
    <2>1. CASE Code(i)
        BY <1>1, <1>2, <2>1, SameInstructions DEF Going
    <2>2. CASE ~Code(i)
        BY <1>1, <1>3, <2>2 DEF Core!Taken
    <2> QED
        BY <2>1, <2>2
<1>5. NextNpc(5)' = IF Core!Taken(line.op, s, t) THEN Core!Target(Core!Read(line, line.rd))
                    ELSE NextNpc(5) + 1
    BY <1>2, <1>3, <1>4, SameInstructions DEF Follows, Destination
<1>6. Visible' = [r \in Core!General |->
                    IF r \in Core!Writes(line) THEN Core!Written(line) ELSE Visible[r]]
    <2>1. Visible' = [r \in Regs \ {immReg} |-> regs'[r]]
        BY DEF Visible
    <2>2. ASSUME NEW r \in Regs \ {immReg}
          PROVE  regs'[r] = IF r \in Core!Writes(line) THEN Core!Written(line) ELSE Visible[r]
        <3>1. Visible[r] = regs[r]
            BY DEF Visible
        <3>2. CASE Code(i)
            <4>1. Core!Writes(line) = Writes(com)
                BY <1>1, <3>2, SameInstructions DEF Writes, WritesRd
            <4>2. ASSUME r \in Writes(com) PROVE regs'[r] = Core!Written(line)
                <5>1. com.op = "jal" \/ com.op = "lw" \/ com.op \in AluOps
                    BY <4>2 DEF Writes, WritesRd
                <5>2. CASE com.op = "jal"
                    <6>1. Core!Written(line) = Core!Int_2_Hex(NextPc(5) + 1)
                        BY <1>1, <3>2, <5>2, 4 + 1 = 5 DEF Core!Written
                    <6> QED
                        BY <3>2, <4>2, <5>2, <6>1, SameInstructions
                <5>3. CASE com.op = "lw"
                    <6>1. Core!Written(line) = Core!Int_2_Hex(store[Core!Address(s + t)])
                        BY <1>1, <3>2, <5>3 DEF Core!Written
                    <6>2. Computed(com) = s + t
                        BY <1>2, <3>2, <5>3 DEF Computed, Result, AluOps, MemOps
                    <6> QED
                        BY <3>2, <4>2, <5>3, <6>1, <6>2, SameInstructions
                <5>4. CASE com.op \in AluOps
                    <6>1. com.op # "jal" /\ com.op # "lw"
                        BY <5>4 DEF AluOps
                    <6>2. Core!Written(line) = Core!Int_2_Hex(Core!Result(com.op, s, t))
                        BY <1>1, <3>2, <6>1 DEF Core!Written
                    <6>3. Computed(com) = Core!Result(com.op, s, t)
                        BY <1>2, <3>2, SameInstructions DEF Computed
                    <6> QED
                        BY <3>2, <4>2, <6>1, <6>2, <6>3, SameInstructions
                <5> QED
                    BY <5>1, <5>2, <5>3, <5>4
            <4> QED
                BY <3>1, <4>1, <4>2
        <3>3. CASE ~Code(i)
            <4>1. Core!Writes(line) = {}
                BY <1>1, <3>3, SameInstructions DEF Writes, WritesRd, AluOps
            <4> QED
                BY <3>1, <3>3, <4>1
        <3> QED
            BY <3>2, <3>3
    <2> QED
        BY <2>1, <2>2, SameInstructions
<1>7. store' = IF line.op = "sw"
               THEN [store EXCEPT ![Core!Address(s + t)] = Core!Read(line, line.rd)]
               ELSE store
    <2>1. CASE com.op = "sw"
        <3>1. Code(i)
            BY <1>1, <2>1
        <3>2. Computed(com) = s + t
            BY <1>2, <2>1, <3>1 DEF Computed, Result, AluOps, MemOps
        <3> QED
            BY <1>1, <1>2, <2>1, <3>1, <3>2, SameInstructions
    <2>2. CASE com.op # "sw"
        BY <1>1, <2>2
    <2> QED
        BY <2>1, <2>2
<1>8. /\ NextPc(WB + 1) = com.at /\ NextPc(WB + 1)' = NextNpc(WB + 1)
      /\ NextNpc(WB + 1)' = IF Core!Taken(line.op, s, t)
                            THEN Core!Target(Core!Read(line, line.rd)) ELSE NextNpc(WB + 1) + 1
    BY <1>5, 4 + 1 = 5
<1>9. [r \in Regs \ {immReg} |-> regs[r]]' =
        [r \in Core!General |-> IF r \in Core!Writes(line) THEN Core!Written(line)
                                ELSE [x \in Regs \ {immReg} |-> regs[x]][r]]
    BY <1>6 DEF Visible
<1> QED
    BY <1>1, <1>7, <1>8, <1>9 DEF Core!Step

\* A step that the sequential machine does not see.
LEMMA Invisible ==
    ASSUME program' = program, store' = store,
           \A r \in Regs \ {immReg} : regs'[r] = regs[r],
           NextPc(5)' = NextPc(5), NextNpc(5)' = NextNpc(5)
    PROVE  UNCHANGED Core!vars
<1>1. [r \in Regs \ {immReg} |-> regs[r]]' = [r \in Regs \ {immReg} |-> regs[r]]
    OBVIOUS
<1>2. NextPc(WB + 1)' = NextPc(WB + 1) /\ NextNpc(WB + 1)' = NextNpc(WB + 1)
    BY 4 + 1 = 5
<1> QED
    BY <1>1, <1>2 DEF Core!vars

\* The oldest instructions, when the younger ones are kept.
LEMMA TailKept ==
    ASSUME NextPc(3)' = NextPc(3), NextNpc(3)' = NextNpc(3),
           \A i \in {MEM, WB} : Slot(i)'.at = Slot(i).at /\ (Pending(i)' <=> Pending(i))
    PROVE  NextPc(5)' = NextPc(5) /\ NextNpc(5)' = NextNpc(5)
<1>1. NextPc(4)' = NextPc(4) /\ NextNpc(4)' = NextNpc(4)
    BY FlightNow, FlightNext DEF Flight
<1> QED
    BY <1>1, FlightNow, FlightNext DEF Flight

LEMMA WriteBackMaps ==
    ASSUME Executable, IInv, SequentialInv, writeback_state
    PROVE  IF Pending(WB) THEN Core!Step ELSE UNCHANGED Core!vars
<1> DEFINE com == Slot(WB)
<1>1. /\ TypeOK /\ Buffers /\ HoldLines /\ Regular(program) /\ Order /\ Contents /\ Linked
      /\ regs[zero] = 0
    BY DEF IInv, SequentialInv
<1>2. /\ stage = WB /\ stage' = MEM /\ regs'[zero] = 0
      /\ UNCHANGED <<program, pipeline_array, pc, store, request>>
    BY WriteBackEffect DEF writeback_state
<1>3. \A i \in FETCH .. WB : Slot(i)' = Slot(i) /\ (Live(i)' <=> Live(i))
    BY <1>2 DEF Slot, Live
<1>4. (Pending(MEM)' <=> Pending(MEM)) /\ ~Pending(WB)'
    BY <1>2, <1>3, PendingSlots, PendingSlotsNext
<1>5. NextPc(3)' = NextPc(3) /\ NextNpc(3)' = NextNpc(3)
    BY <1>2, <1>3, FrontKept
<1>6. NextPc(5)' = NextPc(4) /\ NextNpc(5)' = NextNpc(4)
    <2>1. NextPc(4)' = NextPc(4) /\ NextNpc(4)' = NextNpc(4)
        BY <1>3, <1>4, <1>5, FlightNow, FlightNext DEF Flight
    <2> QED
        BY <1>4, <2>1, FlightNext DEF Flight
<1>7. ~Ran(WB)
    BY <1>1, <1>2 DEF TypeOK, Ran
<1>8. CASE ~Pending(WB)
    <2>1. com.op = "sw" \/ com.op = "none"
        BY <1>1, <1>2, <1>8, PendingSlots, LineFacts
    <2>2. regs' = regs
        BY <2>1 DEF writeback_state, Slot, AluOps
    <2>3. NextPc(5) = NextPc(4) /\ NextNpc(5) = NextNpc(4)
        BY <1>8, FlightNow DEF Flight
    <2> QED
        BY <1>2, <1>6, <1>8, <2>2, <2>3, Invisible
<1>9. CASE Pending(WB)
    <2>1. Live(WB) /\ com.op # "sw" /\ Follows(WB)
        BY <1>1, <1>9, PendingSlots DEF Order
    <2>2. NextPc(5) = com.at /\ NextNpc(5) = NextPc(4)
        BY <1>9, FlightNow DEF Flight
    <2>3. ASSUME NEW r \in Regs \ {immReg}
          PROVE  regs'[r] = IF Code(WB) /\ r \in Writes(com)
                            THEN CASE com.op = "jal" -> Int_2_Hex(com.at + 1)
                                   [] com.op = "lw" -> Int_2_Hex(store[Address(Computed(com))])
                                   [] OTHER -> Int_2_Hex(Computed(com))
                            ELSE regs[r]
        <3>1. CASE r \notin Writes(com)
            BY <1>1, <3>1, WriteBackWrites DEF Slot
        <3>2. CASE r \in Writes(com) /\ ~Code(WB)
            <4>1. r = zero
                BY <1>1, <2>1, <3>2, LineFacts DEF Writes, WritesRd, Blanks, AluOps
            <4> QED
                BY <1>1, <1>2, <3>2, <4>1
        <3>3. CASE r \in Writes(com) /\ Code(WB)
            <4>1. com.op = "jal" \/ com.op = "lw" \/ com.op \in AluOps
                BY <3>3 DEF Writes, WritesRd
            <4>2. regs \in [Regs -> Word]
                BY <1>1 DEF TypeOK
            <4>3. CASE com.op = "jal"
                <5>1. com.link = com.at + 1 /\ r = ra
                    BY <1>1, <3>3, <4>3 DEF Linked, Links, Writes, WritesRd, AluOps
                <5>2. regs' = [regs EXCEPT ![ra] = Int_2_Hex(com.link)]
                    BY <4>3 DEF writeback_state, Slot, AluOps
                <5> QED
                    BY <3>3, <4>2, <4>3, <5>1, <5>2
            <4>4. CASE com.op = "lw"
                <5>1. mem_buf.address = Address(Computed(com)) /\ r = com.rd
                    BY <1>1, <1>7, <3>3, <4>4 DEF Contents, MemBuf, Writes, WritesRd
                <5>2. regs' = [regs EXCEPT ![com.rd] = Int_2_Hex(store[mem_buf.address])]
                    BY <4>4 DEF writeback_state, Slot, AluOps
                <5> QED
                    BY <3>3, <4>2, <4>4, <5>1, <5>2
            <4>5. CASE com.op \in AluOps
                <5>1. /\ mem_buf.load_result = Computed(com) /\ r = com.rd
                      /\ mem_buf.destination = com.rd
                    BY <1>1, <1>7, <3>3, <4>5 DEF Contents, MemBuf, Buffers, Writes, WritesRd, Slot
                <5>2. regs' = [regs EXCEPT ![mem_buf.destination] =
                                    Int_2_Hex(mem_buf.load_result)]
                    BY <4>5 DEF writeback_state, Slot, AluOps
                <5>3. com.op # "jal" /\ com.op # "lw"
                    BY <4>5 DEF AluOps
                <5> QED
                    BY <3>3, <4>2, <5>1, <5>2, <5>3
            <4> QED
                BY <4>1, <4>3, <4>4, <4>5
        <3> QED
            BY <3>1, <3>2, <3>3
    <2> QED
        BY <1>1, <1>2, <1>6, <1>9, <2>1, <2>2, <2>3, TakesEffect
<1> QED
    BY <1>8, <1>9

LEMMA MemoryMaps ==
    ASSUME IInv, SequentialInv, memory_state
    PROVE  Core!Step \/ (UNCHANGED Core!vars /\ (Pending(MEM)' <=> Pending(MEM)))
<1> DEFINE com == Slot(MEM)
           a == Address(execute_buf.result)
<1>1. /\ TypeOK /\ Buffers /\ HoldLines /\ Regular(program) /\ Order /\ Contents /\ Waiting
    BY DEF IInv, SequentialInv
<1>2. /\ stage = MEM /\ stage' \notin {MEM, WB} /\ Carried(EXEC, EXEC)
      /\ UNCHANGED <<program, pipeline_array, pc, regs, first>>
    BY <1>1, StillEffect DEF Still, memory_state
<1>3. \A i \in FETCH .. WB : Slot(i)' = Slot(i) /\ (Live(i)' <=> Live(i))
    BY <1>2 DEF Slot, Live
<1>4. ~Pending(WB) /\ ~Pending(WB)'
    BY <1>2, PendingSlots, PendingSlotsNext
<1>5. NextPc(3)' = NextPc(3) /\ NextNpc(3)' = NextNpc(3)
    BY <1>2, <1>3, FrontKept
<1>6. ~Ran(MEM) /\ request.left = 0
    BY <1>1, <1>2 DEF TypeOK, Ran, Waiting
<1>7. ASSUME Pending(MEM)' <=> Pending(MEM), store' = store
      PROVE  UNCHANGED Core!vars
    <2>1. NextPc(5)' = NextPc(5) /\ NextNpc(5)' = NextNpc(5)
        BY <1>3, <1>4, <1>5, <1>7, TailKept
    <2> QED
        BY <1>2, <1>7, <2>1, Invisible
<1>8. CASE com.op # "sw"
    <2>1. store' = store
        BY <1>8 DEF memory_state, Slot
    <2>2. Pending(MEM)' <=> Pending(MEM)
        BY <1>3, <1>8, PendingSlots, PendingSlotsNext
    <2> QED
        BY <1>7, <2>1, <2>2
<1>9. CASE com.op = "sw"
    <2>1. Live(MEM) /\ Pending(MEM) /\ Follows(MEM)
        BY <1>1, <1>2, <1>9, LineFacts, PendingSlots DEF MemOps, Order
    <2>2. execute_buf.memory
        BY <1>1, <1>6, <1>9 DEF Buffers, Active, ExecuteBufOf, Slot, MemOps
    <2>3. \/ store' = [store EXCEPT ![a] = execute_buf.rd] /\ request' = request
          \/ store' = store /\ request'.left > 0
        <3>1. CASE request' = request
            BY <1>6, <1>9, <2>2, <3>1 DEF memory_state, Slot
        <3>2. CASE request' # request
            BY <3>2 DEF memory_state
        <3> QED
            BY <3>1, <3>2
    <2>4. CASE store' = store /\ request'.left > 0
        <3>1. Pending(MEM)' <=> Pending(MEM)
            BY <1>3, <2>1, <2>4, PendingSlotsNext
        <3> QED
            BY <1>7, <2>4, <3>1
    <2>5. CASE store' = [store EXCEPT ![a] = execute_buf.rd] /\ request' = request
        <3>1. ~Pending(MEM)'
            BY <1>2, <1>3, <1>6, <1>9, <2>5, PendingSlotsNext
        <3>2. NextPc(5) = com.at /\ NextNpc(5) = NextPc(3)
            BY <1>4, <2>1, FlightNow DEF Flight
        <3>3. NextPc(5)' = NextPc(3) /\ NextNpc(5)' = NextNpc(3)
            BY <1>4, <1>5, <3>1, FlightNext DEF Flight
        <3>4. a = Address(Computed(com)) /\ execute_buf.rd = Value(com, com.rd)
            BY <1>1, <1>6, <1>9 DEF Contents, ExecuteBuf, MemOps
        <3>5. Writes(com) = {}
            BY <1>9 DEF Writes, WritesRd, AluOps
        <3> QED
            BY <1>1, <1>2, <1>9, <2>1, <2>5, <3>2, <3>3, <3>4, <3>5, TakesEffect
    <2> QED
        BY <2>3, <2>4, <2>5
<1> QED
    BY <1>8, <1>9

LEMMA EndCycleMaps ==
    ASSUME IInv, SequentialInv, EndCycle
    PROVE  Core!Step \/ (UNCHANGED Core!vars /\ (Pending(MEM)' <=> Pending(MEM)))
<1> DEFINE com == Slot(MEM)
<1>1. /\ TypeOK /\ HoldLines /\ Regular(program) /\ Order /\ Waiting
    BY DEF IInv, SequentialInv
<1>2. /\ stage = END /\ stage' = SHIFT /\ UNCHANGED <<program, pipeline_array, regs>>
    BY EndCycleEffect
<1>3. \A i \in FETCH .. WB : Slot(i)' = Slot(i) /\ (Live(i)' <=> Live(i))
    BY <1>2 DEF Slot, Live
<1>4. ~Pending(WB) /\ ~Pending(WB)'
    BY <1>2, PendingSlots, PendingSlotsNext
<1>5. NextPc(3)' = NextPc(3) /\ NextNpc(3)' = NextNpc(3)
    BY EndCycleFlight
<1>6. request.left \in Nat
    BY <1>1 DEF TypeOK
<1> DEFINE Served == /\ request.write = (com.op = "sw")
                     /\ request.write => /\ request.addr = Address(Computed(com))
                                         /\ request.val = Value(com, com.rd)
<1>7. request.left > 0 => Served
    BY <1>1 DEF Waiting
<1>8. CASE request.left = 1 /\ request.write
    <2>1. Served
        <3>1. request.left > 0
            BY <1>8
        <3> QED
            BY <1>7, <3>1, Zenon
    <2>2. com.op = "sw" /\ Live(MEM)
        <3>1. com.op = "sw"
            BY <1>8, <2>1, Zenon
        <3> QED
            BY <1>1, <3>1, LineFacts DEF MemOps
    <2>3. Pending(MEM) /\ Follows(MEM)
        BY <1>1, <1>8, <2>2, PendingSlots DEF Order
    <2>4. ~Pending(MEM)'
        <3>1. request'.left = 0
            BY <1>8 DEF EndCycle, NoRequest
        <3> QED
            BY <1>2, <1>3, <2>2, <3>1, PendingSlotsNext
    <2>5. NextPc(5) = com.at /\ NextNpc(5) = NextPc(3)
        BY <1>4, <2>3, FlightNow DEF Flight
    <2>6. NextPc(5)' = NextPc(3) /\ NextNpc(5)' = NextNpc(3)
        BY <1>4, <1>5, <2>4, FlightNext DEF Flight
    <2>7. store' = [store EXCEPT ![Address(Computed(com))] = Value(com, com.rd)]
        <3>1. store' = [store EXCEPT ![request.addr] = request.val]
            BY <1>8 DEF EndCycle
        <3> QED
            BY <1>8, <2>1, <3>1
    <2>8. Writes(com) = {}
        BY <2>2 DEF Writes, WritesRd, AluOps
    <2> QED
        BY <1>1, <1>2, <2>2, <2>3, <2>5, <2>6, <2>7, <2>8, TakesEffect
<1>9. CASE ~(request.left = 1 /\ request.write)
    <2>1. store' = store
        BY <1>9 DEF EndCycle
    <2>2. com.op = "sw" => (request'.left > 0 <=> request.left > 0)
        <3>1. CASE request.left > 1
            <4>1. request' = [request EXCEPT !.left = request.left - 1]
                BY <1>6, <3>1 DEF EndCycle
            <4> QED
                BY <1>1, <3>1, <4>1 DEF TypeOK
        <3>2. CASE request.left = 1
            <4>1. Served /\ ~request.write
                BY <1>7, <1>9, <3>2
            <4>2. com.op # "sw"
                BY <4>1, Zenon
            <4> QED
                BY <4>2
        <3>3. CASE request.left = 0
            BY <3>3 DEF EndCycle
        <3> QED
            BY <1>6, <3>1, <3>2, <3>3
    <2>3. Pending(MEM)' <=> Pending(MEM)
        BY <1>2, <1>3, <2>2, PendingSlots, PendingSlotsNext
    <2>4. NextPc(5)' = NextPc(5) /\ NextNpc(5)' = NextNpc(5)
        BY <1>3, <1>4, <1>5, <2>3, TailKept
    <2> QED
        BY <1>2, <2>1, <2>3, <2>4, Invisible
<1> QED
    BY <1>8, <1>9

\* The other steps change places only.
LEMMA OtherStepsMap ==
    ASSUME Executable, IInv, IInv', SequentialInv, SequentialInv', [Next]_vars,
           ~writeback_state, ~memory_state, ~EndCycle
    PROVE  UNCHANGED Core!vars
<1>1. /\ TypeOK /\ HoldLines /\ Regular(program) /\ Waiting
    BY DEF IInv, SequentialInv
<1>2. CASE Shift
    <2>1. UNCHANGED <<program, store, regs>> /\ Hazard \in {FETCH, EXEC, WB}
        BY <1>1, <1>2, ShiftEffect
    <2>2. HoldLines'
        BY DEF SequentialInv
    <2>3. ~Pending(WB) /\ NextPc(5)' = NextPc(4) /\ NextNpc(5)' = NextNpc(4)
        BY <1>2, <2>1, <2>2, ShiftFlight
    <2>4. NextPc(5) = NextPc(4) /\ NextNpc(5) = NextNpc(4)
        BY <2>3, FlightNow DEF Flight
    <2> QED
        BY <2>1, <2>3, <2>4, Invisible
<1>3. CASE Skip \/ execute
    <2>1. /\ UNCHANGED <<program, pipeline_array, pc, regs, store, request, first>>
          /\ stage \in FETCH .. WB /\ stage' = After(stage)
        BY <1>3 DEF Skip, execute
    <2>2. \A i \in FETCH .. WB : Slot(i)' = Slot(i) /\ (Live(i)' <=> Live(i))
        BY <2>1 DEF Slot, Live
    <2>3. /\ stage = WB => ~Live(WB)
          /\ stage = MEM => ~Live(MEM)
        <3>1. stage \in {MEM, WB} => Idle(stage)
            BY <1>3 DEF Skip, execute
        <3> QED
            BY <1>1, <3>1, LineFacts
    <2>4. stage' # WB /\ (stage' = MEM => stage = WB)
        BY <2>1 DEF After
    <2>5. stage = WB => stage' = MEM \/ request.left > 0
        BY <1>1, <2>1 DEF TypeOK, After, Waiting
    <2>6. \A i \in {MEM, WB} : Pending(i)' <=> Pending(i)
        BY <2>1, <2>2, <2>3, <2>4, <2>5, PendingSlots, PendingSlotsNext
    <2>7. NextPc(3)' = NextPc(3) /\ NextNpc(3)' = NextNpc(3)
        BY <2>1, <2>2, FrontKept
    <2>8. NextPc(5)' = NextPc(5) /\ NextNpc(5)' = NextNpc(5)
        BY <2>2, <2>6, <2>7, TailKept
    <2> QED
        BY <2>1, <2>8, Invisible
<1>4. CASE Decodes \/ Passes \/ fetch_instruction
    <2>1. /\ program' = program /\ store' = store /\ request' = request
          /\ \A r \in Regs \ {immReg} : regs'[r] = regs[r]
          /\ stage \notin {MEM, WB} /\ stage' \notin {MEM, WB}
          /\ Carried(MEM, MEM) /\ Carried(WB, WB)
        BY <1>4, Decoding, PassesEffect, Fetches
    <2>2. \A i \in {MEM, WB} : /\ Slot(i)'.at = Slot(i).at /\ Slot(i)'.op = Slot(i).op
                               /\ (Live(i)' <=> Live(i))
        BY <2>1, CarriedKeeps DEF Carried
    <2>3. \A i \in {MEM, WB} : Pending(i)' <=> Pending(i)
        BY <2>1, <2>2, PendingSlots, PendingSlotsNext
    <2>4. NextPc(3)' = NextPc(3) /\ NextNpc(3)' = NextNpc(3)
        <3>1. CASE fetch_instruction
            BY <3>1, FetchFlight
        <3>2. CASE Decodes \/ Passes
            <4>1. /\ pc' = pc /\ Slot(FETCH)'.at = Slot(FETCH).at
                  /\ Slot(DECODE)'.at = Slot(DECODE).at /\ Slot(EXEC)'.at = Slot(EXEC).at
                BY <3>2, Decoding, PassesEffect DEF Carried
            <4> QED
                BY <4>1, FrontKept
        <3> QED
            BY <1>4, <3>1, <3>2
    <2>5. NextPc(5)' = NextPc(5) /\ NextNpc(5)' = NextNpc(5)
        BY <2>2, <2>3, <2>4, TailKept
    <2> QED
        BY <2>1, <2>5, Invisible
<1>5. CASE UNCHANGED vars
    <2>1. UNCHANGED <<program, pipeline_array, pc, stage, regs, store, request>>
        BY <1>5 DEF vars
    <2>2. \A i \in FETCH .. WB : Pending(i)' <=> Pending(i)
        BY <2>1 DEF Pending, Live
    <2>3. NextPc(5)' = NextPc(5) /\ NextNpc(5)' = NextNpc(5)
        BY <2>1, <2>2, FlightKept
    <2> QED
        BY <2>1, <2>3, Invisible
<1> QED
    BY <1>2, <1>3, <1>4, <1>5, StepCases DEF Still

LEMMA SequentialInitMaps ==
    ASSUME Init
    PROVE  Core!Init
<1>1. /\ program \in Programs /\ pc = 0 /\ store = Memin /\ regs = [r \in Regs |-> 0]
      /\ \A i \in FETCH .. WB : pipeline_array[i] = NOP(none)
    BY DEF Init
<1>2. \A i \in FETCH .. WB : ~Pending(i)
    BY <1>1 DEF Pending, Live, NOP, Command
<1>3. NextPc(0) = 0 /\ NextNpc(0) = 1
    BY <1>1, FlightNow DEF Flight
<1>4. NextPc(5) = 0 /\ NextNpc(5) = 1
    BY <1>2, <1>3, FlightNow DEF Flight
<1>5. [r \in Regs \ {immReg} |-> regs[r]] = [r \in Core!General |-> 0]
    BY <1>1, SameInstructions
<1>6. NextPc(WB + 1) = 0 /\ NextNpc(WB + 1) = 1
    BY <1>4, 4 + 1 = 5
<1> QED
    BY <1>1, <1>5, <1>6 DEF Core!Init

\* Stalls, bubbles, the delay slot, misses and the buffers that the stages share are
\* invisible: registers and memory change as by one instruction after the other.
THEOREM PipelineIsSequential ==
    ASSUME Executable
    PROVE  Spec => ImplementsSequential
<1>1. Init => Core!Init
    BY SequentialInitMaps
<1>2. IInv /\ IInv' /\ SequentialInv /\ SequentialInv' /\ [Next]_vars => [Core!Step]_(Core!vars)
    BY WriteBackMaps, MemoryMaps, EndCycleMaps, OtherStepsMap
<1> QED
    BY <1>1, <1>2, Inductive, SequentialInductive, PTL DEF Spec, Core!Spec, ImplementsSequential

-----------------------------------------------------------------------------
(***************************************************************************)
(* How long it takes: every step leaves less to do until an instruction    *)
(* takes effect, or until the core is found halted.                        *)
(***************************************************************************)

\* The slot of the next instruction to take effect, from the back.
FrontIs ==
    Front = IF Pending(4) THEN 4 ELSE IF Pending(3) THEN 3 ELSE IF Pending(2) THEN 2
            ELSE IF Pending(1) THEN 1 ELSE IF Pending(0) THEN 0
            ELSE IF stage = SHIFT THEN -1 ELSE 0

LEMMA FrontNow == FrontIs
<1> DEFINE Top(i) == i \in 0 .. 4 /\ Pending(i) /\ \A j \in i + 1 .. 4 : ~Pending(j)
<1>1. ASSUME NEW i, Top(i) PROVE Front = i
    <2>1. InFlight(5)
        BY <1>1, 5 - 1 = 4 DEF InFlight
    <2>2. Oldest(5) = CHOOSE k \in 0 .. 4 : Pending(k) /\ \A j \in k + 1 .. 4 : ~Pending(j)
        BY 5 - 1 = 4 DEF Oldest
    <2>3. Top(Oldest(5))
        BY <1>1, <2>2
    <2>4. \A k : Top(k) => k = i
        BY <1>1
    <2> HIDE DEF Top
    <2> QED
        BY <2>1, <2>3, <2>4, 4 + 1 = 5 DEF Front
<1>2. ASSUME \A i \in 0 .. 4 : ~Pending(i)
      PROVE  Front = IF stage = SHIFT THEN -1 ELSE 0
    <2>1. ~InFlight(5)
        BY <1>2, 5 - 1 = 4 DEF InFlight
    <2> QED
        BY <2>1, 4 + 1 = 5 DEF Front
<1>3. /\ Pending(4) => Top(4)
      /\ ~Pending(4) /\ Pending(3) => Top(3)
      /\ ~Pending(4) /\ ~Pending(3) /\ Pending(2) => Top(2)
      /\ ~Pending(4) /\ ~Pending(3) /\ ~Pending(2) /\ Pending(1) => Top(1)
      /\ ~Pending(4) /\ ~Pending(3) /\ ~Pending(2) /\ ~Pending(1) /\ Pending(0) => Top(0)
    OBVIOUS
<1> HIDE DEF Top
<1>4. CASE \E i \in 0 .. 4 : Pending(i)
    <2>1. Pending(0) \/ Pending(1) \/ Pending(2) \/ Pending(3) \/ Pending(4)
        BY <1>4
    <2> QED
        BY <1>1, <1>3, <2>1 DEF FrontIs
<1>5. CASE \A i \in 0 .. 4 : ~Pending(i)
    <2>1. ~Pending(0) /\ ~Pending(1) /\ ~Pending(2) /\ ~Pending(3) /\ ~Pending(4)
        BY <1>5
    <2> QED
        BY <1>2, <1>5, <2>1 DEF FrontIs
<1> QED
    BY <1>4, <1>5

LEMMA FrontNext == FrontIs'
BY FrontNow, PTL

\* The last of the slots that have something in them.
TailIs ==
    Tail = IF ~Idle(0) THEN 0 ELSE IF ~Idle(1) THEN 1 ELSE IF ~Idle(2) THEN 2
           ELSE IF ~Idle(3) THEN 3 ELSE 4

LEMMA TailNow == TailIs
<1> DEFINE Last(i) == i \in 0 .. 3 /\ ~Idle(i) /\ \A j \in 0 .. i - 1 : Idle(j)
<1>1. ASSUME NEW i, Last(i) PROVE Tail = i
    <2>1. ~finished
        BY <1>1 DEF finished
    <2>2. Tail = CHOOSE k \in 0 .. 3 : ~Idle(k) /\ \A j \in 0 .. k - 1 : Idle(j)
        BY <2>1 DEF Tail
    <2>3. Last(Tail)
        BY <1>1, <2>2
    <2>4. \A k : Last(k) => k = i
        BY <1>1
    <2> QED
        BY <2>3, <2>4, Zenon
<1>2. (\A i \in 0 .. 3 : Idle(i)) => Tail = 4
    BY DEF Tail, finished
<1>3. /\ ~Idle(0) => Last(0)
      /\ Idle(0) /\ ~Idle(1) => Last(1)
      /\ Idle(0) /\ Idle(1) /\ ~Idle(2) => Last(2)
      /\ Idle(0) /\ Idle(1) /\ Idle(2) /\ ~Idle(3) => Last(3)
    OBVIOUS
<1> HIDE DEF Last
<1>4. Idle(0) /\ Idle(1) /\ Idle(2) /\ Idle(3) => \A i \in 0 .. 3 : Idle(i)
    OBVIOUS
<1> QED
    BY <1>1, <1>2, <1>3, <1>4 DEF TailIs

LEMMA TailNext == TailIs'
BY TailNow, PTL

\* The program is over when no instruction is left in the slots nor to be fetched.
NonePending ==
    ~Pending(0) /\ ~Pending(1) /\ ~Pending(2) /\ ~Pending(3) /\ ~Pending(4)

LEMMA OverIsEmpty ==
    ASSUME TypeOK, HoldLines, Regular(program)
    PROVE  Over <=> NonePending /\ pc \notin DOMAIN program
<1>1. \A i \in FETCH .. WB : Pending(i) => Slot(i).at \in DOMAIN program
    BY LineFacts DEF Pending
<1>2. NonePending \/ NextPc(5) \in DOMAIN program
    BY <1>1, FlightNow DEF Flight, NonePending
<1>3. NonePending => NextPc(5) = pc
    BY FlightNow DEF Flight, NonePending
<1>4. Over <=> NextPc(5) \notin DOMAIN program
    BY 4 + 1 = 5 DEF Over
<1> QED
    BY <1>2, <1>3, <1>4

\* DECODE waits only for an instruction that is yet to take effect.
LEMMA HazardAhead ==
    ASSUME TypeOK, HoldLines, Regular(program), RawHazard
    PROVE  /\ Live(DECODE)
           /\ Pending(EXEC) \/ Pending(MEM)
<1>1. PICK i \in {EXEC, MEM} : Conflict(Slot(DECODE), Slot(i))
    BY DEF RawHazard, Slot
<1>2. WritesRd(Slot(i)) \/ Slot(i).op = "jal"
    BY <1>1 DEF Conflict
<1>3. Slot(i).op # "none" /\ Slot(i).op # "sw"
    BY <1>2 DEF WritesRd, AluOps
<1>4. Live(i) /\ Live(DECODE)
    BY <1>3, LineFacts DEF RawHazard
<1> QED
    BY <1>3, <1>4, PendingSlots

\* The bus serves an instruction that is yet to take effect, the next one.
LEMMA ServedIsNext ==
    ASSUME TypeOK, HoldLines, Regular(program), Waiting, request.left > 0
    PROVE  Pending(MEM) /\ ~Pending(WB) /\ Front = MEM
<1>1. Slot(MEM).op \in MemOps /\ Live(MEM)
    BY LineFacts DEF Waiting, MemOps
<1>2. ~Pending(WB)
    <2>1. stage = WB => Idle(WB)
        BY DEF Waiting
    <2> QED
        BY <2>1, LineFacts, PendingSlots
<1>3. Pending(MEM)
    BY <1>1, PendingSlots
<1> QED
    BY <1>2, <1>3, FrontNow DEF FrontIs

\* The numbers, and that the last cycle of the one is the first of the other.
LEMMA CyclesTyped ==
    ASSUME TypeOK
    PROVE  /\ CyclesToEffect \in 0 .. Latency + 4
           /\ CyclesToDrain \in 0 .. 4
           /\ Front \in -1 .. 4 /\ Tail \in 0 .. 4 /\ stage \in END .. SHIFT
           /\ request.left \in 0 .. Latency /\ Latency \in Nat
<1>1. /\ stage \in -2 .. 5 /\ request.left \in 0 .. Latency /\ Latency \in Nat
    BY PipelineAssumption DEF TypeOK
<1>2. /\ Front \in -1 .. 4
      /\ stage # SHIFT => Front \in 0 .. 4
      /\ stage # WB => Front # 4
    BY FrontNow, PendingSlots DEF FrontIs
<1>3. Tail \in 0 .. 4
    BY TailNow DEF TailIs
<1>4. CyclesToDrain \in 0 .. 4
    BY <1>3 DEF CyclesToDrain
<1>5. CyclesToEffect \in 0 .. Latency + 4
    BY <1>1, <1>2 DEF CyclesToEffect
<1> QED
    BY <1>1, <1>2, <1>3, <1>4, <1>5

\* Within a cycle it is enough if there are no more cycles to go, at its end there
\* must be one less.
CyclesLeft == IF Over THEN CyclesToDrain ELSE CyclesToEffect
LeftInSteps ==
    TypeOK => /\ CyclesLeft \in Nat /\ stage \in END .. SHIFT
              /\ StepsLeft = 8 * CyclesLeft + (stage + 2)

LEMMA LeftInStepsNow == LeftInSteps
<1> SUFFICES ASSUME TypeOK
             PROVE  /\ CyclesLeft \in Nat /\ stage \in END .. SHIFT
                    /\ StepsLeft = 8 * CyclesLeft + (stage + 2)
    BY DEF LeftInSteps
<1>1. /\ CyclesLeft \in Nat /\ stage \in -2 .. 5
    BY CyclesTyped DEF CyclesLeft
<1> QED
    BY <1>1 DEF StepsLeft, CyclesLeft

LEMMA LeftInStepsNext == LeftInSteps'
BY LeftInStepsNow, PTL

LEMMA EightSteps ==
    \A c, d \in Nat, s, t \in -2 .. 5 :
        /\ d <= c /\ t < s => 8 * d + (t + 2) < 8 * c + (s + 2)
        /\ d < c => 8 * d + (t + 2) < 8 * c
OBVIOUS

LEMMA WithinCycle ==
    ASSUME TypeOK, TypeOK', stage' < stage, CyclesLeft' <= CyclesLeft
    PROVE  StepsLeft' < StepsLeft
<1>1. /\ CyclesLeft \in Nat /\ stage \in -2 .. 5 /\ StepsLeft = 8 * CyclesLeft + (stage + 2)
    BY LeftInStepsNow DEF LeftInSteps
<1>2. CyclesLeft' \in Nat /\ stage' \in -2 .. 5 /\ StepsLeft' = 8 * CyclesLeft' + (stage' + 2)
    BY LeftInStepsNext DEF LeftInSteps
<1> QED
    BY <1>1, <1>2, EightSteps

LEMMA AtItsEnd ==
    ASSUME TypeOK, TypeOK', stage = END, CyclesLeft' < CyclesLeft
    PROVE  StepsLeft' < StepsLeft
<1>1. /\ CyclesLeft \in Nat /\ StepsLeft = 8 * CyclesLeft
    BY LeftInStepsNow DEF LeftInSteps
<1>2. CyclesLeft' \in Nat /\ stage' \in -2 .. 5 /\ StepsLeft' = 8 * CyclesLeft' + (stage' + 2)
    BY LeftInStepsNext DEF LeftInSteps
<1> QED
    BY <1>1, <1>2, EightSteps

-----------------------------------------------------------------------------
\* While the program is not over.  What a step must not do: make it more cycles, but
\* for the first one of the next cycle.
Fewer == IF stage' = SHIFT THEN CyclesToEffect' < CyclesToEffect
                           ELSE stage' < stage /\ CyclesToEffect' <= CyclesToEffect

\* The steps that leave the instructions where they are.
LEMMA InPlace ==
    ASSUME TypeOK, stage # SHIFT, stage' \in AGAIN - 1 .. MEM, stage' < stage,
           request' = request,
           stage' \in {MEM, WB} => stage \in {MEM, WB},
           \A i \in DECODE .. WB : Pending(i)' <=> Pending(i),
           Pending(FETCH) => Pending(FETCH)'
    PROVE  Fewer
<1>1. Front' = Front
    <2>1. /\ Pending(1)' <=> Pending(1)
          /\ Pending(2)' <=> Pending(2)
          /\ Pending(3)' <=> Pending(3)
          /\ Pending(4)' <=> Pending(4)
        OBVIOUS
    <2> QED
        BY <2>1, FrontNow, FrontNext DEF FrontIs
<1>2. /\ Front \in -1 .. 4 /\ stage \in -2 .. 5 /\ request.left \in 0 .. Latency /\ Latency \in Nat
    BY CyclesTyped
<1> QED
    BY <1>1, <1>2 DEF Fewer, CyclesToEffect

LEMMA WriteBackInPlace ==
    ASSUME Executable, IInv, SequentialInv, writeback_state, ~Pending(WB)
    PROVE  Fewer
<1>1. TypeOK
    BY DEF IInv
<1>2. /\ stage = WB /\ stage' = MEM /\ UNCHANGED <<pipeline_array, request>>
    BY WriteBackEffect DEF writeback_state
<1>3. \A i \in FETCH .. WB : Slot(i)' = Slot(i) /\ (Live(i)' <=> Live(i))
    BY <1>2 DEF Slot, Live
<1>4. /\ Pending(0)' <=> Pending(0)
      /\ Pending(1)' <=> Pending(1)
      /\ Pending(2)' <=> Pending(2)
      /\ Pending(3)' <=> Pending(3)
      /\ Pending(4)' <=> Pending(4)
    BY <1>2, <1>3, PendingSlots, PendingSlotsNext
<1>5. \A i \in DECODE .. WB : Pending(i)' <=> Pending(i)
    BY <1>4
<1> QED
    BY <1>1, <1>2, <1>4, <1>5, InPlace

\* A miss is the only one on the way: the credit of Latency cycles is used up.
LEMMA MemoryFewer ==
    ASSUME IInv, SequentialInv, memory_state, Pending(MEM)' <=> Pending(MEM)
    PROVE  Fewer
<1>1. TypeOK /\ TypeOK /\ HoldLines /\ Regular(program) /\ Waiting
    BY DEF IInv, SequentialInv
<1>2. /\ stage = MEM /\ stage' \in AGAIN .. EXEC
      /\ UNCHANGED <<pipeline_array, first>>
    BY <1>1, StillEffect DEF Still, memory_state
<1>3. \A i \in FETCH .. WB : Slot(i)' = Slot(i) /\ (Live(i)' <=> Live(i))
    BY <1>2 DEF Slot, Live
<1>4. /\ Pending(0)' <=> Pending(0)
      /\ Pending(1)' <=> Pending(1)
      /\ Pending(2)' <=> Pending(2)
      /\ Pending(3)' <=> Pending(3)
      /\ ~Pending(4)' /\ ~Pending(4)
    BY <1>2, <1>3, PendingSlots, PendingSlotsNext
<1>5. \A i \in DECODE .. WB : Pending(i)' <=> Pending(i)
    BY <1>4
<1>6. CASE request' = request
    BY <1>1, <1>2, <1>4, <1>5, <1>6, InPlace
<1>7. CASE request' # request
    <2>1. /\ Slot(MEM).op \in MemOps
          /\ \E n \in 2 .. Latency : request'.left = n
        BY <1>7 DEF memory_state, Slot, MemOps
    <2>2. Pending(MEM)
        BY <1>1, <1>2, <2>1, LineFacts, PendingSlots DEF MemOps
    <2>3. Front = MEM
        BY <1>4, <2>2, FrontNow DEF FrontIs
    <2>4. request.left = 0 /\ Latency \in Nat
        BY <1>1, <1>2, PipelineAssumption DEF TypeOK, Waiting
    <2>5. CyclesToEffect = 1 + Latency
        BY <1>2, <2>3, <2>4 DEF CyclesToEffect
    <2>6. CyclesToEffect' = request'.left
        BY <2>1, <2>4 DEF CyclesToEffect
    <2> QED
        BY <1>2, <2>1, <2>4, <2>5, <2>6 DEF Fewer
<1> QED
    BY <1>6, <1>7

LEMMA PassedOver ==
    ASSUME IInv, SequentialInv, Skip \/ execute
    PROVE  Fewer
<1>1. TypeOK /\ HoldLines /\ Regular(program) /\ Waiting
    BY DEF IInv, SequentialInv
<1>2. /\ UNCHANGED <<pipeline_array, request, first>>
      /\ stage \in FETCH .. WB /\ stage' = After(stage)
    BY DEF Skip, execute
<1>3. \A i \in FETCH .. WB : Slot(i)' = Slot(i) /\ (Live(i)' <=> Live(i))
    BY <1>2 DEF Slot, Live
<1>4. /\ stage = WB => ~Live(WB)
      /\ stage = MEM => ~Live(MEM)
    <2>1. stage \in {MEM, WB} => Idle(stage)
        BY DEF Skip, execute
    <2> QED
        BY <1>1, <2>1, LineFacts
<1>5. /\ stage' \in AGAIN .. MEM /\ stage' < stage
      /\ stage' = MEM => stage = WB
      /\ stage = WB => stage' = MEM \/ request.left > 0
    BY <1>1, <1>2 DEF TypeOK, After, Waiting
<1>6. /\ Pending(0)' <=> Pending(0)
      /\ Pending(1)' <=> Pending(1)
      /\ Pending(2)' <=> Pending(2)
      /\ Pending(3)' <=> Pending(3)
      /\ Pending(4)' <=> Pending(4)
    BY <1>2, <1>3, <1>4, <1>5, PendingSlots, PendingSlotsNext
<1>7. \A i \in DECODE .. WB : Pending(i)' <=> Pending(i)
    BY <1>6
<1> QED
    BY <1>1, <1>2, <1>5, <1>6, <1>7, InPlace

LEMMA FrontStages ==
    ASSUME Executable, IInv, SequentialInv, Decodes \/ Passes \/ fetch_instruction
    PROVE  Fewer
<1>1. TypeOK
    BY DEF IInv
<1>2. /\ request' = request /\ stage \in AGAIN .. DECODE /\ stage' \in END .. FETCH /\ stage' < stage
      /\ \A i \in DECODE .. WB : /\ Slot(i)'.at = Slot(i).at
                                 /\ i # DECODE => Slot(i)'.op = Slot(i).op
      /\ Live(FETCH) => Live(FETCH)'
    <2>1. CASE Decodes
        BY <2>1, Decoding DEF Live, Slot
    <2>2. CASE Passes
        BY <2>2, PassesEffect DEF Live, Slot
    <2>3. CASE fetch_instruction
        BY <2>3, Fetches DEF Live, Slot
    <2> QED
        BY <2>1, <2>2, <2>3
<1>3. \A i \in DECODE .. WB : Live(i)' <=> Live(i)
    BY <1>2 DEF Live, Slot
<1>4. /\ Pending(0) => Pending(0)'
      /\ Pending(1)' <=> Pending(1)
      /\ Pending(2)' <=> Pending(2)
      /\ Pending(3)' <=> Pending(3)
      /\ Pending(4)' <=> Pending(4)
    BY <1>2, <1>3, PendingSlots, PendingSlotsNext
<1>5. \A i \in DECODE .. WB : Pending(i)' <=> Pending(i)
    BY <1>4
<1> QED
    BY <1>1, <1>2, <1>4, <1>5, InPlace

\* A slot further with each cycle that does not wait for the bus.
LEMMA ShiftFewer ==
    ASSUME IInv, IInv', SequentialInv, HoldLines', Shift
    PROVE  Fewer
<1>1. TypeOK /\ HoldLines /\ Regular(program) /\ Waiting
    BY DEF IInv, SequentialInv
<1>2. /\ stage = SHIFT /\ stage' \in AGAIN .. WB /\ request' = request
      /\ Hazard \in {FETCH, EXEC, WB}
      /\ \A i \in FETCH .. WB :
            /\ i > Hazard => Slot(i)' = Slot(i - 1)
            /\ i = Hazard => ~Live(i)'
            /\ i < Hazard => Slot(i)' = Slot(i)
    BY <1>1, ShiftEffect, NewSlotFacts DEF Live, Slot
<1>3. request.left \in 0 .. Latency /\ Latency \in Nat /\ Front \in -1 .. 4
    BY <1>1, CyclesTyped
<1>4. CASE request.left > 0
    BY <1>2, <1>3, <1>4 DEF Fewer, CyclesToEffect
<1>5. ASSUME request.left = 0, Front' = Front + 1 PROVE Fewer
    BY <1>2, <1>3, <1>5 DEF Fewer, CyclesToEffect
<1>6. CASE Hazard = FETCH
    <2>1. ~Pending(WB) /\ (Pending(MEM)' <=> Pending(EXEC)) /\ (Pending(WB)' <=> Pending(MEM))
        BY <1>6, ShiftFlight
    <2>2. /\ Slot(1)' = Slot(0) /\ Slot(2)' = Slot(1) /\ ~Live(0)'
        BY <1>2, <1>6
    <2>3. ~Pending(0)' /\ (Pending(1)' <=> Pending(0)) /\ (Pending(2)' <=> Pending(1))
        BY <2>2, PendingSlots, PendingSlotsNext DEF Live, Slot
    <2>4. Front' = Front + 1
        BY <1>2, <2>1, <2>3, FrontNow, FrontNext DEF FrontIs
    <2> QED
        BY <1>3, <1>4, <1>5, <2>4
<1>7. CASE Hazard = EXEC
    <2>1. /\ ~Pending(WB) /\ (Pending(MEM)' <=> Pending(EXEC)) /\ (Pending(WB)' <=> Pending(MEM))
        BY <1>7, ShiftFlight
    <2>2. Pending(EXEC) \/ Pending(MEM)
        BY <1>1, <1>7, HazardAhead DEF Hazard
    <2>3. Front' = Front + 1
        BY <2>1, <2>2, FrontNow, FrontNext DEF FrontIs
    <2> QED
        BY <1>3, <1>4, <1>5, <2>3
<1>8. CASE Hazard = WB
    <2>1. request.left > 0
        BY <1>8 DEF Hazard
    <2> QED
        BY <1>4, <2>1
<1> QED
    BY <1>2, <1>6, <1>7, <1>8

LEMMA EndCycleFewer ==
    ASSUME IInv, SequentialInv, EndCycle, ~Over, Pending(MEM)' <=> Pending(MEM)
    PROVE  Fewer
<1>1. TypeOK /\ HoldLines /\ Regular(program) /\ Waiting /\ Filled /\ Fetching
    BY DEF IInv, SequentialInv
<1>2. /\ stage = END /\ stage' = SHIFT /\ UNCHANGED pipeline_array
    BY EndCycleEffect
<1>3. \A i \in FETCH .. WB : Slot(i)' = Slot(i) /\ (Live(i)' <=> Live(i))
    BY <1>2 DEF Slot, Live
<1>4. /\ Pending(0)' <=> Pending(0)
      /\ Pending(1)' <=> Pending(1)
      /\ Pending(2)' <=> Pending(2)
      /\ Pending(3)' <=> Pending(3)
      /\ ~Pending(4)' /\ ~Pending(4)
    BY <1>2, <1>3, PendingSlots, PendingSlotsNext
<1>5. ~NonePending
    <2> SUFFICES ASSUME NonePending PROVE FALSE
        OBVIOUS
    <2>1. ~Live(FETCH)
        BY PendingSlots DEF NonePending
    <2>2. Idle(FETCH)
        BY <1>1, <1>2, <2>1 DEF Filled, Empty
    <2> QED
        BY <1>1, <2>2, OverIsEmpty DEF Fetching
<1>6. Front' = Front
    BY <1>4, <1>5, FrontNow, FrontNext DEF FrontIs, NonePending
<1>7. request.left \in 0 .. Latency /\ Latency \in Nat /\ Front \in 0 .. 3
    <2>1. Front \in 0 .. 3
        BY <1>4, <1>5, FrontNow DEF FrontIs, NonePending
    <2> QED
        BY <1>1, <2>1, CyclesTyped
<1>8. CASE request.left = 0
    <2>1. request' = request
        BY <1>8 DEF EndCycle
    <2> QED
        BY <1>2, <1>6, <1>7, <1>8, <2>1 DEF Fewer, CyclesToEffect
<1>9. CASE request.left > 1
    <2>1. request'.left = request.left - 1
        BY <1>1, <1>9 DEF EndCycle, TypeOK
    <2> QED
        BY <1>2, <1>7, <1>9, <2>1 DEF Fewer, CyclesToEffect
<1>10. CASE request.left = 1
    <2>1. request'.left = 0
        BY <1>10 DEF EndCycle, NoRequest
    <2>2. Front = MEM
        BY <1>1, <1>10, ServedIsNext
    <2> QED
        BY <1>2, <1>6, <1>7, <1>10, <2>1, <2>2 DEF Fewer, CyclesToEffect
<1> QED
    BY <1>7, <1>8, <1>9, <1>10

\* While there is an instruction to come.
LEMMA EffectNears ==
    ASSUME Executable, IInv, IInv', SequentialInv, SequentialInv', Next, ~Over
    PROVE  Core!Step \/ (UNCHANGED Core!vars /\ Fewer)
<1>1. HoldLines'
    BY DEF SequentialInv
<1>2. CASE writeback_state
    BY <1>2, WriteBackMaps, WriteBackInPlace
<1>3. CASE memory_state
    BY <1>3, MemoryMaps, MemoryFewer
<1>4. CASE EndCycle
    BY <1>4, EndCycleMaps, EndCycleFewer
<1>5. CASE ~writeback_state /\ ~memory_state /\ ~EndCycle
    <2>1. UNCHANGED Core!vars
        BY <1>5, OtherStepsMap
    <2>2. Fewer
        BY <1>1, <1>5, PassedOver, FrontStages, ShiftFewer DEF Next, Decodes, Passes
    <2> QED
        BY <2>1, <2>2
<1> QED
    BY <1>2, <1>3, <1>4, <1>5

\* When there is none any more the slots are passed over, one with each cycle.
FewerToDrain ==
    IF stage' = SHIFT THEN halted' \/ CyclesToDrain' < CyclesToDrain
                      ELSE stage' < stage /\ CyclesToDrain' <= CyclesToDrain

LEMMA SlotsDrain ==
    ASSUME Executable, IInv, SequentialInv, Next, Over
    PROVE  FewerToDrain
<1>1. TypeOK /\ HoldLines /\ Regular(program) /\ Waiting
    BY DEF IInv, SequentialInv
<1>2. NonePending /\ pc \notin DOMAIN program
    BY <1>1, OverIsEmpty
<1>3. Tail \in 0 .. 4 /\ stage \in -2 .. 5
    BY <1>1, CyclesTyped
<1>4. ASSUME stage # SHIFT, stage' # SHIFT, stage' < stage, pipeline_array' = pipeline_array
      PROVE  FewerToDrain
    <2>1. Tail' = Tail
        BY <1>4, TailNow, TailNext DEF TailIs, Idle
    <2> QED
        BY <1>3, <1>4, <2>1 DEF FewerToDrain, CyclesToDrain
<1>5. CASE Still
    <2>1. stage \in FETCH .. WB /\ stage' < stage /\ stage' # SHIFT /\ pipeline_array' = pipeline_array
        BY <1>1, <1>5, StillEffect
    <2> QED
        BY <1>4, <2>1
<1>6. CASE writeback_state
    BY <1>4, <1>6, WriteBackEffect DEF writeback_state
<1>7. CASE Passes
    BY <1>4, <1>7, PassesEffect
<1>8. ~Decodes /\ ~fetch_instruction
    BY <1>1, <1>2, Decoding, Fetches, PendingSlots DEF NonePending
<1>9. CASE Shift
    <2>1. Hazard = 0
        <3>1. ~(request.left > 0)
            BY <1>1, <1>2, ServedIsNext DEF NonePending
        <3>2. ~RawHazard
            BY <1>1, <1>2, HazardAhead DEF NonePending
        <3> QED
            BY <3>1, <3>2 DEF Hazard
    <2>2. /\ Slot(1)' = Slot(0) /\ Slot(2)' = Slot(1) /\ Slot(3)' = Slot(2)
          /\ Slot(0)' = NewSlot(0) /\ stage = SHIFT /\ stage' \in AGAIN .. WB
        BY <1>1, <1>9, <2>1, ShiftEffect, 1 - 1 = 0, 2 - 1 = 1, 3 - 1 = 2
    <2>3. Idle(0)' /\ (Idle(1)' <=> Idle(0)) /\ (Idle(2)' <=> Idle(1)) /\ (Idle(3)' <=> Idle(2))
        BY <1>2, <2>2, NewSlotFacts DEF Idle, Slot
    <2>4. Tail' = IF Tail < 4 THEN Tail + 1 ELSE 4
        BY <2>3, TailNow, TailNext DEF TailIs
    <2> QED
        BY <1>3, <2>2, <2>4 DEF FewerToDrain, CyclesToDrain
<1>10. CASE EndCycle
    <2>1. /\ stage = END /\ stage' = SHIFT /\ pipeline_array' = pipeline_array
          /\ halted' = finished
        BY <1>10, EndCycleEffect
    <2>2. Tail' = Tail
        BY <2>1, TailNow, TailNext DEF TailIs, Idle
    <2>3. Tail = 4 => finished
        <3>1. Tail = 4 => Idle(0) /\ Idle(1) /\ Idle(2) /\ Idle(3)
            BY TailNow DEF TailIs
        <3> QED
            BY <3>1 DEF finished
    <2> QED
        BY <1>3, <2>1, <2>2, <2>3 DEF FewerToDrain, CyclesToDrain
<1> QED
    BY <1>5, <1>6, <1>7, <1>8, <1>9, <1>10 DEF Next, Still, Decodes, Passes

LEMMA EveryStepNears ==
    ASSUME Executable, IInv, IInv', SequentialInv, SequentialInv', Next
    PROVE  Core!Step \/ (stage' = SHIFT /\ halted') \/ StepsLeft' < StepsLeft
<1>1. /\ TypeOK /\ TypeOK'
    BY DEF IInv
<1>2. stage' = SHIFT => stage = END
    <2>1. stage' # SHIFT \/ EndCycle
        BY <1>1, StepCases, StillEffect, PassesEffect, Decoding, Fetches, ShiftEffect,
           WriteBackEffect DEF Next, Still, Decodes, Passes
    <2> QED
        BY <2>1 DEF EndCycle
<1>3. CASE ~Over
    <2>1. ASSUME UNCHANGED Core!vars, Fewer PROVE StepsLeft' < StepsLeft
        <3>1. ~Over'
            BY <1>3, <2>1 DEF Core!vars, Over
        <3>2. CyclesLeft = CyclesToEffect /\ CyclesLeft' = CyclesToEffect'
            BY <1>3, <3>1 DEF CyclesLeft
        <3> QED
            BY <1>1, <1>2, <2>1, <3>2, WithinCycle, AtItsEnd DEF Fewer
    <2> QED
        BY <1>3, <2>1, EffectNears
<1>4. CASE Over
    <2>1. Over'
        <3>1. ~Core!Step
            BY <1>4 DEF Core!Step, Over
        <3>2. UNCHANGED Core!vars
            BY <3>1, WriteBackMaps, MemoryMaps, EndCycleMaps, OtherStepsMap
        <3> QED
            BY <1>4, <3>2 DEF Core!vars, Over
    <2>2. CyclesLeft = CyclesToDrain /\ CyclesLeft' = CyclesToDrain'
        BY <1>4, <2>1 DEF CyclesLeft
    <2>3. FewerToDrain
        BY <1>4, SlotsDrain
    <2> QED
        BY <1>1, <1>2, <2>2, <2>3, WithinCycle, AtItsEnd DEF FewerToDrain
<1> QED
    BY <1>3, <1>4

\* Neither hazards nor misses hold the pipeline for good: the next instruction takes
\* effect within Latency + 5 cycles of the one before, and a core whose program is over is found
\* halted within five.  StepsLeft counts them, and every step of a stage lowers it.
THEOREM ExecutionEnds ==
    ASSUME Executable
    PROVE  Spec => /\ [](StepsLeft \in 0 .. 8 * (Latency + 5))
                   /\ ExecutionAdvances
<1> DEFINE Nearer == Core!Step \/ (stage' = SHIFT /\ halted') \/ StepsLeft' < StepsLeft
<1>1. IInv => StepsLeft \in 0 .. 8 * (Latency + 5)
    <2> SUFFICES ASSUME IInv PROVE StepsLeft \in 0 .. 8 * (Latency + 5)
        OBVIOUS
    <2>1. /\ CyclesLeft \in 0 .. Latency + 4 /\ stage \in -2 .. 5 /\ Latency \in Nat
        BY CyclesTyped DEF IInv, CyclesLeft
    <2>2. StepsLeft = 8 * CyclesLeft + (stage + 2)
        BY LeftInStepsNow DEF LeftInSteps, IInv
    <2> QED
        BY <2>1, <2>2
<1>2. IInv /\ IInv' /\ SequentialInv /\ SequentialInv' /\ [Next]_vars => [Nearer]_vars
    BY EveryStepNears
<1> QED
    BY <1>1, <1>2, Inductive, SequentialInductive, PTL DEF Spec, ExecutionAdvances

=============================================================================
