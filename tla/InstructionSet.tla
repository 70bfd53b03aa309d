--------------------------- MODULE InstructionSet ---------------------------
(***************************************************************************)
(* The instructions of the simulated core and what each of them computes.  *)
(* The pipeline and the sequential machine it is compared with share these *)
(* definitions; how values travel between instructions is not part of them. *)
(***************************************************************************)
EXTENDS Integers

CONSTANTS
    Regs,           \* the registers a program uses
    Modulus,        \* a register holds Modulus values (2^32 in the code)
    PCs,            \* values of the program counter (0x3FF + 1)
    MemWords,       \* words of main memory
    Compute(_,_,_)  \* the ALU: opcode and the two operands

zero == 0
immReg == 1
ra == 15

AluOps == {"add", "sub", "and", "or", "xor", "mul", "sll", "sra", "srl"}
BranchOps == {"beq", "bne", "blt", "bgt", "ble", "bge"}
MemOps == {"lw", "sw"}
\* decode and execute know nothing of ll and sc, which the assembler accepts.
Ops == AluOps \cup BranchOps \cup MemOps \cup {"jal", "halt", "ll", "sc"}

Instructions == [op : Ops, rd : Regs, rs : Regs, rt : Regs, imm : Int]

\* A line of the source may stand for no instruction.
Blank == [op |-> "nop", rd |-> zero, rs |-> zero, rt |-> zero, imm |-> 0]
Lines == Instructions \cup {Blank}

Word == 0 .. Modulus - 1

ASSUME RegsAssumption == Regs \subseteq 0 .. 15 /\ {zero, immReg, ra} \subseteq Regs
ASSUME SizesAssumption ==
    /\ Modulus \in Nat \ {0} /\ PCs \in Nat \ {0} /\ MemWords \in Nat \ {0}
ASSUME ComputeAssumption ==
    \A op \in AluOps, s, t \in -Modulus .. Modulus : Compute(op, s, t) \in Int

\* A register is a string of hexadecimal digits, here the number that they make: the
\* pipeline is told of registers whose digits are read right (HexCharToInt of Encoding,
\* with no digit behind any of them).
Int_2_Hex(n) == n % Modulus
Hex_2_Int_2s_Comp(h) == IF 2 * h >= Modulus THEN h - Modulus ELSE h

\* The instructions that write register r, and the register an instruction
\* writes at write-back.
WritesRd(i) == i.op \in AluOps \cup {"lw"}
Writes(i) == IF WritesRd(i) THEN {i.rd} ELSE IF i.op = "jal" THEN {ra} ELSE {}

\* The registers whose values the instruction uses.
Reads(i) ==
    CASE i.op \in AluOps \cup {"lw"}   -> {i.rs, i.rt}
      [] i.op \in BranchOps \cup {"sw"} -> {i.rs, i.rt, i.rd}
      [] i.op = "jal"                   -> {i.rd}
      [] OTHER                          -> {}

Taken(op, s, t) ==
    \/ op = "beq" /\ s = t
    \/ op = "bne" /\ s # t
    \/ op = "blt" /\ s < t
    \/ op = "bgt" /\ s > t
    \/ op = "ble" /\ s <= t
    \/ op = "bge" /\ s >= t
    \/ op = "jal"

\* rd_value & 0x3FF, also of a negative value.
Target(v) == v % PCs

\* get_cache_address_parts and the size of main memory.
Address(v) == v % MemWords

\* alu_result: what execute computes.
Result(op, s, t) ==
    CASE op \in AluOps -> Compute(op, s, t)
      [] op \in MemOps -> s + t
      [] OTHER         -> 0
=============================================================================
