------------------------------ MODULE Encoding ------------------------------
(***************************************************************************)
(* The numbers of the simulator as text: the word of an instruction, which *)
(* the assembler writes and decode takes apart, and the strings of eight   *)
(* hexadecimal digits that the registers are (asm.c, utils.c).             *)
(***************************************************************************)
EXTENDS Integers

Opcodes == 0 .. 20
Fields == 0 .. 15
Imm == 0 .. 4095

\* sbs(v, 11, 0), also of a negative v.
LowBits(v) == v % 4096

\* (op << 24) | (rd << 20) | (rs << 16) | (rt << 12) | imm
Inst(op, rd, rs, rt, imm) ==
    op * 16777216 + rd * 1048576 + rs * 65536 + rt * 4096 + imm

\* Up to the digits 14FFFFFF.
Words == {w \in Nat : w <= 352321535}

\* Mutant of SignExtended: 2048 is taken for a positive number.
MutSignExtended(i) == IF i > 2048 THEN i - 4096 ELSE i

SignExtended(i) == IF i >= 2048 THEN i - 4096 ELSE i

\* The command of the eight digits of a word.
BuildCommand(w) ==
    [op  |-> w \div 16777216,
     rd  |-> (w \div 1048576) % 16,
     rs  |-> (w \div 65536) % 16,
     rt  |-> (w \div 4096) % 16,
     imm |-> SignExtended(w % 4096)]
-----------------------------------------------------------------------------
\* The register strings; a digit is its value here.
Len8 == 8
Strings == [0 .. Len8 - 1 -> 0 .. 15]

\* 1 << (4 * i)
Shifted(i) == <<1, 16, 256, 4096, 65536, 1048576, 16777216, 268435456>>[i + 1]

\* The values of an int.
Int32 == (-8) * Shifted(Len8 - 1) .. 7 * Shifted(Len8 - 1) + (Shifted(Len8 - 1) - 1)

\* sprintf "%08X": the digits of the two's complement, the highest first.
Int_2_Hex(n) == [i \in 0 .. Len8 - 1 |-> (n \div Shifted(Len8 - 1 - i)) % 16]

\* res, after i digits from the end.
Low(h) ==
    LET res[i \in 0 .. Len8 - 1] ==
            IF i = 0 THEN 0 ELSE res[i - 1] + h[Len8 - i] * Shifted(i - 1)
    IN res

\* The digits behind the first are summed up, the first one carries the sign.
FromDigits(h) ==
    LET top == Shifted(Len8 - 1)
        msc == h[0]
    IN IF msc < 8 THEN Low(h)[Len8 - 1] + msc * top
       ELSE Low(h)[Len8 - 1] + (msc - 8) * top + (-8) * top

\* The decimal digits that happen to lie behind a character in memory: how many there
\* are, and the number that they make.
Ten(k) == <<1, 10, 100, 1000, 10000, 100000, 1000000, 10000000, 100000000>>[k + 1]
Following == {f \in [length : 0 .. 8, value : Nat] : f.value < Ten(f.length)}

\* An int in a short.
Short(n) == ((n + 32768) % 65536) - 32768

\* Letters are looked up.  For 0 to 9 atoi is given a string of which nobody has set the
\* end, and reads the digits that follow with it.
HexCharToInt(c, f) ==
    IF c >= 10 THEN c ELSE Short(c * Ten(f.length) + f.value)

\* after[i] is what follows the copy of h[i].
Hex_2_Int_2s_Comp(h, after) ==
    FromDigits([i \in 0 .. Len8 - 1 |-> HexCharToInt(h[i], after[i])])

NoDigitFollows(h, after) ==
    \A i \in 0 .. Len8 - 1 : h[i] < 10 => after[i].length = 0
=============================================================================
