--------------------------- MODULE EncodingProofs ---------------------------
(***************************************************************************)
(* The conversions lose nothing: the fields of a word, the twelve bits of  *)
(* an immediate, and the eight digits of a register.                       *)
(***************************************************************************)
EXTENDS Encoding, TLAPS

\* The fields of an instruction do not touch: what the assembler packs into a word is
\* what BuildCommand takes out of it.
THEOREM FieldsRoundTrip ==
  ASSUME NEW op \in Opcodes, NEW rd \in Fields, NEW rs \in Fields, NEW rt \in Fields,
         NEW i \in Imm
  PROVE  /\ Inst(op, rd, rs, rt, i) \in Words
         /\ BuildCommand(Inst(op, rd, rs, rt, i)) =
                [op |-> op, rd |-> rd, rs |-> rs, rt |-> rt, imm |-> SignExtended(i)]
  <1> DEFINE w == Inst(op, rd, rs, rt, i)
  <1>1. /\ w \in Words /\ w \in Nat
    <2>1. /\ op \in Nat /\ op <= 20 /\ rd \in Nat /\ rd <= 15 /\ rs \in Nat /\ rs <= 15
          /\ rt \in Nat /\ rt <= 15 /\ i \in Nat /\ i <= 4095
      BY SMT DEF Opcodes, Fields, Imm
    <2>2. w = op * 16777216 + rd * 1048576 + rs * 65536 + rt * 4096 + i
      BY SMT DEF Inst
    <2>3. w \in Nat /\ w <= 352321535
      BY SMT, <2>1, <2>2
    <2>4. QED
      BY SMT, <2>2, <2>3 DEF Words
  <1>2. w \div 16777216 = op
    BY SMT DEF Inst, Opcodes, Fields, Imm
  <1>3. (w \div 1048576) % 16 = rd
    <2>1. w \div 1048576 = op * 16 + rd
      BY SMT DEF Inst, Opcodes, Fields, Imm
    <2>2. QED BY <2>1 DEF Opcodes, Fields
  <1>4. (w \div 65536) % 16 = rs
    <2>1. w \div 65536 = (op * 16 + rd) * 16 + rs
      BY SMT DEF Inst, Opcodes, Fields, Imm
    <2>2. QED BY <2>1 DEF Opcodes, Fields
  <1>5. (w \div 4096) % 16 = rt
    <2>1. w \div 4096 = ((op * 16 + rd) * 16 + rs) * 16 + rt
      BY SMT DEF Inst, Opcodes, Fields, Imm
    <2>2. QED BY <2>1 DEF Opcodes, Fields
  <1>6. w % 4096 = i
    BY SMT DEF Inst, Opcodes, Fields, Imm
  <1>7. QED
    BY SMT, <1>1, <1>2, <1>3, <1>4, <1>5, <1>6 DEF BuildCommand

\* A number of twelve bits with a sign is the immediate that decode finds; any other
\* number is taken modulo 2^12.
THEOREM ImmediateIsWrapped ==
  ASSUME NEW v \in Int
  PROVE  /\ LowBits(v) \in Imm
         /\ SignExtended(LowBits(v)) \in Int
         /\ -2048 <= SignExtended(LowBits(v)) /\ SignExtended(LowBits(v)) <= 2047
         /\ (SignExtended(LowBits(v)) - v) % 4096 = 0
         /\ -2048 <= v /\ v <= 2047 => SignExtended(LowBits(v)) = v
  <1> DEFINE low == LowBits(v)
  <1>1. low \in Imm
    BY DEF LowBits, Imm
  <1>2. PICK q \in Int : v = 4096 * q + low
    <2>1. v = 4096 * (v \div 4096) + (v % 4096) /\ v \div 4096 \in Int
      BY SMT
    <2>2. QED BY <2>1 DEF LowBits
  <1> HIDE DEF low
  <1>3. \E k \in Int : SignExtended(low) = v - 4096 * k
    <2>1. CASE low >= 2048
      <3>1. SignExtended(low) = low - 4096
        BY <2>1 DEF SignExtended
      <3>2. low - 4096 = v - 4096 * (q + 1)
        BY SMT, <1>1, <1>2 DEF Imm
      <3> DEFINE k == q + 1
      <3>3. k \in Int
        OBVIOUS
      <3>4. SignExtended(low) = v - 4096 * k
        BY <3>1, <3>2
      <3> HIDE DEF k
      <3>5. QED BY SMT, <3>3, <3>4
    <2>2. CASE ~(low >= 2048)
      BY SMT, <1>1, <1>2, <2>2 DEF SignExtended, Imm
    <2>3. QED BY <2>1, <2>2
  <1>4. SignExtended(low) \in Int /\ -2048 <= SignExtended(low) /\ SignExtended(low) <= 2047
    BY SMT, <1>1 DEF SignExtended, Imm
  <1>5. (SignExtended(low) - v) % 4096 = 0
    <2>1. PICK k \in Int : SignExtended(low) = v - 4096 * k
      BY <1>3
    <2>2. SignExtended(low) - v = 4096 * (-k)
      BY SMT, <2>1
    <2>3. (4096 * (-k)) % 4096 = 0
      BY SMT, <2>1
    <2>4. QED BY <2>2, <2>3
  <1>6. -2048 <= v /\ v <= 2047 => SignExtended(low) = v
    <2>1. PICK k \in Int : SignExtended(low) = v - 4096 * k
      BY <1>3
    <2>2. -2048 <= v /\ v <= 2047 => k = 0
      BY SMT, <1>4, <2>1
    <2>3. QED BY SMT, <2>1, <2>2
  <1>7. QED BY <1>1, <1>4, <1>5, <1>6 DEF low

-----------------------------------------------------------------------------
LEMMA Powers ==
  /\ Shifted(0) = 1 /\ Shifted(1) = 16 /\ Shifted(2) = 256 /\ Shifted(3) = 4096
  /\ Shifted(4) = 65536 /\ Shifted(5) = 1048576 /\ Shifted(6) = 16777216
  /\ Shifted(7) = 268435456
BY SMT DEF Shifted

\* The recursion of Low, taken once.
LEMMA LowStep ==
  ASSUME NEW h
  PROVE  /\ Low(h)[0] = 0
         /\ \A i \in 1 .. 7 : Low(h)[i] = Low(h)[i - 1] + h[8 - i] * Shifted(i - 1)
  <1> DEFINE T(i) == h[8 - i] * Shifted(i - 1)
             s1 == 0 + T(1)
             s2 == s1 + T(2)
             s3 == s2 + T(3)
             s4 == s3 + T(4)
             s5 == s4 + T(5)
             s6 == s5 + T(6)
             s7 == s6 + T(7)
             g == [i \in 0 .. 7 |->
                     CASE i = 0 -> 0 [] i = 1 -> s1 [] i = 2 -> s2 [] i = 3 -> s3
                       [] i = 4 -> s4 [] i = 5 -> s5 [] i = 6 -> s6 [] i = 7 -> s7]
             Sum(f) == [i \in 0 .. 7 |-> IF i = 0 THEN 0 ELSE f[i - 1] + T(i)]
  <1> HIDE DEF T
  <1>1. g = Sum(g)
    <2>1. ASSUME NEW i \in 0 .. 7 PROVE g[i] = Sum(g)[i]
      <3>1. i = 0 \/ i = 1 \/ i = 2 \/ i = 3 \/ i = 4 \/ i = 5 \/ i = 6 \/ i = 7
        BY SMT
      <3>2. QED BY SMT, <3>1
    <2>2. QED BY <2>1
  <1>2. Low(h) = CHOOSE f : f = Sum(f)
    BY DEF Low, T, Len8
  <1>3. Low(h) = Sum(Low(h))
    BY <1>1, <1>2
  <1> HIDE DEF g
  <1>4. QED BY <1>3 DEF T

\* The seven turns of the loop.
LEMMA LowDigits ==
  ASSUME NEW h
  PROVE  /\ Low(h)[0] = 0
         /\ Low(h)[1] = Low(h)[0] + h[7] * 1
         /\ Low(h)[2] = Low(h)[1] + h[6] * 16
         /\ Low(h)[3] = Low(h)[2] + h[5] * 256
         /\ Low(h)[4] = Low(h)[3] + h[4] * 4096
         /\ Low(h)[5] = Low(h)[4] + h[3] * 65536
         /\ Low(h)[6] = Low(h)[5] + h[2] * 1048576
         /\ Low(h)[7] = Low(h)[6] + h[1] * 16777216
  <1> DEFINE r == Low(h)
  <1>1. r[0] = 0 /\ \A i \in 1 .. 7 : r[i] = r[i - 1] + h[8 - i] * Shifted(i - 1)
    BY SMT, LowStep
  <1> HIDE DEF r
  <1>2. /\ r[1] = r[1 - 1] + h[8 - 1] * Shifted(1 - 1)
        /\ r[2] = r[2 - 1] + h[8 - 2] * Shifted(2 - 1)
        /\ r[3] = r[3 - 1] + h[8 - 3] * Shifted(3 - 1)
        /\ r[4] = r[4 - 1] + h[8 - 4] * Shifted(4 - 1)
        /\ r[5] = r[5 - 1] + h[8 - 5] * Shifted(5 - 1)
        /\ r[6] = r[6 - 1] + h[8 - 6] * Shifted(6 - 1)
        /\ r[7] = r[7 - 1] + h[8 - 7] * Shifted(7 - 1)
    BY SMT, <1>1
  <1>3. QED BY SMT, <1>1, <1>2, Powers DEF r

\* What the digits of a string stand for.
LEMMA LowIsSum ==
  ASSUME NEW h \in Strings
  PROVE  Low(h)[7] = h[7] + h[6] * 16 + h[5] * 256 + h[4] * 4096 + h[3] * 65536
                     + h[2] * 1048576 + h[1] * 16777216
  <1>1. \A i \in 0 .. 7 : h[i] \in 0 .. 15
    BY SMT DEF Strings, Len8
  <1> DEFINE r == Low(h)
  <1>2. /\ r[0] = 0 /\ r[1] = r[0] + h[7] * 1 /\ r[2] = r[1] + h[6] * 16
        /\ r[3] = r[2] + h[5] * 256 /\ r[4] = r[3] + h[4] * 4096
        /\ r[5] = r[4] + h[3] * 65536 /\ r[6] = r[5] + h[2] * 1048576
        /\ r[7] = r[6] + h[1] * 16777216
    BY SMT, LowDigits
  <1> HIDE DEF r
  <1>3. r[7] = h[7] + h[6] * 16 + h[5] * 256 + h[4] * 4096 + h[3] * 65536
                     + h[2] * 1048576 + h[1] * 16777216
    BY SMT, <1>1, <1>2
  <1>4. QED BY SMT, <1>3 DEF r

LEMMA Quotients ==
  ASSUME NEW a \in Int, NEW b \in Int, 0 <= b
  PROVE  /\ b < 16 => (a * 16 + b) \div 16 = a /\ (a * 16 + b) % 16 = b
         /\ b < 256 => (a * 256 + b) \div 256 = a
         /\ b < 4096 => (a * 4096 + b) \div 4096 = a
         /\ b < 65536 => (a * 65536 + b) \div 65536 = a
         /\ b < 1048576 => (a * 1048576 + b) \div 1048576 = a
         /\ b < 16777216 => (a * 16777216 + b) \div 16777216 = a
         /\ b < 268435456 => (a * 268435456 + b) \div 268435456 = a
  <1>1. b < 16 => (a * 16 + b) \div 16 = a /\ (a * 16 + b) % 16 = b BY SMT
  <1>2. b < 256 => (a * 256 + b) \div 256 = a BY SMT
  <1>3. b < 4096 => (a * 4096 + b) \div 4096 = a BY SMT
  <1>4. b < 65536 => (a * 65536 + b) \div 65536 = a BY SMT
  <1>5. b < 1048576 => (a * 1048576 + b) \div 1048576 = a BY SMT
  <1>6. b < 16777216 => (a * 16777216 + b) \div 16777216 = a BY SMT
  <1>7. b < 268435456 => (a * 268435456 + b) \div 268435456 = a BY SMT
  <1>8. QED BY SMT, <1>1, <1>2, <1>3, <1>4, <1>5, <1>6, <1>7

\* A digit of v.
DigitAt(v, w) == (v \div w) % 16

LEMMA DigitIs ==
  ASSUME NEW v \in Int, NEW h, h = Int_2_Hex(v)
  PROVE  /\ h[7] = DigitAt(v, 1) /\ h[6] = DigitAt(v, 16) /\ h[5] = DigitAt(v, 256)
         /\ h[4] = DigitAt(v, 4096) /\ h[3] = DigitAt(v, 65536) /\ h[2] = DigitAt(v, 1048576)
         /\ h[1] = DigitAt(v, 16777216) /\ h[0] = DigitAt(v, 268435456)
  <1>1. \A i \in 0 .. 7 : h[i] = DigitAt(v, Shifted(7 - i))
    BY SMT DEF Int_2_Hex, Len8, DigitAt
  <1>2. ASSUME NEW i \in 0 .. 7, NEW w, Shifted(7 - i) = w PROVE h[i] = DigitAt(v, w)
    BY SMT, <1>1, <1>2
  <1>3. /\ Shifted(7 - 7) = 1 /\ Shifted(7 - 6) = 16 /\ Shifted(7 - 5) = 256
        /\ Shifted(7 - 4) = 4096 /\ Shifted(7 - 3) = 65536 /\ Shifted(7 - 2) = 1048576
        /\ Shifted(7 - 1) = 16777216 /\ Shifted(7 - 0) = 268435456
    BY SMT, Powers
  <1>5. h[7] = DigitAt(v, 1) /\ h[6] = DigitAt(v, 16) BY SMT, <1>2, <1>3
  <1>6. h[5] = DigitAt(v, 256) /\ h[4] = DigitAt(v, 4096) BY SMT, <1>2, <1>3
  <1>7. h[3] = DigitAt(v, 65536) /\ h[2] = DigitAt(v, 1048576) BY SMT, <1>2, <1>3
  <1>8. h[1] = DigitAt(v, 16777216) /\ h[0] = DigitAt(v, 268435456) BY SMT, <1>2, <1>3
  <1>4. QED BY SMT, <1>5, <1>6, <1>7, <1>8

\* The digits of a number, from the quotients by the powers of sixteen.
LEMMA DigitsOf ==
  ASSUME NEW v \in Int
  PROVE  /\ Int_2_Hex(v) \in Strings
         /\ v = Low(Int_2_Hex(v))[7] + (v \div 268435456) * 268435456
         /\ Int_2_Hex(v)[0] = (v \div 268435456) % 16
         /\ 0 <= Low(Int_2_Hex(v))[7] /\ Low(Int_2_Hex(v))[7] < 268435456
  <1> DEFINE h == Int_2_Hex(v)
  <1>1. /\ h[7] = (v \div 1) % 16 /\ h[6] = (v \div 16) % 16 /\ h[5] = (v \div 256) % 16
        /\ h[4] = (v \div 4096) % 16 /\ h[3] = (v \div 65536) % 16
        /\ h[2] = (v \div 1048576) % 16 /\ h[1] = (v \div 16777216) % 16
        /\ h[0] = (v \div 268435456) % 16
    <2>1. h = Int_2_Hex(v)
      BY SMT
    <2> HIDE DEF h
    <2>2. /\ h[7] = DigitAt(v, 1) /\ h[6] = DigitAt(v, 16) /\ h[5] = DigitAt(v, 256)
          /\ h[4] = DigitAt(v, 4096) /\ h[3] = DigitAt(v, 65536)
          /\ h[2] = DigitAt(v, 1048576) /\ h[1] = DigitAt(v, 16777216)
          /\ h[0] = DigitAt(v, 268435456)
      BY SMT, <2>1, DigitIs
    <2>3. QED BY SMT, <2>2 DEF DigitAt
  <1>2. h \in Strings
    <2>1. \A i \in 0 .. 7 : h[i] \in 0 .. 15
      <3> HIDE DEF h
      <3>1. ASSUME NEW d \in Int PROVE d % 16 \in 0 .. 15
        BY SMT
      <3>2. \A i \in 0 .. 7 : i = 0 \/ i = 1 \/ i = 2 \/ i = 3 \/ i = 4 \/ i = 5 \/ i = 6 \/ i = 7
        BY SMT
      <3>3. /\ v \div 1 \in Int /\ v \div 16 \in Int /\ v \div 256 \in Int
            /\ v \div 4096 \in Int /\ v \div 65536 \in Int /\ v \div 1048576 \in Int
            /\ v \div 16777216 \in Int /\ v \div 268435456 \in Int
        BY SMT
      <3>4. /\ h[0] \in 0 .. 15 /\ h[1] \in 0 .. 15 /\ h[2] \in 0 .. 15 /\ h[3] \in 0 .. 15
            /\ h[4] \in 0 .. 15 /\ h[5] \in 0 .. 15 /\ h[6] \in 0 .. 15 /\ h[7] \in 0 .. 15
        BY SMT, <1>1, <3>1, <3>3
      <3>5. QED BY SMT, <3>2, <3>4
    <2>2. h = [i \in 0 .. 7 |-> h[i]]
      BY SMT DEF Int_2_Hex, Len8
    <2> HIDE DEF h
    <2>3. QED BY SMT, <2>1, <2>2 DEF Strings, Len8
  <1> DEFINE q0 == v \div 1
             q1 == v \div 16
             q2 == v \div 256
             q3 == v \div 4096
             q4 == v \div 65536
             q5 == v \div 1048576
             q6 == v \div 16777216
             q7 == v \div 268435456
  <1>3. /\ q0 = v /\ q0 = 16 * q1 + (q0 % 16) /\ q1 = 16 * q2 + (q1 % 16)
        /\ q2 = 16 * q3 + (q2 % 16) /\ q3 = 16 * q4 + (q3 % 16)
        /\ q4 = 16 * q5 + (q4 % 16) /\ q5 = 16 * q6 + (q5 % 16) /\ q6 = 16 * q7 + (q6 % 16)
        /\ q1 \in Int /\ q2 \in Int /\ q3 \in Int /\ q4 \in Int /\ q5 \in Int
        /\ q6 \in Int /\ q7 \in Int
    <2>1. q0 = v /\ q0 = 16 * q1 + (q0 % 16) BY SMT
    <2>2. q1 = 16 * q2 + (q1 % 16) BY SMT
    <2>3. q2 = 16 * q3 + (q2 % 16) BY SMT
    <2>4. q3 = 16 * q4 + (q3 % 16) BY SMT
    <2>5. q4 = 16 * q5 + (q4 % 16) BY SMT
    <2>6. q5 = 16 * q6 + (q5 % 16) BY SMT
    <2>7. q6 = 16 * q7 + (q6 % 16) BY SMT
    <2>8. /\ q1 \in Int /\ q2 \in Int /\ q3 \in Int /\ q4 \in Int /\ q5 \in Int
          /\ q6 \in Int /\ q7 \in Int
      BY SMT
    <2> HIDE DEF q0, q1, q2, q3, q4, q5, q6, q7
    <2>9. QED BY SMT, <2>1, <2>2, <2>3, <2>4, <2>5, <2>6, <2>7, <2>8
  <1>4. /\ h[7] = q0 % 16 /\ h[6] = q1 % 16 /\ h[5] = q2 % 16 /\ h[4] = q3 % 16
        /\ h[3] = q4 % 16 /\ h[2] = q5 % 16 /\ h[1] = q6 % 16 /\ h[0] = q7 % 16
    BY SMT, <1>1
  <1> DEFINE s == Low(h)[7]
  <1>5. s = h[7] + h[6] * 16 + h[5] * 256 + h[4] * 4096 + h[3] * 65536
                     + h[2] * 1048576 + h[1] * 16777216
    BY SMT, <1>2, LowIsSum
  <1>6. /\ h[1] \in 0 .. 15 /\ h[2] \in 0 .. 15 /\ h[3] \in 0 .. 15 /\ h[4] \in 0 .. 15
        /\ h[5] \in 0 .. 15 /\ h[6] \in 0 .. 15 /\ h[7] \in 0 .. 15
    <2>1. \A i \in 0 .. 7 : h[i] \in 0 .. 15
      BY SMT, <1>2 DEF Strings, Len8
    <2> HIDE DEF h
    <2>2. QED BY SMT, <2>1
  <1> HIDE DEF h, q0, q1, q2, q3, q4, q5, q6, q7, s
  <1>7. v = s + q7 * 268435456
    BY SMT, <1>3, <1>4, <1>5, <1>6
  <1>8. 0 <= s /\ s < 268435456
    <2>1. h[7] \in Int /\ 0 <= h[7] /\ h[7] < 16
      BY SMT, <1>6
    <2>2. /\ h[1] \in Int /\ 0 <= h[1] /\ h[1] < 16 /\ h[2] \in Int /\ 0 <= h[2] /\ h[2] < 16
          /\ h[3] \in Int /\ 0 <= h[3] /\ h[3] < 16 /\ h[4] \in Int /\ 0 <= h[4] /\ h[4] < 16
          /\ h[5] \in Int /\ 0 <= h[5] /\ h[5] < 16 /\ h[6] \in Int /\ 0 <= h[6] /\ h[6] < 16
      BY SMT, <1>6
    <2>3. QED BY SMT, <1>5, <2>1, <2>2
  <1>9. QED BY SMT, <1>2, <1>3, <1>4, <1>7, <1>8 DEF h, s, q7

\* The sum of the digits of a number, with its sign.
LEMMA DigitsRoundTrip ==
  ASSUME NEW v \in Int32
  PROVE  Int_2_Hex(v) \in Strings /\ FromDigits(Int_2_Hex(v)) = v
  <1>0. v \in Int /\ -8 * 268435456 <= v /\ v < 8 * 268435456
    BY SMT, Powers DEF Int32, Len8
  <1> DEFINE h == Int_2_Hex(v)
             s == Low(h)[7]
  <1>1. h \in Strings
    BY SMT, <1>0, DigitsOf
  <1> DEFINE q == v \div 268435456
  <1>2. /\ v = s + q * 268435456 /\ h[0] = q % 16
        /\ 0 <= s /\ s < 268435456 /\ q \in Int
    BY SMT, <1>0, DigitsOf
  <1>3. FromDigits(h) = IF h[0] < 8 THEN s + h[0] * 268435456
                        ELSE s + (h[0] - 8) * 268435456 + (-8) * 268435456
    BY SMT, Powers DEF FromDigits, Len8
  <1>4. s \in Int
    <2>1. h[1] \in Int /\ h[2] \in Int /\ h[3] \in Int /\ h[4] \in Int /\ h[5] \in Int
          /\ h[6] \in Int /\ h[7] \in Int
      BY SMT, <1>1 DEF Strings, Len8
    <2> HIDE DEF h
    <2>2. QED BY SMT, <1>1, <2>1, LowIsSum
  <1> HIDE DEF h, s, q
  <1>5. -8 <= q /\ q <= 7
    BY SMT, <1>0, <1>2, <1>4
  <1>6. h[0] = IF q >= 0 THEN q ELSE q + 16
    BY SMT, <1>2, <1>5
  <1>7. QED
    <2>1. CASE q >= 0
      BY SMT, <1>2, <1>3, <1>4, <1>5, <1>6, <2>1, <1>1 DEF h
    <2>2. CASE ~(q >= 0)
      BY SMT, <1>2, <1>3, <1>4, <1>5, <1>6, <2>2, <1>1 DEF h
    <2>3. QED BY SMT, <2>1, <2>2

\* No sum of the digits leaves the range of an int, and they are those of the sum.
LEMMA SumRoundTrip ==
  ASSUME NEW h \in Strings
  PROVE  /\ \A i \in 0 .. 7 : Low(h)[i] \in Int /\ 0 <= Low(h)[i] /\ Low(h)[i] < Shifted(i)
         /\ FromDigits(h) \in Int32
         /\ Int_2_Hex(FromDigits(h)) = h
  <1> DEFINE r == Low(h)
             v == FromDigits(h)
             q == IF h[0] < 8 THEN h[0] ELSE h[0] - 16
  <1>1. /\ h[0] \in 0 .. 15 /\ h[1] \in 0 .. 15 /\ h[2] \in 0 .. 15 /\ h[3] \in 0 .. 15
        /\ h[4] \in 0 .. 15 /\ h[5] \in 0 .. 15 /\ h[6] \in 0 .. 15 /\ h[7] \in 0 .. 15
    BY SMT DEF Strings, Len8
  <1>2. /\ r[0] = 0 /\ r[1] = r[0] + h[7] * 1 /\ r[2] = r[1] + h[6] * 16
        /\ r[3] = r[2] + h[5] * 256 /\ r[4] = r[3] + h[4] * 4096
        /\ r[5] = r[4] + h[3] * 65536 /\ r[6] = r[5] + h[2] * 1048576
        /\ r[7] = r[6] + h[1] * 16777216
    BY SMT, LowDigits
  <1>3. v = IF h[0] < 8 THEN r[7] + h[0] * 268435456
            ELSE r[7] + (h[0] - 8) * 268435456 + (-8) * 268435456
    BY SMT, Powers DEF FromDigits, Len8
  <1>4. q \in Int /\ -8 <= q /\ q < 8 /\ q % 16 = h[0]
    BY SMT, <1>1
  <1> HIDE DEF r, v
  <1>5. /\ r[0] \in Int /\ 0 <= r[0] /\ r[0] < 1 /\ r[1] \in Int /\ 0 <= r[1] /\ r[1] < 16
        /\ r[2] \in Int /\ 0 <= r[2] /\ r[2] < 256 /\ r[3] \in Int /\ 0 <= r[3] /\ r[3] < 4096
    <2>1. r[0] \in Int /\ 0 <= r[0] /\ r[0] < 1
      BY SMT, <1>2
    <2>2. r[1] \in Int /\ 0 <= r[1] /\ r[1] < 16
      BY SMT, <1>1, <1>2, <2>1
    <2>3. r[2] \in Int /\ 0 <= r[2] /\ r[2] < 256
      BY SMT, <1>1, <1>2, <2>2
    <2>4. r[3] \in Int /\ 0 <= r[3] /\ r[3] < 4096
      BY SMT, <1>1, <1>2, <2>3
    <2>5. QED BY SMT, <2>1, <2>2, <2>3, <2>4
  <1>6. /\ r[4] \in Int /\ 0 <= r[4] /\ r[4] < 65536
        /\ r[5] \in Int /\ 0 <= r[5] /\ r[5] < 1048576
        /\ r[6] \in Int /\ 0 <= r[6] /\ r[6] < 16777216
        /\ r[7] \in Int /\ 0 <= r[7] /\ r[7] < 268435456
    <2>1. r[4] \in Int /\ 0 <= r[4] /\ r[4] < 65536
      BY SMT, <1>1, <1>2, <1>5
    <2>2. r[5] \in Int /\ 0 <= r[5] /\ r[5] < 1048576
      BY SMT, <1>1, <1>2, <2>1
    <2>3. r[6] \in Int /\ 0 <= r[6] /\ r[6] < 16777216
      BY SMT, <1>1, <1>2, <2>2
    <2>4. r[7] \in Int /\ 0 <= r[7] /\ r[7] < 268435456
      BY SMT, <1>1, <1>2, <2>3
    <2>5. QED BY SMT, <2>1, <2>2, <2>3, <2>4
  <1>14. v = r[7] + q * 268435456 /\ v \in Int
    BY SMT, <1>1, <1>3, <1>4, <1>6
  <1> HIDE DEF q
  <1>7. \A i \in 0 .. 7 : r[i] \in Int /\ 0 <= r[i] /\ r[i] < Shifted(i)
    <2>1. ASSUME NEW i \in 0 .. 7 PROVE r[i] \in Int /\ 0 <= r[i] /\ r[i] < Shifted(i)
      <3>1. i = 0 \/ i = 1 \/ i = 2 \/ i = 3 \/ i = 4 \/ i = 5 \/ i = 6 \/ i = 7
        BY SMT
      <3>2. QED BY SMT, <3>1, <1>5, <1>6, Powers
    <2>2. QED BY <2>1
  <1>8. v \in Int32
    BY SMT, <1>4, <1>14, <1>6, Powers DEF Int32, Len8
  \* What is above the lowest digits.
  <1> DEFINE u6 == q * 16 + h[1]
             u5 == u6 * 16 + h[2]
             u4 == u5 * 16 + h[3]
             u3 == u4 * 16 + h[4]
             u2 == u3 * 16 + h[5]
             u1 == u2 * 16 + h[6]
  <1>9. /\ u6 \in Int /\ u5 \in Int /\ u4 \in Int /\ u3 \in Int /\ u2 \in Int /\ u1 \in Int
        /\ v = u1 * 16 + r[1] /\ v = u2 * 256 + r[2] /\ v = u3 * 4096 + r[3]
        /\ v = u4 * 65536 + r[4] /\ v = u5 * 1048576 + r[5] /\ v = u6 * 16777216 + r[6]
    <2>1. u6 \in Int /\ v = u6 * 16777216 + r[6]
      <3>1. h[1] \in Int /\ q \in Int /\ r[6] \in Int /\ r[7] = r[6] + h[1] * 16777216
        BY SMT, <1>1, <1>2, <1>4, <1>6
      <3>2. QED BY SMT, <3>1, <1>14
    <2> HIDE DEF u6
    <2>2. u5 \in Int /\ v = u5 * 1048576 + r[5]
      BY SMT, <1>1, <1>2, <1>6, <2>1
    <2> HIDE DEF u5
    <2>3. u4 \in Int /\ v = u4 * 65536 + r[4]
      BY SMT, <1>1, <1>2, <1>6, <2>2
    <2> HIDE DEF u4
    <2>4. u3 \in Int /\ v = u3 * 4096 + r[3]
      BY SMT, <1>1, <1>2, <1>5, <1>6, <2>3
    <2> HIDE DEF u3
    <2>5. u2 \in Int /\ v = u2 * 256 + r[2]
      <3>1. h[5] \in Int /\ r[2] \in Int /\ r[3] = r[2] + h[5] * 256
        BY SMT, <1>1, <1>2, <1>5
      <3>2. QED BY SMT, <3>1, <2>4
    <2> HIDE DEF u2
    <2>6. u1 \in Int /\ v = u1 * 16 + r[1]
      BY SMT, <1>1, <1>2, <1>5, <2>5
    <2> HIDE DEF u1
    <2>7. QED BY SMT, <2>1, <2>2, <2>3, <2>4, <2>5, <2>6
  <1>10. /\ u6 % 16 = h[1] /\ u5 % 16 = h[2] /\ u4 % 16 = h[3] /\ u3 % 16 = h[4]
         /\ u2 % 16 = h[5] /\ u1 % 16 = h[6] /\ v % 16 = h[7]
    <2>1. ASSUME NEW a \in Int, NEW b \in 0 .. 15 PROVE (a * 16 + b) % 16 = b
      BY SMT
    <2>2. u1 \in Int /\ u2 \in Int /\ u3 \in Int /\ u4 \in Int /\ u5 \in Int /\ u6 \in Int
      BY SMT, <1>9
    <2>3. r[1] = h[7]
      BY SMT, <1>1, <1>2
    <2>4. v = u1 * 16 + h[7]
      BY SMT, <1>9, <2>3
    <2>5. v % 16 = h[7]
      <3> HIDE DEF u1
      <3>1. QED BY SMT, <1>1, <2>1, <2>2, <2>4
    <2>6. u6 % 16 = h[1] BY SMT, <1>1, <1>4, <2>1
    <2>7. u5 % 16 = h[2] BY SMT, <1>1, <2>1, <2>2
    <2>8. u4 % 16 = h[3] BY SMT, <1>1, <2>1, <2>2
    <2>9. u3 % 16 = h[4] BY SMT, <1>1, <2>1, <2>2
    <2>10. u2 % 16 = h[5] BY SMT, <1>1, <2>1, <2>2
    <2>11. u1 % 16 = h[6] BY SMT, <1>1, <2>1, <2>2
    <2>12. QED BY <2>5, <2>6, <2>7, <2>8, <2>9, <2>10, <2>11
  <1> HIDE DEF u1, u2, u3, u4, u5, u6
  <1>11. /\ v \div 1 = v /\ v \div 16 = u1 /\ v \div 256 = u2 /\ v \div 4096 = u3
         /\ v \div 65536 = u4 /\ v \div 1048576 = u5 /\ v \div 16777216 = u6
         /\ v \div 268435456 = q
    <2>1. v \div 1 = v BY SMT, <1>14
    <2>2. v \div 16 = u1
      <3>2. (u1 * 16 + r[1]) \div 16 = u1
        BY SMT, Quotients, <1>4, <1>5, <1>6, <1>9
      <3>3. QED BY SMT, <3>2, <1>9, <1>14, <1>4, <1>6
    <2>3. v \div 256 = u2
      <3>2. (u2 * 256 + r[2]) \div 256 = u2
        BY SMT, Quotients, <1>4, <1>5, <1>6, <1>9
      <3>3. QED BY SMT, <3>2, <1>9, <1>14, <1>4, <1>6
    <2>4. v \div 4096 = u3
      <3>2. (u3 * 4096 + r[3]) \div 4096 = u3
        BY SMT, Quotients, <1>4, <1>5, <1>6, <1>9
      <3>3. QED BY SMT, <3>2, <1>9, <1>14, <1>4, <1>6
    <2>5. v \div 65536 = u4
      <3>2. (u4 * 65536 + r[4]) \div 65536 = u4
        BY SMT, Quotients, <1>4, <1>5, <1>6, <1>9
      <3>3. QED BY SMT, <3>2, <1>9, <1>14, <1>4, <1>6
    <2>6. v \div 1048576 = u5
      <3>2. (u5 * 1048576 + r[5]) \div 1048576 = u5
        BY SMT, Quotients, <1>4, <1>5, <1>6, <1>9
      <3>3. QED BY SMT, <3>2, <1>9, <1>14, <1>4, <1>6
    <2>7. v \div 16777216 = u6
      <3>2. (u6 * 16777216 + r[6]) \div 16777216 = u6
        BY SMT, Quotients, <1>4, <1>5, <1>6, <1>9
      <3>3. QED BY SMT, <3>2, <1>9, <1>14, <1>4, <1>6
    <2>8. v \div 268435456 = q
      <3>1. q \in Int /\ r[7] \in Int /\ 0 <= r[7] /\ r[7] < 268435456
        BY SMT, <1>4, <1>6
      <3>2. (q * 268435456 + r[7]) \div 268435456 = q
        BY SMT, Quotients, <3>1
      <3>3. QED BY SMT, <3>2, <1>9, <1>14, <1>4, <1>6
    <2>9. QED BY SMT, <2>1, <2>2, <2>3, <2>4, <2>5, <2>6, <2>7, <2>8
  <1>12. Int_2_Hex(v) = h
    <2> DEFINE g == Int_2_Hex(v)
    <2>1. /\ g[0] = h[0] /\ g[1] = h[1] /\ g[2] = h[2] /\ g[3] = h[3]
          /\ g[4] = h[4] /\ g[5] = h[5] /\ g[6] = h[6] /\ g[7] = h[7]
      <3>1. /\ g[7] = (v \div 1) % 16 /\ g[6] = (v \div 16) % 16 /\ g[5] = (v \div 256) % 16
            /\ g[4] = (v \div 4096) % 16 /\ g[3] = (v \div 65536) % 16
            /\ g[2] = (v \div 1048576) % 16 /\ g[1] = (v \div 16777216) % 16
            /\ g[0] = (v \div 268435456) % 16
        <4>1. g = Int_2_Hex(v)
          BY SMT
        <4> HIDE DEF g
        <4>2. /\ g[7] = DigitAt(v, 1) /\ g[6] = DigitAt(v, 16) /\ g[5] = DigitAt(v, 256)
              /\ g[4] = DigitAt(v, 4096) /\ g[3] = DigitAt(v, 65536)
              /\ g[2] = DigitAt(v, 1048576) /\ g[1] = DigitAt(v, 16777216)
              /\ g[0] = DigitAt(v, 268435456)
          BY SMT, <1>14, <4>1, DigitIs
        <4>3. QED BY SMT, <4>2 DEF DigitAt
      <3> HIDE DEF g
      <3>2. QED BY SMT, <1>4, <1>10, <1>11, <3>1
    <2>2. g = [i \in 0 .. 7 |-> g[i]]
      BY SMT DEF Int_2_Hex, Len8
    <2>3. h = [i \in 0 .. 7 |-> h[i]]
      BY SMT DEF Strings, Len8
    <2> HIDE DEF g
    <2>4. \A i \in 0 .. 7 : g[i] = h[i]
      <3>1. \A i \in 0 .. 7 : i = 0 \/ i = 1 \/ i = 2 \/ i = 3 \/ i = 4 \/ i = 5 \/ i = 6 \/ i = 7
        BY SMT
      <3>2. QED BY <2>1, <3>1
    <2>5. g = h
      BY <2>2, <2>3, <2>4
    <2>6. QED BY <2>5 DEF g
  <1>13. QED BY SMT, <1>7, <1>8, <1>12 DEF r, v

-----------------------------------------------------------------------------
\* Where no digit follows, HexCharToInt gives the digit.
LEMMA DigitsAreRead ==
  ASSUME NEW h \in Strings, NEW after \in [0 .. Len8 - 1 -> Following],
         NoDigitFollows(h, after)
  PROVE  Hex_2_Int_2s_Comp(h, after) = FromDigits(h)
  <1>1. ASSUME NEW i \in 0 .. Len8 - 1
        PROVE  HexCharToInt(h[i], after[i]) = h[i]
    <2>1. h[i] \in 0 .. 15 /\ after[i] \in Following
      BY DEF Strings
    <2>2. CASE h[i] >= 10
      BY <2>2 DEF HexCharToInt
    <2>3. CASE ~(h[i] >= 10)
      <3>1. after[i].length = 0
        BY <2>1, <2>3 DEF NoDigitFollows
      <3>2. Ten(after[i].length) = 1
        BY SMT, <3>1 DEF Ten
      <3>3. after[i].value \in Nat /\ after[i].value < 1
        BY <2>1, <3>2 DEF Following
      <3>4. after[i].value = 0
        BY SMT, <3>3
      <3>5. HexCharToInt(h[i], after[i]) = Short(h[i])
        BY SMT, <2>1, <2>3, <3>2, <3>4 DEF HexCharToInt
      <3>6. \A c \in 0 .. 15 : Short(c) = c
        BY SMT DEF Short
      <3>7. QED BY <2>1, <3>5, <3>6
    <2>4. QED BY <2>2, <2>3
  <1>2. [i \in 0 .. Len8 - 1 |-> HexCharToInt(h[i], after[i])] = h
    BY <1>1 DEF Strings
  <1>3. QED BY <1>2 DEF Hex_2_Int_2s_Comp

\* A register that is printed by Int_2_Hex and read back by Hex_2_Int_2s_Comp keeps its
\* value, if behind the copies of its digits 0 to 9 (not of its letters) no
\* other digit lies in memory when atoi reads them: nothing in the code sees to that.
THEOREM HexRoundTrip ==
  ASSUME NEW v \in Int32, NEW after \in [0 .. Len8 - 1 -> Following],
         NoDigitFollows(Int_2_Hex(v), after)
  PROVE  Int_2_Hex(v) \in Strings /\ Hex_2_Int_2s_Comp(Int_2_Hex(v), after) = v
  <1>1. Int_2_Hex(v) \in Strings /\ FromDigits(Int_2_Hex(v)) = v
    BY DigitsRoundTrip
  <1>2. QED BY <1>1, DigitsAreRead

\* Under the same condition every string of eight digits is what Int_2_Hex makes of
\* its number, and no sum of Hex_2_Int_2s_Comp leaves the range of an int.
THEOREM StringsRoundTrip ==
  ASSUME NEW h \in Strings, NEW after \in [0 .. Len8 - 1 -> Following],
         NoDigitFollows(h, after)
  PROVE  /\ \A i \in 0 .. 7 : Low(h)[i] \in Int /\ 0 <= Low(h)[i] /\ Low(h)[i] < Shifted(i)
         /\ Hex_2_Int_2s_Comp(h, after) \in Int32
         /\ Int_2_Hex(Hex_2_Int_2s_Comp(h, after)) = h
  <1>1. Hex_2_Int_2s_Comp(h, after) = FromDigits(h)
    BY DigitsAreRead
  <1>2. QED BY <1>1, SumRoundTrip

\* The condition is needed: a digit in front of one, two or three others is not read as
\* what it is, unless they are all zeros.
THEOREM DigitMisread ==
  ASSUME NEW c \in 0 .. 9, NEW f \in Following, f.length \in 1 .. 3, c + f.value > 0
  PROVE  HexCharToInt(c, f) # c
  <1> DEFINE t == Ten(f.length)
             n == f.value
  <1>1. t \in {10, 100, 1000}
    <2>1. f.length = 1 \/ f.length = 2 \/ f.length = 3
      BY SMT
    <2>2. Ten(1) = 10 /\ Ten(2) = 100 /\ Ten(3) = 1000
      BY SMT DEF Ten
    <2>3. QED BY <2>1, <2>2
  <1>2. n \in Nat /\ n < t
    BY DEF Following
  <1>3. HexCharToInt(c, f) = Short(c * t + n)
    BY SMT DEF HexCharToInt
  <1> HIDE DEF t, n
  <1>4. c * t + n \in Nat /\ c * t + n < 10000 /\ c * t + n # c
    BY SMT, <1>1, <1>2 DEF n
  <1>5. \A k \in Nat : k < 10000 => Short(k) = k
    BY SMT DEF Short
  <1>6. QED BY <1>3, <1>4, <1>5
=============================================================================
