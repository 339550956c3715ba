-------------------------------- MODULE Alu --------------------------------
(***************************************************************************)
(* The arithmetic of cpu.py.  A register holds a Python integer, not a     *)
(* word: most handlers mask their result to 32 bits, some do not, and the  *)
(* error returns of system calls put negative integers into a0.  Beside    *)
(* the registers the module carries words, the registers of the            *)
(* architecture, on which every instruction means what it is defined to    *)
(* mean; the properties compare the two.                                   *)
(*                                                                         *)
(* W stands for the 32 bits of a word and Mantissa for the 53 bits of a    *)
(* Python float, with which DIV and REM divide.                            *)
(***************************************************************************)
EXTENDS Numbers

CONSTANTS
  W, Mantissa,
  Errors,      \* error numbers of system calls
  Immediates   \* sign-extended immediates of I-type instructions

ASSUME AluAssumption ==
  /\ W \in {1, 2, 4, 8, 16, 32} /\ Mantissa \in Nat /\ Mantissa > W
  /\ Errors \subseteq 1 .. 2^(W - 1)
  /\ Immediates \subseteq -(2^(W - 1)) .. 2^(W - 1) - 1

VARIABLES
  registers,   \* x1 and x2
  cell,        \* the word of memory that LW, SW and the AMOs address
  words,       \* history: what x1 and x2 are to hold
  word,        \* history: what the cell is to hold
  spilt        \* history: XOR has mixed an error return with a negative word

aluVars == <<registers, cell, words, word, spilt>>

Regs == {1, 2}
Word == 0 .. 2^W - 1
Masked(x) == x % 2^W

AluInit ==
  /\ registers = [r \in Regs |-> 0] /\ cell = 0
  /\ words = registers /\ word = cell
  /\ spilt = FALSE

-----------------------------------------------------------------------------
(* Python's operators                                                      *)

\* A slip in signed32: the smallest word counts as positive.
signed32_inclusive(x) == IF x <= 2^(W - 1) THEN x ELSE x - 2^W

signed32(x) == IF x < 2^(W - 1) THEN x ELSE x - 2^W

\* Two's complement with one bit more than a word, enough for every register.
Bits(x) == {i \in 0 .. W : (x \div 2^i) % 2 = 1}
Number(S) == CHOOSE x \in -(2^W) .. 2^W - 1 : Bits(x) = S

Xor(x, y) == Number((Bits(x) \cup Bits(y)) \ (Bits(x) \cap Bits(y)))
Or(x, y) == Number(Bits(x) \cup Bits(y))
And(x, y) == Number(Bits(x) \cap Bits(y))

Abs(x) == IF x < 0 THEN -x ELSE x

\* The power of two by which n / d is scaled to an integer of Mantissa bits.
Scale(n, d) ==
  LET fits(e) == /\ Power(2)[Mantissa - 1] * d <= n * Power(2)[e]
                 /\ n * Power(2)[e] < Power(2)[Mantissa] * d
  IN  Power(2)[CHOOSE e \in 0 .. Mantissa + W : fits(e)]

\* n / d as a float: the scaled quotient, rounded to the nearest integer and
\* to the even one of two; then int().
Rounded(n, d) ==
  LET s == Scale(n, d)
      q == (n * s) \div d
      twice == 2 * ((n * s) % d)
      up == twice > d \/ (twice = d /\ q % 2 = 1)
  IN  (IF up THEN q + 1 ELSE q) \div s

\* A slip in Quotient: floor division.
Quotient_floor(x, y) == IF y > 0 THEN x \div y ELSE (-x) \div (-y)

\* int(dividend / divisor)
Quotient(x, y) ==
  LET q == IF x = 0 THEN 0 ELSE Rounded(Abs(x), Abs(y))
  IN  IF (x < 0) = (y < 0) THEN q ELSE -q

-----------------------------------------------------------------------------
(* exec_Rtype, exec_Itype, exec_branches, exec_AMO: what a handler computes *)
(* from the integers in its registers                                      *)

Illegal == -(2^(W + 2))
Truth(b) == IF b THEN 1 ELSE 0

\* SLL and SLLI
ShiftedLeft(x, y) == Masked(x * 2^(y % W))

Divided(x, y) ==
  CASE signed32(y) = 0 -> 2^W - 1
    [] signed32(x) = -(2^(W - 1)) /\ signed32(y) = -1 -> 2^(W - 1)
    [] OTHER -> Masked(Quotient(signed32(x), signed32(y)))

Remainder(x, y) ==
  CASE signed32(y) = 0 -> Masked(x)
    [] signed32(x) = -(2^(W - 1)) /\ signed32(y) = -1 -> 0
    [] OTHER -> Masked(signed32(x) - Quotient(signed32(x), signed32(y)) * signed32(y))

exec_Rtype(funct3, funct7, x, y) ==
  CASE funct7 = 0 /\ funct3 = 0 -> Masked(x + y)
    [] funct7 = 32 /\ funct3 = 0 -> Masked(x - y)
    [] funct7 = 1 /\ funct3 = 0 -> Masked(signed32(x) * signed32(y))
    [] funct7 = 0 /\ funct3 = 1 -> ShiftedLeft(x, y)
    [] funct7 = 1 /\ funct3 = 1 -> Masked((signed32(x) * signed32(y)) \div 2^W)
    [] funct7 = 0 /\ funct3 = 2 -> Truth(signed32(x) < signed32(y))
    [] funct7 = 1 /\ funct3 = 2 -> Masked((signed32(x) * Masked(y)) \div 2^W)
    [] funct7 = 0 /\ funct3 = 3 -> Truth(Masked(x) < Masked(y))
    [] funct7 = 1 /\ funct3 = 3 -> Masked((Masked(x) * Masked(y)) \div 2^W)
    [] funct7 = 0 /\ funct3 = 4 -> Xor(x, y)
    [] funct7 = 1 /\ funct3 = 4 -> Divided(x, y)
    [] funct7 = 0 /\ funct3 = 5 -> Masked(x) \div 2^(y % W)
    [] funct7 = 32 /\ funct3 = 5 -> Masked(signed32(x) \div 2^(y % W))
    [] funct7 = 1 /\ funct3 = 5 ->
         IF Masked(y) = 0 THEN 2^W - 1 ELSE Masked(x) \div Masked(y)
    [] funct7 = 0 /\ funct3 = 6 -> Or(x, y)
    [] funct7 = 1 /\ funct3 = 6 -> Remainder(x, y)
    [] funct7 = 0 /\ funct3 = 7 -> And(x, y)
    [] funct7 = 1 /\ funct3 = 7 ->
         IF Masked(y) = 0 THEN Masked(x) ELSE Masked(x) % Masked(y)
    [] OTHER -> Illegal

exec_Itype(funct3, funct7, x, imm) ==
  CASE funct3 = 0 -> Masked(x + imm)
    [] funct3 = 1 /\ funct7 = 0 -> ShiftedLeft(x, imm)
    [] funct3 = 2 -> Truth(signed32(x) < signed32(imm))
    [] funct3 = 3 -> Truth(Masked(x) < Masked(imm))
    [] funct3 = 4 -> Masked(Xor(x, imm))
    [] funct3 = 5 /\ funct7 = 0 -> Masked(x) \div 2^(imm % W)
    [] funct3 = 5 /\ funct7 = 32 -> Masked(signed32(x) \div 2^(imm % W))
    [] funct3 = 6 -> Masked(Or(x, imm))
    [] funct3 = 7 -> Masked(And(x, imm))
    [] OTHER -> Illegal

\* Whether the branch is taken; where it goes is part of Hart.
exec_branches(funct3, x, y) ==
  CASE funct3 = 0 -> x = y
    [] funct3 = 1 -> x # y
    [] funct3 = 4 -> signed32(x) < signed32(y)
    [] funct3 = 5 -> signed32(x) >= signed32(y)
    [] funct3 = 6 -> Masked(x) < Masked(y)
    [] funct3 = 7 -> Masked(x) >= Masked(y)

Smaller(x, y) == IF x < y THEN x ELSE y
Larger(x, y) == IF x < y THEN y ELSE x

\* The word that an AMO stores.
exec_AMO(funct5, old_val, y) ==
  CASE funct5 = 1 -> Masked(y)
    [] funct5 = 0 -> Masked(old_val + y)
    [] funct5 = 4 -> Masked(Xor(old_val, y))
    [] funct5 = 12 -> Masked(And(old_val, y))
    [] funct5 = 8 -> Masked(Or(old_val, y))
    [] funct5 = 16 -> Masked(Smaller(signed32(old_val), signed32(y)))
    [] funct5 = 20 -> Masked(Larger(signed32(old_val), signed32(y)))
    [] funct5 = 24 -> Smaller(old_val, Masked(y))
    [] funct5 = 28 -> Larger(old_val, Masked(y))

-----------------------------------------------------------------------------
(* The architecture: what an instruction means                             *)

Rtypes == {0, 32} \X {0, 5} \cup {0, 1} \X (0 .. 7)
Amos == {0, 1, 4, 8, 12, 16, 20, 24, 28}

Bit(x, i) == (x \div 2^i) % 2
Signed(x) == IF Bit(x, W - 1) = 1 THEN x - 2^W ELSE x

\* z is the high word of p.
High(z, p) == \E low \in Word : p = z * 2^W + low

\* q is a / b rounded towards zero.
Truncates(q, a, b) == Abs(a - q * b) < Abs(b) /\ (a - q * b) * a >= 0

\* z is the result of the instruction for the words x and y.
Means(funct7, funct3, x, y, z) ==
  LET k == y % W IN
  \/ funct7 = 0 /\ funct3 = 0 /\ z = (x + y) % 2^W
  \/ funct7 = 32 /\ funct3 = 0 /\ (z + y) % 2^W = x
  \/ funct7 = 1 /\ funct3 = 0 /\ z = (x * y) % 2^W
  \/ funct7 = 0 /\ funct3 = 1 /\ \A i \in 0 .. W - 1 : Bit(z, i) = IF i < k THEN 0 ELSE Bit(x, i - k)
  \/ funct7 = 1 /\ funct3 = 1 /\ High(Signed(z), Signed(x) * Signed(y))
  \/ funct7 = 0 /\ funct3 = 2 /\ z = Truth(Signed(x) < Signed(y))
  \/ funct7 = 1 /\ funct3 = 2 /\ High(Signed(z), Signed(x) * y)
  \/ funct7 = 0 /\ funct3 = 3 /\ z = Truth(x < y)
  \/ funct7 = 1 /\ funct3 = 3 /\ High(z, x * y)
  \/ funct7 = 0 /\ funct3 = 4 /\ \A i \in 0 .. W - 1 : Bit(z, i) = (Bit(x, i) + Bit(y, i)) % 2
  \/ funct7 = 0 /\ funct3 = 6 /\ \A i \in 0 .. W - 1 : Bit(z, i) = Larger(Bit(x, i), Bit(y, i))
  \/ funct7 = 0 /\ funct3 = 7 /\ \A i \in 0 .. W - 1 : Bit(z, i) = Bit(x, i) * Bit(y, i)
  \/ funct7 = 0 /\ funct3 = 5 /\ \A i \in 0 .. W - 1 : Bit(z, i) = IF i + k < W THEN Bit(x, i + k) ELSE 0
  \/ funct7 = 32 /\ funct3 = 5 /\ \A i \in 0 .. W - 1 : Bit(z, i) = Bit(x, Smaller(i + k, W - 1))
  \/ /\ funct7 = 1 /\ funct3 = 4
     /\ \/ y = 0 /\ Signed(z) = -1
        \/ y # 0 /\ \E q \in {Signed(z), z} : Truncates(q, Signed(x), Signed(y))
  \/ /\ funct7 = 1 /\ funct3 = 6
     /\ \/ y = 0 /\ z = x
        \/ y # 0 /\ \E q \in -(2^W) .. 2^W : /\ Truncates(q, Signed(x), Signed(y))
                                          /\ Signed(z) = Signed(x) - q * Signed(y)
  \/ funct7 = 1 /\ funct3 = 5 /\ IF y = 0 THEN z = 2^W - 1 ELSE Truncates(z, x, y)
  \/ /\ funct7 = 1 /\ funct3 = 7
     /\ IF y = 0 THEN z = x ELSE \E q \in Word : Truncates(q, x, y) /\ z = x - q * y

Meaning ==
  [t \in Rtypes \X Word \X Word |-> CHOOSE z \in Word : Means(t[1][1], t[1][2], t[2], t[3], z)]

\* The same for AMOs, by the instructions they are made of.
AmoMeaning(funct5, x, y) ==
  LET means(f) == Meaning[<<<<0, f>>, x, y>>]
      less(f) == means(f) = 1
  IN  CASE funct5 = 1 -> y
        [] funct5 = 0 -> means(0)
        [] funct5 = 4 -> means(4)
        [] funct5 = 12 -> means(7)
        [] funct5 = 8 -> means(6)
        [] funct5 = 16 -> IF less(2) THEN x ELSE y
        [] funct5 = 20 -> IF less(2) THEN y ELSE x
        [] funct5 = 24 -> IF less(3) THEN x ELSE y
        [] funct5 = 28 -> IF less(3) THEN y ELSE x

BranchMeaning(funct3, x, y) ==
  CASE funct3 = 0 -> x = y
    [] funct3 = 1 -> x # y
    [] funct3 = 4 -> Meaning[<<<<0, 2>>, x, y>>] = 1
    [] funct3 = 5 -> Meaning[<<<<0, 2>>, x, y>>] = 0
    [] funct3 = 6 -> Meaning[<<<<0, 3>>, x, y>>] = 1
    [] funct3 = 7 -> Meaning[<<<<0, 3>>, x, y>>] = 0

-----------------------------------------------------------------------------
(* The program executes any sequence of these instructions; what happens   *)
(* after an error return was mixed by XOR is not followed                  *)

Sets(rd, value, meant) ==
  /\ registers' = [registers EXCEPT ![rd] = value]
  /\ words' = [words EXCEPT ![rd] = meant]

rtype(f, rd, rs1, rs2) ==
  LET x == registers[rs1]
      y == registers[rs2]
  IN  /\ Sets(rd, exec_Rtype(f[2], f[1], x, y), Meaning[<<f, words[rs1], words[rs2]>>])
      /\ spilt' = (f = <<0, 4>> /\ Smaller(x, y) < 0 /\ Larger(x, y) >= 2^(W - 1))
      /\ UNCHANGED <<cell, word>>

itype(f, rd, rs1, imm) ==
  /\ Sets(rd, exec_Itype(f[2], f[1], registers[rs1], imm), Meaning[<<f, words[rs1], Masked(imm)>>])
  /\ UNCHANGED <<cell, word, spilt>>

amo(funct5, rd, rs2) ==
  /\ cell' = exec_AMO(funct5, cell, registers[rs2])
  /\ word' = AmoMeaning(funct5, word, words[rs2])
  /\ Sets(rd, cell, word)
  /\ UNCHANGED spilt

\* A system call fails: "cpu.registers[10] = -e.errno".
ecall_error(e) ==
  /\ Sets(1, -e, Masked(-e))
  /\ UNCHANGED <<cell, word, spilt>>

AluNext ==
  /\ ~spilt
  /\ \/ \E f \in Rtypes, rd, rs2 \in Regs : rtype(f, rd, 1, rs2)
     \/ \E f \in {g \in Rtypes : g[1] # 1 /\ g # <<32, 0>>}, rd \in Regs, imm \in Immediates :
          itype(f, rd, 1, imm)
     \/ \E funct5 \in Amos, rd, rs2 \in Regs : amo(funct5, rd, rs2)
     \/ \E e \in Errors : ecall_error(e)

-----------------------------------------------------------------------------
(* Properties                                                              *)

\* exec_Rtype, exec_Itype, exec_AMO: whatever is executed, and although error
\* returns leave negative integers in the registers, every register and the
\* word in memory are what the architecture says, modulo 2^32; a register
\* holds no other integers than words and error returns, and memory only words.
RegistersAgree ==
  /\ \A r \in Regs : /\ Masked(registers[r]) = words[r]
                     /\ spilt \/ registers[r] \in -(2^(W - 1)) .. 2^W - 1
  /\ cell = word /\ cell \in Word

\* exec_branches: a branch is taken exactly if the architecture takes it; BEQ
\* and BNE, which do not mask, also need that an error return is not compared
\* with a negative word.
BranchesAgree ==
  \A funct3 \in {0, 1, 4, 5, 6, 7} : \A r, s \in Regs :
    LET x == registers[r]
        y == registers[s]
        mixed == Smaller(x, y) < 0 /\ Larger(x, y) >= 2^(W - 1)
    IN  (funct3 \in {0, 1} /\ mixed) \/ spilt
          \/ exec_branches(funct3, x, y) = BranchMeaning(funct3, words[r], words[s])
=============================================================================
