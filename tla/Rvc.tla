-------------------------------- MODULE Rvc --------------------------------
(***************************************************************************)
(* The decoder: expand_compressed of rvc.py, the field extraction of       *)
(* execute_32 and execute_16, the immediates that the handlers of cpu.py   *)
(* take from an instruction, and the two decode caches.                    *)
(*                                                                         *)
(* An instruction, and every field of one, is the set of the positions of  *)
(* its 1 bits: "|" is \cup, "&" is \cap, and a shift moves the positions.  *)
(***************************************************************************)
EXTENDS Integers, Sequences, FiniteSetsExt

Shr(x, k) == {i - k : i \in {j \in x : j >= k}}
Shl(x, k) == {i + k : i \in x}

\* The number whose bits are x, and the bits of a number.
ToNat(x) == MapThenSumSet(LAMBDA i : 2^i, x)
FromNat(n) == {i \in 0 .. 7 : (n \div 2^i) % 2 = 1}

\* "if imm & (1 << sign): imm -= 1 << (sign + 1)", then the low bits of it
Extended(x, sign, bits) == IF sign \in x THEN x \cup sign .. bits - 1 ELSE x

-----------------------------------------------------------------------------
(* Assembling the 32-bit equivalent                                        *)

None == {-1}    \* (0, False)

Prime(x) == x \cup {3}     \* "(...) + 8"

Opcode(n) == FromNat(n)
Funct3(n) == Shl(FromNat(n), 12)
Funct7(n) == Shl(FromNat(n), 25)
Rd(x) == Shl(x, 7)
Rs1(x) == Shl(x, 15)
Rs2(x) == Shl(x, 20)
ImmI(x) == Shl(x, 20)
ImmS(x) == Shl(x \cap 0 .. 4, 7) \cup Shl(Shr(x, 5) \cap 0 .. 6, 25)
ImmJ(x) == Shl(x \cap {20}, 11) \cup Shl(x \cap 1 .. 10, 20) \cup Shl(x \cap {11}, 9) \cup (x \cap 12 .. 19)
ImmB(x) == Shl(x \cap {12}, 19) \cup Shl(x \cap 5 .. 10, 20) \cup Shl(x \cap 1 .. 4, 7) \cup Shr(x \cap {11}, 4)

SP == {1}
RA == {0}

-----------------------------------------------------------------------------
(* expand_compressed                                                       *)

\* The immediate of C.LI, C.ADDI, C.ANDI, C.LUI and of the shifts
Imm6(c) == (Shr(c, 7) \cap {5}) \cup (Shr(c, 2) \cap 0 .. 4)

Quadrant0(c, funct3) ==
  LET rd == Prime(Shr(c, 2) \cap 0 .. 2)
      rs1 == Prime(Shr(c, 7) \cap 0 .. 2)
      nzuimm == (Shr(c, 7) \cap {4, 5}) \cup (Shr(c, 1) \cap 6 .. 9) \cup (Shr(c, 4) \cap {2}) \cup (Shr(c, 2) \cap {3})
      imm == (Shr(c, 7) \cap 3 .. 5) \cup (Shr(c, 4) \cap {2}) \cup (Shl(c, 1) \cap {6})
  IN  CASE funct3 = 0 /\ nzuimm # {} -> ImmI(nzuimm) \cup Rs1(SP) \cup Rd(rd) \cup Opcode(19)
        [] funct3 = 2 -> ImmI(imm) \cup Rs1(rs1) \cup Funct3(2) \cup Rd(rd) \cup Opcode(3)
        [] funct3 = 6 -> ImmS(imm) \cup Rs2(rd) \cup Rs1(rs1) \cup Funct3(2) \cup Opcode(35)
        [] OTHER -> None

\* C.JAL and C.J
Jump(c, rd) ==
  LET imm == (Shr(c, 1) \cap {11}) \cup (Shl(c, 2) \cap {10}) \cup (Shr(c, 1) \cap {8, 9})
               \cup (Shl(c, 1) \cap {7}) \cup (Shr(c, 1) \cap {6}) \cup (Shl(c, 3) \cap {5})
               \cup (Shr(c, 7) \cap {4}) \cup (Shr(c, 2) \cap 1 .. 3)
  IN  ImmJ(Extended(imm, 11, 21)) \cup Rd(rd) \cup Opcode(111)

\* A slip in Branch: offset bits 5 and 6, which have changed places.
Branch_swapped(c, funct3) ==
  LET imm == (Shr(c, 4) \cap {8}) \cup (Shl(c, 1) \cap {7}) \cup Shr(Shl(c, 1) \cap {6}, 1) \cup Shl(Shl(c, 3) \cap {5}, 1)
               \cup (Shr(c, 7) \cap {3, 4}) \cup (Shr(c, 2) \cap {1, 2})
  IN  ImmB(Extended(imm, 8, 13)) \cup Rs1(Prime(Shr(c, 7) \cap 0 .. 2)) \cup Funct3(funct3) \cup Opcode(99)

\* C.BEQZ and C.BNEZ
Branch(c, funct3) ==
  LET imm == (Shr(c, 4) \cap {8}) \cup (Shl(c, 1) \cap {6, 7}) \cup (Shl(c, 3) \cap {5})
               \cup (Shr(c, 7) \cap {3, 4}) \cup (Shr(c, 2) \cap {1, 2})
  IN  ImmB(Extended(imm, 8, 13)) \cup Rs1(Prime(Shr(c, 7) \cap 0 .. 2)) \cup Funct3(funct3) \cup Opcode(99)

\* C.SRLI, C.SRAI, C.ANDI and the register operations
Arithmetic(c) ==
  LET funct2 == ToNat(Shr(c, 10) \cap {0, 1})
      funct2_low == ToNat(Shr(c, 5) \cap {0, 1})
      rd == Prime(Shr(c, 7) \cap 0 .. 2)
      rs2 == Prime(Shr(c, 2) \cap 0 .. 2)
      both == Rs1(rd) \cup Rd(rd)
  IN  CASE funct2 = 0 /\ Imm6(c) # {} -> Rs2(Imm6(c)) \cup both \cup Funct3(5) \cup Opcode(19)
        [] funct2 = 1 /\ Imm6(c) # {} -> Funct7(32) \cup Rs2(Imm6(c)) \cup both \cup Funct3(5) \cup Opcode(19)
        [] funct2 = 2 -> ImmI(Extended(Imm6(c), 5, 12)) \cup both \cup Funct3(7) \cup Opcode(19)
        [] funct2 = 3 /\ 12 \notin c ->
             Funct7(<<32, 0, 0, 0>>[funct2_low + 1]) \cup Rs2(rs2) \cup both
               \cup Funct3(<<0, 4, 6, 7>>[funct2_low + 1]) \cup Opcode(51)
        [] OTHER -> None

Quadrant1(c, funct3) ==
  LET rd == Shr(c, 7) \cap 0 .. 4
      imm == Extended(Imm6(c), 5, 12)
      nzimm == (Shr(c, 3) \cap {9}) \cup (Shr(c, 2) \cap {4}) \cup (Shl(c, 1) \cap {6})
                 \cup (Shl(c, 4) \cap {7, 8}) \cup (Shl(c, 3) \cap {5})
  IN  CASE funct3 = 0 -> ImmI(imm) \cup Rs1(rd) \cup Rd(rd) \cup Opcode(19)
        [] funct3 = 1 -> Jump(c, RA)
        [] funct3 = 2 -> ImmI(imm) \cup Rd(rd) \cup Opcode(19)
        [] funct3 = 3 /\ rd = SP /\ nzimm # {} ->
             ImmI(Extended(nzimm, 9, 12)) \cup Rs1(SP) \cup Rd(SP) \cup Opcode(19)
        [] funct3 = 3 /\ rd \notin {SP, {}} /\ Imm6(c) # {} ->
             Shl(Extended(Imm6(c), 5, 20), 12) \cup Rd(rd) \cup Opcode(55)
        [] funct3 = 4 -> Arithmetic(c)
        [] funct3 = 5 -> Jump(c, {})
        [] funct3 = 6 -> Branch(c, 0)
        [] funct3 = 7 -> Branch(c, 1)
        [] OTHER -> None

Quadrant2(c, funct3) ==
  LET rd == Shr(c, 7) \cap 0 .. 4
      rs2 == Shr(c, 2) \cap 0 .. 4
      lwsp == Shl(Shr(c, 2) \cap {0, 1}, 6) \cup Shl(Shr(c, 12) \cap {0}, 5) \cup Shl(Shr(c, 4) \cap 0 .. 2, 2)
      swsp == (Shr(c, 7) \cap 2 .. 5) \cup (Shr(c, 1) \cap {6, 7})
  IN  CASE funct3 = 0 /\ Imm6(c) # {} /\ rd # {} ->
             Rs2(Imm6(c)) \cup Rs1(rd) \cup Funct3(1) \cup Rd(rd) \cup Opcode(19)
        [] funct3 = 2 /\ rd # {} -> ImmI(lwsp) \cup Rs1(SP) \cup Funct3(2) \cup Rd(rd) \cup Opcode(3)
        [] funct3 = 4 /\ 12 \notin c /\ rs2 = {} /\ rd # {} -> Rs1(rd) \cup Opcode(103)
        [] funct3 = 4 /\ 12 \notin c /\ rs2 # {} /\ rd # {} -> Rs2(rs2) \cup Rd(rd) \cup Opcode(51)
        [] funct3 = 4 /\ 12 \in c /\ rs2 = {} /\ rd = {} -> {20} \cup Opcode(115)
        [] funct3 = 4 /\ 12 \in c /\ rs2 = {} /\ rd # {} -> Rs1(rd) \cup Rd(RA) \cup Opcode(103)
        [] funct3 = 4 /\ 12 \in c /\ rs2 # {} -> Rs2(rs2) \cup Rs1(rd) \cup Rd(rd) \cup Opcode(51)
        [] funct3 = 6 -> ImmS(swsp) \cup Rs2(rs2) \cup Rs1(SP) \cup Funct3(2) \cup Opcode(35)
        [] OTHER -> None

expand_compressed(c) ==
  LET funct3 == ToNat(Shr(c, 13) \cap 0 .. 2) IN
  CASE c \cap {0, 1} = {} -> Quadrant0(c, funct3)
    [] c \cap {0, 1} = {0} -> Quadrant1(c, funct3)
    [] c \cap {0, 1} = {1} -> Quadrant2(c, funct3)
    [] OTHER -> None

-----------------------------------------------------------------------------
(* Decoding a 32-bit instruction                                           *)

Field(x, k, n) == ToNat(Shr(x, k) \cap 0 .. n - 1)

\* execute_32, execute_16
fields(x) ==
  [opcode |-> Field(x, 0, 7), rd |-> Field(x, 7, 5), funct3 |-> Field(x, 12, 3),
   rs1 |-> Field(x, 15, 5), rs2 |-> Field(x, 20, 5), funct7 |-> Field(x, 25, 7)]

\* The number x, of which the last of n bits is the sign.
SignedNumber(x, n) == IF n - 1 \in x THEN ToNat(x) - 2^n ELSE ToNat(x)

imm_i(x) == SignedNumber(Shr(x, 20), 12)
imm_s(x) == SignedNumber((Shr(x, 7) \cap 0 .. 4) \cup Shl(Shr(x, 25), 5), 12)
imm_b(x) ==
  SignedNumber(Shl(Shr(x, 7) \cap {0}, 11) \cup Shl(Shr(x, 8) \cap 0 .. 3, 1)
                 \cup Shl(Shr(x, 25) \cap 0 .. 5, 5) \cup Shl(Shr(x, 31), 12), 13)
imm_j(x) ==
  SignedNumber(Shl(Shr(x, 21) \cap 0 .. 9, 1) \cup Shl(Shr(x, 20) \cap {0}, 11)
                 \cup Shl(Shr(x, 12) \cap 0 .. 7, 12) \cup Shl(Shr(x, 31), 20), 21)
imm_u(x) == SignedNumber(Shr(x, 12), 20)

Inst(op, rd, rs1, rs2, imm) == [op |-> op, rd |-> rd, rs1 |-> rs1, rs2 |-> rs2, imm |-> imm]

\* What the handler that opcode_handler names makes of an instruction, for
\* the instructions that expand_compressed makes.
Decoded(x) ==
  LET f == fields(x)
      shift == f.funct7 = 0 \/ (f.funct7 = 32 /\ f.funct3 = 5)
  IN  CASE f.opcode = 19 /\ f.funct3 = 0 -> Inst("ADDI", f.rd, f.rs1, 0, imm_i(x))
        [] f.opcode = 19 /\ f.funct3 = 7 -> Inst("ANDI", f.rd, f.rs1, 0, imm_i(x))
        [] f.opcode = 19 /\ f.funct3 = 1 /\ shift -> Inst("SLLI", f.rd, f.rs1, 0, imm_i(x) % 32)
        [] f.opcode = 19 /\ f.funct3 = 5 /\ shift ->
             Inst(IF f.funct7 = 0 THEN "SRLI" ELSE "SRAI", f.rd, f.rs1, 0, imm_i(x) % 32)
        [] f.opcode = 51 /\ f.funct3 = 0 -> Inst(IF f.funct7 = 0 THEN "ADD" ELSE "SUB", f.rd, f.rs1, f.rs2, 0)
        [] f.opcode = 51 /\ f.funct3 = 4 /\ f.funct7 = 0 -> Inst("XOR", f.rd, f.rs1, f.rs2, 0)
        [] f.opcode = 51 /\ f.funct3 = 6 /\ f.funct7 = 0 -> Inst("OR", f.rd, f.rs1, f.rs2, 0)
        [] f.opcode = 51 /\ f.funct3 = 7 /\ f.funct7 = 0 -> Inst("AND", f.rd, f.rs1, f.rs2, 0)
        [] f.opcode = 3 /\ f.funct3 = 2 -> Inst("LW", f.rd, f.rs1, 0, imm_i(x))
        [] f.opcode = 35 /\ f.funct3 = 2 -> Inst("SW", 0, f.rs1, f.rs2, imm_s(x))
        [] f.opcode = 99 /\ f.funct3 = 0 -> Inst("BEQ", 0, f.rs1, f.rs2, imm_b(x))
        [] f.opcode = 99 /\ f.funct3 = 1 -> Inst("BNE", 0, f.rs1, f.rs2, imm_b(x))
        [] f.opcode = 55 -> Inst("LUI", f.rd, 0, 0, imm_u(x))
        [] f.opcode = 111 -> Inst("JAL", f.rd, 0, 0, imm_j(x))
        [] f.opcode = 103 /\ f.funct3 = 0 -> Inst("JALR", f.rd, f.rs1, 0, imm_i(x))
        [] x = {0, 1, 4, 5, 6, 20} -> Inst("EBREAK", 0, 0, 0, 0)
        [] OTHER -> Inst("illegal", 0, 0, 0, 0)

-----------------------------------------------------------------------------
(* The architecture: what a 16-bit instruction means.  Layout(c, b, p) is  *)
(* the immediate whose bits p[1], p[2], ... are the bits b, b - 1, ... of  *)
(* c, the way the formats of the C extension are drawn.                    *)

Layout(c, b, p) == {p[k] : k \in {j \in DOMAIN p : b + 1 - j \in c}}

Imm(c, p12, p6, sign) ==
  LET x == Layout(c, 12, p12) \cup Layout(c, 6, p6)
  IN  IF sign THEN SignedNumber(x, Max({p12[i] : i \in DOMAIN p12}) + 1) ELSE ToNat(x)

HalfMeaning(c) ==
  LET q == Field(c, 0, 2)
      f == Field(c, 13, 3)
      r1 == Field(c, 7, 5)
      r2 == Field(c, 2, 5)
      s1 == 8 + Field(c, 7, 3)
      s2 == 8 + Field(c, 2, 3)
      ci == Imm(c, <<5>>, <<4, 3, 2, 1, 0>>, TRUE)
      shamt == Imm(c, <<5>>, <<4, 3, 2, 1, 0>>, FALSE)
      lw == Imm(c, <<5, 4, 3>>, <<2, 6>>, FALSE)
      cj == Imm(c, <<11, 4, 9, 8, 10, 6, 7, 3, 2, 1, 5>>, <<>>, TRUE)
      cb == Imm(c, <<8, 4, 3>>, <<7, 6, 2, 1, 5>>, TRUE)
      shift(op, r) == IF shamt < 32 THEN Inst(op, r, r, 0, shamt) ELSE Inst("illegal", 0, 0, 0, 0)
      g == Field(c, 10, 2)
      h == Field(c, 5, 2)
  IN  CASE q = 0 /\ f = 0 -> Inst("ADDI", s2, 2, 0, Imm(c, <<5, 4, 9, 8, 7, 6, 2, 3>>, <<>>, FALSE))
        [] q = 0 /\ f = 2 -> Inst("LW", s2, s1, 0, lw)
        [] q = 0 /\ f = 6 -> Inst("SW", 0, s1, s2, lw)
        [] q = 1 /\ f = 0 -> Inst("ADDI", r1, r1, 0, ci)
        [] q = 1 /\ f = 1 -> Inst("JAL", 1, 0, 0, cj)
        [] q = 1 /\ f = 2 -> Inst("ADDI", r1, 0, 0, ci)
        [] q = 1 /\ f = 3 /\ r1 = 2 -> Inst("ADDI", 2, 2, 0, Imm(c, <<9>>, <<4, 6, 8, 7, 5>>, TRUE))
        [] q = 1 /\ f = 3 /\ r1 # 2 -> Inst("LUI", r1, 0, 0, ci)
        [] q = 1 /\ f = 4 /\ g = 0 -> shift("SRLI", s1)
        [] q = 1 /\ f = 4 /\ g = 1 -> shift("SRAI", s1)
        [] q = 1 /\ f = 4 /\ g = 2 -> Inst("ANDI", s1, s1, 0, ci)
        [] q = 1 /\ f = 4 /\ g = 3 -> Inst(<<"SUB", "XOR", "OR", "AND">>[h + 1], s1, s1, s2, 0)
        [] q = 1 /\ f = 5 -> Inst("JAL", 0, 0, 0, cj)
        [] q = 1 /\ f = 6 -> Inst("BEQ", 0, s1, 0, cb)
        [] q = 1 /\ f = 7 -> Inst("BNE", 0, s1, 0, cb)
        [] q = 2 /\ f = 0 -> shift("SLLI", r1)
        [] q = 2 /\ f = 2 -> Inst("LW", r1, 2, 0, Imm(c, <<5>>, <<4, 3, 2, 7, 6>>, FALSE))
        [] q = 2 /\ f = 4 /\ r2 = 0 /\ r1 # 0 -> Inst("JALR", Field(c, 12, 1), r1, 0, 0)
        [] q = 2 /\ f = 4 /\ r2 = 0 /\ r1 = 0 -> Inst("EBREAK", 0, 0, 0, 0)
        [] q = 2 /\ f = 4 /\ r2 # 0 -> Inst("ADD", r1, IF 12 \in c THEN r1 ELSE 0, r2, 0)
        [] q = 2 /\ f = 6 -> Inst("SW", 0, 2, r2, Imm(c, <<5, 4, 3, 2, 7, 6>>, <<>>, FALSE))

\* Encodings that RV32C reserves, without the F and D extensions.
Reserved(c) ==
  LET q == Field(c, 0, 2)
      f == Field(c, 13, 3)
      r1 == Field(c, 7, 5)
  IN  \/ q = 0 /\ f = 0 /\ Field(c, 5, 8) = 0
      \/ q \in {0, 2} /\ f \in {1, 3, 5, 7}
      \/ q = 0 /\ f = 4
      \/ q = 1 /\ f = 3 /\ 12 \notin c /\ Field(c, 2, 5) = 0
      \/ q = 1 /\ f = 4 /\ {10, 11, 12} \subseteq c
      \/ q = 2 /\ f = 2 /\ r1 = 0
      \/ q = 2 /\ f = 4 /\ r1 = 0 /\ 12 \notin c /\ Field(c, 2, 5) = 0

\* Encodings of instructions without effect that expand_compressed refuses:
\* shifts by zero, and C.LUI, C.SLLI and C.MV to x0.
RefusedHint(c) ==
  LET q == Field(c, 0, 2)
      f == Field(c, 13, 3)
      r1 == Field(c, 7, 5)
  IN  \/ q = 1 /\ f = 3 /\ r1 = 0
      \/ q = 1 /\ f = 4 /\ 11 \notin c /\ Imm6(c) = {}
      \/ q = 2 /\ f = 0 /\ (r1 = 0 \/ Imm6(c) = {})
      \/ q = 2 /\ f = 4 /\ 12 \notin c /\ r1 = 0
=============================================================================
