---------------------------- MODULE AluProofs ------------------------------
(***************************************************************************)
(* What an instruction computes from the integers in its registers stands  *)
(* for the word that the architecture defines, for words of up to 32 bits  *)
(* and any longer mantissa: an integer and its word differ by a multiple   *)
(* of 2^32, which masks, bits and signed32 do not see, and rounding a      *)
(* quotient to a float never takes it to the next integer.                 *)
(*                                                                         *)
(* The facts about quotients, powers and digits come first.  Induction     *)
(* over the natural numbers goes by the least element of a set of them.    *)
(***************************************************************************)
EXTENDS Alu, WellFoundedInduction, TLAPS

\* A set of natural numbers has a least one.
LEMMA LeastElement ==
  ASSUME NEW T, T \subseteq Nat, T # {}
  PROVE  \E n \in T : \A m \in T : n <= m
<1> DEFINE R == OpToRel(<, Nat)
<1>1. IsWellFoundedOn(R, Nat)
  BY NatLessThanWellFounded
<1>2. \A m, n \in Nat : <<m, n>> \in R <=> m < n
  BY DEF OpToRel
<1> HIDE DEF R
<1>3. PICK n \in T : \A m \in T : ~(<<m, n>> \in R)
  BY <1>1, WFMin
<1>4. ASSUME NEW m \in T PROVE n <= m
  <2>1. m \in Nat /\ n \in Nat /\ ~(<<m, n>> \in R)
    BY <1>3
  <2>2. ~(m < n)
    BY <1>2, <2>1
  <2> QED BY <2>1, <2>2
<1> QED BY <1>4

\* Induction, over a set in place of a predicate.
LEMMA Induction ==
  ASSUME NEW S, 0 \in S, \A n \in Nat : n \in S => n + 1 \in S
  PROVE  Nat \subseteq S
<1> SUFFICES ASSUME NEW k \in Nat, k \notin S PROVE FALSE
  OBVIOUS
<1> DEFINE T == {n \in Nat : n \notin S}
<1>1. T \subseteq Nat /\ T # {}
  OBVIOUS
<1>2. PICK n \in T : \A m \in T : n <= m
  BY <1>1, LeastElement
<1>3. n \in Nat /\ n # 0 /\ n - 1 \in Nat /\ n - 1 \notin T
  BY <1>2
<1> QED BY <1>3, <1>2

-----------------------------------------------------------------------------
(* Quotients                                                               *)

\* Python's % and //: quotient and remainder are unique.
LEMMA DivisionUnique ==
  ASSUME NEW N \in Nat, N > 0, NEW q \in Int, NEW r \in 0 .. N - 1, NEW a \in Int, a = q * N + r
  PROVE  a % N = r /\ a \div N = q
<1> DEFINE p == a \div N
           s == a % N
           d == q - p
<1>1. p \in Int /\ s \in 0 .. N - 1 /\ a = p * N + s
  OBVIOUS
<1>2. d \in Int /\ q = d + p
  BY <1>1
<1> HIDE DEF d, p, s
<1>3. q * N = d * N + p * N
  BY <1>1, <1>2
<1>4. d * N = s - r
  BY <1>1, <1>2, <1>3
<1>5. ~(d >= 1)
  <2> SUFFICES ASSUME d >= 1 PROVE FALSE
    OBVIOUS
  <2>1. d * N >= N
    BY <1>2
  <2> QED BY <1>1, <1>4, <2>1
<1>6. ~(d <= -1)
  <2> SUFFICES ASSUME d <= -1 PROVE FALSE
    OBVIOUS
  <2>1. d * N <= -N
    BY <1>2
  <2> QED BY <1>1, <1>4, <2>1
<1>7. d = 0
  BY <1>2, <1>5, <1>6
<1>8. s = r /\ p = q
  BY <1>1, <1>2, <1>4, <1>7
<1> QED BY <1>8 DEF p, s

\* Python's %: multiples of N do not count.
LEMMA ModShift ==
  ASSUME NEW N \in Nat, N > 0, NEW a \in Int, NEW k \in Int, NEW b \in Int, b = a + k * N
  PROVE  b % N = a % N
<1> DEFINE q == a \div N
           r == a % N
<1>1. q \in Int /\ r \in 0 .. N - 1 /\ a = q * N + r
  OBVIOUS
<1> HIDE DEF q, r
<1> DEFINE s == q + k
<1>2. s \in Int /\ s = q + k
  BY <1>1
<1> HIDE DEF s
<1>3. s * N = q * N + k * N
  BY <1>1, <1>2
<1>4. b = s * N + r
  BY <1>1, <1>2, <1>3
<1>5. r \in 0 .. N - 1
  BY <1>1
<1>6. \A t \in Int : \A z \in Int : z = t * N + r => z % N = r
  BY <1>5, DivisionUnique
<1>7. b % N = r
  BY <1>2, <1>4, <1>6
<1> QED BY <1>7 DEF r

\* Masked: words that are the same modulo their size are the same.
LEMMA SameResidue ==
  ASSUME NEW N \in Nat, N > 0, NEW a \in Int, NEW b \in Int, a % N = b % N, a - b < N, b - a < N
  PROVE  a = b
<1> DEFINE p == a \div N
           q == b \div N
           r == a % N
           d == p - q
<1>1. p \in Int /\ q \in Int /\ r \in Int /\ a = p * N + r /\ b = q * N + r
  OBVIOUS
<1>2. d \in Int /\ p = d + q
  BY <1>1
<1> HIDE DEF p, q, r, d
<1>3. p * N = d * N + q * N
  BY <1>1, <1>2
<1>4. a - b = d * N
  BY <1>1, <1>2, <1>3
<1>5. d >= 1 => d * N >= N
  BY <1>2
<1>6. d <= -1 => d * N <= -N
  BY <1>2
<1>7. d = 0
  BY <1>2, <1>4, <1>5, <1>6
<1> QED BY <1>4, <1>7

\* Dividing twice is dividing by the product.
LEMMA DivideTwice ==
  ASSUME NEW x \in Int, NEW m \in Nat, m > 0, NEW n \in Nat, n > 0
  PROVE  /\ m * n \in Nat /\ m * n > 0
         /\ x \div (m * n) = (x \div m) \div n
         /\ x % (m * n) = (x % m) + ((x \div m) % n) * m
<1> DEFINE q == x \div m
           r == x % m
           p == q \div n
           s == q % n
           N == m * n
           t == r + s * m
<1>1. q \in Int /\ r \in 0 .. m - 1 /\ x = q * m + r
  OBVIOUS
<1> HIDE DEF q, r
<1>2. p \in Int /\ s \in 0 .. n - 1 /\ q = p * n + s
  BY <1>1
<1> HIDE DEF p, s
<1>3. N \in Nat /\ N > 0
  OBVIOUS
<1>4. q * m = p * N + s * m
  BY <1>1, <1>2
<1>5. s * m \in Int /\ 0 <= s * m /\ s * m <= (n - 1) * m /\ (n - 1) * m = N - m
  BY <1>2
<1>6. t \in 0 .. N - 1
  BY <1>1, <1>3, <1>5
<1>7. x = p * N + t
  <2> DEFINE u == p * N
             v == q * m
             w == s * m
  <2>1. u \in Int /\ v \in Int /\ w \in Int /\ r \in Int /\ x = v + r /\ v = u + w /\ t = r + w
    BY <1>1, <1>2, <1>3, <1>4
  <2> HIDE DEF u, v, w, t
  <2>2. x = u + t
    BY <2>1
  <2> QED BY <2>2 DEF u
<1> HIDE DEF N, t
<1>8. x % N = t /\ x \div N = p
  BY <1>2, <1>3, <1>6, <1>7, DivisionUnique
<1> QED BY <1>3, <1>8 DEF N, t, p, s, q, r

\* Multiples of the divisor add to the quotient and do not count otherwise.
LEMMA DivideSum ==
  ASSUME NEW x \in Int, NEW t \in Int, NEW m \in Nat, m > 0
  PROVE  (x + t * m) \div m = x \div m + t /\ (x + t * m) % m = x % m
<1> DEFINE q == x \div m
           r == x % m
           a == x + t * m
           p == q + t
<1>1. q \in Int /\ r \in 0 .. m - 1 /\ x = q * m + r
  OBVIOUS
<1> HIDE DEF q, r
<1>2. p \in Int /\ p * m = q * m + t * m
  BY <1>1
<1>3. a \in Int /\ a = p * m + r
  <2>1. q * m \in Int /\ t * m \in Int
    BY <1>1
  <2> QED BY <1>1, <1>2, <2>1
<1> HIDE DEF a, p
<1>4. a % m = r /\ a \div m = p
  BY <1>1, <1>2, <1>3, DivisionUnique
<1> QED BY <1>4 DEF a, p, q, r

-----------------------------------------------------------------------------
(* Powers                                                                  *)

\* Power: there is such a function, and it is positive.
LEMMA PowerIs ==
  ASSUME NEW b \in Nat, b >= 2
  PROVE  /\ Power(b)[0] = 1
         /\ \A n \in Nat : Power(b)[n] \in Nat /\ Power(b)[n] >= 1 /\ Power(b)[n + 1] = b * Power(b)[n]
<1> DEFINE Prefixes(n) == {g \in [0 .. n -> Nat] : g[0] = 1 /\ \A i \in 0 .. n - 1 : g[i + 1] = b * g[i]}
           S == {n \in Nat : \E g : g \in Prefixes(n)}
<1>1. 0 \in S
  <2>1. [i \in 0 .. 0 |-> 1] \in Prefixes(0)
    OBVIOUS
  <2> QED BY <2>1
<1>2. ASSUME NEW n \in Nat, n \in S PROVE n + 1 \in S
  <2>1. PICK g : g \in Prefixes(n)
    BY <1>2
  <2> DEFINE h == [i \in 0 .. n + 1 |-> IF i = n + 1 THEN b * g[n] ELSE g[i]]
  <2>2. g \in [0 .. n -> Nat] /\ g[0] = 1 /\ \A i \in 0 .. n - 1 : g[i + 1] = b * g[i]
    BY <2>1
  <2>3. b * g[n] \in Nat
    BY <2>2
  <2>4. h \in [0 .. n + 1 -> Nat] /\ h[0] = 1
    BY <2>2, <2>3
  <2>5. ASSUME NEW i \in 0 .. n PROVE h[i + 1] = b * h[i]
    <3>1. CASE i = n
      BY <3>1
    <3>2. CASE i < n
      BY <2>2, <3>2
    <3> QED BY <3>1, <3>2
  <2>6. (n + 1) - 1 = n /\ n + 1 \in Nat
    OBVIOUS
  <2> HIDE DEF h
  <2>7. h \in Prefixes(n + 1)
    BY <2>4, <2>5, <2>6
  <2> HIDE DEF Prefixes
  <2> QED BY <2>6, <2>7
<1> HIDE DEF Prefixes
<1>3. \A n \in Nat : \E g : g \in Prefixes(n)
  <2>1. Nat \subseteq S
    BY <1>1, <1>2, Induction
  <2> QED BY <2>1
<1>4. ASSUME NEW n \in Nat, NEW m \in Nat, NEW g \in Prefixes(n), NEW h \in Prefixes(m)
      PROVE  \A i \in Nat : i <= n /\ i <= m => g[i] = h[i]
  <2> DEFINE E == {i \in Nat : i <= n /\ i <= m => g[i] = h[i]}
  <2>1. /\ g[0] = 1 /\ \A i \in 0 .. n - 1 : g[i + 1] = b * g[i]
        /\ h[0] = 1 /\ \A i \in 0 .. m - 1 : h[i + 1] = b * h[i]
    BY DEF Prefixes
  <2>2. 0 \in E
    BY <2>1
  <2>3. \A i \in Nat : i \in E => i + 1 \in E
    BY <2>1
  <2>4. Nat \subseteq E
    BY <2>2, <2>3, Induction
  <2> QED BY <2>4
<1> DEFINE G(n) == CHOOSE g : g \in Prefixes(n)
           P == [n \in Nat |-> G(n)[n]]
<1>5. \A n \in Nat : G(n) \in Prefixes(n)
  BY <1>3
<1> HIDE DEF G
<1>6. P[0] = 1
  BY <1>5 DEF Prefixes
<1>7. ASSUME NEW n \in Nat PROVE P[n + 1] = b * P[n]
  <2>1. G(n) \in Prefixes(n) /\ G(n + 1) \in Prefixes(n + 1)
    BY <1>5
  <2>2. G(n + 1)[n] = G(n)[n]
    BY <1>4, <2>1
  <2>3. G(n + 1)[n + 1] = b * G(n + 1)[n]
    BY <2>1 DEF Prefixes
  <2> QED BY <2>2, <2>3
<1> DEFINE Recursive(f) == f = [n \in Nat |-> IF n = 0 THEN 1 ELSE b * f[n - 1]]
<1>8. Recursive(P)
  <2> DEFINE Q == [n \in Nat |-> IF n = 0 THEN 1 ELSE b * P[n - 1]]
  <2>1. ASSUME NEW n \in Nat PROVE P[n] = Q[n]
    <3> HIDE DEF P
    <3>1. CASE n = 0
      BY <1>6, <3>1
    <3>2. CASE n > 0
      <4>1. n - 1 \in Nat /\ (n - 1) + 1 = n
        BY <3>2
      <4> QED BY <1>7, <4>1, <3>2
    <3> QED BY <3>1, <3>2
  <2>2. P = [n \in Nat |-> P[n]]
    OBVIOUS
  <2> HIDE DEF P
  <2> QED BY <2>1, <2>2
<1> HIDE DEF P
<1>9. Recursive(Power(b))
  <2>1. Power(b) = CHOOSE f : Recursive(f)
    BY DEF Power
  <2> HIDE DEF Recursive
  <2> QED BY <1>8, <2>1
<1>10. Power(b)[0] = 1 /\ \A n \in Nat : Power(b)[n + 1] = b * Power(b)[n]
  <2>1. \A n \in Nat : Power(b)[n] = IF n = 0 THEN 1 ELSE b * Power(b)[n - 1]
    BY <1>9
  <2> QED BY <2>1
<1> DEFINE V == {n \in Nat : Power(b)[n] \in Nat /\ Power(b)[n] >= 1}
<1>11. Nat \subseteq V
  <2>1. 0 \in V
    BY <1>10
  <2>2. ASSUME NEW n \in Nat, n \in V PROVE n + 1 \in V
    <3> DEFINE p == Power(b)[n]
    <3>1. p \in Nat /\ p >= 1 /\ Power(b)[n + 1] = b * p
      BY <1>10, <2>2
    <3> HIDE DEF p
    <3>2. b * p \in Nat /\ b * p >= 1
      BY <3>1
    <3> QED BY <3>1, <3>2
  <2> HIDE DEF V
  <2> QED BY <2>1, <2>2, Induction
<1> QED BY <1>10, <1>11

\* The power of a sum.
LEMMA PowerSum ==
  ASSUME NEW b \in Nat, b >= 2, NEW i \in Nat, NEW j \in Nat
  PROVE  Power(b)[i + j] = Power(b)[i] * Power(b)[j]
<1> DEFINE p == Power(b)[i]
           S == {n \in Nat : Power(b)[i + n] = p * Power(b)[n]}
<1>1. p \in Nat
  BY PowerIs
<1>2. 0 \in S
  BY <1>1, PowerIs
<1>3. ASSUME NEW n \in Nat, n \in S PROVE n + 1 \in S
  <2> DEFINE q == Power(b)[n]
  <2>1. q \in Nat /\ Power(b)[n + 1] = b * q /\ Power(b)[i + n] = p * q
    BY <1>3, PowerIs
  <2>2. i + n \in Nat /\ i + (n + 1) = (i + n) + 1
    OBVIOUS
  <2>3. Power(b)[i + (n + 1)] = b * (p * q)
    BY <2>1, <2>2, PowerIs
  <2> HIDE DEF p, q
  <2>4. b * (p * q) = p * (b * q)
    BY <1>1, <2>1
  <2> QED BY <2>1, <2>3, <2>4
<1> HIDE DEF S
<1>4. Nat \subseteq S
  BY <1>2, <1>3, Induction
<1> QED BY <1>4 DEF S

\* Powers do not decrease.
LEMMA PowerGrows ==
  ASSUME NEW b \in Nat, b >= 2, NEW i \in Nat, NEW j \in Nat, i <= j
  PROVE  Power(b)[i] <= Power(b)[j]
<1> DEFINE p == Power(b)[i]
           q == Power(b)[j - i]
<1>1. j - i \in Nat /\ i + (j - i) = j
  OBVIOUS
<1>2. p \in Nat /\ q \in Nat /\ q >= 1
  BY <1>1, PowerIs
<1>3. Power(b)[j] = p * q
  BY <1>1, PowerSum
<1> HIDE DEF p, q
<1>4. p <= p * q
  BY <1>2
<1> QED BY <1>3, <1>4 DEF p

\* 2^i, which the provers know for literal numbers only, is that power.
LEMMA PowersOfTwo == \A i \in 0 .. 32 : 2^i = Power(2)[i]
<1> DEFINE P == Power(2)
           E(i) == 2^i
<1>1. P[0] = 1 /\ \A n \in Nat : n > 0 => P[n] = 2 * P[n - 1]
  <2>1. P[0] = 1 /\ \A n \in Nat : P[n + 1] = 2 * P[n]
    BY PowerIs
  <2>2. ASSUME NEW n \in Nat, n > 0 PROVE P[n] = 2 * P[n - 1]
    <3>1. n - 1 \in Nat /\ (n - 1) + 1 = n
      BY <2>2
    <3> QED BY <2>1, <3>1
  <2> QED BY <2>1, <2>2
<1> HIDE DEF P
<1>2. /\ P[0] = E(0) /\ P[1] = E(1) /\ P[2] = E(2) /\ P[3] = E(3) /\ P[4] = E(4) /\ P[5] = E(5)
      /\ P[6] = E(6) /\ P[7] = E(7) /\ P[8] = E(8)
  BY <1>1, SMT
<1>3. /\ P[9] = E(9) /\ P[10] = E(10) /\ P[11] = E(11) /\ P[12] = E(12) /\ P[13] = E(13) /\ P[14] = E(14)
      /\ P[15] = E(15) /\ P[16] = E(16)
  BY <1>1, <1>2, SMT
<1>4. /\ P[17] = E(17) /\ P[18] = E(18) /\ P[19] = E(19) /\ P[20] = E(20) /\ P[21] = E(21) /\ P[22] = E(22)
      /\ P[23] = E(23) /\ P[24] = E(24)
  BY <1>1, <1>3, SMT
<1>5. /\ P[25] = E(25) /\ P[26] = E(26) /\ P[27] = E(27) /\ P[28] = E(28) /\ P[29] = E(29) /\ P[30] = E(30)
      /\ P[31] = E(31) /\ P[32] = E(32)
  BY <1>1, <1>4, SMT
<1> HIDE DEF E
<1>6. \A i \in 0 .. 8 : E(i) = P[i]
  BY <1>2, SMT
<1>7. \A i \in 9 .. 16 : E(i) = P[i]
  BY <1>3, SMT
<1>8. \A i \in 17 .. 24 : E(i) = P[i]
  BY <1>4, SMT
<1>9. \A i \in 25 .. 32 : E(i) = P[i]
  BY <1>5, SMT
<1>10. \A i \in 0 .. 32 : i \in 0 .. 8 \/ i \in 9 .. 16 \/ i \in 17 .. 24 \/ i \in 25 .. 32
  OBVIOUS
<1> QED BY <1>6, <1>7, <1>8, <1>9, <1>10 DEF P, E

-----------------------------------------------------------------------------
(* Digits                                                                  *)

\* The digit of x to the base b that counts b to the power of i.
DigitOf(b, x, i) == (x \div Power(b)[i]) % b

\* The digits below i and the digit i make up the remainder of the next power.
LEMMA DigitSplit ==
  ASSUME NEW b \in Nat, b >= 2, NEW x \in Int, NEW i \in Nat
  PROVE  /\ DigitOf(b, x, i) \in 0 .. b - 1
         /\ x % Power(b)[i + 1] = (x % Power(b)[i]) + DigitOf(b, x, i) * Power(b)[i]
<1> DEFINE m == Power(b)[i]
<1>1. m \in Nat /\ m > 0 /\ Power(b)[i + 1] = b * m
  BY PowerIs
<1>2. DigitOf(b, x, i) = (x \div m) % b
  BY DEF DigitOf
<1> HIDE DEF m
<1>3. x % (m * b) = (x % m) + ((x \div m) % b) * m
  BY <1>1, DivideTwice
<1>4. m * b = b * m /\ x \div m \in Int
  BY <1>1
<1>5. (x \div m) % b \in 0 .. b - 1
  BY <1>4
<1> QED BY <1>1, <1>2, <1>3, <1>4, <1>5 DEF m

\* Adding a multiple of a higher power leaves a digit as it is.
LEMMA DigitKept ==
  ASSUME NEW b \in Nat, b >= 2, NEW x \in Int, NEW t \in Int, NEW i \in Nat, NEW k \in Nat, i < k
  PROVE  DigitOf(b, x + t * Power(b)[k], i) = DigitOf(b, x, i)
<1> DEFINE m == Power(b)[i]
           c == Power(b)[k - i - 1]
           y == x + t * Power(b)[k]
           q == x \div m
           u == t * c
<1>1. k - i - 1 \in Nat /\ (i + 1) + (k - i - 1) = k /\ i + 1 \in Nat
  OBVIOUS
<1>2. m \in Nat /\ m > 0 /\ c \in Nat /\ Power(b)[k] = (b * m) * c
  <2>1. Power(b)[k] = Power(b)[i + 1] * c
    BY <1>1, PowerSum
  <2> QED BY <1>1, <2>1, PowerIs
<1>3. \A z : DigitOf(b, z, i) = (z \div m) % b
  BY DEF DigitOf
<1> HIDE DEF m, c
<1>4. u \in Int /\ u * b \in Int /\ b > 0
  BY <1>2
<1>5. y = x + (u * b) * m
  BY <1>2
<1> HIDE DEF u, y
<1>6. y \div m = q + u * b
  BY <1>2, <1>4, <1>5, DivideSum
<1>7. q \in Int
  BY <1>2
<1> HIDE DEF q
<1>8. (q + u * b) % b = q % b
  BY <1>4, <1>7, DivideSum
<1> QED BY <1>3, <1>6, <1>8 DEF y, q

\* The remainder of a power has the digits below it.
LEMMA DigitOfRemainder ==
  ASSUME NEW b \in Nat, b >= 2, NEW x \in Int, NEW i \in Nat, NEW k \in Nat, i < k
  PROVE  DigitOf(b, x % Power(b)[k], i) = DigitOf(b, x, i)
<1> DEFINE m == Power(b)[k]
           q == x \div m
           r == x % m
<1>1. m \in Nat /\ m > 0
  BY PowerIs
<1>2. q \in Int /\ r \in Int /\ x = r + q * m
  <2> HIDE DEF m
  <2> QED BY <1>1
<1> HIDE DEF q, r
<1>3. DigitOf(b, r + q * m, i) = DigitOf(b, r, i)
  BY <1>2, DigitKept
<1> QED BY <1>2, <1>3 DEF r

\* Digits determine the remainder of the power above them.
LEMMA SameDigits ==
  ASSUME NEW b \in Nat, b >= 2, NEW x \in Int, NEW y \in Int, NEW k \in Nat,
         \A i \in 0 .. k - 1 : DigitOf(b, x, i) = DigitOf(b, y, i)
  PROVE  x % Power(b)[k] = y % Power(b)[k]
<1> DEFINE S == {n \in Nat : n <= k => x % Power(b)[n] = y % Power(b)[n]}
<1>1. 0 \in S
  <2>1. Power(b)[0] = 1
    BY PowerIs
  <2>2. x % 1 = 0 /\ y % 1 = 0
    OBVIOUS
  <2> QED BY <2>1, <2>2
<1>2. ASSUME NEW n \in Nat, n \in S PROVE n + 1 \in S
  <2> SUFFICES ASSUME n + 1 <= k PROVE x % Power(b)[n + 1] = y % Power(b)[n + 1]
    OBVIOUS
  <2>1. x % Power(b)[n] = y % Power(b)[n] /\ n \in 0 .. k - 1
    BY <1>2
  <2>2. DigitOf(b, x, n) = DigitOf(b, y, n)
    BY <2>1
  <2>3. \A u \in Int : u % Power(b)[n + 1] = (u % Power(b)[n]) + DigitOf(b, u, n) * Power(b)[n]
    BY DigitSplit
  <2> QED BY <2>1, <2>2, <2>3
<1> HIDE DEF S
<1>3. Nat \subseteq S
  BY <1>1, <1>2, Induction
<1> QED BY <1>3 DEF S

\* A number below a power has no digit there.
LEMMA DigitAbove ==
  ASSUME NEW b \in Nat, b >= 2, NEW i \in Nat, NEW x \in 0 .. Power(b)[i] - 1
  PROVE  DigitOf(b, x, i) = 0
<1> DEFINE m == Power(b)[i]
<1>1. m \in Nat /\ m > 0
  BY PowerIs
<1>2. DigitOf(b, x, i) = (x \div m) % b /\ x \in 0 .. m - 1
  BY DEF DigitOf
<1> HIDE DEF m
<1>3. x \in Int /\ x = 0 * m + x
  BY <1>1, <1>2
<1>4. x \div m = 0
  BY <1>1, <1>2, <1>3, DivisionUnique
<1> QED BY <1>2, <1>4

\* There is a number with given digits.
LEMMA DigitsExist ==
  ASSUME NEW b \in Nat, b >= 2, NEW d \in [Nat -> 0 .. b - 1], NEW k \in Nat
  PROVE  \E z \in 0 .. Power(b)[k] - 1 : \A i \in 0 .. k - 1 : DigitOf(b, z, i) = d[i]
<1> DEFINE Has(n, z) == \A i \in 0 .. n - 1 : DigitOf(b, z, i) = d[i]
           S == {n \in Nat : \E z \in 0 .. Power(b)[n] - 1 : Has(n, z)}
<1>1. 0 \in S
  <2>1. 0 \in 0 .. Power(b)[0] - 1
    BY PowerIs
  <2>2. Has(0, 0)
    OBVIOUS
  <2> HIDE DEF Has
  <2> QED BY <2>1, <2>2
<1>2. ASSUME NEW n \in Nat, n \in S PROVE n + 1 \in S
  <2>1. PICK z \in 0 .. Power(b)[n] - 1 : Has(n, z)
    BY <1>2
  <2> DEFINE m == Power(b)[n]
             e == d[n]
             y == z + e * m
  <2>2. m \in Nat /\ m > 0 /\ Power(b)[n + 1] = b * m /\ e \in 0 .. b - 1 /\ z \in 0 .. m - 1
    BY <2>1, PowerIs
  <2>3. y \in Int /\ y \in 0 .. b * m - 1 /\ z \in Int
    <3> HIDE DEF m, e
    <3>1. e * m \in Int /\ 0 <= e * m /\ e * m <= (b - 1) * m /\ (b - 1) * m = b * m - m /\ b * m \in Int
      BY <2>2
    <3> QED BY <2>2, <3>1
  <2>4. DigitOf(b, y, n) = e
    <3>1. \A u : DigitOf(b, u, n) = (u \div m) % b
      BY DEF DigitOf
    <3> HIDE DEF m, e
    <3>2. y = e * m + z /\ e \in Int
      BY <2>2, <2>3
    <3> HIDE DEF y
    <3>3. y \div m = e
      BY <2>2, <2>3, <3>2, DivisionUnique
    <3>4. e % b = e
      BY <2>2
    <3> QED BY <3>1, <3>3, <3>4
  <2>5. ASSUME NEW i \in 0 .. n - 1 PROVE DigitOf(b, y, i) = d[i]
    <3>1. i \in Nat /\ i < n /\ e \in Int
      BY <2>2
    <3>2. DigitOf(b, y, i) = DigitOf(b, z, i)
      BY <2>3, <3>1, DigitKept
    <3> QED BY <2>1, <3>2
  <2> HIDE DEF m, e, y
  <2>6. Has(n + 1, y)
    <3>1. \A i \in 0 .. (n + 1) - 1 : i = n \/ i \in 0 .. n - 1
      OBVIOUS
    <3>2. \A i \in 0 .. (n + 1) - 1 : DigitOf(b, y, i) = d[i]
      BY <2>4, <2>5, <3>1 DEF e
    <3> QED BY <3>2
  <2>7. n + 1 \in Nat /\ y \in 0 .. Power(b)[n + 1] - 1
    BY <2>2, <2>3
  <2> HIDE DEF Has
  <2> QED BY <2>6, <2>7
<1> HIDE DEF S
<1>3. Nat \subseteq S
  BY <1>1, <1>2, Induction
<1> QED BY <1>3 DEF S

\* Multiplying by a power moves the digits up.
LEMMA DigitOfProduct ==
  ASSUME NEW b \in Nat, b >= 2, NEW x \in Int, NEW i \in Nat, NEW k \in Nat
  PROVE  /\ i < k => DigitOf(b, x * Power(b)[k], i) = 0
         /\ i >= k => DigitOf(b, x * Power(b)[k], i) = DigitOf(b, x, i - k)
<1> DEFINE m == Power(b)[k]
           y == x * m
<1>1. m \in Nat /\ m > 0 /\ y \in Int
  BY PowerIs
<1>2. CASE i < k
  <2>1. DigitOf(b, 0 + y, i) = DigitOf(b, 0, i)
    BY <1>2, DigitKept
  <2>2. DigitOf(b, 0, i) = 0
    <3>1. 0 \in 0 .. Power(b)[i] - 1
      BY PowerIs
    <3> QED BY <3>1, DigitAbove
  <2>3. 0 + y = y
    BY <1>1
  <2> QED BY <1>2, <2>1, <2>2, <2>3
<1>3. CASE i >= k
  <2> DEFINE n == Power(b)[i - k]
  <2>1. i - k \in Nat /\ k + (i - k) = i
    BY <1>3
  <2>2. n \in Nat /\ n > 0
    BY <2>1, PowerIs
  <2>3. DigitOf(b, y, i) = (y \div (m * n)) % b /\ DigitOf(b, x, i - k) = (x \div n) % b
    <3>1. Power(b)[i] = m * n
      BY <2>1, PowerSum
    <3> QED BY <3>1 DEF DigitOf
  <2> HIDE DEF m, n
  <2>4. y = x * m + 0 /\ 0 \in 0 .. m - 1
    BY <1>1
  <2>5. y \div m = x
    BY <1>1, <2>4, DivisionUnique
  <2>6. y \div (m * n) = x \div n
    BY <1>1, <2>2, <2>5, DivideTwice
  <2> QED BY <1>3, <2>3, <2>6 DEF m
<1> QED BY <1>2, <1>3

\* Dividing by a power moves the digits down.
LEMMA DigitOfQuotient ==
  ASSUME NEW b \in Nat, b >= 2, NEW x \in Int, NEW i \in Nat, NEW k \in Nat
  PROVE  x \div Power(b)[k] \in Int /\ DigitOf(b, x \div Power(b)[k], i) = DigitOf(b, x, i + k)
<1> DEFINE m == Power(b)[k]
           n == Power(b)[i]
<1>1. m \in Nat /\ m > 0 /\ n \in Nat /\ n > 0
  BY PowerIs
<1>2. DigitOf(b, x \div m, i) = ((x \div m) \div n) % b /\ DigitOf(b, x, i + k) = (x \div (m * n)) % b
  <2>1. Power(b)[k + i] = m * n /\ k + i = i + k
    BY PowerSum
  <2> QED BY <2>1 DEF DigitOf
<1> HIDE DEF m, n
<1>3. x \div m \in Int /\ x \div (m * n) = (x \div m) \div n
  BY <1>1, DivideTwice
<1> QED BY <1>2, <1>3 DEF m

\* A negative number not below the negated power has the largest digit there.
LEMMA DigitNegative ==
  ASSUME NEW b \in Nat, b >= 2, NEW i \in Nat, NEW x \in Int, x < 0, -Power(b)[i] <= x
  PROVE  DigitOf(b, x, i) = b - 1
<1> DEFINE m == Power(b)[i]
           r == x + m
<1>1. m \in Nat /\ m > 0
  BY PowerIs
<1>2. DigitOf(b, x, i) = (x \div m) % b /\ -m <= x
  BY DEF DigitOf
<1> HIDE DEF m
<1>3. r \in 0 .. m - 1 /\ -1 \in Int /\ x = (-1) * m + r
  BY <1>1, <1>2
<1> HIDE DEF r
<1>4. x \div m = -1
  BY <1>1, <1>3, DivisionUnique
<1>5. (-1) % b = b - 1
  <2>1. -1 = (-1) * b + (b - 1) /\ b - 1 \in 0 .. b - 1 /\ b > 0
    OBVIOUS
  <2> QED BY <2>1, DivisionUnique
<1> QED BY <1>2, <1>4, <1>5

\* Replacing n digits from position m on by those of v.
LEMMA DigitsReplaced ==
  ASSUME NEW b \in Nat, b >= 2, NEW c \in Int, NEW m \in Nat, NEW n \in Nat,
         NEW v \in 0 .. Power(b)[n] - 1, NEW i \in Nat
  PROVE  DigitOf(b, c + (v - ((c \div Power(b)[m]) % Power(b)[n])) * Power(b)[m], i)
           = IF i >= m /\ i < m + n THEN DigitOf(b, v, i - m) ELSE DigitOf(b, c, i)
<1> DEFINE A == Power(b)[m]
           B == Power(b)[n]
           q == c \div A
           t == q \div B
           d == q % B
           e == v - d
           w == c + e * A
<1>1. A \in Nat /\ A > 0 /\ B \in Nat /\ B > 0
  BY PowerIs
<1>2. q \in Int /\ v \in Int /\ 0 <= v /\ v < B
  BY <1>1
<1>3. t \in Int /\ d \in Int /\ q = t * B + d /\ e \in Int /\ w \in Int
  BY <1>1, <1>2
<1>4. CASE i < m
  <2> HIDE DEF e
  <2>1. DigitOf(b, w, i) = DigitOf(b, c, i)
    BY <1>3, <1>4, DigitKept
  <2> QED BY <1>4, <2>1 DEF e
<1>5. CASE i >= m
  <2> DEFINE j == i - m
             u == v + t * B
  <2>1. j \in Nat /\ j + m = i
    BY <1>5
  <2>2. w \div A = u
    <3> HIDE DEF e, t, d
    <3>1. w \div A = q + e
      BY <1>1, <1>3, DivideSum
    <3>2. q + e = u
      <4>1. t * B \in Int
        BY <1>1, <1>3
      <4> QED BY <1>2, <1>3, <4>1 DEF e
    <3> QED BY <3>1, <3>2
  <2> HIDE DEF j
  <2>3. DigitOf(b, w, i) = DigitOf(b, u, j)
    <3> HIDE DEF w, u
    <3>1. DigitOf(b, w \div A, j) = DigitOf(b, w, j + m)
      BY <1>3, <2>1, DigitOfQuotient
    <3> QED BY <2>1, <2>2, <3>1
  <2>4. DigitOf(b, c, i) = DigitOf(b, q, j)
    <3>1. DigitOf(b, c \div A, j) = DigitOf(b, c, j + m)
      BY <2>1, DigitOfQuotient
    <3> QED BY <2>1, <3>1
  <2>5. CASE j < n
    <3> HIDE DEF t
    <3>1. DigitOf(b, u, j) = DigitOf(b, v, j)
      BY <1>2, <1>3, <2>1, <2>5, DigitKept
    <3> QED BY <1>5, <2>1, <2>3, <2>5, <3>1 DEF j
  <2>6. CASE j >= n
    <3> DEFINE k == j - n
    <3>1. k \in Nat /\ k + n = j
      BY <2>1, <2>6
    <3> HIDE DEF k
    <3>2. u \div B = t
      <4>1. v \in 0 .. B - 1
        BY <1>1, <1>2
      <4>2. u = t * B + v /\ u \in Int
        <5> HIDE DEF t
        <5> QED BY <1>1, <1>2, <1>3
      <4> HIDE DEF u, t, B
      <4> QED BY <1>1, <1>3, <4>1, <4>2, DivisionUnique
    <3>3. u \in Int
      BY <1>1, <1>2, <1>3
    <3> HIDE DEF u
    <3>4. DigitOf(b, u \div B, k) = DigitOf(b, u, k + n)
      BY <3>1, <3>3, DigitOfQuotient
    <3>5. DigitOf(b, q \div B, k) = DigitOf(b, q, k + n)
      <4> HIDE DEF q
      <4> QED BY <1>2, <3>1, DigitOfQuotient
    <3>6. DigitOf(b, u, j) = DigitOf(b, q, j)
      BY <3>1, <3>2, <3>4, <3>5
    <3>7. ~(i < m + n)
      BY <2>1, <2>6
    <3> QED BY <1>5, <2>3, <2>4, <3>6, <3>7
  <2> QED BY <2>1, <2>5, <2>6
<1> QED BY <1>4, <1>5

\* The four lowest digits, as numbers of one, two and four digits.
LEMMA LowestDigits ==
  ASSUME NEW b \in Nat, b >= 2, NEW x \in Int
  PROVE  LET d(i) == DigitOf(b, x, i)
             p(i) == Power(b)[i]
         IN  /\ x % p(1) = d(0)
             /\ x % p(2) = d(0) + d(1) * p(1)
             /\ x % p(4) = d(0) + d(1) * p(1) + d(2) * p(2) + d(3) * p(3)
<1> DEFINE P == Power(b)
           d(i) == DigitOf(b, x, i)
           r(i) == x % P[i]
<1>1. P[0] = 1 /\ \A i \in Nat : P[i] \in Nat /\ P[i] >= 1
  BY PowerIs
<1>2. \A i \in Nat : d(i) \in Int /\ r(i + 1) = r(i) + d(i) * P[i]
  <2> TAKE i \in Nat
  <2>1. d(i) \in 0 .. b - 1 /\ x % P[i + 1] = (x % P[i]) + d(i) * P[i]
    BY DigitSplit
  <2> QED BY <2>1
<1>3. r(0) = 0
  BY <1>1
<1> HIDE DEF P, d, r
<1>4. r(0 + 1) = r(0) + d(0) * P[0] /\ r(1 + 1) = r(1) + d(1) * P[1]
      /\ r(2 + 1) = r(2) + d(2) * P[2] /\ r(3 + 1) = r(3) + d(3) * P[3]
  BY <1>2
<1>5. d(0) \in Int /\ d(1) \in Int /\ d(2) \in Int /\ d(3) \in Int
      /\ P[1] \in Int /\ P[2] \in Int /\ P[3] \in Int
  BY <1>1, <1>2
<1> DEFINE y(i) == d(i) * P[i]
<1>6. y(1) \in Int /\ y(2) \in Int /\ y(3) \in Int /\ y(0) = d(0)
  BY <1>1, <1>5
<1>7. r(1) = r(0) + y(0) /\ r(2) = r(1) + y(1) /\ r(3) = r(2) + y(2) /\ r(4) = r(3) + y(3)
  BY <1>4
<1> HIDE DEF y
<1>8. r(1) = d(0) /\ r(2) = d(0) + y(1) /\ r(4) = d(0) + y(1) + y(2) + y(3)
  BY <1>3, <1>5, <1>6, <1>7
<1> QED BY <1>8 DEF y, r, d, P

-----------------------------------------------------------------------------
(* Words                                                                   *)

\* What a register holds as long as no error return was mixed by XOR.
Register == -(2^(W - 1)) .. 2^W - 1

\* The powers of two that a word is made of, for the sizes that W may have.
LEMMA Powers ==
  /\ 2^W \in Nat /\ 2^(W - 1) \in Nat /\ 2^(W - 1) >= 1
  /\ 2^W = 2 * 2^(W - 1)
<1>1. W \in 1 .. 32 /\ W - 1 \in 0 .. 32 /\ W \in 0 .. 32 /\ W - 1 \in Nat /\ (W - 1) + 1 = W
  BY AluAssumption
<1>2. 2^W = Power(2)[W] /\ 2^(W - 1) = Power(2)[W - 1]
  BY <1>1, PowersOfTwo
<1>3. /\ Power(2)[W - 1] \in Nat /\ Power(2)[W - 1] >= 1 /\ Power(2)[(W - 1) + 1] = 2 * Power(2)[W - 1]
      /\ Power(2)[W] \in Nat
  BY <1>1, PowerIs
<1> QED BY <1>1, <1>2, <1>3

\* signed32, the mask: what they make of a register, whether it holds a word
\* or an error return.
LEMMA RegisterIs ==
  ASSUME NEW x \in Register
  PROVE  /\ x \in Int /\ Masked(x) \in Word /\ signed32(x) \in -(2^(W - 1)) .. 2^(W - 1) - 1
         /\ Masked(x) = IF x < 0 THEN x + 2^W ELSE x
         /\ signed32(x) = IF x < 2^(W - 1) THEN x ELSE x - 2^W
         /\ Signed(Masked(x)) = signed32(x)
         /\ signed32(x) = Masked(x) \/ signed32(x) = Masked(x) - 2^W
<1> DEFINE N == 2^W
           H == 2^(W - 1)
<1>1. N \in Nat /\ H \in Nat /\ H >= 1 /\ N = 2 * H /\ x \in Int /\ -H <= x /\ x < N
  BY Powers DEF Register
<1>2. Word = 0 .. N - 1 /\ Masked(x) = x % N /\ signed32(x) = (IF x < H THEN x ELSE x - N)
  BY DEF Word, Masked, signed32
<1>3. \A v : Signed(v) = (IF (v \div H) % 2 = 1 THEN v - N ELSE v)
  BY DEF Signed, Bit
<1> HIDE DEF N, H
<1>4. x % N = IF x < 0 THEN x + N ELSE x
  BY <1>1
<1>5. \A v \in Int : 0 <= v /\ v < N => (v \div H) % 2 = IF v < H THEN 0 ELSE 1
  BY <1>1
<1>6. Masked(x) \in Int /\ 0 <= Masked(x) /\ Masked(x) < N
  BY <1>1, <1>2, <1>4
<1>7. Signed(Masked(x)) = IF Masked(x) < H THEN Masked(x) ELSE Masked(x) - N
  BY <1>3, <1>5, <1>6
<1>8. /\ Masked(x) \in Word /\ signed32(x) \in -H .. H - 1
      /\ Masked(x) = IF x < 0 THEN x + N ELSE x
      /\ Signed(Masked(x)) = signed32(x)
      /\ signed32(x) = Masked(x) \/ signed32(x) = Masked(x) - N
  BY <1>1, <1>2, <1>4, <1>6, <1>7
<1> QED BY <1>1, <1>2, <1>8 DEF N, H

\* Signed: a word is determined by its signed value.
LEMMA WordIs ==
  ASSUME NEW v \in Word
  PROVE  v \in Register /\ Masked(v) = v /\ Signed(v) \in Register /\ Masked(Signed(v)) = v
<1>1. 2^W \in Nat /\ 2^(W - 1) \in Nat /\ 2^(W - 1) >= 1 /\ 2^W = 2 * 2^(W - 1)
  BY Powers
<1>2. v \in Register /\ v \in Int /\ v >= 0
  BY <1>1 DEF Word, Register
<1>3. Masked(v) = v
  BY <1>2, RegisterIs
<1>4. Signed(v) = signed32(v) /\ Signed(v) \in Register /\ Signed(v) < 2^(W - 1)
  BY <1>1, <1>2, <1>3, RegisterIs DEF Register
<1>5. Signed(v) = v \/ Signed(v) = v - 2^W
  BY <1>2, <1>3, <1>4, RegisterIs
<1>6. Masked(Signed(v)) = IF Signed(v) < 0 THEN Signed(v) + 2^W ELSE Signed(v)
  BY <1>4, RegisterIs
<1>7. v < 2^W
  BY <1>1 DEF Word
<1> QED BY <1>1, <1>2, <1>3, <1>4, <1>5, <1>6, <1>7

\* Meaning: it is the only word that an instruction may give.
LEMMA MeaningIs ==
  ASSUME NEW f \in Rtypes, NEW x \in Word, NEW y \in Word, NEW z \in Word,
         Means(f[1], f[2], x, y, z), \A v \in Word : Means(f[1], f[2], x, y, v) => v = z
  PROVE  Meaning[<<f, x, y>>] = z
<1>1. Meaning[<<f, x, y>>] = CHOOSE v \in Word : Means(f[1], f[2], x, y, v)
  BY DEF Meaning
<1> QED BY <1>1

\* MULH, MULHSU: the high word of a product that fits two words.
LEMMA HighIs ==
  ASSUME NEW p \in Int, -(2^(W - 1) * 2^W) <= p, p < 2^(W - 1) * 2^W
  PROVE  /\ Masked(p \div 2^W) \in Word
         /\ High(Signed(Masked(p \div 2^W)), p)
         /\ \A v \in Word : High(Signed(v), p) => v = Masked(p \div 2^W)
<1> DEFINE N == 2^W
           H == 2^(W - 1)
           q == p \div N
           r == p % N
<1>1. N \in Nat /\ N > 0 /\ H \in Nat /\ H >= 1 /\ N = 2 * H /\ -(H * N) <= p /\ p < H * N
  BY Powers
<1>2. Word = 0 .. N - 1 /\ Register = -H .. N - 1
  BY DEF Word, Register
<1>3. \A z : High(z, p) <=> \E low \in 0 .. N - 1 : p = z * N + low
  BY DEF High, Word
<1>4. \A x : signed32(x) = (IF x < H THEN x ELSE x - N)
  BY DEF signed32
<1> HIDE DEF N, H
<1>5. q \in Int /\ r \in 0 .. N - 1 /\ p = q * N + r
  BY <1>1
<1> HIDE DEF q, r
<1>6. q >= -H
  <2> SUFFICES ASSUME q <= -H - 1 PROVE FALSE
    BY <1>1, <1>5
  <2>1. q * N <= (-H - 1) * N
    BY <1>1, <1>5
  <2>2. (-H - 1) * N = -(H * N) - N
    BY <1>1
  <2>3. H * N \in Int /\ q * N \in Int
    BY <1>1, <1>5
  <2> QED BY <1>1, <1>5, <2>1, <2>2, <2>3
<1>7. q < H
  <2> SUFFICES ASSUME q >= H PROVE FALSE
    BY <1>1, <1>5
  <2>1. q * N >= H * N
    BY <1>1, <1>5
  <2>3. H * N \in Int /\ q * N \in Int
    BY <1>1, <1>5
  <2> QED BY <1>1, <1>5, <2>1, <2>3
<1>8. q \in Register /\ signed32(q) = q
  BY <1>1, <1>2, <1>4, <1>5, <1>6, <1>7
<1>9. Masked(q) \in Word /\ Signed(Masked(q)) = q
  BY <1>8, RegisterIs
<1>10. High(q, p)
  BY <1>3, <1>5
<1>11. ASSUME NEW v \in Word, High(Signed(v), p)
       PROVE  v = Masked(q)
  <2>1. PICK low \in 0 .. N - 1 : p = Signed(v) * N + low
    BY <1>3, <1>11
  <2>2. Signed(v) \in Register /\ Masked(Signed(v)) = v
    BY WordIs
  <2>3. Signed(v) \in Int
    BY <1>1, <1>2, <2>2
  <2>4. p \div N = Signed(v)
    BY <1>1, <2>1, <2>3, DivisionUnique
  <2> QED BY <2>2, <2>4 DEF q
<1> QED BY <1>9, <1>10, <1>11 DEF q, N

\* DIVU, REMU: rounding towards zero is Python's // where nothing is negative.
LEMMA TruncatesIs ==
  ASSUME NEW a \in Nat, NEW b \in Nat, b > 0
  PROVE  /\ a \div b \in 0 .. a /\ Truncates(a \div b, a, b)
         /\ \A v \in Nat : Truncates(v, a, b) => v = a \div b
         /\ a - (a \div b) * b = a % b /\ a % b \in 0 .. a
<1> DEFINE q == a \div b
           r == a % b
<1>1. q \in Int /\ r \in 0 .. b - 1 /\ a = q * b + r
  OBVIOUS
<1> HIDE DEF q, r
<1>2. q >= 0
  <2> SUFFICES ASSUME q <= -1 PROVE FALSE
    BY <1>1
  <2>1. q * b <= -b
    BY <1>1
  <2> QED BY <1>1, <2>1
<1>3. q * b >= q
  BY <1>1, <1>2
<1>4. q \in 0 .. a /\ r \in 0 .. a /\ a - q * b = r
  BY <1>1, <1>2, <1>3
<1>5. Truncates(q, a, b)
  <2>1. r * a >= 0
    BY <1>1
  <2> QED BY <1>1, <1>4, <2>1 DEF Truncates, Abs
<1>6. ASSUME NEW v \in Nat, Truncates(v, a, b)
      PROVE  v = q
  <2> DEFINE s == a - v * b
  <2>1. s \in Int /\ a = v * b + s
    OBVIOUS
  <2>2. Abs(s) < Abs(b) /\ s * a >= 0
    BY <1>6 DEF Truncates
  <2> HIDE DEF s
  <2>3. s < b /\ -s < b
    BY <2>1, <2>2 DEF Abs
  <2>4. s >= 0
    <3> SUFFICES ASSUME s <= -1 PROVE FALSE
      BY <2>1
    <3>1. CASE a = 0
      <4>1. v * b = -s
        BY <2>1, <3>1
      <4>2. v >= 1 => v * b >= b
        OBVIOUS
      <4>3. v = 0 => v * b = 0
        OBVIOUS
      <4> QED BY <2>1, <2>3, <4>1, <4>2, <4>3
    <3>2. CASE a >= 1
      <4>1. s * a <= -a
        BY <2>1, <3>2
      <4> QED BY <2>1, <2>2, <3>2, <4>1
    <3> QED BY <3>1, <3>2
  <2>5. s \in 0 .. b - 1
    BY <2>1, <2>3, <2>4
  <2>6. a \div b = v
    BY <2>1, <2>5, DivisionUnique
  <2> QED BY <2>6 DEF q
<1> QED BY <1>4, <1>5, <1>6 DEF q, r

-----------------------------------------------------------------------------
(* Bits                                                                    *)

\* Bit: it is a digit to the base 2.
LEMMA BitIs ==
  ASSUME NEW i \in 0 .. W
  PROVE  /\ i \in Nat /\ 2^i = Power(2)[i] /\ 2^i \in Nat /\ 2^i >= 1
         /\ \A x : Bit(x, i) = DigitOf(2, x, i)
         /\ \A x \in Int : Bit(x, i) \in {0, 1}
<1>1. i \in Nat /\ i \in 0 .. 32
  BY AluAssumption
<1>2. 2^i = Power(2)[i]
  BY <1>1, PowersOfTwo
<1>3. Power(2)[i] \in Nat /\ Power(2)[i] >= 1
  BY <1>1, PowerIs
<1>4. \A x : Bit(x, i) = DigitOf(2, x, i)
  BY <1>2 DEF Bit, DigitOf
<1>5. \A x \in Int : DigitOf(2, x, i) \in {0, 1}
  BY <1>3 DEF DigitOf
<1>6. \A x \in Int : Bit(x, i) \in {0, 1}
  BY <1>4, <1>5
<1> QED BY <1>1, <1>2, <1>3, <1>4, <1>6

\* Masked: it keeps the bits of a word.
LEMMA MaskedBits ==
  ASSUME NEW x \in Int, NEW i \in 0 .. W - 1
  PROVE  Masked(x) \in Word /\ Bit(Masked(x), i) = Bit(x, i)
<1>1. W \in Nat /\ W \in 0 .. W /\ i \in 0 .. W /\ i \in Nat /\ i < W
  BY AluAssumption
<1>2. Masked(x) = x % Power(2)[W] /\ 2^W = Power(2)[W] /\ 2^W \in Nat /\ 2^W >= 1
  BY <1>1, BitIs DEF Masked
<1>3. DigitOf(2, x % Power(2)[W], i) = DigitOf(2, x, i)
  BY <1>1, DigitOfRemainder
<1>4. Masked(x) \in Word
  BY <1>2 DEF Word, Masked
<1> QED BY <1>1, <1>2, <1>3, <1>4, BitIs

\* Bit: a word is determined by its bits.
LEMMA BitsDetermine ==
  ASSUME NEW u \in Word, NEW v \in Word, \A i \in 0 .. W - 1 : Bit(u, i) = Bit(v, i)
  PROVE  u = v
<1>1. W \in Nat /\ W \in 0 .. W /\ \A i \in 0 .. W - 1 : i \in 0 .. W
  BY AluAssumption
<1>2. 2^W = Power(2)[W] /\ 2^W \in Nat /\ 2^W >= 1
  BY <1>1, BitIs
<1>3. \A i \in 0 .. W - 1 : DigitOf(2, u, i) = DigitOf(2, v, i)
  BY <1>1, BitIs
<1>4. u \in Int /\ v \in Int
  BY <1>2 DEF Word
<1>5. u % Power(2)[W] = v % Power(2)[W]
  BY <1>1, <1>3, <1>4, SameDigits
<1>6. Masked(u) = Masked(v)
  BY <1>2, <1>5 DEF Masked
<1> QED BY <1>6, WordIs

\* Meaning: of an instruction that is defined bit by bit.
LEMMA BitwiseMeaning ==
  ASSUME NEW f \in Rtypes, NEW a \in Word, NEW b \in Word, NEW d, NEW v \in Int,
         \A z \in Word : Means(f[1], f[2], a, b, z) <=> \A i \in 0 .. W - 1 : Bit(z, i) = d[i],
         \A i \in 0 .. W - 1 : Bit(v, i) = d[i]
  PROVE  Masked(v) \in Word /\ Meaning[<<f, a, b>>] = Masked(v)
<1>1. 0 \in 0 .. W - 1
  BY AluAssumption
<1>2. Masked(v) \in Word /\ \A i \in 0 .. W - 1 : Bit(Masked(v), i) = d[i]
  BY <1>1, MaskedBits
<1>3. Means(f[1], f[2], a, b, Masked(v))
  BY <1>2
<1>4. ASSUME NEW z \in Word, Means(f[1], f[2], a, b, z) PROVE z = Masked(v)
  BY <1>2, <1>4, BitsDetermine
<1> QED BY <1>2, <1>3, <1>4, MeaningIs

\* The low bits of a register that count in a shift are those of its word.
LEMMA ShiftAmount ==
  ASSUME NEW y \in Register
  PROVE  y % W \in 0 .. W - 1 /\ Masked(y) % W = y % W
<1>1. W \in Nat /\ W > 0 /\ y \in Int /\ Masked(y) = IF y < 0 THEN y + 2^W ELSE y
  BY AluAssumption, RegisterIs
<1>2. y % W \in 0 .. W - 1
  BY <1>1
<1>3. \E k \in Nat : 2^W = k * W
  <2>1. CASE W = 1
    <3>1. 2^1 = 2 * 1
      OBVIOUS
    <3> QED BY <2>1, <3>1
  <2>2. CASE W = 2
    <3>1. 2^2 = 2 * 2
      OBVIOUS
    <3> QED BY <2>2, <3>1
  <2>3. CASE W = 4
    <3>1. 2^4 = 4 * 4
      OBVIOUS
    <3> QED BY <2>3, <3>1
  <2>4. CASE W = 8
    <3>1. 2^8 = 32 * 8
      BY SMT
    <3> QED BY <2>4, <3>1, SMT
  <2>5. CASE W = 16
    <3>1. 2^16 = 4096 * 16
      BY SMT
    <3> QED BY <2>5, <3>1, SMT
  <2>6. CASE W = 32
    <3>1. 2^32 = 134217728 * 32
      BY SMT
    <3> QED BY <2>6, <3>1, SMT
  <2> QED BY <2>1, <2>2, <2>3, <2>4, <2>5, <2>6, AluAssumption
<1>4. PICK k \in Nat : 2^W = k * W
  BY <1>3
<1>5. (y + k * W) % W = y % W
  <2>1. W \in Nat /\ W > 0 /\ y \in Int /\ k \in Int
    BY <1>1
  <2> QED BY <2>1, DivideSum
<1> QED BY <1>1, <1>2, <1>4, <1>5

\* The sign of a word is its last bit.
LEMMA TopBit ==
  ASSUME NEW v \in Word
  PROVE  Bit(v, W - 1) = IF v < 2^(W - 1) THEN 0 ELSE 1
<1> DEFINE N == 2^W
           H == 2^(W - 1)
<1>1. N \in Nat /\ H \in Nat /\ H >= 1 /\ N = 2 * H
  BY Powers
<1>2. Bit(v, W - 1) = (v \div H) % 2 /\ v \in 0 .. N - 1
  BY DEF Bit, Word
<1> HIDE DEF N, H
<1>3. (v \div H) % 2 = IF v < H THEN 0 ELSE 1
  BY <1>1, <1>2
<1> QED BY <1>2, <1>3 DEF H

\* What Python's bitwise operators may make of two registers.
Wider == -(2^W) .. 2^W - 1

\* Number: every set of bits is that of an integer.
LEMMA NumberIs ==
  ASSUME NEW S \in SUBSET (0 .. W)
  PROVE  Number(S) \in Wider /\ \A i \in 0 .. W : Bit(Number(S), i) = IF i \in S THEN 1 ELSE 0
<1> DEFINE P == Power(2)
           d == [i \in Nat |-> IF i \in S THEN 1 ELSE 0]
<1>1. W \in Nat /\ W \in 0 .. W /\ 2^W = P[W] /\ P[W] \in Nat /\ P[W] >= 1
  BY AluAssumption, BitIs
<1>2. \A i \in 0 .. W : i \in Nat /\ (\A v : Bit(v, i) = DigitOf(2, v, i)) /\ \A v \in Int : Bit(v, i) \in {0, 1}
  BY BitIs
<1>3. \E z \in 0 .. P[W] - 1 : \A i \in 0 .. W - 1 : DigitOf(2, z, i) = d[i]
  <2>1. d \in [Nat -> 0 .. 2 - 1]
    OBVIOUS
  <2> HIDE DEF d
  <2> QED BY <1>1, <2>1, DigitsExist DEF P
<1> HIDE DEF P
<1>4. PICK z \in 0 .. P[W] - 1 : \A i \in 0 .. W - 1 : DigitOf(2, z, i) = d[i]
  BY <1>3
<1> DEFINE x == IF W \in S THEN z + (-1) * P[W] ELSE z
<1>5. z \in Int /\ 0 <= z /\ z < P[W]
  BY <1>1
<1>6. x \in Wider /\ x \in Int /\ (W \in S => x < 0 /\ -P[W] <= x) /\ (W \notin S => x \in 0 .. P[W] - 1)
  BY <1>1, <1>5 DEF Wider
<1>7. ASSUME NEW i \in 0 .. W PROVE Bit(x, i) = IF i \in S THEN 1 ELSE 0
  <2>1. i \in Nat /\ Bit(x, i) = DigitOf(2, x, i) /\ d[i] = IF i \in S THEN 1 ELSE 0
    BY <1>2
  <2>2. CASE i < W
    <3>1. DigitOf(2, z, i) = d[i]
      BY <1>1, <1>4, <2>1, <2>2
    <3>2. DigitOf(2, z + (-1) * P[W], i) = DigitOf(2, z, i)
      BY <1>1, <1>5, <2>1, <2>2, DigitKept DEF P
    <3> QED BY <2>1, <3>1, <3>2
  <2>3. CASE i = W
    <3>1. CASE W \in S
      <4>1. DigitOf(2, x, W) = 2 - 1
        BY <1>1, <1>6, <3>1, DigitNegative DEF P
      <4> QED BY <2>1, <2>3, <3>1, <4>1
    <3>2. CASE W \notin S
      <4>1. DigitOf(2, x, W) = 0
        BY <1>1, <1>6, <3>2, DigitAbove DEF P
      <4> QED BY <2>1, <2>3, <3>2, <4>1
    <3> QED BY <3>1, <3>2
  <2> QED BY <1>1, <2>1, <2>2, <2>3
<1> HIDE DEF x
<1>8. \A v : Bits(v) = {i \in 0 .. W : Bit(v, i) = 1}
  BY DEF Bits, Bit
<1>9. Bits(x) = S
  <2>1. \A i \in 0 .. W : Bit(x, i) = 1 <=> i \in S
    BY <1>7
  <2> QED BY <1>8, <2>1
<1>10. Number(S) \in Wider /\ Bits(Number(S)) = S
  BY <1>6, <1>9 DEF Number, Wider
<1> DEFINE n == Number(S)
<1>11. n \in Int
  BY <1>1, <1>10 DEF Wider
<1> HIDE DEF n
<1>12. ASSUME NEW i \in 0 .. W PROVE Bit(n, i) = IF i \in S THEN 1 ELSE 0
  <2>1. Bit(n, i) \in {0, 1}
    BY <1>2, <1>11
  <2>2. Bit(n, i) = 1 <=> i \in S
    BY <1>8, <1>10 DEF n
  <2> QED BY <2>1, <2>2
<1> QED BY <1>10, <1>12 DEF n

\* Bits: where the sign of an integer shows.
LEMMA SignBits ==
  ASSUME NEW v \in Wider
  PROVE  /\ v \in Int /\ W \in 0 .. W /\ W - 1 \in 0 .. W
         /\ Bit(v, W) = IF v < 0 THEN 1 ELSE 0
         /\ Bit(v, W - 1) = IF v < -(2^(W - 1)) \/ (0 <= v /\ v < 2^(W - 1)) THEN 0 ELSE 1
<1> DEFINE N == 2^W
           H == 2^(W - 1)
<1>1. W \in Nat /\ W \in 0 .. W /\ W - 1 \in 0 .. W - 1 /\ W - 1 \in 0 .. W
  BY AluAssumption
<1>2. N \in Nat /\ H \in Nat /\ H >= 1 /\ N = 2 * H /\ N = Power(2)[W] /\ v \in Int /\ -N <= v /\ v < N
  BY <1>1, Powers, BitIs DEF Wider
<1>3. Bit(v, W) = DigitOf(2, v, W)
  BY <1>1, BitIs
<1>4. Masked(v) \in Word /\ Bit(Masked(v), W - 1) = Bit(v, W - 1)
  BY <1>1, <1>2, MaskedBits
<1>5. Bit(Masked(v), W - 1) = IF Masked(v) < H THEN 0 ELSE 1
  BY <1>4, TopBit
<1>6. Masked(v) = v % N
  BY DEF Masked
<1> HIDE DEF N, H
<1>7. v % N = IF v < 0 THEN v + N ELSE v
  BY <1>2
<1>8. Bit(v, W) = IF v < 0 THEN 1 ELSE 0
  <2>1. CASE v < 0
    <3>1. DigitOf(2, v, W) = 2 - 1
      BY <1>1, <1>2, <2>1, DigitNegative
    <3> QED BY <1>3, <2>1, <3>1
  <2>2. CASE v >= 0
    <3>0. v \in 0 .. Power(2)[W] - 1
      BY <1>2, <2>2
    <3>1. DigitOf(2, v, W) = 0
      BY <1>1, <3>0, DigitAbove
    <3> QED BY <1>2, <1>3, <2>2, <3>1
  <2> QED BY <1>2, <2>1, <2>2
<1>9. Bit(v, W - 1) = IF v < -H \/ (0 <= v /\ v < H) THEN 0 ELSE 1
  BY <1>2, <1>4, <1>5, <1>6, <1>7
<1> QED BY <1>1, <1>2, <1>8, <1>9 DEF H

-----------------------------------------------------------------------------
(* Division by floats                                                      *)

\* Scale: the quotient of two magnitudes is scaled to all bits of the mantissa.
LEMMA ScaleIs ==
  ASSUME NEW n \in 1 .. 2^(W - 1), NEW d \in 1 .. 2^(W - 1)
  PROVE  /\ n \in Nat /\ d \in Nat /\ Scale(n, d) \in Nat /\ Scale(n, d) >= d
<1> DEFINE P == Power(2)
           M == Mantissa
           fits(e) == P[M - 1] * d <= n * P[e] /\ n * P[e] < P[M] * d
           T == {e \in Nat : P[M - 1] * d <= n * P[e]}
           H == P[W - 1]
           K == P[M - 1]
<1>1. /\ W \in Nat /\ W - 1 \in Nat /\ M \in Nat /\ M - 1 \in Nat /\ (M - 1) + 1 = M /\ W - 1 <= M - 1
      /\ (M - 1) + (W - 1) \in 0 .. M + W /\ (M - 1) + (W - 1) \in Nat /\ W - 1 \in 0 .. W
  BY AluAssumption
<1>2. /\ P[0] = 1 /\ \A i \in Nat : P[i] \in Nat /\ P[i] >= 1
      /\ \A i \in Nat : P[i + 1] = 2 * P[i]
  BY PowerIs
<1>3. 2^(W - 1) = H
  BY <1>1, BitIs
<1>4. H <= K
  BY <1>1, PowerGrows
<1>5. P[(M - 1) + (W - 1)] = K * H
  BY <1>1, PowerSum
<1>6. Scale(n, d) = P[CHOOSE e \in 0 .. M + W : fits(e)]
  BY DEF Scale
<1> HIDE DEF P
<1>7. /\ n \in Nat /\ n >= 1 /\ n <= H /\ d \in Nat /\ d >= 1 /\ d <= H
      /\ H \in Nat /\ K \in Nat /\ K >= 1 /\ P[M] = 2 * K
  <2>1. P[(M - 1) + 1] = 2 * K /\ K \in Nat /\ K >= 1 /\ H \in Nat
    BY <1>1, <1>2
  <2> QED BY <1>1, <1>3, <2>1
<1>8. (M - 1) + (W - 1) \in T
  <2> DEFINE L == P[(M - 1) + (W - 1)]
             KH == K * H
  <2>1. K * d <= KH
    BY <1>7
  <2>2. L \in Nat /\ L = KH
    BY <1>1, <1>2, <1>5
  <2> HIDE DEF L, KH
  <2>3. L <= n * L
    BY <1>7, <2>2
  <2>4. K * d \in Int /\ n * L \in Int /\ KH \in Int
    BY <1>7, <2>2
  <2>5. K * d <= n * L
    BY <2>1, <2>2, <2>3, <2>4
  <2> QED BY <1>1, <2>5 DEF L
<1>9. PICK e \in T : \A m \in T : e <= m
  <2>1. T \subseteq Nat /\ T # {}
    BY <1>8
  <2> HIDE DEF T
  <2> QED BY <2>1, LeastElement
<1>10. e \in Nat /\ K * d <= n * P[e] /\ e <= (M - 1) + (W - 1) /\ e \in 0 .. M + W
  BY <1>1, <1>8, <1>9
<1>11. n * P[e] < P[M] * d
  <2>1. CASE e = 0
    <3>1. n * P[e] = n
      BY <1>2, <1>7, <2>1
    <3>2. (2 * K) * d >= 2 * K
      BY <1>7
    <3>3. (2 * K) * d \in Int
      BY <1>7
    <3> QED BY <1>4, <1>7, <3>1, <3>2, <3>3
  <2>2. CASE e > 0
    <3>1. e - 1 \in Nat /\ (e - 1) + 1 = e /\ ~(e <= e - 1)
      BY <1>10, <2>2
    <3>2. e - 1 \notin T
      BY <1>9, <3>1
    <3> DEFINE p == P[e - 1]
    <3>3. p \in Nat /\ P[e] = 2 * p
      BY <1>2, <3>1
    <3>4. ~(K * d <= n * p)
      BY <3>1, <3>2
    <3> HIDE DEF p
    <3>5. n * P[e] = 2 * (n * p) /\ P[M] * d = 2 * (K * d) /\ n * p \in Int /\ K * d \in Int
      BY <1>7, <3>3
    <3> QED BY <3>4, <3>5
  <2> QED BY <1>10, <2>1, <2>2
<1> DEFINE c == CHOOSE i \in 0 .. M + W : fits(i)
<1>12. c \in 0 .. M + W /\ fits(c)
  BY <1>10, <1>11
<1>13. c \in Nat /\ K * d <= n * P[c]
  BY <1>1, <1>12
<1> HIDE DEF c
<1> DEFINE s == P[c]
<1>14. s \in Nat /\ K * d <= n * s
  BY <1>2, <1>13
<1> HIDE DEF s
<1>15. s >= d
  <2> SUFFICES ASSUME s <= d - 1 PROVE FALSE
    BY <1>7, <1>14
  <2>1. n * s <= K * s
    <3>1. n <= K
      BY <1>4, <1>7
    <3> QED BY <1>7, <1>14, <3>1
  <2>2. K * s <= K * (d - 1)
    BY <1>7, <1>14
  <2>3. K * (d - 1) = K * d - K
    BY <1>7
  <2>4. K * d \in Int /\ K * s \in Int /\ n * s \in Int
    BY <1>7, <1>14
  <2> QED BY <1>7, <1>14, <2>1, <2>2, <2>3, <2>4
<1> QED BY <1>6, <1>7, <1>14, <1>15 DEF s, c

\* int(dividend / divisor): rounding the quotient to a float never takes it to
\* the next integer.
LEMMA RoundedIs ==
  ASSUME NEW n \in 1 .. 2^(W - 1), NEW d \in 1 .. 2^(W - 1)
  PROVE  Rounded(n, d) = n \div d
<1> DEFINE s == Scale(n, d)
           k == n \div d
           t == n % d
           u == t * s
           j == u \div d
           r == u % d
           m == n * s
           up == 2 * (m % d) > d \/ (2 * (m % d) = d /\ (m \div d) % 2 = 1)
           g == IF up THEN j + 1 ELSE j
<1>1. Rounded(n, d) = (IF up THEN (m \div d) + 1 ELSE m \div d) \div s
  BY DEF Rounded
<1>2. n \in Nat /\ d \in Nat /\ d > 0 /\ s \in Nat /\ s >= d
  BY ScaleIs, Powers
<1> HIDE DEF s
<1>3. k \in Int /\ t \in 0 .. d - 1 /\ n = k * d + t
  BY <1>2
<1> HIDE DEF k, t
<1>4. u \in Int /\ m \in Int
  BY <1>2, <1>3
<1>5. m = u + (k * s) * d
  <2>1. (k * d + t) * s = t * s + (k * s) * d
    BY <1>2, <1>3
  <2> QED BY <1>3, <2>1
<1>6. 0 <= u /\ u <= d * s - s
  <2>1. 0 <= t * s
    BY <1>2, <1>3
  <2>2. t * s <= (d - 1) * s
    BY <1>2, <1>3
  <2>3. (d - 1) * s = d * s - s
    BY <1>2
  <2> QED BY <2>1, <2>2, <2>3
<1> DEFINE ks == k * s
           ds == d * s
<1>7. ks \in Int /\ ds \in Int /\ m = u + ks * d /\ u <= ds - s
  BY <1>2, <1>3, <1>5, <1>6
<1> HIDE DEF u, m, ks, ds
<1>8. j \in Int /\ r \in 0 .. d - 1 /\ u = j * d + r
  BY <1>2, <1>4
<1>9. m \div d = j + ks /\ m % d = r
  BY <1>2, <1>4, <1>7, DivideSum
<1> HIDE DEF j, r
<1>10. j >= 0
  <2> SUFFICES ASSUME j <= -1 PROVE FALSE
    BY <1>8
  <2>1. j * d <= -d
    BY <1>2, <1>8
  <2>2. j * d \in Int
    BY <1>2, <1>8
  <2> QED BY <1>2, <1>4, <1>6, <1>8, <2>1, <2>2
<1>11. j <= s - 1 /\ (up => j <= s - 2)
  <2>1. up => r >= 1
    BY <1>2, <1>8, <1>9
  <2>2. ASSUME j >= s - 1 PROVE j = s - 1 /\ r = 0
    <3>1. j * d >= (s - 1) * d
      BY <1>2, <1>8, <2>2
    <3>2. (s - 1) * d = ds - d
      BY <1>2 DEF ds
    <3>3. j * d \in Int
      BY <1>2, <1>8
    <3>4. r <= 0
      BY <1>2, <1>4, <1>7, <1>8, <3>1, <3>2, <3>3
    <3>5. j < s
      <4> SUFFICES ASSUME j >= s PROVE FALSE
        BY <1>2, <1>8
      <4>1. j * d >= s * d
        BY <1>2, <1>8
      <4>2. s * d = ds
        BY <1>2 DEF ds
      <4> QED BY <1>2, <1>4, <1>7, <1>8, <3>3, <4>1, <4>2
    <3> QED BY <1>2, <1>8, <2>2, <3>4, <3>5
  <2> HIDE DEF up
  <2> QED BY <1>2, <1>8, <2>1, <2>2
<1>12. g \in 0 .. s - 1
  <2> HIDE DEF up
  <2> QED BY <1>2, <1>8, <1>10, <1>11
<1>13. (IF up THEN (m \div d) + 1 ELSE m \div d) = k * s + g
  <2> HIDE DEF up
  <2> QED BY <1>7, <1>8, <1>9 DEF ks
<1> HIDE DEF up, g
<1>14. (k * s + g) \div s = k
  <2>1. k * s + g \in Int /\ s > 0 /\ g \in Int
    BY <1>2, <1>3, <1>7, <1>12 DEF ks
  <2> QED BY <1>2, <1>3, <1>12, <2>1, DivisionUnique
<1> QED BY <1>1, <1>13, <1>14 DEF k

\* Truncates: there is one quotient rounded towards zero.
LEMMA TruncatesUnique ==
  ASSUME NEW a \in Int, NEW b \in Int, b # 0, NEW p \in Int, NEW q \in Int,
         Truncates(p, a, b), Truncates(q, a, b)
  PROVE  p = q
<1> DEFINE r == a - p * b
           s == a - q * b
           d == q - p
           db == d * b
<1>1. r \in Int /\ s \in Int /\ d \in Int /\ db \in Int
  OBVIOUS
<1>2. r - s = db
  <2>1. (q - p) * b = q * b - p * b
    OBVIOUS
  <2> QED BY <2>1
<1>3. r * a >= 0 /\ s * a >= 0 /\ Abs(r) < Abs(b) /\ Abs(s) < Abs(b)
  BY DEF Truncates
<1>4. p * b = a - r /\ q * b = a - s
  OBVIOUS
<1> HIDE DEF r, s
<1>5. \A x \in Int : Abs(x * b) >= Abs(b) \/ x = 0
  <2> TAKE x \in Int
  <2>1. b > 0 /\ x >= 1 => x * b >= b
    OBVIOUS
  <2>2. b > 0 /\ x <= -1 => x * b <= -b
    OBVIOUS
  <2>3. b < 0 /\ x >= 1 => x * b <= b
    OBVIOUS
  <2>4. b < 0 /\ x <= -1 => x * b >= -b
    OBVIOUS
  <2>5. x * b \in Int
    OBVIOUS
  <2> DEFINE y == x * b
  <2> HIDE DEF y
  <2>6. /\ b > 0 /\ x >= 1 => y >= b
        /\ b > 0 /\ x <= -1 => y <= -b
        /\ b < 0 /\ x >= 1 => y <= b
        /\ b < 0 /\ x <= -1 => y >= -b
        /\ y \in Int
    BY <2>1, <2>2, <2>3, <2>4, <2>5 DEF y
  <2>7. Abs(y) >= Abs(b) \/ x = 0
    BY <2>6 DEF Abs
  <2> QED BY <2>7 DEF y
<1>6. Abs(db) >= Abs(b) \/ d = 0
  BY <1>1, <1>5
<1> HIDE DEF d, db
<1>7. CASE a = 0
  <2> DEFINE pb == p * b
             qb == q * b
  <2>0. pb \in Int /\ qb \in Int
    OBVIOUS
  <2> HIDE DEF pb, qb
  <2>1. Abs(pb) < Abs(b) /\ Abs(qb) < Abs(b)
    <3>1. pb = -r /\ qb = -s
      BY <1>1, <1>4, <1>7, <2>0 DEF pb, qb
    <3> QED BY <1>1, <1>3, <3>1 DEF Abs
  <2>2. Abs(pb) \in Int /\ Abs(qb) \in Int /\ Abs(b) \in Int
    BY <2>0 DEF Abs
  <2>3. p = 0
    BY <1>5, <2>1, <2>2 DEF pb
  <2>4. q = 0
    BY <1>5, <2>1, <2>2 DEF qb
  <2> QED BY <2>3, <2>4
<1>8. CASE a # 0
  <2>1. a > 0 => r >= 0 /\ s >= 0
    BY <1>1, <1>3
  <2>2. a < 0 => r <= 0 /\ s <= 0
    BY <1>1, <1>3
  <2>3. Abs(db) < Abs(b) /\ Abs(db) \in Int /\ Abs(b) \in Int
    BY <1>1, <1>2, <1>3, <1>8, <2>1, <2>2 DEF Abs
  <2>4. d = 0
    BY <1>6, <2>3
  <2> QED BY <2>4 DEF d
<1> QED BY <1>7, <1>8

\* int(dividend / divisor): it is the quotient rounded towards zero.
LEMMA QuotientIs ==
  ASSUME NEW x \in -(2^(W - 1)) .. 2^(W - 1) - 1, NEW y \in -(2^(W - 1)) .. 2^(W - 1) - 1, y # 0
  PROVE  /\ Quotient(x, y) \in -(2^(W - 1)) .. 2^(W - 1) /\ Truncates(Quotient(x, y), x, y)
         /\ x - Quotient(x, y) * y \in -(2^(W - 1)) .. 2^(W - 1) - 1
<1> DEFINE H == 2^(W - 1)
           a == Abs(x)
           b == Abs(y)
           q == a \div b
           r == a % b
           Q == Quotient(x, y)
<1>1. H \in Nat /\ H >= 1 /\ x \in Int /\ y \in Int /\ -H <= x /\ x < H /\ -H <= y /\ y < H
  BY Powers
<1>2. a = (IF x < 0 THEN -x ELSE x) /\ b = (IF y < 0 THEN -y ELSE y)
  BY DEF Abs
<1>3. Q = IF (x < 0) = (y < 0) THEN IF x = 0 THEN 0 ELSE Rounded(a, b) ELSE -(IF x = 0 THEN 0 ELSE Rounded(a, b))
  BY DEF Quotient
<1>4. x # 0 => Rounded(a, b) = q
  <2> SUFFICES ASSUME x # 0 PROVE Rounded(a, b) = q
    OBVIOUS
  <2>1. a \in 1 .. H /\ b \in 1 .. H
    BY <1>1, <1>2
  <2> QED BY <2>1, RoundedIs
<1> HIDE DEF H, a, b, Q
<1>5. a \in Nat /\ b \in Nat /\ b > 0 /\ a <= H /\ b <= H
  BY <1>1, <1>2
<1>6. q \in 0 .. a /\ r \in 0 .. b - 1 /\ a = q * b + r
  <2>1. q \in 0 .. a
    BY <1>5, TruncatesIs
  <2>2. r \in 0 .. b - 1 /\ a = q * b + r
    BY <1>5
  <2> QED BY <2>1, <2>2
<1>7. x = 0 => q = 0
  BY <1>2, <1>6
<1> HIDE DEF q, r
<1>8. Q = IF (x < 0) = (y < 0) THEN q ELSE -q
  BY <1>3, <1>4, <1>5, <1>6, <1>7
<1>9. Q \in -H .. H
  BY <1>1, <1>5, <1>6, <1>8
<1>10. x - Q * y = IF x < 0 THEN -r ELSE r
  <2>1. CASE x < 0 /\ y < 0
    <3>1. Q = q /\ y = -b /\ x = -a
      BY <1>1, <1>2, <1>8, <2>1
    <3>2. -a - q * (-b) = -(a - q * b)
      BY <1>5, <1>6
    <3> QED BY <1>5, <1>6, <2>1, <3>1, <3>2
  <2>2. CASE x < 0 /\ y >= 0
    <3>1. Q = -q /\ y = b /\ x = -a
      BY <1>1, <1>2, <1>8, <2>2
    <3>2. -a - (-q) * b = -(a - q * b)
      BY <1>5, <1>6
    <3> QED BY <1>5, <1>6, <2>2, <3>1, <3>2
  <2>3. CASE x >= 0 /\ y < 0
    <3>1. Q = -q /\ y = -b /\ x = a
      BY <1>1, <1>2, <1>8, <2>3
    <3>2. a - (-q) * (-b) = a - q * b
      BY <1>5, <1>6
    <3> QED BY <1>1, <1>5, <1>6, <2>3, <3>1, <3>2
  <2>4. CASE x >= 0 /\ y >= 0
    <3>1. Q = q /\ y = b /\ x = a
      BY <1>1, <1>2, <1>8, <2>4
    <3> QED BY <1>1, <1>5, <1>6, <2>4, <3>1
  <2> QED BY <1>1, <2>1, <2>2, <2>3, <2>4
<1> DEFINE t == x - Q * y
<1>11. t = (IF x < 0 THEN -r ELSE r) /\ t \in Int
  BY <1>5, <1>6, <1>10
<1> HIDE DEF t
<1>12. Abs(t) < Abs(y) /\ t \in -H .. H - 1
  BY <1>1, <1>2, <1>5, <1>6, <1>11 DEF Abs
<1>13. t * x >= 0
  <2>1. CASE x < 0
    <3>1. t <= 0
      BY <1>5, <1>6, <1>11, <2>1
    <3> QED BY <1>1, <1>11, <2>1, <3>1
  <2>2. CASE x >= 0
    <3>1. t >= 0
      BY <1>1, <1>5, <1>6, <1>11, <2>2
    <3> QED BY <1>1, <1>11, <2>2, <3>1
  <2> QED BY <1>1, <2>1, <2>2
<1>14. Truncates(Q, x, y)
  BY <1>12, <1>13 DEF Truncates, t
<1> QED BY <1>9, <1>12, <1>14 DEF H, Q, t

-----------------------------------------------------------------------------
(* Instructions                                                            *)

\* ADD, SUB, MUL, MULH, SLT, MULHSU, SLTU, MULHU, DIVU and REMU.
Numeric ==
  {<<0, 0>>, <<32, 0>>, <<1, 0>>, <<1, 1>>, <<0, 2>>, <<1, 2>>, <<0, 3>>, <<1, 3>>, <<1, 5>>, <<1, 7>>}

\* exec_Rtype: what it computes from the integers in its registers is the
\* word that the architecture defines.
LEMMA NumericAgrees ==
  ASSUME NEW f \in Numeric, NEW x \in Register, NEW y \in Register
  PROVE  /\ exec_Rtype(f[2], f[1], x, y) \in Word
         /\ Meaning[<<f, Masked(x), Masked(y)>>] = exec_Rtype(f[2], f[1], x, y)
<1> DEFINE N == 2^W
           H == 2^(W - 1)
           a == Masked(x)
           b == Masked(y)
           sx == signed32(x)
           sy == signed32(y)
<1>1. N \in Nat /\ N > 0 /\ H \in Nat /\ H >= 1 /\ N = 2 * H
  BY Powers
<1>2. Word = 0 .. N - 1 /\ \A u : Masked(u) = u % N
  BY DEF Word, Masked
<1>3. /\ x \in Int /\ a \in Word /\ sx \in -H .. H - 1 /\ Signed(a) = sx
      /\ a = IF x < 0 THEN x + N ELSE x
      /\ sx = a \/ sx = a - N
  BY RegisterIs
<1>4. /\ y \in Int /\ b \in Word /\ sy \in -H .. H - 1 /\ Signed(b) = sy
      /\ b = IF y < 0 THEN y + N ELSE y
      /\ sy = b \/ sy = b - N
  BY RegisterIs
<1>5. ASSUME NEW i \in Int, NEW j \in Int, <<i, j>> \in Rtypes, NEW z \in Word, Means(i, j, a, b, z),
             \A v \in Word : Means(i, j, a, b, v) => v = z, exec_Rtype(j, i, x, y) = z, f = <<i, j>>
      PROVE  /\ exec_Rtype(f[2], f[1], x, y) \in Word
             /\ Meaning[<<f, Masked(x), Masked(y)>>] = exec_Rtype(f[2], f[1], x, y)
  <2>1. f[1] = i /\ f[2] = j /\ f \in Rtypes
    BY <1>5
  <2> HIDE DEF a, b
  <2>2. Meaning[<<f, a, b>>] = z
    BY <1>3, <1>4, <1>5, <2>1, MeaningIs
  <2> QED BY <1>5, <2>1, <2>2 DEF a, b
<1>6. f = <<0, 0>> \/ f = <<32, 0>> \/ f = <<1, 0>> \/ f = <<1, 1>> \/ f = <<0, 2>> \/ f = <<1, 2>>
      \/ f = <<0, 3>> \/ f = <<1, 3>> \/ f = <<1, 5>> \/ f = <<1, 7>>
  BY DEF Numeric
<1>7. \A u \in Int : u % N \in Word
  BY <1>1, <1>2
<1>10. CASE f = <<0, 0>>
  <2> DEFINE z == (x + y) % N
  <2>1. exec_Rtype(0, 0, x, y) = z /\ <<0, 0>> \in Rtypes
    BY <1>2 DEF exec_Rtype, Rtypes
  <2>2. \A v : Means(0, 0, a, b, v) <=> v = (a + b) % N
    BY DEF Means
  <2> HIDE DEF N, H, a, b, sx, sy
  <2>3. \E k \in Int : a + b = (x + y) + k * N
    <3>1. \/ a + b = (x + y) + 0 * N \/ a + b = (x + y) + 1 * N \/ a + b = (x + y) + 2 * N
      BY <1>1, <1>3, <1>4
    <3> QED BY <3>1
  <2>4. (a + b) % N = z
    <3>1. a + b \in Int /\ x + y \in Int
      BY <1>1, <1>2, <1>3, <1>4
    <3> QED BY <1>1, <2>3, <3>1, ModShift
  <2>5. z \in Word
    BY <1>3, <1>4, <1>7
  <2> HIDE DEF z
  <2> QED BY <1>5, <1>10, <2>1, <2>2, <2>4, <2>5
<1>11. CASE f = <<32, 0>>
  <2> DEFINE z == (x - y) % N
             q == (x - y) \div N
  <2>1. exec_Rtype(0, 32, x, y) = z /\ <<32, 0>> \in Rtypes
    BY <1>2 DEF exec_Rtype, Rtypes
  <2>2. \A v : Means(32, 0, a, b, v) <=> (v + b) % N = a
    BY DEF Means
  <2> HIDE DEF N, H, a, b, sx, sy
  <2>3. z \in Word /\ z \in Int /\ q \in Int /\ x - y = q * N + z
    BY <1>1, <1>2, <1>3, <1>4
  <2> HIDE DEF z, q
  <2>4. \E k \in Int : z + b = a + k * N
    <3> DEFINE u == q * N
    <3>1. u \in Int /\ x - y = u + z
      BY <1>1, <2>3
    <3>2. /\ -q \in Int /\ 1 - q \in Int /\ -1 - q \in Int
          /\ (-q) * N = -u /\ (1 - q) * N = N - u /\ (-1 - q) * N = -N - u
      BY <1>1, <2>3
    <3> HIDE DEF u
    <3>3. z + b = a + (-u) \/ z + b = a + (N - u) \/ z + b = a + (-N - u)
      BY <1>1, <1>3, <1>4, <2>3, <3>1
    <3> QED BY <3>2, <3>3
  <2>5. (z + b) % N = a
    <3>1. a \in Int /\ z + b \in Int /\ a % N = a
      BY <1>1, <1>2, <1>3, <1>4, <2>3
    <3> QED BY <1>1, <2>4, <3>1, ModShift
  <2>6. ASSUME NEW v \in Word, (v + b) % N = a
        PROVE  v = z
    <3>1. v + b \in Int /\ z + b \in Int /\ (v + b) - (z + b) < N /\ (z + b) - (v + b) < N
      BY <1>1, <1>2, <1>4, <2>3
    <3>2. v + b = z + b
      BY <1>1, <2>5, <2>6, <3>1, SameResidue
    <3> QED BY <1>2, <1>4, <2>3, <3>2
  <2> QED BY <1>5, <1>11, <2>1, <2>2, <2>3, <2>5, <2>6
<1>12. CASE f = <<1, 0>>
  <2> DEFINE z == (sx * sy) % N
  <2>1. exec_Rtype(0, 1, x, y) = z /\ <<1, 0>> \in Rtypes
    BY <1>2 DEF exec_Rtype, Rtypes
  <2>2. \A v : Means(1, 0, a, b, v) <=> v = (a * b) % N
    BY DEF Means
  <2> HIDE DEF N, H, a, b, sx, sy
  <2>3. a \in Int /\ b \in Int /\ sx \in Int /\ sy \in Int /\ a * b \in Int /\ sx * sy \in Int
    BY <1>1, <1>2, <1>3, <1>4
  <2>4. \E k \in Int : a * b = sx * sy + k * N
    <3>1. \E i \in Int : a = sx + i * N
      <4>1. a = sx + 0 * N \/ a = sx + 1 * N
        BY <1>1, <1>3, <2>3
      <4> QED BY <4>1
    <3>2. \E j \in Int : b = sy + j * N
      <4>1. b = sy + 0 * N \/ b = sy + 1 * N
        BY <1>1, <1>4, <2>3
      <4> QED BY <4>1
    <3>3. PICK i \in Int : a = sx + i * N
      BY <3>1
    <3>4. PICK j \in Int : b = sy + j * N
      BY <3>2
    <3>5. sx * j + i * sy + i * j * N \in Int
      BY <1>1, <2>3
    <3>6. a * b = sx * sy + (sx * j + i * sy + i * j * N) * N
      BY <1>1, <2>3, <3>3, <3>4
    <3> QED BY <3>5, <3>6
  <2>5. (a * b) % N = z
    <3> DEFINE u == a * b
               w == sx * sy
    <3>1. PICK k \in Int : u = w + k * N
      BY <2>4
    <3>2. u \in Int /\ w \in Int
      BY <2>3
    <3> HIDE DEF u, w
    <3>3. u % N = w % N
      BY <1>1, <3>1, <3>2, ModShift
    <3> QED BY <3>3 DEF u, w
  <2>6. z \in Word
    BY <1>7, <2>3
  <2> HIDE DEF z
  <2> QED BY <1>5, <1>12, <2>1, <2>2, <2>5, <2>6
<1>13. CASE f = <<1, 1>>
  <2> DEFINE p == sx * sy
             z == Masked(p \div N)
  <2>1. exec_Rtype(1, 1, x, y) = z /\ <<1, 1>> \in Rtypes
    BY DEF exec_Rtype, Rtypes
  <2>2. \A v : Means(1, 1, a, b, v) <=> High(Signed(v), p)
    BY <1>3, <1>4 DEF Means
  <2>3. p \in Int /\ -(H * N) <= p /\ p < H * N
    <3> HIDE DEF N, H, a, b, sx, sy
    <3>1. sx \in Int /\ sy \in Int /\ -H <= sx /\ sx < H /\ -H <= sy /\ sy < H
      BY <1>1, <1>3, <1>4
    <3>2. -(H * H) <= sx * sy /\ sx * sy <= H * H
      BY <1>1, <3>1, SMTT(20)
    <3>3. H * N = 2 * (H * H) /\ H * H >= 1 /\ H * H \in Int
      BY <1>1
    <3> QED BY <3>1, <3>2, <3>3
  <2>4. z \in Word /\ High(Signed(z), p) /\ \A v \in Word : High(Signed(v), p) => v = z
    BY <2>3, HighIs
  <2> HIDE DEF p, z, N, H, a, b, sx, sy
  <2> QED BY <1>5, <1>13, <2>1, <2>2, <2>4
<1>14. CASE f = <<0, 2>>
  <2> DEFINE z == Truth(sx < sy)
  <2>1. exec_Rtype(2, 0, x, y) = z /\ <<0, 2>> \in Rtypes
    BY DEF exec_Rtype, Rtypes
  <2>2. \A v : Means(0, 2, a, b, v) <=> v = z
    BY <1>3, <1>4 DEF Means
  <2>3. z \in Word
    BY <1>1, <1>2 DEF Truth
  <2> HIDE DEF z, N, H, a, b, sx, sy
  <2> QED BY <1>5, <1>14, <2>1, <2>2, <2>3
<1>15. CASE f = <<1, 2>>
  <2> DEFINE p == sx * b
             z == Masked(p \div N)
  <2>1. exec_Rtype(2, 1, x, y) = z /\ <<1, 2>> \in Rtypes
    BY DEF exec_Rtype, Rtypes
  <2>2. \A v : Means(1, 2, a, b, v) <=> High(Signed(v), p)
    BY <1>3 DEF Means
  <2>3. p \in Int /\ -(H * N) <= p /\ p < H * N
    <3> HIDE DEF N, H, a, b, sx, sy
    <3>1. sx \in Int /\ b \in Int /\ -H <= sx /\ sx <= H - 1 /\ 0 <= b /\ b < N
      BY <1>1, <1>2, <1>3, <1>4
    <3>2. -(H * b) <= sx * b /\ sx * b <= (H - 1) * b
      BY <1>1, <3>1
    <3>3. H * b <= H * N /\ (H - 1) * b <= (H - 1) * N /\ (H - 1) * N = H * N - N
      BY <1>1, <3>1
    <3>4. H * b \in Int /\ H * N \in Int /\ (H - 1) * b \in Int /\ sx * b \in Int
      BY <1>1, <3>1
    <3> QED BY <1>1, <3>2, <3>3, <3>4
  <2>4. z \in Word /\ High(Signed(z), p) /\ \A v \in Word : High(Signed(v), p) => v = z
    BY <2>3, HighIs
  <2> HIDE DEF p, z, N, H, a, b, sx, sy
  <2> QED BY <1>5, <1>15, <2>1, <2>2, <2>4
<1>16. CASE f = <<0, 3>>
  <2> DEFINE z == Truth(a < b)
  <2>1. exec_Rtype(3, 0, x, y) = z /\ <<0, 3>> \in Rtypes
    BY DEF exec_Rtype, Rtypes
  <2>2. \A v : Means(0, 3, a, b, v) <=> v = z
    BY DEF Means
  <2>3. z \in Word
    BY <1>1, <1>2 DEF Truth
  <2> HIDE DEF z, N, H, a, b, sx, sy
  <2> QED BY <1>5, <1>16, <2>1, <2>2, <2>3
<1>17. CASE f = <<1, 3>>
  <2> DEFINE p == a * b
             q == p \div N
             z == Masked(q)
  <2>1. exec_Rtype(3, 1, x, y) = z /\ <<1, 3>> \in Rtypes
    BY DEF exec_Rtype, Rtypes
  <2>2. \A v : Means(1, 3, a, b, v) <=> \E low \in Word : p = v * N + low
    BY DEF Means, High
  <2>3. z = q % N
    BY <1>2
  <2> HIDE DEF N, H, a, b, sx, sy, z
  <2>4. a \in Int /\ b \in Int /\ 0 <= a /\ a <= N - 1 /\ 0 <= b /\ b <= N - 1
    BY <1>1, <1>2, <1>3, <1>4
  <2>5. p \in Int /\ 0 <= p /\ p < N * N
    <3>1. 0 <= a * b /\ a * b <= a * N
      BY <1>1, <2>4
    <3>2. a * N <= (N - 1) * N /\ (N - 1) * N = N * N - N
      BY <1>1, <2>4
    <3>3. a * b \in Int /\ a * N \in Int /\ N * N \in Int
      BY <1>1, <2>4
    <3> QED BY <1>1, <3>1, <3>2, <3>3
  <2> HIDE DEF p
  <2> DEFINE r == p % N
  <2>6. q \in Int /\ r \in 0 .. N - 1 /\ p = q * N + r
    BY <1>1, <2>5
  <2>7. 0 <= q /\ q < N
    <3>1. r \in Int /\ 0 <= r /\ r < N /\ p = q * N + r
      BY <1>1, <2>6
    <3> HIDE DEF q, r
    <3>2. q <= -1 => q * N <= -N
      BY <1>1, <2>6
    <3>3. q >= N => q * N >= N * N
      BY <1>1, <2>6
    <3>4. q * N \in Int /\ N * N \in Int
      BY <1>1, <2>6
    <3> DEFINE u == q * N
               s == N * N
    <3>5. u \in Int /\ s \in Int /\ p = u + r /\ p < s /\ (q <= -1 => u <= -N) /\ (q >= N => u >= s)
      BY <2>5, <3>1, <3>2, <3>3, <3>4
    <3> HIDE DEF u, s
    <3>6. ~(q <= -1) /\ ~(q >= N)
      BY <1>1, <2>5, <3>1, <3>5
    <3> QED BY <1>1, <2>6, <3>6
  <2>8. z = q /\ z \in Word
    <3>1. q \in Int
      BY <2>6
    <3> HIDE DEF q
    <3>2. q % N = q
      BY <1>1, <2>7, <3>1
    <3> QED BY <1>1, <1>2, <2>3, <2>7, <3>1, <3>2
  <2>9. \A v \in Word : (\E low \in Word : p = v * N + low) => v = q
    <3> SUFFICES ASSUME NEW v \in Word, NEW low \in Word, p = v * N + low PROVE v = q
      OBVIOUS
    <3>1. v \in Int /\ low \in 0 .. N - 1
      BY <1>1, <1>2
    <3> QED BY <1>1, <2>5, <3>1, DivisionUnique
  <2> HIDE DEF q, r
  <2>10. \E low \in Word : p = z * N + low
    BY <1>2, <2>6, <2>8
  <2>11. Means(1, 3, a, b, z) /\ \A v \in Word : Means(1, 3, a, b, v) => v = z
    BY <2>2, <2>8, <2>9, <2>10
  <2> QED BY <1>5, <1>17, <2>1, <2>8, <2>11
<1>18. CASE f = <<1, 5>>
  <2> DEFINE z == IF b = 0 THEN N - 1 ELSE a \div b
  <2>1. exec_Rtype(5, 1, x, y) = z /\ <<1, 5>> \in Rtypes
    BY DEF exec_Rtype, Rtypes
  <2>2. \A v : Means(1, 5, a, b, v) <=> IF b = 0 THEN v = N - 1 ELSE Truncates(v, a, b)
    BY DEF Means
  <2> HIDE DEF N, H, a, b, sx, sy
  <2>3. a \in Nat /\ b \in Nat /\ a <= N - 1 /\ \A v \in Word : v \in Nat
    BY <1>1, <1>2, <1>3, <1>4
  <2>4. CASE b = 0
    <3>1. z = N - 1 /\ z \in Word
      BY <1>1, <1>2, <2>4
    <3> HIDE DEF z
    <3> QED BY <1>5, <1>18, <2>1, <2>2, <2>4, <3>1
  <2>5. CASE b # 0
    <3>1. z = a \div b /\ b > 0
      BY <2>3, <2>5
    <3> HIDE DEF z
    <3>2. z \in 0 .. a /\ Truncates(z, a, b) /\ \A v \in Nat : Truncates(v, a, b) => v = z
      BY <2>3, <3>1, TruncatesIs
    <3>3. z \in Word
      BY <1>1, <1>2, <2>3, <3>2
    <3> QED BY <1>5, <1>18, <2>1, <2>2, <2>3, <2>5, <3>2, <3>3
  <2> QED BY <2>4, <2>5
<1>19. CASE f = <<1, 7>>
  <2> DEFINE z == IF b = 0 THEN a ELSE a % b
  <2>1. exec_Rtype(7, 1, x, y) = z /\ <<1, 7>> \in Rtypes
    BY DEF exec_Rtype, Rtypes
  <2>2. \A v : Means(1, 7, a, b, v) <=>
                 IF b = 0 THEN v = a ELSE \E q \in Word : Truncates(q, a, b) /\ v = a - q * b
    BY DEF Means
  <2> HIDE DEF N, H, a, b, sx, sy
  <2>3. a \in Nat /\ b \in Nat /\ a <= N - 1 /\ \A v \in Word : v \in Nat
    BY <1>1, <1>2, <1>3, <1>4
  <2>4. CASE b = 0
    <3>1. z = a
      BY <2>4
    <3> HIDE DEF z
    <3> QED BY <1>3, <1>5, <1>19, <2>1, <2>2, <2>4, <3>1
  <2>5. CASE b # 0
    <3> DEFINE d == a \div b
    <3>1. z = a % b /\ b > 0
      BY <2>3, <2>5
    <3> HIDE DEF z
    <3>2. /\ d \in 0 .. a /\ Truncates(d, a, b) /\ \A v \in Nat : Truncates(v, a, b) => v = d
          /\ z = a - d * b /\ z \in 0 .. a
      BY <2>3, <3>1, TruncatesIs
    <3> HIDE DEF d
    <3>3. z \in Word /\ d \in Word
      BY <1>1, <1>2, <2>3, <3>2
    <3>4. Means(1, 7, a, b, z) /\ \A v \in Word : Means(1, 7, a, b, v) => v = z
      BY <2>2, <2>3, <2>5, <3>2, <3>3
    <3> QED BY <1>5, <1>19, <2>1, <3>3, <3>4
  <2> QED BY <2>4, <2>5
<1> QED BY <1>6, <1>10, <1>11, <1>12, <1>13, <1>14, <1>15, <1>16, <1>17, <1>18, <1>19

\* SLL, SRL and SRA.
Shifts == {<<0, 1>>, <<0, 5>>, <<32, 5>>}

\* exec_Rtype: a shift moves the bits as the architecture defines, by the
\* amount in the low bits of the second register.
LEMMA ShiftAgrees ==
  ASSUME NEW f \in Shifts, NEW x \in Register, NEW y \in Register
  PROVE  /\ exec_Rtype(f[2], f[1], x, y) \in Word
         /\ Meaning[<<f, Masked(x), Masked(y)>>] = exec_Rtype(f[2], f[1], x, y)
<1> DEFINE a == Masked(x)
           b == Masked(y)
           k == y % W
           s == signed32(x)
           P == Power(2)
<1>1. /\ x \in Int /\ a \in Word /\ b \in Word /\ a \in Int
      /\ s \in -(2^(W - 1)) .. 2^(W - 1) - 1 /\ s \in Int /\ Signed(a) = s /\ Masked(s) = a
  <2>1. x \in Int /\ a \in Word /\ b \in Word /\ s \in -(2^(W - 1)) .. 2^(W - 1) - 1 /\ Signed(a) = s
    BY RegisterIs
  <2>2. Masked(Signed(a)) = a
    BY <2>1, WordIs
  <2>3. a \in Int /\ s \in Int
    BY <2>1, Powers DEF Word
  <2> QED BY <2>1, <2>2, <2>3
<1>2. W \in Nat /\ W >= 1 /\ k \in 0 .. W - 1 /\ k \in Nat /\ b % W = k
  BY AluAssumption, ShiftAmount
<1>3. \A i \in 0 .. W : i \in Nat /\ 2^i = P[i] /\ \A z : Bit(z, i) = DigitOf(2, z, i)
  BY BitIs
<1>4. 2^k = P[k] /\ P[k] \in Nat /\ P[k] >= 1 /\ 2^W = P[W] /\ P[W] \in Nat
  BY <1>2, <1>3, PowerIs
<1>5. ASSUME NEW i \in 0 .. W - 1
      PROVE  i \in Nat /\ Bit(a, i) = Bit(x, i) /\ Bit(s, i) = Bit(a, i)
  BY <1>1, MaskedBits
<1>6. \/ f[1] = 0 /\ f[2] = 1
      \/ f[1] = 0 /\ f[2] = 5
      \/ f[1] = 32 /\ f[2] = 5
  BY DEF Shifts
<1>7. f \in Rtypes
  BY DEF Shifts, Rtypes
<1> HIDE DEF a, b, k, s, P
<1>8. CASE f[1] = 0 /\ f[2] = 1
  <2> DEFINE v == x * P[k]
             d == [i \in 0 .. W - 1 |-> IF i < k THEN 0 ELSE Bit(a, i - k)]
  <2>1. v \in Int
    BY <1>1, <1>4
  <2>2. exec_Rtype(f[2], f[1], x, y) = Masked(v)
    BY <1>4, <1>8 DEF exec_Rtype, ShiftedLeft, k
  <2>3. \A z \in Word : Means(f[1], f[2], a, b, z) <=> \A i \in 0 .. W - 1 : Bit(z, i) = d[i]
    BY <1>2, <1>8 DEF Means
  <2>4. ASSUME NEW i \in 0 .. W - 1 PROVE Bit(v, i) = d[i]
    <3>1. i \in Nat /\ i \in 0 .. W
      BY <1>2
    <3>2. Bit(v, i) = DigitOf(2, v, i)
      BY <1>3, <3>1
    <3>3. /\ i < k => DigitOf(2, v, i) = 0
          /\ i >= k => DigitOf(2, v, i) = DigitOf(2, x, i - k)
      BY <1>1, <1>2, <3>1, DigitOfProduct DEF P
    <3>4. CASE i < k
      BY <3>2, <3>3, <3>4
    <3>5. CASE i >= k
      <4>1. i - k \in 0 .. W - 1 /\ i - k \in 0 .. W
        BY <1>2, <3>1, <3>5
      <4>2. Bit(a, i - k) = DigitOf(2, x, i - k)
        BY <1>3, <1>5, <4>1
      <4> QED BY <1>2, <3>1, <3>2, <3>3, <3>5, <4>2
    <3> QED BY <1>2, <3>1, <3>4, <3>5
  <2> HIDE DEF v, d
  <2>5. Masked(v) \in Word /\ Meaning[<<f, a, b>>] = Masked(v)
    BY <1>1, <1>7, <2>1, <2>3, <2>4, BitwiseMeaning
  <2> QED BY <2>2, <2>5 DEF a, b
<1>9. CASE f[1] = 0 /\ f[2] = 5
  <2> DEFINE v == a \div P[k]
             d == [i \in 0 .. W - 1 |-> IF i + k < W THEN Bit(a, i + k) ELSE 0]
  <2>1. v \in Int /\ v \in Word
    <3>1. a \in 0 .. P[W] - 1 /\ a \in Nat
      BY <1>1, <1>4 DEF Word
    <3>2. P[k] \in Nat /\ P[k] > 0
      BY <1>4
    <3>3. v \in 0 .. a
      BY <3>1, <3>2, TruncatesIs
    <3> QED BY <1>4, <3>1, <3>3 DEF Word
  <2>2. exec_Rtype(f[2], f[1], x, y) = v
    BY <1>4, <1>9 DEF exec_Rtype, k, a
  <2>3. \A z \in Word : Means(f[1], f[2], a, b, z) <=> \A i \in 0 .. W - 1 : Bit(z, i) = d[i]
    BY <1>2, <1>9 DEF Means
  <2>4. ASSUME NEW i \in 0 .. W - 1 PROVE Bit(v, i) = d[i]
    <3>1. i \in Nat /\ i \in 0 .. W /\ i + k \in Nat
      BY <1>2
    <3>2. Bit(v, i) = DigitOf(2, a, i + k)
      <4>1. DigitOf(2, v, i) = DigitOf(2, a, i + k)
        BY <1>1, <1>2, <3>1, DigitOfQuotient DEF P
      <4> QED BY <1>3, <3>1, <4>1
    <3>3. CASE i + k < W
      <4>1. i + k \in 0 .. W
        BY <1>2, <3>1, <3>3
      <4> QED BY <1>3, <3>2, <3>3, <4>1
    <3>4. CASE i + k >= W
      <4>1. P[W] <= P[i + k] /\ P[i + k] \in Nat
        BY <1>2, <3>1, <3>4, PowerGrows, PowerIs DEF P
      <4>2. a \in 0 .. P[i + k] - 1
        BY <1>1, <1>4, <4>1 DEF Word
      <4>3. DigitOf(2, a, i + k) = 0
        BY <3>1, <4>2, DigitAbove DEF P
      <4> QED BY <1>2, <3>1, <3>2, <3>4, <4>3
    <3> QED BY <1>2, <3>1, <3>3, <3>4
  <2> HIDE DEF v, d
  <2>5. Meaning[<<f, a, b>>] = Masked(v)
    BY <1>1, <1>7, <2>1, <2>3, <2>4, BitwiseMeaning
  <2>6. Masked(v) = v
    BY <2>1, WordIs
  <2> QED BY <2>1, <2>2, <2>5, <2>6 DEF a, b
<1>10. CASE f[1] = 32 /\ f[2] = 5
  <2> DEFINE v == s \div P[k]
             d == [i \in 0 .. W - 1 |-> Bit(a, Smaller(i + k, W - 1))]
  <2>1. v \in Int
    BY <1>1, <1>4
  <2>2. exec_Rtype(f[2], f[1], x, y) = Masked(v)
    BY <1>4, <1>10 DEF exec_Rtype, k, s
  <2>3. \A z \in Word : Means(f[1], f[2], a, b, z) <=> \A i \in 0 .. W - 1 : Bit(z, i) = d[i]
    BY <1>2, <1>10 DEF Means
  <2>4. ASSUME NEW i \in 0 .. W - 1 PROVE Bit(v, i) = d[i]
    <3>1. i \in Nat /\ i \in 0 .. W /\ i + k \in Nat /\ W - 1 \in 0 .. W - 1
      BY <1>2
    <3>2. Bit(v, i) = DigitOf(2, s, i + k)
      <4>1. DigitOf(2, v, i) = DigitOf(2, s, i + k)
        BY <1>1, <1>2, <3>1, DigitOfQuotient DEF P
      <4> QED BY <1>3, <3>1, <4>1
    <3>3. CASE i + k < W
      <4>1. i + k \in 0 .. W /\ i + k \in 0 .. W - 1 /\ Smaller(i + k, W - 1) = i + k
        BY <1>2, <3>1, <3>3 DEF Smaller
      <4> QED BY <1>3, <1>5, <3>2, <4>1
    <3>4. CASE i + k >= W
      <4>1. P[W] <= P[i + k] /\ P[i + k] \in Nat
        BY <1>2, <3>1, <3>4, PowerGrows, PowerIs DEF P
      <4>2. d[i] = Bit(a, W - 1)
        BY <1>2, <3>1, <3>4 DEF Smaller
      <4>3. 2^W = P[W] /\ 2^W = 2 * 2^(W - 1) /\ 2^(W - 1) \in Nat /\ 2^(W - 1) >= 1
        BY <1>4, Powers
      <4>4. /\ Bit(a, W - 1) = IF a < 2^(W - 1) THEN 0 ELSE 1
            /\ s = IF Bit(a, W - 1) = 1 THEN a - 2^W ELSE a
        BY <1>1, TopBit DEF Signed
      <4> DEFINE H == 2^(W - 1)
                 N == P[W]
                 M == P[i + k]
                 t == Bit(a, W - 1)
      <4>5. /\ H \in Nat /\ H >= 1 /\ N = 2 * H /\ N <= M /\ M \in Nat /\ N \in Nat
            /\ a \in Int /\ 0 <= a /\ a < N
            /\ t = IF a < H THEN 0 ELSE 1
            /\ s = IF t = 1 THEN a - N ELSE a
        BY <1>1, <4>1, <4>3, <4>4 DEF Word
      <4> HIDE DEF H, N, M, t
      <4>6. CASE t = 0
        <5>1. s \in 0 .. M - 1
          BY <4>5, <4>6
        <5>2. DigitOf(2, s, i + k) = 0
          BY <3>1, <5>1, DigitAbove DEF P, M
        <5> QED BY <3>2, <4>2, <4>6, <5>2 DEF t
      <4>7. CASE t = 1
        <5>1. s \in Int /\ s < 0 /\ -M <= s
          BY <4>5, <4>7
        <5>2. DigitOf(2, s, i + k) = 2 - 1
          BY <3>1, <5>1, DigitNegative DEF P, M
        <5> QED BY <3>2, <4>2, <4>7, <5>2 DEF t
      <4> QED BY <4>5, <4>6, <4>7
    <3> QED BY <1>2, <3>1, <3>3, <3>4
  <2> HIDE DEF v, d
  <2>5. Masked(v) \in Word /\ Meaning[<<f, a, b>>] = Masked(v)
    BY <1>1, <1>7, <2>1, <2>3, <2>4, BitwiseMeaning
  <2> QED BY <2>2, <2>5 DEF a, b
<1> QED BY <1>6, <1>8, <1>9, <1>10

\* XOR, OR and AND.
Logic == {<<0, 4>>, <<0, 6>>, <<0, 7>>}

\* XOR of an error return and a negative word.
Mixes(f, x, y) == f = <<0, 4>> /\ Smaller(x, y) < 0 /\ Larger(x, y) >= 2^(W - 1)

\* exec_Rtype: the bitwise operators, which are not masked, give the word that
\* the architecture defines, and stay in a register's range unless they mix.
LEMMA LogicAgrees ==
  ASSUME NEW f \in Logic, NEW x \in Register, NEW y \in Register
  PROVE  /\ exec_Rtype(f[2], f[1], x, y) \in Wider
         /\ Meaning[<<f, Masked(x), Masked(y)>>] = Masked(exec_Rtype(f[2], f[1], x, y))
         /\ Mixes(f, x, y) \/ exec_Rtype(f[2], f[1], x, y) \in Register
<1> DEFINE a == Masked(x)
           b == Masked(y)
           H == 2^(W - 1)
           S == CASE f[2] = 4 -> (Bits(x) \cup Bits(y)) \ (Bits(x) \cap Bits(y))
                  [] f[2] = 6 -> Bits(x) \cup Bits(y)
                  [] f[2] = 7 -> Bits(x) \cap Bits(y)
           v == Number(S)
           g(p, q) == CASE f[2] = 4 -> (p + q) % 2 [] f[2] = 6 -> Larger(p, q) [] f[2] = 7 -> p * q
           d == [i \in 0 .. W - 1 |-> g(Bit(a, i), Bit(b, i))]
<1>1. f[1] = 0 /\ f[2] \in {4, 6, 7} /\ f \in Rtypes /\ (f[2] = 4 => f = <<0, 4>>)
  BY DEF Logic, Rtypes
<1>2. exec_Rtype(f[2], f[1], x, y) = v
  BY <1>1 DEF exec_Rtype, Xor, Or, And
<1>3. /\ 2^W \in Nat /\ H \in Nat /\ H >= 1 /\ 2^W = 2 * H
      /\ x \in Int /\ y \in Int /\ a \in Word /\ b \in Word
      /\ -H <= x /\ x < 2^W /\ -H <= y /\ y < 2^W
  BY Powers, RegisterIs DEF Register
<1>4. x \in Wider /\ y \in Wider
  BY <1>3 DEF Wider
<1>5. S \in SUBSET (0 .. W)
  BY <1>1 DEF Bits
<1>6. v \in Wider /\ \A i \in 0 .. W : Bit(v, i) = IF i \in S THEN 1 ELSE 0
  BY <1>5, NumberIs
<1>7. ASSUME NEW i \in 0 .. W
      PROVE  /\ Bit(x, i) \in {0, 1} /\ Bit(y, i) \in {0, 1}
             /\ Bit(v, i) = g(Bit(x, i), Bit(y, i))
  <2>1. Bit(x, i) \in {0, 1} /\ Bit(y, i) \in {0, 1}
    BY <1>3, BitIs
  <2>2. (i \in Bits(x) <=> Bit(x, i) = 1) /\ (i \in Bits(y) <=> Bit(y, i) = 1)
    BY DEF Bits, Bit
  <2> DEFINE p == Bit(x, i)
             q == Bit(y, i)
  <2> HIDE DEF p, q
  <2>3. Bit(v, i) = IF i \in S THEN 1 ELSE 0
    BY <1>6
  <2>4. p \in {0, 1} /\ q \in {0, 1} /\ (i \in Bits(x) <=> p = 1) /\ (i \in Bits(y) <=> q = 1)
    BY <2>1, <2>2 DEF p, q
  <2>5. (IF i \in S THEN 1 ELSE 0) = g(p, q)
    BY <1>1, <2>4 DEF Larger
  <2> QED BY <2>1, <2>3, <2>5 DEF p, q
<1> HIDE DEF a, b, S, v, H
<1>8. Meaning[<<f, a, b>>] = Masked(v)
  <2>1. v \in Int
    BY <1>3, <1>6 DEF Wider
  <2>2. \A z \in Word : Means(f[1], f[2], a, b, z) <=> \A i \in 0 .. W - 1 : Bit(z, i) = d[i]
    <3>1. \A z \in Word : Means(f[1], f[2], a, b, z) <=> \A i \in 0 .. W - 1 : Bit(z, i) = g(Bit(a, i), Bit(b, i))
      BY <1>1 DEF Means
    <3> QED BY <3>1
  <2>3. ASSUME NEW i \in 0 .. W - 1 PROVE Bit(v, i) = d[i]
    <3>1. i \in 0 .. W
      BY AluAssumption
    <3>2. Bit(a, i) = Bit(x, i) /\ Bit(b, i) = Bit(y, i)
      BY <1>3, MaskedBits DEF a, b
    <3>3. Bit(v, i) = g(Bit(x, i), Bit(y, i))
      BY <1>7, <3>1
    <3> HIDE DEF g
    <3> QED BY <3>2, <3>3
  <2> HIDE DEF d, g
  <2> QED BY <1>1, <1>3, <2>1, <2>2, <2>3, BitwiseMeaning
<1>9. Mixes(f, x, y) \/ v \in Register
  <2>1. /\ v \in Int /\ W \in 0 .. W /\ W - 1 \in 0 .. W
        /\ Bit(v, W) = IF v < 0 THEN 1 ELSE 0
        /\ Bit(v, W - 1) = IF v < -H \/ (0 <= v /\ v < H) THEN 0 ELSE 1
    BY <1>6, SignBits DEF H
  <2>2. Bit(x, W) = (IF x < 0 THEN 1 ELSE 0) /\ Bit(x, W - 1) = IF x < -H \/ (0 <= x /\ x < H) THEN 0 ELSE 1
    BY <1>4, SignBits DEF H
  <2>3. Bit(y, W) = (IF y < 0 THEN 1 ELSE 0) /\ Bit(y, W - 1) = IF y < -H \/ (0 <= y /\ y < H) THEN 0 ELSE 1
    BY <1>4, SignBits DEF H
  <2>4. Bit(v, W) = g(Bit(x, W), Bit(y, W)) /\ Bit(v, W - 1) = g(Bit(x, W - 1), Bit(y, W - 1))
    BY <1>7, <2>1
  <2> SUFFICES ASSUME ~Mixes(f, x, y) PROVE v \in Register
    OBVIOUS
  <2>5. v < 2^W
    BY <1>3, <1>6, <2>1 DEF Wider
  <2>6. -H <= v
    <3> SUFFICES ASSUME v < -H PROVE FALSE
      BY <1>3, <2>1
    <3>0. Bit(v, W) = 1 /\ Bit(v, W - 1) = 0
      BY <1>3, <2>1
    <3>1. g(Bit(x, W), Bit(y, W)) = 1 /\ g(Bit(x, W - 1), Bit(y, W - 1)) = 0
      <4> HIDE DEF g
      <4> QED BY <2>4, <3>0
    <3>2. ~(f[2] = 4 /\ (IF x < y THEN x ELSE y) < 0 /\ (IF x < y THEN y ELSE x) >= H)
      BY <1>1 DEF Mixes, Smaller, Larger, H
    <3> DEFINE p == Bit(x, W)
               q == Bit(y, W)
               s == Bit(x, W - 1)
               t == Bit(y, W - 1)
    <3>3. /\ p = (IF x < 0 THEN 1 ELSE 0) /\ s = IF x < 0 \/ x >= H THEN 1 ELSE 0
          /\ q = (IF y < 0 THEN 1 ELSE 0) /\ t = IF y < 0 \/ y >= H THEN 1 ELSE 0
      BY <1>3, <2>2, <2>3
    <3>4. g(p, q) = 1 /\ g(s, t) = 0
      BY <3>1
    <3> HIDE DEF p, q, s, t
    <3>5. CASE f[2] = 4
      BY <1>3, <3>2, <3>3, <3>4, <3>5
    <3>6. CASE f[2] = 6
      BY <1>3, <3>3, <3>4, <3>6 DEF Larger
    <3>7. CASE f[2] = 7
      BY <1>3, <3>3, <3>4, <3>7
    <3> QED BY <1>1, <3>5, <3>6, <3>7
  <2> QED BY <1>3, <2>1, <2>5, <2>6 DEF Register, H
<1> QED BY <1>2, <1>6, <1>8, <1>9 DEF a, b

\* DIV and REM.
Divisions == {<<1, 4>>, <<1, 6>>}

\* exec_Rtype: the quotient and the remainder that are computed with floats are
\* those of the architecture, the two special cases of division included.
LEMMA DivisionAgrees ==
  ASSUME NEW f \in Divisions, NEW x \in Register, NEW y \in Register
  PROVE  /\ exec_Rtype(f[2], f[1], x, y) \in Word
         /\ Meaning[<<f, Masked(x), Masked(y)>>] = exec_Rtype(f[2], f[1], x, y)
<1> DEFINE N == 2^W
           H == 2^(W - 1)
           a == Masked(x)
           b == Masked(y)
           sx == signed32(x)
           sy == signed32(y)
           Q == Quotient(sx, sy)
           t == sx - Q * sy
<1>1. N \in Nat /\ N > 0 /\ H \in Nat /\ H >= 1 /\ N = 2 * H
  BY Powers
<1>2. Word = 0 .. N - 1 /\ Register = -H .. N - 1 /\ \A u : Masked(u) = u % N
  BY DEF Word, Register, Masked
<1>3. a \in Word /\ sx \in -H .. H - 1 /\ Signed(a) = sx
  BY RegisterIs
<1>4. /\ b \in Word /\ sy \in -H .. H - 1 /\ Signed(b) = sy
      /\ sy = b \/ sy = b - N
  BY RegisterIs
<1>5. f = <<1, 4>> \/ f = <<1, 6>>
  BY DEF Divisions
<1>6. ASSUME NEW z \in Word, Means(f[1], f[2], a, b, z), exec_Rtype(f[2], f[1], x, y) = z,
             \A v \in Word : Means(f[1], f[2], a, b, v) => v = z
      PROVE  /\ exec_Rtype(f[2], f[1], x, y) \in Word
             /\ Meaning[<<f, Masked(x), Masked(y)>>] = exec_Rtype(f[2], f[1], x, y)
  <2>1. f \in Rtypes
    BY <1>5 DEF Rtypes
  <2> HIDE DEF a, b
  <2>2. Meaning[<<f, a, b>>] = z
    BY <1>3, <1>4, <1>6, <2>1, MeaningIs
  <2> QED BY <1>6, <2>2 DEF a, b
<1>7. \A v \in Word : v \in Register /\ Masked(v) = v /\ Masked(Signed(v)) = v /\ Signed(v) \in Register
  BY WordIs
<1>8. \A u \in -H .. H - 1 : Masked(u) \in Word /\ Signed(Masked(u)) = u
  <2> TAKE u \in -H .. H - 1
  <2>1. u \in Register /\ u < H
    BY <1>1, <1>2
  <2> QED BY <2>1, RegisterIs
<1>9. sy # 0 => /\ Q \in -H .. H /\ Truncates(Q, sx, sy) /\ t \in -H .. H - 1
                /\ \A p \in Int : Truncates(p, sx, sy) => p = Q
  <2> SUFFICES ASSUME sy # 0
               PROVE  /\ Q \in -H .. H /\ Truncates(Q, sx, sy) /\ t \in -H .. H - 1
                      /\ \A p \in Int : Truncates(p, sx, sy) => p = Q
    OBVIOUS
  <2> HIDE DEF sx, sy
  <2>1. Q \in -H .. H /\ Truncates(Q, sx, sy) /\ t \in -H .. H - 1
    BY <1>3, <1>4, QuotientIs
  <2>2. Q \in Int /\ sx \in Int /\ sy \in Int
    BY <1>1, <1>3, <1>4, <2>1
  <2> HIDE DEF Q
  <2>3. \A p \in Int : Truncates(p, sx, sy) => p = Q
    BY <2>1, <2>2, TruncatesUnique
  <2> QED BY <2>1, <2>3
<1>10. sx = -H /\ sy = -1 => Q = H /\ t = 0
  <2> SUFFICES ASSUME sx = -H, sy = -1 PROVE Q = H /\ t = 0
    OBVIOUS
  <2> HIDE DEF sx, sy, Q, H
  <2>1. -H - H * (-1) = 0 /\ 0 * (-H) = 0
    BY <1>1
  <2>2. Truncates(H, sx, sy)
    BY <2>1 DEF Truncates, Abs
  <2>3. Q = H
    BY <1>1, <1>9, <2>2
  <2> QED BY <2>1, <2>3
<1>11. b = 0 <=> sy = 0
  <2> HIDE DEF N, H, b, sy
  <2>1. b \in 0 .. N - 1
    BY <1>2, <1>4
  <2> QED BY <1>1, <1>4, <2>1
<1> DEFINE ds == Divided(x, y)
           rs == Remainder(x, y)
<1>12. /\ sy = 0 => ds = N - 1 /\ rs = a
       /\ sy # 0 /\ sx = -H /\ sy = -1 => ds = H /\ rs = 0
       /\ sy # 0 /\ ~(sx = -H /\ sy = -1) => ds = Masked(Q) /\ rs = Masked(t)
  BY DEF Divided, Remainder
<1> HIDE DEF N, H, a, b, sx, sy, Q, t, ds, rs
<1>13. \A u \in Register : Masked(u) \in Word
  BY RegisterIs
<1>14. sy # 0 => ds = Masked(Q) /\ rs = Masked(t) /\ ds \in Word /\ rs \in Word
  <2>1. H \in Word /\ 0 \in Word
    BY <1>1, <1>2
  <2>2. Masked(H) = H /\ Masked(0) = 0
    BY <1>7, <2>1
  <2>3. sy # 0 => Q \in Register /\ t \in Register
    BY <1>1, <1>2, <1>9
  <2> QED BY <1>10, <1>12, <1>13, <2>2, <2>3
<1>20. CASE f = <<1, 4>>
  <2>1. f[1] = 1 /\ f[2] = 4 /\ exec_Rtype(4, 1, x, y) = ds
    BY <1>20 DEF exec_Rtype, ds
  <2>2. \A v : Means(1, 4, a, b, v) <=>
                \/ b = 0 /\ Signed(v) = -1
                \/ b # 0 /\ \E q \in {Signed(v), v} : Truncates(q, Signed(a), Signed(b))
    BY DEF Means
  <2>3. CASE sy = 0
    <3>1. Masked(-1) = N - 1 /\ Masked(-1) \in Word /\ Signed(Masked(-1)) = -1
      <4>1. -1 \in -H .. H - 1
        BY <1>1
      <4>2. (-1) % N = N - 1
        BY <1>1
      <4> QED BY <1>2, <1>8, <4>1, <4>2
    <3>2. ds = Masked(-1)
      BY <1>12, <2>3, <3>1
    <3>3. \A v \in Word : Signed(v) = -1 => v = Masked(-1)
      BY <1>7
    <3> QED BY <1>6, <1>11, <2>1, <2>2, <2>3, <3>1, <3>2, <3>3
  <2>4. CASE sy # 0
    <3>1. Q = Signed(ds) \/ Q = ds
      <4>1. CASE Q = H
        <5>1. H \in Word
          BY <1>1, <1>2
        <5> QED BY <1>7, <1>14, <2>4, <4>1, <5>1
      <4>2. CASE Q # H
        <5>1. Q \in -H .. H - 1
          BY <1>1, <1>9, <2>4, <4>2
        <5> QED BY <1>8, <1>14, <2>4, <5>1
      <4> QED BY <4>1, <4>2
    <3>2. Means(1, 4, a, b, ds)
      BY <1>3, <1>4, <1>9, <1>11, <2>2, <2>4, <3>1
    <3>3. ASSUME NEW v \in Word, Means(1, 4, a, b, v) PROVE v = ds
      <4>1. PICK q \in {Signed(v), v} : Truncates(q, sx, sy)
        BY <1>3, <1>4, <1>11, <2>2, <2>4, <3>3
      <4>2. Masked(q) = v /\ q \in Register
        BY <1>7, <4>1
      <4>3. q \in Int
        BY <1>1, <1>2, <4>2
      <4>4. q = Q
        BY <1>9, <2>4, <4>1, <4>3
      <4> QED BY <1>14, <2>4, <4>2, <4>4
    <3> QED BY <1>6, <1>14, <2>1, <2>4, <3>2, <3>3
  <2> QED BY <2>3, <2>4
<1>21. CASE f = <<1, 6>>
  <2>1. f[1] = 1 /\ f[2] = 6 /\ exec_Rtype(6, 1, x, y) = rs
    BY <1>21 DEF exec_Rtype, rs
  <2>2. \A v : Means(1, 6, a, b, v) <=>
                \/ b = 0 /\ v = a
                \/ b # 0 /\ \E q \in -N .. N : /\ Truncates(q, Signed(a), Signed(b))
                                               /\ Signed(v) = Signed(a) - q * Signed(b)
    BY DEF Means, N
  <2>3. CASE sy = 0
    <3>1. rs = a
      BY <1>12, <2>3
    <3> QED BY <1>3, <1>6, <1>11, <2>1, <2>2, <2>3, <3>1
  <2>4. CASE sy # 0
    <3>1. Signed(rs) = t
      BY <1>8, <1>9, <1>14, <2>4
    <3>2. Q \in -N .. N
      BY <1>1, <1>9, <2>4
    <3>3. Means(1, 6, a, b, rs)
      BY <1>3, <1>4, <1>9, <1>11, <2>2, <2>4, <3>1, <3>2 DEF t
    <3>4. ASSUME NEW v \in Word, Means(1, 6, a, b, v) PROVE v = rs
      <4>1. PICK q \in -N .. N : Truncates(q, sx, sy) /\ Signed(v) = sx - q * sy
        BY <1>3, <1>4, <1>11, <2>2, <2>4, <3>4
      <4>2. q \in Int
        BY <1>1
      <4>3. q = Q
        BY <1>9, <2>4, <4>1, <4>2
      <4>4. Signed(v) = t
        BY <4>1, <4>3 DEF t
      <4> QED BY <1>7, <1>14, <2>4, <4>4
    <3> QED BY <1>6, <1>14, <2>1, <2>4, <3>3, <3>4
  <2> QED BY <2>3, <2>4
<1> QED BY <1>5, <1>20, <1>21

\* exec_Rtype: whatever the instruction, what it computes from the integers in
\* its registers stands for the word that the architecture defines.
THEOREM InstructionAgrees ==
  ASSUME NEW f \in Rtypes, NEW x \in Register, NEW y \in Register
  PROVE  /\ exec_Rtype(f[2], f[1], x, y) \in Int
         /\ Masked(exec_Rtype(f[2], f[1], x, y)) \in Word
         /\ Meaning[<<f, Masked(x), Masked(y)>>] = Masked(exec_Rtype(f[2], f[1], x, y))
         /\ Mixes(f, x, y) \/ exec_Rtype(f[2], f[1], x, y) \in Register
         /\ f \notin Logic => exec_Rtype(f[2], f[1], x, y) = Masked(exec_Rtype(f[2], f[1], x, y))
<1> DEFINE v == exec_Rtype(f[2], f[1], x, y)
           m == Meaning[<<f, Masked(x), Masked(y)>>]
<1>1. f \in Logic \/ f \in Numeric \/ f \in Shifts \/ f \in Divisions
  BY DEF Rtypes, Logic, Numeric, Shifts, Divisions
<1>2. f \in Numeric => v \in Word /\ m = v
  BY NumericAgrees
<1>3. f \in Shifts => v \in Word /\ m = v
  BY ShiftAgrees
<1>4. f \in Divisions => v \in Word /\ m = v
  BY DivisionAgrees
<1>5. f \in Logic => v \in Wider /\ m = Masked(v) /\ (Mixes(f, x, y) \/ v \in Register)
  BY LogicAgrees
<1> HIDE DEF v, m
<1>6. CASE v \in Word /\ m = v
  <2>1. v \in Register /\ Masked(v) = v
    BY <1>6, WordIs
  <2>2. v \in Int
    BY <2>1, RegisterIs
  <2> QED BY <1>6, <2>1, <2>2 DEF v, m
<1>7. CASE f \in Logic
  <2>1. v \in Int
    BY <1>5, <1>7, Powers DEF Wider
  <2>2. 0 \in 0 .. W - 1
    BY AluAssumption
  <2>3. Masked(v) \in Word
    BY <2>1, <2>2, MaskedBits
  <2> QED BY <1>5, <1>7, <2>1, <2>3 DEF v, m
<1> QED BY <1>1, <1>2, <1>3, <1>4, <1>6, <1>7

\* The register-immediate instructions.
Itypes == {g \in Rtypes : g[1] # 1 /\ g # <<32, 0>>}

\* exec_Itype: the same for an immediate; every result is masked.
THEOREM ImmediateAgrees ==
  ASSUME NEW f \in Itypes, NEW x \in Register, NEW imm \in Immediates
  PROVE  /\ exec_Itype(f[2], f[1], x, imm) \in Word
         /\ Meaning[<<f, Masked(x), Masked(imm)>>] = exec_Itype(f[2], f[1], x, imm)
<1> DEFINE v == exec_Rtype(f[2], f[1], x, imm)
<1>1. imm \in Register
  BY AluAssumption, Powers DEF Register
<1>2. f \in Rtypes /\ (f \in {<<0, 0>>, <<0, 1>>, <<0, 2>>, <<0, 3>>, <<0, 5>>, <<32, 5>>} \/ f \in Logic)
  BY DEF Itypes, Rtypes, Logic
<1>3. CASE f \in {<<0, 0>>, <<0, 1>>, <<0, 2>>, <<0, 3>>, <<0, 5>>, <<32, 5>>}
  <2>1. exec_Itype(f[2], f[1], x, imm) = v
    BY <1>3 DEF exec_Itype, exec_Rtype
  <2>2. f \notin Logic
    BY <1>3 DEF Logic
  <2> QED BY <1>1, <1>2, <2>1, <2>2, InstructionAgrees
<1>4. CASE f \in Logic
  <2>1. exec_Itype(f[2], f[1], x, imm) = Masked(v)
    BY <1>4 DEF exec_Itype, exec_Rtype, Logic
  <2> QED BY <1>1, <1>2, <2>1, InstructionAgrees
<1> QED BY <1>2, <1>3, <1>4

-----------------------------------------------------------------------------
(* Registers                                                               *)

\* The registers are those of Regs.
Shape ==
  /\ registers = [r \in Regs |-> registers[r]]
  /\ words = [r \in Regs |-> words[r]]

AluInv == Shape /\ RegistersAgree

\* Sets: one register is written with an integer that stands for the word.
LEMMA SetsAgree ==
  ASSUME AluInv, ~spilt, NEW rd \in Regs, NEW v \in Int, v \in Register \/ spilt', Sets(rd, v, Masked(v)),
         cell' = word', cell' \in Word
  PROVE  AluInv'
<1>1. /\ registers' = [r \in Regs |-> IF r = rd THEN v ELSE registers[r]]
      /\ words' = [r \in Regs |-> IF r = rd THEN Masked(v) ELSE words[r]]
  BY DEF AluInv, Shape, Sets
<1>2. \A r \in Regs : registers[r] \in Register /\ Masked(registers[r]) = words[r]
  BY DEF AluInv, RegistersAgree, Register
<1>3. \A r \in Regs : (spilt' \/ registers'[r] \in Register) /\ Masked(registers'[r]) = words'[r]
  BY <1>1, <1>2
<1>4. RegistersAgree'
  BY <1>3 DEF RegistersAgree, Register, Masked, Word
<1>5. Shape'
  BY <1>1 DEF Shape
<1> QED BY <1>4, <1>5 DEF AluInv

\* exec_AMO: what is stored is the word that the architecture defines.
LEMMA AmoAgrees ==
  ASSUME NEW funct5 \in Amos, NEW x \in Word, NEW y \in Register
  PROVE  /\ exec_AMO(funct5, x, y) \in Word
         /\ AmoMeaning(funct5, x, Masked(y)) = exec_AMO(funct5, x, y)
<1> DEFINE b == Masked(y)
<1>1. x \in Register /\ Masked(x) = x
  BY WordIs
<1>2. /\ b \in Word /\ Masked(signed32(y)) = b /\ Masked(signed32(x)) = x
      /\ signed32(x) \in Int /\ signed32(y) \in Int
  <2>1. \A u \in Register : Masked(u) \in Word /\ Signed(Masked(u)) = signed32(u) /\ signed32(u) \in Int
    BY RegisterIs, Powers
  <2>2. \A u \in Register : Masked(signed32(u)) = Masked(u)
    BY <2>1, WordIs
  <2> QED BY <1>1, <2>1, <2>2
<1>3. x \in Int /\ b \in Int
  BY <1>2, Powers DEF Word
<1>4. /\ Meaning[<<<<0, 0>>, x, b>>] = Masked(x + y) /\ Masked(x + y) \in Word
      /\ Meaning[<<<<0, 2>>, x, b>>] = Truth(signed32(x) < signed32(y))
      /\ Meaning[<<<<0, 3>>, x, b>>] = Truth(x < b)
  <2>1. <<0, 0>> \in Numeric /\ <<0, 2>> \in Numeric /\ <<0, 3>> \in Numeric
    BY DEF Numeric
  <2>2. /\ Meaning[<<<<0, 0>>, x, b>>] = exec_Rtype(0, 0, x, y) /\ exec_Rtype(0, 0, x, y) \in Word
        /\ Meaning[<<<<0, 2>>, x, b>>] = exec_Rtype(2, 0, x, y)
        /\ Meaning[<<<<0, 3>>, x, b>>] = exec_Rtype(3, 0, x, y)
    BY <1>1, <2>1, NumericAgrees
  <2> QED BY <1>1, <2>2 DEF exec_Rtype
<1>5. CASE funct5 = 0
  BY <1>4, <1>5 DEF exec_AMO, AmoMeaning
<1>6. CASE funct5 = 1
  BY <1>2, <1>6 DEF exec_AMO, AmoMeaning
<1>7. CASE funct5 \in {16, 20}
  <2>1. \/ funct5 = 16 /\ exec_AMO(funct5, x, y) = Masked(Smaller(signed32(x), signed32(y)))
        \/ funct5 = 20 /\ exec_AMO(funct5, x, y) = Masked(Larger(signed32(x), signed32(y)))
    BY <1>7 DEF exec_AMO
  <2>2. \/ funct5 = 16 /\ exec_AMO(funct5, x, y) = IF signed32(x) < signed32(y) THEN x ELSE b
        \/ funct5 = 20 /\ exec_AMO(funct5, x, y) = IF signed32(x) < signed32(y) THEN b ELSE x
    BY <1>2, <2>1 DEF Smaller, Larger
  <2>3. Meaning[<<<<0, 2>>, x, b>>] = 1 <=> signed32(x) < signed32(y)
    BY <1>4 DEF Truth
  <2> HIDE DEF b
  <2>4. AmoMeaning(funct5, x, b) = exec_AMO(funct5, x, y)
    BY <2>2, <2>3 DEF AmoMeaning
  <2> QED BY <1>2, <2>2, <2>4 DEF b
<1>8. CASE funct5 \in {24, 28}
  <2>1. \/ funct5 = 24 /\ exec_AMO(funct5, x, y) = IF x < b THEN x ELSE b
        \/ funct5 = 28 /\ exec_AMO(funct5, x, y) = IF x < b THEN b ELSE x
    BY <1>8 DEF exec_AMO, Smaller, Larger
  <2>2. Meaning[<<<<0, 3>>, x, b>>] = 1 <=> x < b
    BY <1>4 DEF Truth
  <2> HIDE DEF b
  <2>3. AmoMeaning(funct5, x, b) = exec_AMO(funct5, x, y)
    BY <2>1, <2>2 DEF AmoMeaning
  <2> QED BY <1>2, <2>1, <2>3 DEF b
<1>9. CASE funct5 \in {4, 8, 12}
  <2> DEFINE op == CASE funct5 = 4 -> <<0, 4>> [] funct5 = 8 -> <<0, 6>> [] funct5 = 12 -> <<0, 7>>
             v == exec_Rtype(op[2], op[1], x, y)
  <2>1. op \in Logic /\ op[1] = 0 /\ <<0, op[2]>> = op
    BY <1>9 DEF Logic
  <2>2. exec_AMO(funct5, x, y) = Masked(v)
    BY <1>9 DEF exec_AMO, exec_Rtype
  <2>3. AmoMeaning(funct5, x, b) = Meaning[<<op, x, b>>]
    BY <1>9 DEF AmoMeaning
  <2> HIDE DEF op
  <2>4. v \in Wider /\ Meaning[<<op, Masked(x), b>>] = Masked(v)
    BY <1>1, <2>1, LogicAgrees
  <2> HIDE DEF v, b
  <2>5. Masked(v) \in Word
    <3>1. v \in Int
      BY <2>4, Powers DEF Wider
    <3>2. 0 \in 0 .. W - 1
      BY AluAssumption
    <3> QED BY <3>1, <3>2, MaskedBits
  <2> QED BY <1>1, <2>2, <2>3, <2>4, <2>5 DEF b
<1> QED BY <1>5, <1>6, <1>7, <1>8, <1>9 DEF Amos

\* rtype, itype, amo, ecall_error: each of them keeps registers and words in
\* agreement.
LEMMA AluKeeps ==
  ASSUME AluInv, AluNext
  PROVE  AluInv'
<1>1. ~spilt /\ cell = word /\ cell \in Word /\ 1 \in Regs
  BY DEF AluNext, AluInv, RegistersAgree, Regs
<1>2. \A r \in Regs : registers[r] \in Register /\ Masked(registers[r]) = words[r]
  BY <1>1 DEF AluInv, RegistersAgree, Register
<1>3. \A v \in Word : v \in Register /\ Masked(v) = v
  BY WordIs
<1>4. \A v \in Register : v \in Int
  BY RegisterIs
<1>5. ASSUME NEW f \in Rtypes, NEW rd \in Regs, NEW rs2 \in Regs, rtype(f, rd, 1, rs2)
      PROVE  AluInv'
  <2> DEFINE x == registers[1]
             y == registers[rs2]
             v == exec_Rtype(f[2], f[1], x, y)
             m == Meaning[<<f, words[1], words[rs2]>>]
  <2>1. Sets(rd, v, m) /\ UNCHANGED <<cell, word>> /\ spilt' = Mixes(f, x, y)
    BY <1>5 DEF rtype, Mixes
  <2>2. v \in Int /\ m = Masked(v) /\ (Mixes(f, x, y) \/ v \in Register)
    <3>1. m = Meaning[<<f, Masked(x), Masked(y)>>] /\ x \in Register /\ y \in Register
      BY <1>1, <1>2
    <3> HIDE DEF x, y
    <3> QED BY <3>1, InstructionAgrees
  <2> HIDE DEF v, m
  <2> QED BY <1>1, <2>1, <2>2, SetsAgree
<1>6. ASSUME NEW f \in Itypes, NEW rd \in Regs, NEW imm \in Immediates, itype(f, rd, 1, imm)
      PROVE  AluInv'
  <2> DEFINE x == registers[1]
             v == exec_Itype(f[2], f[1], x, imm)
             m == Meaning[<<f, words[1], Masked(imm)>>]
  <2>1. Sets(rd, v, m) /\ UNCHANGED <<cell, word>>
    BY <1>6 DEF itype
  <2>2. v \in Word /\ m = v
    <3>1. m = Meaning[<<f, Masked(x), Masked(imm)>>] /\ x \in Register
      BY <1>1, <1>2
    <3> HIDE DEF x
    <3> QED BY <3>1, ImmediateAgrees
  <2> HIDE DEF v, m
  <2>3. v \in Register /\ v \in Int /\ Sets(rd, v, Masked(v))
    BY <1>3, <1>4, <2>1, <2>2
  <2> QED BY <1>1, <2>1, <2>3, SetsAgree
<1>7. ASSUME NEW funct5 \in Amos, NEW rd \in Regs, NEW rs2 \in Regs, amo(funct5, rd, rs2)
      PROVE  AluInv'
  <2>1. /\ cell' = exec_AMO(funct5, cell, registers[rs2])
        /\ word' = AmoMeaning(funct5, cell, Masked(registers[rs2]))
        /\ Sets(rd, cell, cell)
    BY <1>1, <1>2, <1>7 DEF amo
  <2>2. cell' = word' /\ cell' \in Word
    BY <1>1, <1>2, <2>1, AmoAgrees
  <2>3. cell \in Register /\ cell \in Int /\ Sets(rd, cell, Masked(cell))
    BY <1>1, <1>3, <1>4, <2>1
  <2> QED BY <1>1, <2>2, <2>3, SetsAgree
<1>8. ASSUME NEW e \in Errors, ecall_error(e)
      PROVE  AluInv'
  <2>1. -e \in Register /\ -e \in Int
    BY AluAssumption, Powers DEF Register
  <2>2. Sets(1, -e, Masked(-e)) /\ UNCHANGED <<cell, word>>
    BY <1>8 DEF ecall_error
  <2> QED BY <1>1, <2>1, <2>2, SetsAgree
<1> QED BY <1>5, <1>6, <1>7, <1>8 DEF AluNext, Itypes

\* exec_branches: wherever registers and words agree, a branch is taken
\* exactly if the architecture takes it, for words of 32 bits too; BEQ and
\* BNE also need that an error return is not compared with a negative word.
LEMMA BranchesFollow == RegistersAgree => BranchesAgree
<1> SUFFICES ASSUME RegistersAgree, ~spilt, NEW funct3 \in {0, 1, 4, 5, 6, 7}, NEW r \in Regs, NEW s \in Regs,
                    ~(/\ funct3 \in {0, 1}
                      /\ Smaller(registers[r], registers[s]) < 0
                      /\ Larger(registers[r], registers[s]) >= 2^(W - 1))
             PROVE  exec_branches(funct3, registers[r], registers[s])
                      = BranchMeaning(funct3, words[r], words[s])
  BY DEF BranchesAgree
<1> DEFINE x == registers[r]
           y == registers[s]
           a == Masked(x)
           b == Masked(y)
           N == 2^W
           H == 2^(W - 1)
<1>1. x \in Register /\ y \in Register /\ words[r] = a /\ words[s] = b
  BY DEF RegistersAgree, Register
<1>2. N \in Nat /\ H \in Nat /\ H >= 1 /\ N = 2 * H
  BY Powers
<1>3. Register = -H .. N - 1
  BY DEF Register
<1>4. funct3 \in {0, 1} => ~(Smaller(x, y) < 0 /\ Larger(x, y) >= H)
  OBVIOUS
<1> HIDE DEF x, y
<1>5. /\ a = (IF x < 0 THEN x + N ELSE x) /\ a \in Word
      /\ b = (IF y < 0 THEN y + N ELSE y) /\ b \in Word
  BY <1>1, RegisterIs
<1>6. /\ Meaning[<<<<0, 2>>, a, b>>] = Truth(signed32(x) < signed32(y))
      /\ Meaning[<<<<0, 3>>, a, b>>] = Truth(a < b)
  <2>1. <<0, 2>> \in Numeric /\ <<0, 3>> \in Numeric
    BY DEF Numeric
  <2>2. /\ Meaning[<<<<0, 2>>, a, b>>] = exec_Rtype(2, 0, x, y)
        /\ Meaning[<<<<0, 3>>, a, b>>] = exec_Rtype(3, 0, x, y)
    BY <1>1, <2>1, NumericAgrees
  <2> QED BY <2>2 DEF exec_Rtype
<1>7. signed32(x) \in Int /\ signed32(y) \in Int /\ a \in Int /\ b \in Int
  BY <1>1, <1>2, <1>5, RegisterIs DEF Word
<1>8. CASE funct3 \in {0, 1}
  <2>1. x = y <=> a = b
    <3> HIDE DEF a, b, N, H
    <3>1. x \in Int /\ y \in Int /\ -H <= x /\ x < N /\ -H <= y /\ y < N
      BY <1>1, <1>2, <1>3
    <3> QED BY <1>2, <1>4, <1>5, <1>8, <3>1 DEF Smaller, Larger
  <2>2. exec_branches(funct3, x, y) = BranchMeaning(funct3, a, b)
    <3> HIDE DEF a, b
    <3> QED BY <1>8, <2>1 DEF exec_branches, BranchMeaning
  <2> QED BY <1>1, <2>2 DEF x, y
<1>9. CASE funct3 \in {4, 5}
  <2>1. exec_branches(funct3, x, y) = BranchMeaning(funct3, a, b)
    <3> HIDE DEF a, b
    <3> QED BY <1>6, <1>7, <1>9 DEF exec_branches, BranchMeaning, Truth
  <2> QED BY <1>1, <2>1 DEF x, y
<1>10. CASE funct3 \in {6, 7}
  <2>1. exec_branches(funct3, x, y) = BranchMeaning(funct3, a, b)
    <3>1. \A k \in {6, 7} : exec_branches(k, x, y) = IF k = 6 THEN a < b ELSE a >= b
      BY DEF exec_branches
    <3> HIDE DEF a, b
    <3> QED BY <1>6, <1>7, <1>10, <3>1 DEF BranchMeaning, Truth
  <2> QED BY <1>1, <2>1 DEF x, y
<1> QED BY <1>8, <1>9, <1>10
=============================================================================
