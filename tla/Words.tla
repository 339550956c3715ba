------------------------------- MODULE Words -------------------------------
(***************************************************************************)
(* Machine words.  A word is a natural number below WordSize, which is     *)
(* 2^32 in the emulator; small instances take a small power of two.  Every *)
(* "& 0xFFFFFFFF" of the source is a "% WordSize" here.                    *)
(***************************************************************************)
EXTENDS Integers

CONSTANT WordSize

\* Four-byte alignment survives the wrap-around of an address only because
\* the word size is itself a multiple of four.
ASSUME WordSizeAssumption ==
  /\ WordSize \in Nat
  /\ WordSize > 0
  /\ WordSize % 4 = 0

Word == 0 .. WordSize - 1

\* value & ~0x3
ClearLow2(w) == w - (w % 4)

\* value & ~0x1
ClearLow1(w) == w - (w % 2)

\* The weights of the bits of a word.
BitWeights == {2^k : k \in {j \in 0 .. 30 : 2^j < WordSize}}

\* Bit of weight b of word w.
Bit(w, b) == (w \div b) % 2 = 1

\* w = x | y
IsOr(w, x, y) == \A b \in BitWeights : Bit(w, b) <=> (Bit(x, b) \/ Bit(y, b))

\* w = x & ~y
IsAndNot(w, x, y) == \A b \in BitWeights : Bit(w, b) <=> (Bit(x, b) /\ ~Bit(y, b))

\* The 64-bit value whose high and low words are hi and lo: (hi << 32) | lo
Double(hi, lo) == hi * WordSize + lo
=============================================================================
