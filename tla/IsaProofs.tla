----------------------------- MODULE IsaProofs -----------------------------
(***************************************************************************)
(* The decode caches never serve an entry made for another instruction,    *)
(* for any program and any order of execution.  The argument is that the   *)
(* key of decode_cache, the instruction without its two low bits, tells    *)
(* apart all words that end in 11.                                         *)
(*                                                                         *)
(* Registers and the word in memory are what the architecture defines      *)
(* after any sequence of instructions, and branches follow.                *)
(*                                                                         *)
(* Loads read what was stored, for memories of any size and in every       *)
(* class.  The bytes below Size are the digits of content, and a refused   *)
(* store touches at most the padding behind them.                          *)
(***************************************************************************)
EXTENDS Isa, AluProofs

\* An entry of decode_cache is that of a 32-bit instruction with its key,
\* unless a word that is none was executed; an entry of the other cache is
\* that of its half word.
CacheInv ==
  /\ ~shortened =>
       \A k \in DOMAIN decode_cache :
         \E w \in SUBSET (0 .. 31) : Wide(w) /\ Key(w) = k /\ decode_cache[k] = fields(w)
  /\ \A h \in DOMAIN decode_cache_compressed :
       expand_compressed(h) # None /\ decode_cache_compressed[h] = HalfEntry(h)

Inv == CacheInv /\ DecodedAsFetched

\* Key: two 32-bit instructions with the same key are the same.
LEMMA KeyTellsApart ==
  ASSUME NEW v \in SUBSET (0 .. 31), NEW w \in SUBSET (0 .. 31),
         Wide(v), Wide(w), Key(v) = Key(w)
  PROVE  v = w
<1>1. ASSUME NEW x \in SUBSET (0 .. 31), NEW y \in SUBSET (0 .. 31),
             Wide(y), Key(x) = Key(y), NEW i \in x
      PROVE  i \in y
  <2>1. CASE i < 2
    BY <1>1, <2>1 DEF Wide
  <2>2. CASE i >= 2
    <3>1. i - 2 \in Key(x)
      BY <1>1, <2>2 DEF Key, Shr
    <3>2. i - 2 \in Key(y)
      BY <1>1, <3>1
    <3>3. PICK j \in y : j >= 2 /\ i - 2 = j - 2
      BY <3>2 DEF Key, Shr
    <3>4. i \in Int /\ j \in Int
      BY <1>1
    <3>5. i = j
      BY <3>3, <3>4
    <3> QED BY <3>5
  <2> QED BY <1>1, <2>1, <2>2
<1>2. \A i \in v : i \in w
  BY <1>1
<1>3. \A i \in w : i \in v
  BY <1>1
<1> QED BY <1>2, <1>3

-----------------------------------------------------------------------------

\* At the start the caches are empty.
LEMMA InitInv == Init => Inv
  BY DEF Init, DecoderInit, Inv, CacheInv, DecodedAsFetched

\* execute_32 finds or makes the entry of its own instruction.
LEMMA Step32 ==
  ASSUME Inv, NEW inst \in SUBSET (0 .. 31), execute_32(inst), fetched' = inst
  PROVE  Inv'
<1>1. CASE shortened'
  BY <1>1 DEF Inv, CacheInv, DecodedAsFetched, execute_32
<1>2. CASE ~shortened'
  <2>1. ~shortened /\ Wide(inst)
    BY <1>2 DEF execute_32
  <2>2. Entry(decode_cache, Key(inst), fields(inst)) = fields(inst)
    <3>1. CASE Key(inst) \in DOMAIN decode_cache
      <4>1. PICK w \in SUBSET (0 .. 31) : /\ Wide(w) /\ Key(w) = Key(inst)
                                          /\ decode_cache[Key(inst)] = fields(w)
        BY <2>1, <3>1 DEF Inv, CacheInv
      <4>2. w = inst
        BY <4>1, <2>1, KeyTellsApart
      <4> QED BY <3>1, <4>1, <4>2 DEF Entry
    <3> QED BY <3>1 DEF Entry
  <2>3. ASSUME NEW k \in DOMAIN decode_cache'
        PROVE  \E w \in SUBSET (0 .. 31) :
                 Wide(w) /\ Key(w) = k /\ decode_cache'[k] = fields(w)
    <3>1. /\ k \in DOMAIN decode_cache \cup {Key(inst)}
          /\ decode_cache'[k] = Entry(decode_cache, k, fields(inst))
      BY <2>3 DEF execute_32, Caching
    <3>2. CASE k = Key(inst)
      BY <3>1, <3>2, <2>1, <2>2
    <3>3. CASE k # Key(inst)
      <4>1. k \in DOMAIN decode_cache /\ decode_cache'[k] = decode_cache[k]
        BY <3>1, <3>3 DEF Entry
      <4> QED BY <4>1, <2>1 DEF Inv, CacheInv
    <3> QED BY <3>2, <3>3
  <2>4. DecodedAsFetched'
    BY <2>1, <2>2 DEF DecodedAsFetched, execute_32
  <2>5. CacheInv'
    BY <2>3 DEF Inv, CacheInv, execute_32
  <2> QED BY <2>4, <2>5 DEF Inv
<1> QED BY <1>1, <1>2

\* execute_16 finds or makes the entry of its own half word.
LEMMA Step16 ==
  ASSUME Inv, NEW inst \in SUBSET (0 .. 31), ~Wide(inst),
         execute_16(inst \cap 0 .. 15), fetched' = inst
  PROVE  Inv'
<1> DEFINE h == inst \cap 0 .. 15
<1>0. execute_16(h)
  OBVIOUS
<1> HIDE DEF h
<1>1. decoded' = IF expand_compressed(h) = None THEN None ELSE HalfEntry(h)
  BY <1>0 DEF Inv, CacheInv, execute_16, Entry
<1>2. ASSUME NEW c \in DOMAIN decode_cache_compressed'
      PROVE  /\ expand_compressed(c) # None
             /\ decode_cache_compressed'[c] = HalfEntry(c)
  <2>1. CASE UNCHANGED decode_cache_compressed
    BY <1>2, <2>1 DEF Inv, CacheInv
  <2>2. CASE decode_cache_compressed' = Caching(decode_cache_compressed, h, HalfEntry(h))
    <3>1. /\ c \in DOMAIN decode_cache_compressed \cup {h}
          /\ decode_cache_compressed'[c] = Entry(decode_cache_compressed, c, HalfEntry(h))
      BY <1>2, <2>2 DEF Caching
    <3>2. CASE c \in DOMAIN decode_cache_compressed
      BY <3>1, <3>2 DEF Entry, Inv, CacheInv
    <3>3. CASE c \notin DOMAIN decode_cache_compressed
      <4>1. c = h /\ decode_cache_compressed'[c] = HalfEntry(h)
        BY <3>1, <3>3 DEF Entry
      <4>2. CASE expand_compressed(h) # None
        BY <4>1, <4>2
      <4>3. CASE expand_compressed(h) = None
        BY <1>0, <1>2, <3>3, <4>1, <4>3 DEF execute_16
      <4> QED BY <4>2, <4>3
    <3> QED BY <3>2, <3>3
  <2> QED BY <1>0, <2>1, <2>2 DEF execute_16
<1>3. CacheInv'
  BY <1>0, <1>2 DEF Inv, CacheInv, execute_16
<1>4. DecodedAsFetched'
  BY <1>1 DEF DecodedAsFetched, h
<1> QED BY <1>3, <1>4 DEF Inv

\* Every step keeps the invariant; the other parts leave the decoder alone.
LEMMA NextInv == Inv /\ [Next]_vars => Inv'
<1> SUFFICES ASSUME Inv, [Next]_vars PROVE Inv'
  OBVIOUS
<1>1. CASE UNCHANGED decoderVars
  BY <1>1 DEF decoderVars, Inv, CacheInv, DecodedAsFetched
<1>2. CASE decoder
  <2>1. PICK inst \in Fetches : execute(inst)
    BY <1>2 DEF decoder, DecoderNext
  <2>2. inst \in SUBSET (0 .. 31)
    BY <2>1, FetchAssumption
  <2>3. CASE execute_32(inst)
    BY <2>1, <2>2, <2>3, Step32 DEF execute
  <2>4. CASE ~Wide(inst) /\ execute_16(inst \cap 0 .. 15)
    BY <2>1, <2>2, <2>4, Step16 DEF execute
  <2> QED BY <2>1, <2>3, <2>4 DEF execute
<1> QED BY <1>1, <1>2 DEF Next, alu, ram, expand, vars

\* execute_32, execute_16: whatever was executed before, a handler is called
\* with the fields of the instruction that was fetched.
THEOREM DecodesAsFetched == Spec => []DecodedAsFetched
<1>1. Inv => DecodedAsFetched
  BY DEF Inv
<1> QED BY <1>1, InitInv, NextInv, PTL DEF Spec

-----------------------------------------------------------------------------
(* Registers                                                               *)

\* At the start every register is zero; no other part touches the registers.
LEMMA AluInvariant == Spec => []AluInv
<1>1. Init => AluInv
  <2>1. 0 \in Word
    BY Powers DEF Word
  <2>2. 0 \in Register /\ Masked(0) = 0
    BY <2>1, WordIs
  <2> QED BY <2>1, <2>2 DEF Init, AluInit, AluInv, Shape, RegistersAgree, Register
<1>2. AluInv /\ [Next]_vars => AluInv'
  <2> SUFFICES ASSUME AluInv, [Next]_vars PROVE AluInv'
    OBVIOUS
  <2>1. CASE UNCHANGED aluVars
    BY <2>1 DEF aluVars, AluInv, Shape, RegistersAgree, Masked, Word
  <2>2. CASE AluNext
    BY <2>2, AluKeeps
  <2> QED BY <2>1, <2>2 DEF Next, alu, ram, expand, decoder, vars
<1> QED BY <1>1, <1>2, PTL DEF Spec

\* exec_Rtype, exec_Itype, exec_AMO: for words of up to 32 bits and any longer
\* mantissa, every register and the word in memory are what the architecture
\* says after any sequence of instructions and failing system calls.
THEOREM ComputesAsDefined == Spec => []RegistersAgree
<1>1. AluInv => RegistersAgree
  BY DEF AluInv
<1> QED BY <1>1, AluInvariant, PTL

\* exec_branches: in every reachable state a branch is taken exactly if the
\* architecture takes it, but for BEQ and BNE of an error return and a
\* negative word.
THEOREM BranchesAsDefined == Spec => []BranchesAgree
  BY ComputesAsDefined, BranchesFollow, PTL

-----------------------------------------------------------------------------
(* Memory                                                                  *)

\* The bytes below Size are the digits of content.
RamInv ==
  /\ class \in Classes /\ bytes \in [Cells -> Byte] /\ content \in 0 .. Values[Size] - 1
  /\ \A i \in 0 .. Size - 1 : Digit(content, i) = bytes[i]

\* Values, Digit: they are those of the base ByteSize.
LEMMA DigitIs ==
  /\ ByteSize \in Nat /\ ByteSize >= 2 /\ Size \in Nat /\ Size > 0 /\ Cells = 0 .. Size + 3
  /\ \A n \in 0 .. Size + 4 : /\ n \in Nat /\ Values[n] = Power(ByteSize)[n]
                              /\ Values[n] \in Nat /\ Values[n] >= 1
                              /\ \A v : Digit(v, n) = DigitOf(ByteSize, v, n)
                              /\ \A v \in Int : Digit(v, n) \in Byte
<1>1. ByteSize \in Nat /\ ByteSize >= 2 /\ Size \in Nat /\ Size > 0 /\ Cells = 0 .. Size + 3
  BY RamAssumption DEF Cells, Padding
<1>2. ASSUME NEW n \in 0 .. Size + 4
      PROVE  /\ n \in Nat /\ Values[n] = Power(ByteSize)[n]
             /\ Values[n] \in Nat /\ Values[n] >= 1
             /\ \A v : Digit(v, n) = DigitOf(ByteSize, v, n)
             /\ \A v \in Int : Digit(v, n) \in Byte
  <2>1. n \in Nat /\ Values[n] = Power(ByteSize)[n]
    BY <1>1 DEF Values, Padding
  <2>2. Values[n] \in Nat /\ Values[n] >= 1
    BY <1>1, <2>1, PowerIs
  <2>3. \A v : Digit(v, n) = DigitOf(ByteSize, v, n)
    BY <2>1 DEF Digit, DigitOf
  <2>4. \A v \in Int : DigitOf(ByteSize, v, n) \in 0 .. ByteSize - 1
    BY <1>1, <2>1, DigitSplit
  <2> QED BY <2>1, <2>2, <2>3, <2>4 DEF Byte
<1> QED BY <1>1, <1>2

\* check, class.base: an access has an address that is not negative, unless a
\* checked class has a base.
LEMMA ClassIs ==
  ASSUME class \in Classes
  PROVE  class.checked \in BOOLEAN /\ class.base \in Nat /\ (~class.checked => class.base = 0)
<1>1. class \in {RAM, RAM_MMIO} => class.checked = FALSE /\ class.base = 0
  BY DEF RAM, RAM_MMIO
<1>2. class \in {SafeRAM, SafeRAM_MMIO} => class.checked = TRUE /\ class.base = 0
  BY DEF RAM, SafeRAM, SafeRAM_MMIO
<1>3. class = SafeRAMOffset => class.checked = TRUE /\ class.base = Base
  BY DEF RAM, SafeRAMOffset
<1>4. class \in {RAM, RAM_MMIO} \/ class \in {SafeRAM, SafeRAM_MMIO} \/ class = SafeRAMOffset
  BY DEF Classes
<1>5. class.checked \in BOOLEAN
  BY <1>1, <1>2, <1>3, <1>4, Zenon
<1>6. class.base \in Nat
  BY <1>1, <1>2, <1>3, <1>4, RamAssumption
<1>7. ~class.checked => class.base = 0
  BY <1>1, <1>2, <1>3, <1>4, Zenon
<1> QED BY <1>5, <1>6, <1>7

\* store_byte, store_half, store_word, store_binary: what is stored within the
\* array replaces digits of content.
LEMMA StoredAgrees ==
  ASSUME RamInv, NEW addr \in Nat, NEW n \in 1 .. 4, addr + n <= Size + 4, NEW v \in 0 .. Values[n] - 1,
         bytes' = Stored(addr, n, v), content' = Replaced(addr, n, v), class' = class
  PROVE  RamInv'
<1> DEFINE b == ByteSize
           c == content
           w == c + (v - ((c \div Power(b)[addr]) % Power(b)[n])) * Power(b)[addr]
<1>1. b \in Nat /\ b >= 2 /\ Size \in Nat /\ Size > 0 /\ Cells = 0 .. Size + 3
  BY DigitIs
<1>2. /\ n \in Nat /\ n \in 0 .. Size + 4 /\ addr \in 0 .. Size + 4 /\ Size \in 0 .. Size + 4
      /\ \A i \in 0 .. Size - 1 : i \in Nat
  BY <1>1
<1>3. /\ Values[n] = Power(b)[n] /\ Values[addr] = Power(b)[addr] /\ Values[Size] = Power(b)[Size]
      /\ Values[Size] \in Nat /\ Values[Size] >= 1 /\ Values[n] \in Nat /\ Values[n] >= 1
      /\ Values[addr] \in Nat /\ Values[addr] >= 1
  BY <1>2, DigitIs
<1>4. c \in Int /\ v \in Int /\ content' = w % Values[Size]
  BY <1>3 DEF RamInv, Replaced
<1>5. w \in Int
  <2>1. c \div Power(b)[addr] \in Int
    BY <1>3, <1>4
  <2>2. (c \div Power(b)[addr]) % Power(b)[n] \in Int
    BY <1>3, <2>1
  <2> QED BY <1>3, <1>4, <2>2
<1>6. content' \in 0 .. Values[Size] - 1
  <2> HIDE DEF w
  <2> QED BY <1>3, <1>4, <1>5
<1>7. bytes' \in [Cells -> Byte]
  <2>1. \A i \in Cells : i >= addr /\ i < addr + n => Digit(v, i - addr) \in Byte
    <3> TAKE i \in Cells
    <3> SUFFICES ASSUME i >= addr, i < addr + n PROVE Digit(v, i - addr) \in Byte
      OBVIOUS
    <3>1. i - addr \in 0 .. Size + 4
      BY <1>1
    <3> QED BY <1>4, <3>1, DigitIs
  <2> QED BY <2>1 DEF RamInv, Stored
<1>8. ASSUME NEW i \in 0 .. Size - 1 PROVE Digit(content', i) = bytes'[i]
  <2>1. i \in Nat /\ i < Size /\ i \in Cells /\ i \in 0 .. Size + 4
    BY <1>1
  <2>2. Digit(content', i) = DigitOf(b, w % Power(b)[Size], i)
    BY <1>3, <1>4, <2>1, DigitIs
  <2>3. DigitOf(b, w % Power(b)[Size], i) = DigitOf(b, w, i)
    <3> HIDE DEF w
    <3> QED BY <1>1, <1>5, <2>1, DigitOfRemainder
  <2>4. DigitOf(b, w, i) = IF i >= addr /\ i < addr + n THEN DigitOf(b, v, i - addr) ELSE DigitOf(b, c, i)
    <3>1. v \in 0 .. Power(b)[n] - 1
      BY <1>3
    <3> QED BY <1>1, <1>2, <1>4, <2>1, <3>1, DigitsReplaced
  <2>5. bytes'[i] = IF i >= addr /\ i < addr + n THEN Digit(v, i - addr) ELSE bytes[i]
    BY <2>1 DEF Stored
  <2>6. bytes[i] = DigitOf(b, c, i)
    BY <2>1, DigitIs DEF RamInv
  <2>7. i >= addr /\ i < addr + n => Digit(v, i - addr) = DigitOf(b, v, i - addr)
    <3> SUFFICES ASSUME i >= addr, i < addr + n PROVE Digit(v, i - addr) = DigitOf(b, v, i - addr)
      OBVIOUS
    <3>1. i - addr \in 0 .. Size + 4
      BY <1>1, <2>1
    <3> QED BY <3>1, DigitIs
  <2> QED BY <2>2, <2>3, <2>4, <2>5, <2>6, <2>7
<1>9. \A i \in 0 .. Size - 1 : Digit(content', i) = bytes'[i]
  BY <1>8
<1> QED BY <1>6, <1>7, <1>9 DEF RamInv, Classes, Values, Digit

\* store_byte, store_half, store_word: a refused store writes at most to the
\* padding behind memory.
LEMMA RefusedAgrees ==
  ASSUME RamInv, NEW a \in Nat, NEW n \in {1, 2, 4}, NEW v \in 0 .. Values[n] - 1,
         ~Allowed(a - class.base, n), bytes' = Refused(a - class.base, n, v), UNCHANGED <<class, content>>
  PROVE  RamInv'
<1> DEFINE addr == a - class.base
<1>1. Size \in Nat /\ Size > 0 /\ Cells = 0 .. Size + 3 /\ Size % 4 = 0
  BY DigitIs, RamAssumption
<1>2. class.checked \in BOOLEAN /\ class.base \in Nat /\ (~class.checked => class.base = 0)
  BY ClassIs DEF RamInv
<1>3. addr \in Int /\ n \in Nat /\ n \in 1 .. 4
  BY <1>2
<1>4. ~(check(addr, n) /\ addr >= 0 /\ InArray(addr, n))
  BY DEF Allowed
<1> HIDE DEF addr
<1>5. CASE bytes' = bytes
  BY <1>5 DEF RamInv, Classes, Values, Digit
<1>6. CASE check(addr, n) /\ ~Whole(addr, n) /\ bytes' = Stored(addr, n, v)
  <2>1. check(addr, n) <=> (class.checked => addr >= 0 /\ addr + n <= Size)
    BY DEF check
  <2>2. InArray(addr, n) <=> addr + n - 1 \in Cells
    BY <1>6 DEF InArray
  <2>3. ~class.checked
    BY <1>1, <1>3, <1>4, <1>6, <2>1, <2>2
  <2>4. addr >= 0
    BY <1>2, <2>3 DEF addr
  <2>5. addr > Size
    BY <1>1, <1>3, <1>4, <1>6, <2>2, <2>4
  <2>6. \A i \in Cells : i \in Int /\ (i >= addr /\ i < addr + n => Digit(v, i - addr) \in Byte)
    <3> TAKE i \in Cells
    <3>1. i \in Int
      BY <1>1
    <3>2. ASSUME i >= addr, i < addr + n PROVE Digit(v, i - addr) \in Byte
      <4>1. i - addr \in 0 .. Size + 4
        BY <1>1, <1>3, <3>1, <3>2
      <4>2. v \in Int
        <5>1. n \in 0 .. Size + 4
          BY <1>1, <1>3
        <5>2. Values[n] \in Nat
          BY <5>1, DigitIs
        <5> QED BY <5>2
      <4> QED BY <4>1, <4>2, DigitIs
    <3> QED BY <3>1, <3>2
  <2>7. bytes' \in [Cells -> Byte]
    BY <1>6, <2>6 DEF RamInv, Stored
  <2>8. \A i \in 0 .. Size - 1 : bytes'[i] = bytes[i]
    <3> TAKE i \in 0 .. Size - 1
    <3>1. i \in Cells /\ ~(i >= addr)
      BY <1>1, <1>3, <2>5
    <3> QED BY <1>6, <3>1 DEF Stored
  <2> QED BY <2>7, <2>8 DEF RamInv, Classes, Values, Digit
<1>7. bytes' = Refused(addr, n, v)
  BY DEF addr
<1> QED BY <1>5, <1>6, <1>7 DEF Refused

\* exec_stores, store_binary: every store keeps the bytes of memory the digits
\* of content.
LEMMA RamKeeps ==
  ASSUME RamInv, RamNext
  PROVE  RamInv'
<1>1. Size \in Nat /\ Size > 0 /\ Cells = 0 .. Size + 3 /\ Size % 4 = 0 /\ \A a \in Addresses : a \in Nat
  BY DigitIs, RamAssumption DEF Addresses
<1>2. class.base \in Nat
  BY ClassIs DEF RamInv
<1>3. ASSUME NEW a \in Addresses, NEW n \in {1, 2, 4}, NEW v \in 0 .. Values[n] - 1, exec_stores(a, n, v)
      PROVE  RamInv'
  <2> DEFINE addr == a - class.base
  <2>1. a \in Nat /\ addr \in Int /\ n \in Nat /\ n \in 1 .. 4
    BY <1>1, <1>2
  <2>2. CASE UNCHANGED ramVars
    BY <2>2 DEF ramVars, RamInv, Classes, Values, Digit
  <2>3. CASE Allowed(addr, n) /\ bytes' = Stored(addr, n, v) /\ content' = Replaced(addr, n, v) /\ class' = class
    <3>1. addr >= 0 /\ InArray(addr, n)
      BY <2>3 DEF Allowed
    <3> HIDE DEF addr
    <3>2. addr + n <= Size + 4
      <4>1. CASE Whole(addr, n)
        <5>1. n = 4 /\ addr % 4 = 0 /\ addr \div 4 < (Size + 4) \div 4
          BY <3>1, <4>1 DEF Whole, InArray, Padding
        <5>2. addr = 4 * (addr \div 4) /\ Size + 4 = 4 * ((Size + 4) \div 4)
          BY <1>1, <2>1, <5>1
        <5> QED BY <1>1, <2>1, <5>1, <5>2
      <4>2. CASE ~Whole(addr, n)
        BY <1>1, <2>1, <3>1, <4>2 DEF InArray
      <4> QED BY <4>1, <4>2
    <3>3. addr \in Nat
      BY <2>1, <3>1
    <3> QED BY <2>1, <2>3, <3>2, <3>3, StoredAgrees
  <2>4. CASE ~Allowed(addr, n) /\ bytes' = Refused(addr, n, v) /\ UNCHANGED <<class, content>>
    BY <2>1, <2>4, RefusedAgrees
  <2> QED BY <1>3, <2>2, <2>3, <2>4 DEF exec_stores
<1>4. ASSUME NEW a \in Addresses, NEW v \in 0 .. Values[3] - 1, store_binary(a, 3, v)
      PROVE  RamInv'
  <2> DEFINE addr == a - class.base
  <2>1. a \in Nat /\ addr \in Int
    BY <1>1, <1>2
  <2>2. CASE UNCHANGED ramVars
    BY <2>2 DEF ramVars, RamInv, Classes, Values, Digit
  <2>3. CASE addr >= 0 /\ addr + 3 <= Size + Padding /\ bytes' = Stored(addr, 3, v)
             /\ content' = Replaced(addr, 3, v) /\ class' = class
    <3>1. addr \in Nat /\ addr + 3 <= Size + 4
      BY <2>1, <2>3 DEF Padding
    <3> HIDE DEF addr
    <3> QED BY <2>3, <3>1, StoredAgrees
  <2> QED BY <1>4, <2>2, <2>3 DEF store_binary, ramVars
<1> QED BY <1>3, <1>4 DEF RamNext

\* load_byte, load_half, load_word: a load from memory reads digits of content.
LEMMA LoadedIs ==
  ASSUME RamInv, NEW addr \in Nat, NEW n \in {1, 2, 4}, addr + n <= Size
  PROVE  Loaded(addr, n) = (content \div Values[addr]) % Values[n]
<1> DEFINE b == ByteSize
           q == content \div Values[addr]
           f == [i \in 0 .. n - 1 |-> bytes[addr + i]]
<1>1. b \in Nat /\ b >= 2 /\ Size \in Nat /\ n \in Nat /\ Size > 0
  BY DigitIs
<1>2. addr \in 0 .. Size + 4 /\ n \in 0 .. Size + 4 /\ Size \in 0 .. Size + 4
      /\ 1 \in 0 .. Size + 4 /\ 2 \in 0 .. Size + 4 /\ 3 \in 0 .. Size + 4
  BY <1>1
<1>3. /\ Values[addr] = Power(b)[addr] /\ Values[n] = Power(b)[n]
      /\ Values[1] = Power(b)[1] /\ Values[2] = Power(b)[2] /\ Values[3] = Power(b)[3]
      /\ Values[Size] \in Nat /\ Values[addr] \in Nat /\ Values[addr] >= 1
  BY <1>2, DigitIs
<1>4. content \in Int /\ q \in Int /\ q = content \div Power(b)[addr]
  BY <1>3 DEF RamInv
<1>5. ASSUME NEW i \in 0 .. n - 1 PROVE f[i] = DigitOf(b, q, i)
  <2>1. i \in Nat /\ addr + i \in 0 .. Size - 1 /\ addr + i \in 0 .. Size + 4 /\ addr + i = i + addr
    BY <1>1
  <2>2. f[i] = DigitOf(b, content, i + addr)
    BY <2>1, DigitIs DEF RamInv
  <2>3. DigitOf(b, content \div Power(b)[addr], i) = DigitOf(b, content, i + addr)
    BY <1>1, <1>4, <2>1, DigitOfQuotient
  <2> QED BY <1>4, <2>2, <2>3
<1>6. Loaded(addr, n) = Value(n, f)
  BY DEF Loaded
<1> HIDE DEF q, f
<1>7. /\ q % Power(b)[1] = DigitOf(b, q, 0)
      /\ q % Power(b)[2] = DigitOf(b, q, 0) + DigitOf(b, q, 1) * Power(b)[1]
      /\ q % Power(b)[4] = DigitOf(b, q, 0) + DigitOf(b, q, 1) * Power(b)[1]
                             + DigitOf(b, q, 2) * Power(b)[2] + DigitOf(b, q, 3) * Power(b)[3]
  BY <1>1, <1>4, LowestDigits
<1>8. CASE n = 1
  <2>1. f[0] = DigitOf(b, q, 0)
    BY <1>5, <1>8
  <2>2. Value(1, f) = f[0]
    BY DEF Value
  <2> QED BY <1>3, <1>6, <1>7, <1>8, <2>1, <2>2 DEF q
<1>9. CASE n = 2
  <2>1. f[0] = DigitOf(b, q, 0) /\ f[1] = DigitOf(b, q, 1)
    BY <1>5, <1>9
  <2>2. Value(2, f) = f[0] + f[1] * Values[1]
    BY DEF Value
  <2> QED BY <1>3, <1>6, <1>7, <1>9, <2>1, <2>2 DEF q
<1>10. CASE n = 4
  <2>1. f[0] = DigitOf(b, q, 0) /\ f[1] = DigitOf(b, q, 1) /\ f[2] = DigitOf(b, q, 2) /\ f[3] = DigitOf(b, q, 3)
    BY <1>5, <1>10
  <2>2. Value(4, f) = f[0] + f[1] * Values[1] + f[2] * Values[2] + f[3] * Values[3]
    BY DEF Value
  <2> QED BY <1>3, <1>6, <1>7, <1>10, <2>1, <2>2 DEF q
<1> QED BY <1>8, <1>9, <1>10

\* load_cstring: the string ends at the first zero digit of content.
LEMMA StringsAgree ==
  ASSUME RamInv
  PROVE  StringsEnd
<1>1. /\ Size \in Nat /\ Size > 0 /\ Cells = 0 .. Size + 3 /\ \A a \in Addresses : a \in Nat
      /\ MaxLen \in Nat
  BY DigitIs, RamAssumption DEF Addresses
<1>2. class.checked \in BOOLEAN /\ class.base \in Nat /\ (~class.checked => class.base = 0)
  BY ClassIs DEF RamInv
<1>3. ASSUME NEW a \in Addresses, load_cstring(a) # Fault
      PROVE  /\ a - class.base >= 0 /\ a - class.base + load_cstring(a) < Size
             /\ Digit(content, a - class.base + load_cstring(a)) = 0
             /\ \A i \in 0 .. load_cstring(a) - 1 : Digit(content, a - class.base + i) # 0
  <2> DEFINE addr == a - class.base
             bound == Min({addr + MaxLen, Size})
             ends == {i \in Cells : i >= addr /\ i < bound /\ bytes[i] = 0}
             m == Min(ends)
             k == load_cstring(a)
  <2>1. k = IF ends = {} \/ (class.checked /\ addr < 0) THEN Fault ELSE m - addr
    BY DEF load_cstring
  <2>2. ends # {} /\ ~(class.checked /\ addr < 0) /\ k = m - addr
    BY <1>3, <2>1
  <2>3. addr \in Nat
    BY <1>1, <1>2, <2>2
  <2>4. bound \in Nat /\ bound <= Size
    <3> HIDE DEF addr
    <3> DEFINE T == {addr + MaxLen, Size}
    <3>1. T \subseteq Nat /\ T # {}
      BY <1>1, <2>3
    <3>2. Size \in T
      OBVIOUS
    <3> HIDE DEF T
    <3>3. \E n \in T : \A j \in T : n <= j
      BY <3>1, LeastElement
    <3>4. Min(T) \in T /\ \A j \in T : Min(T) <= j
      BY <3>3 DEF Min
    <3> QED BY <3>1, <3>2, <3>4 DEF T
  <2> HIDE DEF addr, bound, k
  <2>5. m \in ends /\ \A j \in ends : m <= j
    <3>1. ends \subseteq Nat
      BY <1>1
    <3> HIDE DEF ends
    <3>2. \E n \in ends : \A j \in ends : n <= j
      BY <2>2, <3>1, LeastElement
    <3> QED BY <3>2 DEF Min
  <2> HIDE DEF m
  <2>6. m \in Nat /\ m >= addr /\ m < bound /\ bytes[m] = 0 /\ m \in 0 .. Size - 1
    BY <1>1, <2>4, <2>5
  <2>7. addr + k = m /\ k \in Nat
    BY <2>2, <2>3, <2>6
  <2>8. Digit(content, m) = 0
    BY <2>6 DEF RamInv
  <2>9. ASSUME NEW i \in 0 .. k - 1 PROVE Digit(content, addr + i) # 0
    <3>1. addr + i \in Nat /\ addr + i < m /\ addr + i >= addr
      BY <2>3, <2>7
    <3>2. addr + i \in Cells /\ addr + i < bound /\ addr + i \in 0 .. Size - 1
      BY <1>1, <2>4, <2>6, <3>1
    <3>3. addr + i \notin ends
      <4> HIDE DEF ends
      <4> QED BY <2>5, <2>6, <3>1
    <3>4. bytes[addr + i] # 0
      BY <3>1, <3>2, <3>3
    <3> QED BY <3>2, <3>4 DEF RamInv
  <2>10. addr >= 0 /\ addr + k < Size /\ Digit(content, addr + k) = 0
    BY <1>1, <2>3, <2>6, <2>7, <2>8
  <2> QED BY <2>9, <2>10 DEF addr, k
<1> QED BY <1>3 DEF StringsEnd

\* exec_loads: the digits of content are what a load sets its register to.
LEMMA LoadsFollow == RamInv => LoadsAgree
<1> SUFFICES ASSUME RamInv PROVE LoadsAgree
  OBVIOUS
<1>1. Size \in Nat /\ Size > 0 /\ Cells = 0 .. Size + 3 /\ Size % 4 = 0 /\ DeviceAt \in Nat /\ DeviceAt >= Size
      /\ \A a \in Addresses : a \in Nat
  BY DigitIs, RamAssumption DEF Addresses
<1>2. class.checked \in BOOLEAN /\ class.base \in Nat
  BY ClassIs DEF RamInv
<1>3. ASSUME NEW funct3 \in {0, 1, 2, 4, 5}, NEW a \in Addresses
      PROVE  LET n == Width(funct3)
                 addr == a - class.base
                 v == (content \div Values[addr]) % Values[n]
             IN  CASE addr >= 0 /\ addr + n <= Size ->
                        exec_loads(funct3, a) = (IF funct3 < 2 THEN SignExtended(v, n) ELSE v) % WordValues
                   [] class.checked /\ ~(addr >= 0 /\ addr + n <= Size) ->
                        IsDevice(addr, n) \/ exec_loads(funct3, a) = Fault
                   [] OTHER -> TRUE
  <2> DEFINE n == Width(funct3)
             addr == a - class.base
             v == (content \div Values[addr]) % Values[n]
  <2>1. n \in {1, 2, 4} /\ addr \in Int
    BY <1>1, <1>2 DEF Width
  <2>2. exec_loads(funct3, a) =
          CASE IsDevice(addr, n) -> Device
            [] ~IsDevice(addr, n) /\ ~Allowed(addr, n) -> Fault
            [] OTHER -> (IF funct3 < 2 THEN SignExtended(Loaded(addr, n), n) ELSE Loaded(addr, n)) % WordValues
    BY DEF exec_loads
  <2>3. CASE addr >= 0 /\ addr + n <= Size
    <3> HIDE DEF n, addr
    <3>1. addr \in Nat /\ n \in Nat
      BY <2>1, <2>3
    <3>2. ~IsDevice(addr, n)
      BY <1>1, <2>3, <3>1 DEF IsDevice
    <3>3. InArray(addr, n)
      <4>1. CASE Whole(addr, n)
        <5>1. n = 4
          BY <4>1 DEF Whole
        <5>2. addr \div 4 < (Size + 4) \div 4
          BY <1>1, <2>3, <3>1, <5>1
        <5> QED BY <4>1, <5>2 DEF InArray, Padding
      <4>2. CASE ~Whole(addr, n)
        <5>1. addr + n - 1 \in Cells
          BY <1>1, <2>1, <2>3, <3>1
        <5> QED BY <4>2, <5>1 DEF InArray
      <4> QED BY <4>1, <4>2
    <3>4. Allowed(addr, n)
      BY <2>3, <3>3 DEF Allowed, check
    <3>5. Loaded(addr, n) = v
      BY <2>1, <2>3, <3>1, LoadedIs
    <3>6. exec_loads(funct3, a) = (IF funct3 < 2 THEN SignExtended(v, n) ELSE v) % WordValues
      <4> HIDE DEF v
      <4> QED BY <2>2, <3>2, <3>4, <3>5
    <3> QED BY <2>3, <3>6 DEF n, addr
  <2>4. CASE ~(addr >= 0 /\ addr + n <= Size)
    <3>1. class.checked => ~Allowed(addr, n)
      BY <2>4 DEF Allowed, check
    <3>2. class.checked => IsDevice(addr, n) \/ exec_loads(funct3, a) = Fault
      <4> HIDE DEF n, addr
      <4> QED BY <2>2, <3>1
    <3> HIDE DEF v
    <3> QED BY <1>2, <2>4, <3>2
  <2> QED BY <2>3, <2>4
<1> QED BY <1>3, StringsAgree DEF LoadsAgree

\* load_byte, load_half, load_word, load_cstring and the stores: for memories
\* and bytes of any size and in every class, a load reads the digits of the
\* number that was stored last, and a checked class refuses every access that
\* is not wholly in memory.
THEOREM LoadsAsStored == Spec => []LoadsAgree
<1>1. Init => RamInv
  <2> SUFFICES ASSUME Init PROVE RamInv
    OBVIOUS
  <2>1. class \in Classes /\ bytes = [i \in Cells |-> 0] /\ content = 0
    BY DEF Init, RamInit
  <2>2. ByteSize \in Nat /\ ByteSize >= 2 /\ Size \in Nat /\ Cells = 0 .. Size + 3
    BY DigitIs
  <2>3. \A n \in 0 .. Size + 4 : n \in Nat /\ Values[n] = Power(ByteSize)[n] /\ Values[n] \in Nat /\ Values[n] >= 1
                                 /\ Digit(0, n) = DigitOf(ByteSize, 0, n)
    BY DigitIs
  <2>4. 0 \in Byte /\ 0 \in 0 .. Values[Size] - 1
    BY <2>2, <2>3 DEF Byte
  <2>5. ASSUME NEW i \in 0 .. Size - 1 PROVE Digit(content, i) = bytes[i]
    <3>1. i \in 0 .. Size + 4 /\ i \in Cells
      BY <2>2
    <3>2. i \in Nat /\ 0 \in 0 .. Power(ByteSize)[i] - 1 /\ Digit(0, i) = DigitOf(ByteSize, 0, i)
      BY <2>3, <3>1
    <3>3. DigitOf(ByteSize, 0, i) = 0
      BY <2>2, <3>2, DigitAbove
    <3> QED BY <2>1, <3>1, <3>2, <3>3
  <2> QED BY <2>1, <2>4, <2>5 DEF RamInv
<1>2. RamInv /\ [Next]_vars => RamInv'
  <2> SUFFICES ASSUME RamInv, [Next]_vars PROVE RamInv'
    OBVIOUS
  <2>1. CASE UNCHANGED ramVars
    BY <2>1 DEF ramVars, RamInv, Classes, Values, Digit
  <2>2. CASE RamNext
    BY <2>2, RamKeeps
  <2> QED BY <2>1, <2>2 DEF Next, alu, ram, expand, decoder, vars
<1> QED BY <1>1, <1>2, LoadsFollow, PTL DEF Spec
=============================================================================
