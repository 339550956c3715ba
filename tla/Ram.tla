-------------------------------- MODULE Ram --------------------------------
(***************************************************************************)
(* ram.py: memory as an array of bytes that is read and written as bytes,  *)
(* half words and words, aligned or not, by the load and store             *)
(* instructions and by the host's bulk copies.  The five classes differ in *)
(* whether they check addresses, in a base address and in whether words    *)
(* may belong to a device.                                                 *)
(*                                                                         *)
(* A byte has ByteSize values and a word has four bytes, as in the code.   *)
(* Beside the bytes the module carries content, the memory as one number   *)
(* in which the byte at address 0 is the least significant digit.          *)
(***************************************************************************)
EXTENDS Numbers, FiniteSetsExt

CONSTANTS
  ByteSize, Size,
  Base,        \* base_addr of SafeRAMOffset
  DeviceAt,    \* where the registers of a device begin, one word
  MaxLen       \* max_len of load_cstring

ASSUME RamAssumption ==
  /\ ByteSize \in Nat /\ ByteSize >= 2
  /\ Size \in Nat /\ Size > 0 /\ Size % 4 = 0
  /\ Base \in Nat /\ Base % 4 = 0
  /\ DeviceAt \in Nat /\ DeviceAt >= Size
  /\ MaxLen \in Nat \ {0}

VARIABLES
  class,       \* the class of the RAM object
  bytes,       \* self.memory
  content      \* history: the memory as a number

ramVars == <<class, bytes, content>>

-----------------------------------------------------------------------------
(* The classes                                                             *)

RAM == [checked |-> FALSE, base |-> 0, mmio |-> FALSE]
SafeRAM == [RAM EXCEPT !.checked = TRUE]
SafeRAMOffset == [RAM EXCEPT !.checked = TRUE, !.base = Base]
RAM_MMIO == [RAM EXCEPT !.mmio = TRUE]
SafeRAM_MMIO == [RAM EXCEPT !.checked = TRUE, !.mmio = TRUE]

Classes == {RAM, SafeRAM, SafeRAMOffset, RAM_MMIO, SafeRAM_MMIO}

\* A slip in Padding: the array ends with the memory.
Padding_none == 0

\* Bytes behind the memory, so that an access that begins below Size ends in
\* the array.
Padding == 4

Cells == 0 .. Size + Padding - 1
Byte == 0 .. ByteSize - 1
Addresses == 0 .. Base + Size + Padding + 1

\* How many values n bytes have.
Values == [n \in 0 .. Size + Padding |-> Power(ByteSize)[n]]

\* v as bytes, and back.
Digit(v, i) == (v \div Values[i]) % ByteSize
Value(n, f) ==
  CASE n = 1 -> f[0]
    [] n = 2 -> f[0] + f[1] * Values[1]
    [] n = 4 -> f[0] + f[1] * Values[1] + f[2] * Values[2] + f[3] * Values[3]

RamInit ==
  /\ class \in Classes
  /\ bytes = [i \in Cells |-> 0]
  /\ content = 0

-----------------------------------------------------------------------------
(* Accesses                                                                *)

\* SafeRAM.check; the classes without it let anything pass.
check(addr, n) == class.checked => addr >= 0 /\ addr + n <= Size

\* An aligned word is one access to memory32; anything else goes byte by
\* byte, and stops at the first that is not in the array.
Whole(addr, n) == n = 4 /\ addr % 4 = 0
InArray(addr, n) == IF Whole(addr, n) THEN addr \div 4 < (Size + Padding) \div 4
                                      ELSE addr + n - 1 \in Cells

Allowed(addr, n) == check(addr, n) /\ addr >= 0 /\ InArray(addr, n)

\* load_byte, load_half, load_word
Loaded(addr, n) == Value(n, [i \in 0 .. n - 1 |-> bytes[addr + i]])
SignExtended(v, n) == IF v < Values[n] \div 2 THEN v ELSE v - Values[n]

\* The bytes after n bytes of v were stored, if need be up to the end.
Stored(addr, n, v) ==
  [i \in Cells |-> IF i >= addr /\ i < addr + n THEN Digit(v, i - addr) ELSE bytes[i]]

\* store_byte, store_half, store_word raise; those that go byte by byte may
\* have stored some.
Refused(addr, n, v) ==
  IF check(addr, n) /\ ~Whole(addr, n) THEN Stored(addr, n, v) ELSE bytes

\* The first device whose range holds the address of a word.
IsDevice(addr, n) == class.mmio /\ n = 4 /\ addr >= DeviceAt /\ addr < DeviceAt + 4

-----------------------------------------------------------------------------
(* What a program and its system calls do with memory                      *)

Fault == -1
Device == -2   \* whatever the device answers
WordValues == Values[4]

\* The number of bytes that a load reads, and what its register is set to.
Width(funct3) == CASE funct3 \in {0, 4} -> 1 [] funct3 \in {1, 5} -> 2 [] funct3 = 2 -> 4

exec_loads(funct3, a) ==
  LET n == Width(funct3)
      addr == a - class.base
  IN  CASE IsDevice(addr, n) -> Device
        [] ~IsDevice(addr, n) /\ ~Allowed(addr, n) -> Fault
        [] OTHER -> (IF funct3 < 2 THEN SignExtended(Loaded(addr, n), n) ELSE Loaded(addr, n)) % WordValues

\* content with the n digits at addr replaced by those of v.
Replaced(addr, n, v) ==
  (content + (v - ((content \div Values[addr]) % Values[n])) * Values[addr]) % Values[Size]

exec_stores(a, n, v) ==
  LET addr == a - class.base IN
  \/ /\ IsDevice(addr, n)
     /\ UNCHANGED ramVars
  \/ /\ ~IsDevice(addr, n) /\ Allowed(addr, n)
     /\ bytes' = Stored(addr, n, v)
     /\ content' = Replaced(addr, n, v)
     /\ UNCHANGED class
  \/ /\ ~IsDevice(addr, n) /\ ~Allowed(addr, n)
     /\ bytes' = Refused(addr, n, v)
     /\ UNCHANGED <<class, content>>

\* A slice assignment, which is refused as a whole if the array would have to
\* grow.
store_binary(a, n, v) ==
  LET addr == a - class.base IN
  /\ \/ /\ check(addr, n) /\ addr >= 0 /\ addr + n <= Size + Padding
        /\ bytes' = Stored(addr, n, v)
        /\ content' = Replaced(addr, n, v)
     \/ /\ ~(check(addr, n) /\ addr >= 0 /\ addr + n <= Size + Padding)
        /\ UNCHANGED <<bytes, content>>
  /\ UNCHANGED class

\* The length of the string, in bytes.
load_cstring(a) ==
  LET addr == a - class.base
      ends == {i \in Cells : i >= addr /\ i < Min({addr + MaxLen, Size}) /\ bytes[i] = 0}
  IN  IF ends = {} \/ (class.checked /\ addr < 0) THEN Fault ELSE Min(ends) - addr

RamNext ==
  \/ \E a \in Addresses, n \in {1, 2, 4} : \E v \in 0 .. Values[n] - 1 : exec_stores(a, n, v)
  \/ \E a \in Addresses : \E v \in 0 .. Values[3] - 1 : store_binary(a, 3, v)

-----------------------------------------------------------------------------
(* Properties                                                              *)

\* A string that is read ends at the first zero, which is in memory and not
\* in the padding behind it.
StringsEnd ==
  \A a \in Addresses :
    LET addr == a - class.base
        k == load_cstring(a)
        digit(i) == Digit(content, i)
    IN  k = Fault \/ (/\ addr >= 0 /\ addr + k < Size /\ digit(addr + k) = 0
                      /\ \A i \in 0 .. k - 1 : digit(addr + i) # 0)

\* load_byte, load_half, load_word and their stores: whatever was stored in
\* bytes, half words, words or blocks, and whichever stores were refused, a
\* load from memory reads the digits of the number that was stored last, and
\* a checked class refuses every access that is not wholly in memory;
\* a string of load_cstring ends at the first zero of that number.
LoadsAgree ==
  /\ StringsEnd
  /\ \A funct3 \in {0, 1, 2, 4, 5}, a \in Addresses :
       LET n == Width(funct3)
           addr == a - class.base
           v == (content \div Values[addr]) % Values[n]
       IN  CASE addr >= 0 /\ addr + n <= Size ->
                  exec_loads(funct3, a) = (IF funct3 < 2 THEN SignExtended(v, n) ELSE v) % WordValues
             [] class.checked /\ ~(addr >= 0 /\ addr + n <= Size) ->
                  IsDevice(addr, n) \/ exec_loads(funct3, a) = Fault
             [] OTHER -> TRUE
=============================================================================
