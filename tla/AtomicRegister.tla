--------------------------- MODULE AtomicRegister ---------------------------
(***************************************************************************)
(* What a 64-bit timer register promises to the guest (README.md:372): the *)
(* register is written one 32-bit half at a time, in any order, and its    *)
(* value changes once, as a whole, when the second half arrives.  Each     *)
(* port (the CSRs, the memory-mapped registers) collects its own halves.   *)
(* A register with a HalfPort has one more port, whose writes replace one  *)
(* half at once.  A register that Ticks also counts up by one.             *)
(***************************************************************************)
EXTENDS Words

CONSTANTS Ports, HalfPort, Ticks

VARIABLES
  value, \* the 64-bit register
  pend   \* pend[p]: the halves written at port p since its last commit

Half == {"lo", "hi"}

vars == <<value, pend>>

Pending == UNION {[S -> Word] : S \in SUBSET Half}

Init ==
  /\ value \in Nat
  /\ pend = [p \in Ports |-> [h \in {} |-> 0]]

\* The halves held at port p once half h has been written with w.
With(p, h, w) ==
  [k \in DOMAIN pend[p] \cup {h} |-> IF k = h THEN w ELSE pend[p][k]]

\* First half, or a half written again before the other one.
WriteFirst(p, h, w) ==
  /\ DOMAIN With(p, h, w) # Half
  /\ pend' = [pend EXCEPT ![p] = With(p, h, w)]
  /\ UNCHANGED value

\* Second half: the whole register changes.
WriteSecond(p, h, w) ==
  /\ DOMAIN With(p, h, w) = Half
  /\ value' = Double(With(p, h, w)["hi"], With(p, h, w)["lo"])
  /\ pend' = [pend EXCEPT ![p] = [k \in {} |-> 0]]

\* One half is replaced, and the halves that wait elsewhere keep waiting.
WriteHalf(h, w) ==
  /\ HalfPort
  /\ value' = IF h = "lo" THEN Double(value \div WordSize, w)
                         ELSE Double(w, value % WordSize)
  /\ UNCHANGED pend

Tick ==
  /\ Ticks
  /\ value' = value + 1
  /\ UNCHANGED pend

Next ==
  \/ \E p \in Ports, h \in Half, w \in Word : WriteFirst(p, h, w) \/ WriteSecond(p, h, w)
  \/ \E h \in Half, w \in Word : WriteHalf(h, w)
  \/ Tick

Spec == Init /\ [][Next]_vars
=============================================================================
