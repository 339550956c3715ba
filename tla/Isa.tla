-------------------------------- MODULE Isa --------------------------------
(***************************************************************************)
(* The parts of an instruction's execution that work on numbers: the       *)
(* arithmetic of the registers, the bytes of memory, the expansion of      *)
(* compressed instructions and the decoder with its caches.  They share no *)
(* state but the instruction at hand, so a behaviour exercises one of them *)
(* throughout.                                                             *)
(***************************************************************************)
EXTENDS Alu, Ram, Decoder

VARIABLES
  part,        \* the part that this behaviour exercises
  half         \* the half word that is expanded, or None

vars == <<part, half, aluVars, ramVars, decoderVars>>

Init ==
  /\ part \in {"alu", "ram", "rvc", "decoder"}
  /\ half = None
  /\ AluInit /\ RamInit /\ DecoderInit
  /\ part # "ram" => class = RAM
  /\ part # "decoder" => rvc_enabled

alu == part = "alu" /\ AluNext /\ UNCHANGED <<part, half, ramVars, decoderVars>>
ram == part = "ram" /\ RamNext /\ UNCHANGED <<part, half, aluVars, decoderVars>>
decoder == part = "decoder" /\ DecoderNext /\ UNCHANGED <<part, half, aluVars, ramVars>>

\* Any half word that is not the beginning of a 32-bit instruction.
expand ==
  /\ part = "rvc" /\ half = None
  /\ \E c \in SUBSET (0 .. 15) : ~Wide(c) /\ half' = c
  /\ UNCHANGED <<part, aluVars, ramVars, decoderVars>>

Next == alu \/ ram \/ decoder \/ expand

Spec == Init /\ [][Next]_vars

\* expand_compressed: the 32-bit instruction that takes the place of a half
\* word is decoded to the same operation, registers and immediate that RV32C
\* defines for the half word, for all of them; what it refuses is reserved or
\* has no effect.
ExpansionFaithful ==
  half # None =>
    IF Reserved(half) \/ RefusedHint(half) THEN expand_compressed(half) = None
    ELSE Decoded(expand_compressed(half)) = HalfMeaning(half)
=============================================================================
