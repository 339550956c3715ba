------------------------------ MODULE Decoder ------------------------------
(***************************************************************************)
(* execute, execute_32 and execute_16 of cpu.py up to the call of the      *)
(* handler: an instruction is decoded once, and from then on its fields    *)
(* are taken from one of two caches.  The first is keyed by the            *)
(* instruction without its two low bits, the second by the half word.      *)
(***************************************************************************)
EXTENDS Rvc

CONSTANT
  Fetches      \* the words that the loops may pass to execute

ASSUME FetchAssumption == Fetches \subseteq SUBSET (0 .. 31)

VARIABLES
  rvc_enabled,
  decode_cache, decode_cache_compressed,
  fetched,     \* the last word that was executed
  decoded,     \* what its handler was called with, or None
  shortened    \* history: execute_32 was given a word that does not end in 11

decoderVars == <<rvc_enabled, decode_cache, decode_cache_compressed, fetched, decoded, shortened>>

DecoderInit ==
  /\ rvc_enabled \in BOOLEAN
  /\ decode_cache = <<>> /\ decode_cache_compressed = <<>>
  /\ fetched = {} /\ decoded = None
  /\ shortened = FALSE

\* A slip in Key: one bit too many is dropped.
Key_short(inst) == Shr(inst, 3)

\* The key of decode_cache.
Key(inst) == Shr(inst, 2)

Wide(inst) == {0, 1} \subseteq inst

\* The entry of the cache under k, which is d if there is none yet.
Entry(cache, k, d) == IF k \in DOMAIN cache THEN cache[k] ELSE d

\* The cache with that entry.
Caching(cache, k, d) == [x \in DOMAIN cache \cup {k} |-> Entry(cache, x, d)]

execute_32(inst) ==
  /\ decode_cache' = Caching(decode_cache, Key(inst), fields(inst))
  /\ decoded' = Entry(decode_cache, Key(inst), fields(inst))
  /\ shortened' = (shortened \/ ~Wide(inst))
  /\ UNCHANGED decode_cache_compressed

\* What execute_16 keeps for a half word.
HalfEntry(inst16) ==
  [fields |-> fields(expand_compressed(inst16)), expanded |-> expand_compressed(inst16)]

\* A half word that cannot be expanded is not cached; it traps.
execute_16(inst16) ==
  /\ \/ /\ inst16 \notin DOMAIN decode_cache_compressed
        /\ expand_compressed(inst16) = None
        /\ decoded' = None
        /\ UNCHANGED decode_cache_compressed
     \/ /\ \/ inst16 \in DOMAIN decode_cache_compressed
           \/ expand_compressed(inst16) # None
        /\ decode_cache_compressed' =
             Caching(decode_cache_compressed, inst16, HalfEntry(inst16))
        /\ decoded' = Entry(decode_cache_compressed, inst16, HalfEntry(inst16))
  /\ UNCHANGED <<decode_cache, shortened>>

execute(inst) ==
  /\ \/ (~rvc_enabled \/ Wide(inst)) /\ execute_32(inst)
     \/ rvc_enabled /\ ~Wide(inst) /\ execute_16(inst \cap 0 .. 15)
  /\ fetched' = inst
  /\ UNCHANGED rvc_enabled

DecoderNext == \E inst \in Fetches : execute(inst)

-----------------------------------------------------------------------------
(* Properties                                                              *)

\* execute_32, execute_16: whatever was executed before, a handler is called
\* with the fields of the instruction that was fetched, provided that with
\* RVC off the program holds no word that does not end in 11.
DecodedAsFetched ==
  fetched # {} /\ ~shortened =>
    IF Wide(fetched) THEN decoded = fields(fetched)
    ELSE LET inst16 == fetched \cap 0 .. 15
         IN  decoded = IF expand_compressed(inst16) = None THEN None ELSE HalfEntry(inst16)
=============================================================================
