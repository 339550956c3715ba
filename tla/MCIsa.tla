------------------------------- MODULE MCIsa -------------------------------
(* A small instance of Isa for TLC: words of four bits for the arithmetic,  *)
(* bytes of one bit for the memory, all half words, and a few instructions  *)
(* for the caches.                                                          *)
EXTENDS Isa

MCImmediates == {-8, -1, 1, 3}

\* ADDI x0, x0, 0; the same with its low bits changed; three instructions
\* that differ from it in the opcode, in rd and in the immediate; C.NOP,
\* C.MV x1, x1, and a half word that is reserved.
MCFetches == {{0, 1, 4}, {1, 4}, {0, 1, 2, 4}, {0, 1, 4, 7}, {0, 1, 4, 20}, {0}, {1, 2, 7, 15}, {15}}
=============================================================================
