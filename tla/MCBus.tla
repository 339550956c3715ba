------------------------------- MODULE MCBus -------------------------------
(* A small instance of Bus for TLC. *)
EXTENDS Bus
=============================================================================
