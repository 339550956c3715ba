------------------------------- MODULE MCHart -------------------------------
(* Small instances of Hart for TLC. *)
EXTENDS Hart
=============================================================================
