---------------------------- MODULE MCTimerRegs ----------------------------
(* Small instances of TimerRegs for TLC. *)
EXTENDS TimerRegs
=============================================================================
