---------------------------- MODULE MCGdbSession ----------------------------
(* GdbSession for TLC.  Addresses are model values. *)
EXTENDS GdbSession
=============================================================================
