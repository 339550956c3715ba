---------------------------- MODULE MCSyscalls ----------------------------
(* A small instance of Syscalls for TLC. *)
EXTENDS Syscalls

\* An argument of three characters, and one of three characters that takes
\* four bytes.
MCArgs == {[chars |-> 3, bytes |-> 3], [chars |-> 3, bytes |-> 4]}
=============================================================================
