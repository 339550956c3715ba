------------------------------ MODULE Numbers ------------------------------
(***************************************************************************)
(* Powers by recursion, so that what holds of all of them can be proved.   *)
(***************************************************************************)
EXTENDS Integers

\* b to the power of n is Power(b)[n].
Power(b) == LET power[n \in Nat] == IF n = 0 THEN 1 ELSE b * power[n - 1] IN power
=============================================================================
