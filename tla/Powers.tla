------------------------------- MODULE Powers -------------------------------
(* Powers as a function, which can be unfolded in a proof.                 *)
EXTENDS Integers

Power(b) == LET power[n \in Nat] == IF n = 0 THEN 1 ELSE b * power[n - 1]
            IN  power
=============================================================================
