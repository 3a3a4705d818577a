--------------------------- MODULE MCCurveChecks ---------------------------
(* y^2 = x^3 + 2 over the integers modulo 13 has 19 points, (1, 4) among   *)
(* them: a field smaller than the group, both prime, as Pallas is.         *)
EXTENDS CurveChecks

Modulus     == 13
Order       == 19
CoeffB      == 2
Generator   == [x |-> 1, y |-> 4]
Bits        == 6
=============================================================================
