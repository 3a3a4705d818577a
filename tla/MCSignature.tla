---------------------------- MODULE MCSignature ----------------------------
(* y^2 = x^3 + 2 over the integers modulo 13 has 19 points, (1, 4) among   *)
(* them: a field smaller than the group, both prime, as Pallas is; and the *)
(* fifth power is a permutation of the field.                              *)
EXTENDS Signature

Modulus   == 13
Order     == 19
CoeffB    == 2
Generator == [x |-> 1, y |-> 4]
Bits      == 6

RoundKeys  == << <<3, 1, 4>>, <<1, 5, 9>>, <<2, 6, 5>> >>
Mds        == << <<1, 2, 1>>, <<3, 1, 2>>, <<1, 1, 4>> >>
MdsInverse == << <<8, 11, 12>>, <<12, 12, 4>>, <<8, 4, 6>> >>
TestnetIV == <<7, 2, 11>>
MainnetIV == <<8, 0, 12>>

SomeTransactions == {[before |-> <<a>>, after |-> <<>>] : a \in {0, 5}} \union {[before |-> <<12>>, after |-> <<1>>]}
SomeJunk == {<<0, 0, 0>>, <<9, 9, 9>>}
=============================================================================
