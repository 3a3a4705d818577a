---------------------------- MODULE CurveChecks ----------------------------
(***************************************************************************)
(* curve_checks: the six tests that the Crypto Tests command runs on the   *)
(* device over a table of vectors.  Here a behaviour is the pass of the    *)
(* loop over one vector, and the vectors are all there are: two scalars,   *)
(* three points, and five expected results, worked out on EllipticCurve as *)
(* the table's were by the reference signer.                               *)
(***************************************************************************)
EXTENDS Pallas

VARIABLES
    S,       \* S[1], S[2]: the scalars of the vector, S[3] that of its third point
    A,       \* A[1], A[2], A[3]: the points
    test     \* the next test, Passed when curve_checks returns true, Failed when false

vector == <<S, A, test>>

Passed == 7
Failed == 0

G(k) == Times(k, AFFINE_ONE)
T == << PointSum(A[1], A[2]), G(S[1] + S[2]), G(S[1] * S[2]), G(-S[1]), PointSum(PointSum(A[1], A[2]), A[3]) >>

EachVector ==
    /\ S \in Scalar \X Scalar \X Scalar
    /\ A = <<G(S[1]), G(S[2]), G(S[3])>>
    /\ test = 1

\* Two ways to one result, which is on the curve and the expected one.
Agree(a3, a4, target) == a3 = a4 /\ affine_is_on_curve(a3) /\ a3 = target

Passes(n) ==
    CASE n = 1 -> \A i \in 1 .. 3 : affine_is_on_curve(A[i])
      [] n = 2 -> Agree(affine_add(A[1], A[2]), affine_add(A[2], A[1]), T[1])
      [] n = 3 -> Agree(generate_pubkey(scalar_add(S[1], S[2])), affine_add(A[1], A[2]), T[2])
      [] n = 4 -> Agree(generate_pubkey(scalar_mul(S[1], S[2])), affine_scalar_mul(S[1], A[2]), T[3])
      [] n = 5 -> Agree(generate_pubkey(scalar_negate(S[1])), affine_negate(A[1]), T[4])
      [] n = 6 -> Agree(affine_add(affine_add(A[1], A[2]), A[3]),
                        affine_add(A[1], affine_add(A[2], A[3])), T[5])

Test(n) ==
    /\ test = n
    /\ test' = IF Passes(n) THEN n + 1 ELSE Failed
    /\ UNCHANGED <<S, A>>

curve_checks == \E n \in 1 .. 6 : Test(n)

ChecksSpec == EachVector /\ [][curve_checks]_vector

----------------------------------------------------------------------------
(* The tests pass on every vector, not on five: the affine operations of   *)
(* crypto.c are the group operations of the curve, for every scalar below  *)
(* the order (the bit loop and its formulas never meet a case they         *)
(* get wrong) and every point, the one at infinity included.               *)
ChecksPass == test # Failed

(* All the forms group_add may be called with, beyond those the tests give *)
(* it: any two Jacobian forms of any two points add to a form of the sum   *)
(* on the curve, except two different forms of one point, which the        *)
(* comparison of group_add takes for different points: their sum is lost   *)
(* and comes out as zero.                                                  *)
Forms(p) == IF p = Infinity THEN {[X |-> (z * z) % FIELD_MODULUS, Y |-> (z * z * z) % FIELD_MODULUS, Z |-> 0] :
                                      z \in Field \ {0}}
            ELSE {[X |-> (p.x * z * z) % FIELD_MODULUS, Y |-> (p.y * z * z * z) % FIELD_MODULUS, Z |-> z] :
                      z \in Field \ {0}}
FormsAdd ==
    test = 1 /\ S[3] = 0 =>
        \A p \in Forms(A[1]), q \in Forms(A[2]) :
            LET sum == group_add(p, q)
            IN  /\ group_is_on_curve(sum)
                /\ affine_from_group(sum) = IF Twins(p, q) THEN Infinity ELSE PointSum(A[1], A[2])
=============================================================================
