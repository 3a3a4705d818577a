------------------------------- MODULE Pallas -------------------------------
(***************************************************************************)
(* The arithmetic of crypto.c: fields, scalars, and points of the curve in *)
(* affine and in Jacobian coordinates, where (X : Y : Z) stands for        *)
(* (X/Z^2, Y/Z^3) and Z = 0 for the point at infinity.  One point has many *)
(* Jacobian forms, and the code compares forms, not points.                *)
(* group_scalar_mul is a loop: its start and its step are operators here,  *)
(* and the modules that use it run it bit by bit or whole.                 *)
(***************************************************************************)
EXTENDS EllipticCurve, Powers

CONSTANT SCALAR_BITS    \* 256 in the code, two more than a scalar needs

\* The order is between 2^(SCALAR_BITS - 2) and 2^(SCALAR_BITS - 1), and a
\* field element is a scalar.
ASSUME WidthAssumption ==
    /\ SCALAR_BITS \in Nat \ {0, 1}
    /\ Power(2)[SCALAR_BITS - 2] < GROUP_ORDER /\ GROUP_ORDER < Power(2)[SCALAR_BITS - 1]
    /\ FIELD_MODULUS <= GROUP_ORDER

----------------------------------------------------------------------------
field_add(a, b) == (a + b) % FIELD_MODULUS
field_sub(a, b) == (a - b) % FIELD_MODULUS
field_mul(a, b) == (a * b) % FIELD_MODULUS
field_sq(a)     == field_mul(a, a)
field_inv(a)    == CHOOSE c \in Field : field_mul(a, c) = 1
field_negate(a) == field_sub(0, a)
\* cx_math_powm, for the small exponents it is given
field_pow(a, e) == Power(a)[e] % FIELD_MODULUS
field_is_odd(y) == y % 2 = 1

\* The two top bits of a string of SCALAR_BITS bits are dropped.
\* Slip: only one is.
scalar_from_bytes_oneBit(a) == a % Power(2)[SCALAR_BITS - 1]
scalar_from_bytes(a) == a % Power(2)[SCALAR_BITS - 2]

scalar_add(a, b)  == (a + b) % GROUP_ORDER
scalar_mul(a, b)  == (a * b) % GROUP_ORDER
scalar_negate(a)  == (-a) % GROUP_ORDER

----------------------------------------------------------------------------
Group == [X : Field, Y : Field, Z : Field]
GROUP_ZERO == [X |-> 0, Y |-> 1, Z |-> 0]

group_is_zero(p) == p.Z = 0

\* dbl-1986-cc
\* Slip: Z is not doubled.
group_dbl_keepsZ(p) ==
    LET S == field_mul(4, field_mul(p.X, field_sq(p.Y)))
        M == field_mul(3, field_sq(p.X))
        T == field_sub(field_sq(M), field_mul(2, S))
    IN  [X |-> T, Y |-> field_sub(field_mul(M, field_sub(S, T)), field_mul(8, field_sq(field_sq(p.Y)))),
         Z |-> field_mul(p.Y, p.Z)]
group_dbl(p) ==
    IF group_is_zero(p) THEN p
    ELSE LET S == field_mul(4, field_mul(p.X, field_sq(p.Y)))
             M == field_mul(3, field_sq(p.X))
             T == field_sub(field_sq(M), field_mul(2, S))
         IN  [X |-> T,
              Y |-> field_sub(field_mul(M, field_sub(S, T)), field_mul(8, field_sq(field_sq(p.Y)))),
              Z |-> field_mul(2, field_mul(p.Y, p.Z))]

\* add-1986-cc, for two forms that are neither zero nor the same
AddForms(p, q) ==
    LET U1 == field_mul(p.X, field_sq(q.Z))
        U2 == field_mul(q.X, field_sq(p.Z))
        S1 == field_mul(p.Y, field_mul(field_sq(q.Z), q.Z))
        S2 == field_mul(q.Y, field_mul(field_sq(p.Z), p.Z))
        P  == field_sub(U2, U1)
        R  == field_sub(S2, S1)
        X3 == field_sub(field_sq(R), field_mul(field_add(U1, U2), field_sq(P)))
    IN  [X |-> X3,
         Y |-> field_sub(field_mul(R, field_sub(field_mul(U1, field_sq(P)), X3)),
                         field_mul(S1, field_mul(field_sq(P), P))),
         Z |-> field_mul(p.Z, field_mul(q.Z, P))]

\* Slip: a point is not told from itself.
group_add_neverDoubles(p, q) ==
    IF group_is_zero(p) THEN q
    ELSE IF group_is_zero(q) THEN p
    ELSE AddForms(p, q)
group_add(p, q) ==
    IF group_is_zero(p) THEN q
    ELSE IF group_is_zero(q) THEN p
    ELSE IF p = q THEN group_dbl(p)
    ELSE AddForms(p, q)

group_negate(p) == [p EXCEPT !.Y = field_negate(@)]

group_is_on_curve(p) ==
    \/ group_is_zero(p)
    \/ field_sq(p.Y) = field_add(field_mul(field_sq(p.X), p.X), field_mul(field_pow(p.Z, 6), GROUP_COEFF_B))

\* Bit i of k, counted from the top as the loop counts.
ScalarBit(k, i) == (k \div Power(2)[SCALAR_BITS - 1 - i]) % 2
ScalarMulStep(q, k, i, p) ==
    LET twice == group_dbl(q)
    IN  IF ScalarBit(k, i) = 1 THEN group_add(twice, p) ELSE twice
group_scalar_mul(k, p) ==
    IF group_is_zero(p) \/ k = 0 THEN GROUP_ZERO
    ELSE LET q[i \in 0 .. SCALAR_BITS] ==
                 IF i = 0 THEN GROUP_ZERO ELSE ScalarMulStep(q[i - 1], k, i - 1, p)
         IN  q[SCALAR_BITS]

----------------------------------------------------------------------------
affine_to_group(p) ==
    IF p.x = 0 /\ p.y = 0 THEN GROUP_ZERO ELSE [X |-> p.x, Y |-> p.y, Z |-> 1]

affine_from_group(p) ==
    IF p.Z = 0 THEN [x |-> 0, y |-> 0]
    ELSE LET zi  == field_inv(p.Z)
             zi2 == field_sq(zi)
         IN  [x |-> field_mul(p.X, zi2), y |-> field_mul(p.Y, field_mul(zi2, zi))]

affine_scalar_mul(k, p) == affine_from_group(group_scalar_mul(k, affine_to_group(p)))
affine_add(p, q)        == affine_from_group(group_add(affine_to_group(p), affine_to_group(q)))
affine_negate(p)        == affine_from_group(group_negate(affine_to_group(p)))
affine_is_on_curve(p)   == group_is_on_curve(affine_to_group(p))

generate_pubkey(priv_key) == affine_scalar_mul(priv_key, AFFINE_ONE)

----------------------------------------------------------------------------
\* Two forms of one point that are not the same: what group_add cannot add.
Twins(p, q) ==
    /\ ~group_is_zero(p) /\ ~group_is_zero(q)
    /\ p # q
    /\ affine_from_group(p) = affine_from_group(q)
=============================================================================
