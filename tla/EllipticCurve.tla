--------------------------- MODULE EllipticCurve ---------------------------
(***************************************************************************)
(* The group that crypto.c computes in, as a textbook defines it: the      *)
(* points of y^2 = x^3 + b over the integers modulo a prime and a point at *)
(* infinity, added by chords and tangents.  Nothing here is code of the    *)
(* app; Pallas is held against it.                                         *)
(***************************************************************************)
EXTENDS Integers, FiniteSets

CONSTANTS
    FIELD_MODULUS,    \* a prime
    GROUP_ORDER,      \* the number of points, a prime too
    GROUP_COEFF_B,    \* b
    AFFINE_ONE        \* the generator

Field  == 0 .. FIELD_MODULUS - 1
Scalar == 0 .. GROUP_ORDER - 1

\* The point at infinity is written (0, 0), which is not on the curve.
Infinity == [x |-> 0, y |-> 0]

OnCurve(p) == (p.y * p.y) % FIELD_MODULUS = (p.x * p.x * p.x + GROUP_COEFF_B) % FIELD_MODULUS
Points     == {p \in [x : Field, y : Field] : OnCurve(p)} \union {Infinity}

ASSUME CurveAssumption ==
    /\ FIELD_MODULUS \in Nat \ {0, 1, 2, 3}
    /\ \A d \in 2 .. FIELD_MODULUS - 1 : FIELD_MODULUS % d # 0
    /\ GROUP_COEFF_B \in Field \ {0}
    /\ GROUP_ORDER \in Nat /\ GROUP_ORDER = Cardinality(Points)
    /\ \A d \in 2 .. GROUP_ORDER - 1 : GROUP_ORDER % d # 0
    /\ AFFINE_ONE \in Points \ {Infinity}

Over(a, b) == CHOOSE c \in Field : (c * b - a) % FIELD_MODULUS = 0

Opposite(p) == [p EXCEPT !.y = (-p.y) % FIELD_MODULUS]

\* The third point of a line of this slope through p and q, mirrored.
Mirrored(slope, p, q) ==
    LET x == (slope * slope - p.x - q.x) % FIELD_MODULUS
    IN  [x |-> x, y |-> (slope * (p.x - x) - p.y) % FIELD_MODULUS]

PointSum(p, q) ==
    IF p = Infinity THEN q
    ELSE IF q = Infinity THEN p
    ELSE IF q = Opposite(p) THEN Infinity
    ELSE IF p = q THEN Mirrored(Over(3 * p.x * p.x, 2 * p.y), p, q)
    ELSE Mirrored(Over(q.y - p.y, q.x - p.x), p, q)

\* All multiples of a point: Multiples(p)[k] is p added to itself k times.
Multiples(p) ==
    LET times[k \in Scalar] == IF k = 0 THEN Infinity ELSE PointSum(times[k - 1], p)
    IN  times
Times(k, p) == Multiples(p)[k % GROUP_ORDER]

\* What every such curve is: a group, each of whose elements its size annuls
\* (associativity of chords and tangents, and the theorem of Lagrange).
ASSUME GroupAssumption ==
    /\ \A p, q, r \in Points : PointSum(PointSum(p, q), r) = PointSum(p, PointSum(q, r))
    /\ \A p \in Points : PointSum(Times(GROUP_ORDER - 1, p), p) = Infinity
=============================================================================
