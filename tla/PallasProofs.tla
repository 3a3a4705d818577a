---------------------------- MODULE PallasProofs ----------------------------
(***************************************************************************)
(* What the formulas of crypto.c compute: Jacobian forms, added by chords  *)
(* and tangents.  Numbers are compared modulo the field's prime; a number  *)
(* that is zero modulo it is shown to be a sum of multiples of others.     *)
(***************************************************************************)
EXTENDS Pallas, NatLemmas

Cong(a, b) == Same(FIELD_MODULUS, a, b)
Zero(a)    == Cong(a, 0)

LEMMA Modulus ==
    /\ FIELD_MODULUS \in Nat \ {0, 1, 2, 3}
    /\ IsPrime(FIELD_MODULUS)
    /\ \A a \in Field : a \in Int
    /\ 0 \in Field /\ 1 \in Field
BY CurveAssumption DEF IsPrime, Field

LEMMA Residue ==
    ASSUME NEW a \in Int
    PROVE  a % FIELD_MODULUS \in Field /\ Cong(a % FIELD_MODULUS, a)
BY Modulus, SameResidue DEF Cong, Field

LEMMA EqualInField ==
    ASSUME NEW a \in Field, NEW b \in Field, Cong(a, b)
    PROVE  a = b
BY Modulus, SameSmall DEF Cong, Field

LEMMA CongZero ==
    ASSUME NEW a \in Int, NEW b \in Int
    PROVE  Cong(a, b) <=> Zero(a - b)
<1>1. ASSUME Cong(a, b) PROVE Zero(a - b)
  <2>1. Cong(b, b) /\ Cong(a - b, b - b)
      BY <1>1, Modulus, SameReflexive, SameOperations DEF Cong
  <2>2. b - b = 0
      OBVIOUS
  <2> QED BY <2>1, <2>2 DEF Zero
<1>2. ASSUME Zero(a - b) PROVE Cong(a, b)
  <2> DEFINE c == a - b
  <2>1. Cong(b, b) /\ Cong(c, 0) /\ c \in Int /\ c + b = a /\ 0 + b = b
      BY <1>2, SameReflexive DEF Cong, Zero
  <2> HIDE DEF c
  <2>2. Cong(c + b, 0 + b)
      BY <2>1, Modulus, SameOperations DEF Cong
  <2> QED BY <2>1, <2>2
<1> QED BY <1>1, <1>2

(* The numbers that are zero modulo the prime are an ideal.                *)
LEMMA Ideal ==
    ASSUME NEW a \in Int, NEW b \in Int, Zero(a), Zero(b), NEW c \in Int, NEW d \in Int
    PROVE  Zero(c * a + d * b)
<1>1. c * a \in Int /\ d * b \in Int /\ c * 0 = 0 /\ d * 0 = 0 /\ 0 + 0 = 0 /\ 0 \in Int
    BY SMT
<1>2. Cong(c, c) /\ Cong(d, d)
    BY SameReflexive DEF Cong
<1>3. Cong(c * a, c * 0) /\ Cong(d * b, d * 0)
    BY <1>1, <1>2, Modulus, SameOperations DEF Cong, Zero
<1>4. Cong(c * a + d * b, c * 0 + d * 0)
  <2>1. c * 0 \in Int /\ d * 0 \in Int
      OBVIOUS
  <2> QED BY <1>1, <1>3, <2>1, Modulus, SameOperations DEF Cong
<1> QED BY <1>1, <1>4 DEF Zero

(* The prime divides no product without dividing a factor.                 *)
LEMMA HasInverse ==
    ASSUME NEW a \in Int, ~Zero(a)
    PROVE  \E c \in Field : Cong(a * c, 1)
<1>1. a % FIELD_MODULUS # 0
  <2>1. 0 % FIELD_MODULUS = 0
      BY Modulus, SameResidue
  <2> QED BY <2>1 DEF Zero, Cong, Same
<1> QED BY <1>1, Modulus, PrimeInverse DEF Cong, Field

LEMMA NoZeroDivisors ==
    ASSUME NEW a \in Int, NEW b \in Int, Zero(a * b), ~Zero(a)
    PROVE  Zero(b)
<1>1. PICK c \in Field : Cong(a * c, 1)
    BY HasInverse
<1>2. c \in Int /\ a * c \in Int /\ a * b \in Int /\ 0 - b \in Int
    BY Modulus, SMT
<1>3. Zero(a * c - 1) /\ a * c - 1 \in Int
    BY <1>1, <1>2, CongZero
<1>4. Zero(c * (a * b) + (0 - b) * (a * c - 1))
    BY <1>2, <1>3, Ideal
<1>5. c * (a * b) + (0 - b) * (a * c - 1) = b
    BY <1>2, SMT
<1> QED BY <1>4, <1>5

LEMMA InverseIs ==
    ASSUME NEW a \in Field \ {0}
    PROVE  field_inv(a) \in Field /\ Cong(a * field_inv(a), 1)
<1>1. a \in Int /\ ~Zero(a)
    BY Modulus, EqualInField DEF Zero
<1>2. PICK c \in Field : Cong(a * c, 1)
    BY <1>1, HasInverse
<1>3. \A d \in Field : field_mul(a, d) = 1 <=> Cong(a * d, 1)
  <2>1. 1 % FIELD_MODULUS = 1
      BY Modulus, SameResidue DEF Field
  <2> QED BY <2>1 DEF Cong, Same, field_mul
<1> QED BY <1>2, <1>3 DEF field_inv

LEMMA OverIs ==
    ASSUME NEW a \in Int, NEW b \in Int, ~Zero(b)
    PROVE  Over(a, b) \in Field /\ Zero(Over(a, b) * b - a)
<1>1. PICK c \in Field : Cong(b * c, 1)
    BY HasInverse
<1> DEFINE d == (a * c) % FIELD_MODULUS
<1>2. c \in Int /\ a * c \in Int /\ b * c \in Int
    BY Modulus, SMT
<1>3. d \in Field /\ Cong(d, a * c) /\ d \in Int
    BY <1>2, Residue, Modulus
<1> HIDE DEF d
<1>4. Zero(d - a * c) /\ Zero(b * c - 1) /\ d - a * c \in Int /\ b * c - 1 \in Int
    BY <1>1, <1>2, <1>3, CongZero
<1>5. Zero(b * (d - a * c) + a * (b * c - 1))
    BY <1>4, Ideal
<1>6. b * (d - a * c) + a * (b * c - 1) = d * b - a
    BY <1>2, <1>3, SMT
<1>7. \A e \in Field : (e * b - a) % FIELD_MODULUS = 0 <=> Zero(e * b - a)
  <2>1. 0 % FIELD_MODULUS = 0
      BY Modulus, SameResidue
  <2> QED BY <2>1 DEF Zero, Cong, Same
<1>8. d \in Field /\ (d * b - a) % FIELD_MODULUS = 0
    BY <1>3, <1>5, <1>6, <1>7
<1> DEFINE P(e) == (e * b - a) % FIELD_MODULUS = 0
<1>9. Over(a, b) \in Field /\ P(Over(a, b))
    BY <1>8 DEF Over
<1> QED BY <1>7, <1>9

(* What each field operation computes, of numbers known modulo the prime.  *)
LEMMA FieldOperations ==
    ASSUME NEW a \in Int, NEW b \in Int, NEW u \in Int, NEW v \in Int, Cong(a, u), Cong(b, v)
    PROVE  /\ field_add(a, b) \in Field /\ Cong(field_add(a, b), u + v)
           /\ field_sub(a, b) \in Field /\ Cong(field_sub(a, b), u - v)
           /\ field_mul(a, b) \in Field /\ Cong(field_mul(a, b), u * v)
           /\ field_sq(a) \in Field /\ Cong(field_sq(a), u * u)
<1>1. a + b \in Int /\ a - b \in Int /\ a * b \in Int /\ a * a \in Int
    BY SMT
<1>2. Cong(a + b, u + v) /\ Cong(a - b, u - v) /\ Cong(a * b, u * v)
    BY Modulus, SameOperations DEF Cong
<1>3. Cong(a * a, u * u)
    BY Modulus, SameOperations DEF Cong
<1>4. /\ field_add(a, b) \in Field /\ Cong(field_add(a, b), a + b)
      /\ field_sub(a, b) \in Field /\ Cong(field_sub(a, b), a - b)
    BY <1>1, Residue DEF field_add, field_sub
<1>5. /\ field_mul(a, b) \in Field /\ Cong(field_mul(a, b), a * b)
      /\ field_sq(a) \in Field /\ Cong(field_sq(a), a * a)
    BY <1>1, Residue DEF field_mul, field_sq
<1> QED BY <1>2, <1>3, <1>4, <1>5 DEF Cong, Same

----------------------------------------------------------------------------
(* A line through two points of the curve, or touching it in one, meets it *)
(* in a third: what is zero in x2 of the curve's polynomial over the line  *)
(* is zero in x3 as well.                                                  *)
Curve(x, y) == Zero(y * y - x * x * x - GROUP_COEFF_B)

\* The line of slope l through (x1, y1) meets the curve again at x2.
Meets(l, x1, y1, x2) == Zero(x2 * x2 + x2 * x1 + x1 * x1 - l * l * (x2 - x1) - 2 * l * y1)

Third(l, x1, y1, x2, x3, y3) == Zero(x3 - (l * l - x1 - x2)) /\ Zero(y3 - (l * (x1 - x3) - y1))

LEMMA ThirdPoint ==
    ASSUME NEW x1 \in Int, NEW y1 \in Int, NEW x2 \in Int, NEW l \in Int,
           NEW x3 \in Int, NEW y3 \in Int,
           Curve(x1, y1), Meets(l, x1, y1, x2), Third(l, x1, y1, x2, x3, y3)
    PROVE  Curve(x3, y3)
<1> DEFINE b  == GROUP_COEFF_B
           e1 == y1 * y1 - x1 * x1 * x1 - b
           g2 == x2 * x2 + x2 * x1 + x1 * x1 - l * l * (x2 - x1) - 2 * l * y1
           g3 == x3 * x3 + x3 * x1 + x1 * x1 - l * l * (x3 - x1) - 2 * l * y1
           e4 == x3 - (l * l - x1 - x2)
           v  == l * (x1 - x3) - y1
           e5 == y3 - v
<1>0. b \in Int
    BY CurveAssumption, Modulus
<1> HIDE DEF b
<1>1. e1 \in Int /\ g2 \in Int /\ g3 \in Int /\ e4 \in Int /\ v \in Int /\ e5 \in Int
    BY <1>0, SMT
<1>2. g3 = 1 * g2 + (x3 - x2) * e4
    BY SMTT(60)
<1>3. y3 * y3 - x3 * x3 * x3 - b = 1 * ((y3 + v) * e5 + (0 - (x3 - x1)) * g3) + 1 * e1
    BY <1>0, SMTT(60)
<1>4. Zero(e1) /\ Zero(g2) /\ Zero(e4) /\ Zero(e5)
    BY DEF Curve, Meets, Third, b
<1> HIDE DEF e1, g2, g3, e4, v, e5
<1>5. Zero(g3)
  <2>1. 1 \in Int /\ x3 - x2 \in Int
      OBVIOUS
  <2> QED BY <1>1, <1>2, <1>4, <2>1, Ideal
<1>6. Zero((y3 + v) * e5 + (0 - (x3 - x1)) * g3)
  <2>1. y3 + v \in Int /\ 0 - (x3 - x1) \in Int
      BY <1>1
  <2> QED BY <1>1, <1>4, <1>5, <2>1, Ideal
<1> DEFINE t == (y3 + v) * e5 + (0 - (x3 - x1)) * g3
<1>7. t \in Int
    BY <1>1, SMT
<1>8. Zero(1 * t + 1 * e1)
  <2>1. 1 \in Int /\ Zero(t)
      BY <1>6
  <2> HIDE DEF t
  <2> QED BY <1>1, <1>4, <1>7, <2>1, Ideal
<1> QED BY <1>3, <1>8 DEF Curve, b

(* What it is to be a point. *)
LEMMA PointsAre ==
    /\ Infinity \in Points /\ AFFINE_ONE \in Points
    /\ \A p : p \in Points /\ p # Infinity <=>
           \E x, y \in Field : /\ p = [x |-> x, y |-> y]
                               /\ Curve(x, y)
    /\ \A p \in Points : p.x \in Field /\ p.y \in Field /\ p = [x |-> p.x, y |-> p.y]
<1>1. GROUP_COEFF_B \in Int /\ GROUP_COEFF_B \in Field /\ GROUP_COEFF_B # 0
    BY CurveAssumption, Modulus
<1>2. ASSUME NEW x \in Field, NEW y \in Field
      PROVE  OnCurve([x |-> x, y |-> y]) <=> Curve(x, y)
  <2>1. x \in Int /\ y \in Int
      BY Modulus
  <2> DEFINE s == y * y
             t == x * x * x + GROUP_COEFF_B
  <2>2. s \in Int /\ t \in Int
      BY <1>1, <2>1, SMT
  <2>3. OnCurve([x |-> x, y |-> y]) <=> Cong(s, t)
      BY DEF OnCurve, Cong, Same
  <2>4. s - t = y * y - x * x * x - GROUP_COEFF_B
      BY <1>1, <2>1, SMT
  <2>5. Curve(x, y) <=> Zero(s - t)
      BY <2>4 DEF Curve
  <2> HIDE DEF s, t
  <2> QED BY <2>2, <2>3, <2>5, CongZero
<1>3. ~OnCurve(Infinity)
  <2>1. 0 % FIELD_MODULUS = 0 /\ GROUP_COEFF_B % FIELD_MODULUS = GROUP_COEFF_B
      BY <1>1, Modulus, SameResidue DEF Field
  <2>2. 0 * 0 = 0 /\ 0 * 0 * 0 + GROUP_COEFF_B = GROUP_COEFF_B
      BY <1>1, SMT
  <2> QED BY <1>1, <2>1, <2>2 DEF OnCurve, Infinity
<1>4. Infinity \in [x : Field, y : Field]
    BY Modulus DEF Infinity
<1>5. \A p : p \in Points /\ p # Infinity <=> p \in [x : Field, y : Field] /\ OnCurve(p)
    BY <1>3 DEF Points
<1>6. Infinity \in Points /\ AFFINE_ONE \in Points
    BY CurveAssumption DEF Points
<1>7. \A p \in Points : p.x \in Field /\ p.y \in Field /\ p = [x |-> p.x, y |-> p.y]
    BY <1>4 DEF Points
<1>8. ASSUME NEW p, p \in Points, p # Infinity
      PROVE  \E x, y \in Field : p = [x |-> x, y |-> y] /\ Curve(x, y)
  <2>1. p.x \in Field /\ p.y \in Field /\ p = [x |-> p.x, y |-> p.y] /\ OnCurve(p)
      BY <1>5, <1>7, <1>8
  <2> QED BY <1>2, <2>1
<1>9. ASSUME NEW p, NEW x \in Field, NEW y \in Field,
             p = [x |-> x, y |-> y], Curve(x, y)
      PROVE  p \in Points /\ p # Infinity
    BY <1>2, <1>5, <1>9
<1> QED BY <1>6, <1>7, <1>8, <1>9

(* The slopes that PointSum divides by are not zero.                       *)
LEMMA SlopeOfChord ==
    ASSUME NEW p \in Points \ {Infinity}, NEW q \in Points \ {Infinity}, p # q, q # Opposite(p)
    PROVE  ~Zero(q.x - p.x)
<1>1. PICK x1, y1 \in Field : /\ p = [x |-> x1, y |-> y1]
                              /\ Curve(x1, y1)
    BY PointsAre
<1>2. PICK x2, y2 \in Field : /\ q = [x |-> x2, y |-> y2]
                              /\ Curve(x2, y2)
    BY PointsAre
<1> SUFFICES ASSUME Zero(x2 - x1) PROVE FALSE
    BY <1>1, <1>2
<1>3. x1 \in Int /\ y1 \in Int /\ x2 \in Int /\ y2 \in Int /\ GROUP_COEFF_B \in Int
    BY CurveAssumption, Modulus
<1>4. x2 = x1
    BY <1>3, CongZero, EqualInField
<1> DEFINE e1 == y1 * y1 - x1 * x1 * x1 - GROUP_COEFF_B
           e2 == y2 * y2 - x2 * x2 * x2 - GROUP_COEFF_B
<1>5. e1 \in Int /\ e2 \in Int /\ Zero(e1) /\ Zero(e2) /\ 1 \in Int /\ -1 \in Int
    BY <1>1, <1>2, <1>3, SMT DEF Curve
<1>6. 1 * e2 + (-1) * e1 = (y2 - y1) * (y2 + y1)
    BY <1>3, <1>4, SMT
<1> HIDE DEF e1, e2
<1>7. Zero((y2 - y1) * (y2 + y1))
    BY <1>5, <1>6, Ideal
<1>8. y2 - y1 \in Int /\ y2 + y1 \in Int /\ -y1 \in Int /\ y2 - (-y1) = y2 + y1
    BY <1>3
<1>9. CASE Zero(y2 - y1)
  <2>1. y2 = y1
      BY <1>3, <1>9, CongZero, EqualInField
  <2> QED BY <1>1, <1>2, <1>4, <2>1
<1>10. CASE Zero(y2 + y1)
  <2>1. Cong(y2, -y1)
      BY <1>3, <1>8, <1>10, CongZero
  <2>2. (-y1) % FIELD_MODULUS \in Field /\ Cong((-y1) % FIELD_MODULUS, -y1)
      BY <1>8, Residue
  <2>3. Cong(y2, (-y1) % FIELD_MODULUS)
      BY <2>1, <2>2 DEF Cong, Same
  <2>4. y2 = (-y1) % FIELD_MODULUS
      BY <2>2, <2>3, EqualInField
  <2> QED BY <1>1, <1>2, <1>4, <2>4 DEF Opposite
<1> QED BY <1>7, <1>8, <1>9, <1>10, NoZeroDivisors

LEMMA SlopeOfTangent ==
    ASSUME NEW p \in Points \ {Infinity}, p # Opposite(p)
    PROVE  ~Zero(2 * p.y)
<1>1. p.y \in Field /\ p = [x |-> p.x, y |-> p.y] /\ p.y \in Int /\ 2 \in Int
    BY PointsAre, Modulus
<1>2. ~Zero(2)
  <2>1. 2 \in Field
      BY Modulus DEF Field
  <2> QED BY <2>1, Modulus, EqualInField DEF Zero
<1>3. -p.y = 0 - p.y
    BY <1>1
<1>4. p.y # 0
  <2> SUFFICES ASSUME p.y = 0 PROVE FALSE
      OBVIOUS
  <2>1. (-p.y) % FIELD_MODULUS = 0
    <3>1. 0 % FIELD_MODULUS = 0
        BY Modulus, SameResidue
    <3>2. 0 - p.y = 0
        BY <1>1
    <3> QED BY <1>3, <3>1, <3>2
  <2> QED BY <1>1, <2>1 DEF Opposite
<1>5. ~Zero(p.y)
    BY <1>1, <1>4, Modulus, EqualInField DEF Zero
<1> QED BY <1>1, <1>2, <1>5, NoZeroDivisors

----------------------------------------------------------------------------
(* The third point, as PointSum writes it.                                 *)
LEMMA MirroredIs ==
    ASSUME NEW l \in Field, NEW p \in Points, NEW q \in Points
    PROVE  LET s == Mirrored(l, p, q)
           IN  /\ s.x \in Field /\ s.y \in Field /\ s = [x |-> s.x, y |-> s.y]
               /\ Third(l, p.x, p.y, q.x, s.x, s.y)
<1> DEFINE s == Mirrored(l, p, q)
           x3 == (l * l - p.x - q.x) % FIELD_MODULUS
           y3 == (l * (p.x - x3) - p.y) % FIELD_MODULUS
<1>1. s = [x |-> x3, y |-> y3]
    BY DEF Mirrored
<1>2. l \in Int /\ p.x \in Int /\ p.y \in Int /\ q.x \in Int /\ l * l - p.x - q.x \in Int
    BY PointsAre, Modulus, SMT
<1>3. x3 \in Field /\ Cong(x3, l * l - p.x - q.x) /\ x3 \in Int
    BY <1>2, Residue, Modulus
<1> HIDE DEF x3
<1>4. l * (p.x - x3) - p.y \in Int
    BY <1>2, <1>3, SMT
<1>5. y3 \in Field /\ Cong(y3, l * (p.x - x3) - p.y) /\ y3 \in Int
    BY <1>4, Residue, Modulus
<1> HIDE DEF y3
<1>6. Third(l, p.x, p.y, q.x, x3, y3)
    BY <1>2, <1>3, <1>4, <1>5, CongZero DEF Third
<1>7. s.x = x3 /\ s.y = y3
    BY <1>1
<1> HIDE DEF s
<1> QED BY <1>1, <1>3, <1>5, <1>6, <1>7 DEF s

(* The sums of points of the curve are points of the curve.                *)
LEMMA ChordCloses ==
    ASSUME NEW p \in Points \ {Infinity}, NEW q \in Points \ {Infinity}, ~Zero(q.x - p.x)
    PROVE  Mirrored(Over(q.y - p.y, q.x - p.x), p, q) \in Points \ {Infinity}
<1>1. PICK x1, y1 \in Field : /\ p = [x |-> x1, y |-> y1]
                              /\ Curve(x1, y1)
    BY PointsAre
<1>2. PICK x2, y2 \in Field : /\ q = [x |-> x2, y |-> y2]
                              /\ Curve(x2, y2)
    BY PointsAre
<1> DEFINE l == Over(q.y - p.y, q.x - p.x)
           s == Mirrored(l, p, q)
<1>3. x1 \in Int /\ y1 \in Int /\ x2 \in Int /\ y2 \in Int /\ GROUP_COEFF_B \in Int
    BY CurveAssumption, Modulus
<1>4. l \in Field /\ Zero(l * (x2 - x1) - (y2 - y1))
  <2>1. q.x = x2 /\ p.x = x1 /\ q.y = y2 /\ p.y = y1 /\ x2 - x1 \in Int /\ y2 - y1 \in Int
      BY <1>1, <1>2, <1>3
  <2> QED BY <2>1, OverIs
<1>5. l \in Int
    BY <1>4, Modulus
<1> HIDE DEF l
<1> DEFINE e1 == y1 * y1 - x1 * x1 * x1 - GROUP_COEFF_B
           e2 == y2 * y2 - x2 * x2 * x2 - GROUP_COEFF_B
           e3 == l * (x2 - x1) - (y2 - y1)
           g2 == x2 * x2 + x2 * x1 + x1 * x1 - l * l * (x2 - x1) - 2 * l * y1
           c  == 0 - (l * (x2 - x1) + (y2 - y1) + 2 * y1)
<1>6. (x2 - x1) * g2 = 1 * (1 * e1 + (-1) * e2) + c * e3
    BY <1>3, <1>5, SMTT(60)
<1>7. Zero(e1) /\ Zero(e2) /\ Zero(e3) /\ 1 \in Int /\ -1 \in Int
    BY <1>1, <1>2, <1>4 DEF Curve
<1>8. e1 \in Int /\ e2 \in Int /\ e3 \in Int /\ g2 \in Int /\ c \in Int /\ 1 * e1 + (-1) * e2 \in Int
    BY <1>3, <1>5, SMT
<1> HIDE DEF e1, e2, e3, c
<1>9. Zero(1 * e1 + (-1) * e2)
    BY <1>7, <1>8, Ideal
<1> DEFINE d == 1 * e1 + (-1) * e2
<1>10. Zero(1 * d + c * e3)
  <2> HIDE DEF d
  <2> QED BY <1>7, <1>8, <1>9, Ideal DEF d
<1>11. Zero(g2)
  <2>1. ~Zero(x2 - x1) /\ x2 - x1 \in Int
      BY <1>1, <1>2, <1>3
  <2> HIDE DEF g2, d
  <2> QED BY <1>6, <1>8, <1>10, <2>1, NoZeroDivisors DEF d
<1> HIDE DEF g2
<1>12. /\ s.x \in Field /\ s.y \in Field /\ s = [x |-> s.x, y |-> s.y]
       /\ Third(l, p.x, p.y, q.x, s.x, s.y)
    BY <1>4, MirroredIs
<1>13. s.x \in Int /\ s.y \in Int /\ p.x = x1 /\ q.x = x2 /\ p.y = y1
    BY <1>1, <1>2, <1>12, Modulus
<1> HIDE DEF s
<1>14. Curve(s.x, s.y)
  <2>1. Third(l, x1, y1, x2, s.x, s.y)
      BY <1>12, <1>13, Zenon
  <2>2. Curve(x1, y1) /\ Meets(l, x1, y1, x2)
      BY <1>1, <1>11 DEF g2, Meets
  <2> QED BY <1>3, <1>5, <1>13, <2>1, <2>2, ThirdPoint
<1>15. s \in Points \ {Infinity}
    BY <1>12, <1>14, PointsAre
<1> QED BY <1>15 DEF s, l

LEMMA TangentCloses ==
    ASSUME NEW p \in Points \ {Infinity}, ~Zero(2 * p.y)
    PROVE  Mirrored(Over(3 * p.x * p.x, 2 * p.y), p, p) \in Points \ {Infinity}
<1>1. PICK x1, y1 \in Field : /\ p = [x |-> x1, y |-> y1]
                              /\ Curve(x1, y1)
    BY PointsAre
<1> DEFINE l == Over(3 * p.x * p.x, 2 * p.y)
           s == Mirrored(l, p, p)
<1>2. x1 \in Int /\ y1 \in Int /\ GROUP_COEFF_B \in Int /\ p.x = x1 /\ p.y = y1
    BY <1>1, CurveAssumption, Modulus
<1>3. l \in Field /\ Zero(l * (2 * y1) - 3 * x1 * x1)
  <2>1. 3 * x1 * x1 \in Int /\ 2 * y1 \in Int
      BY <1>2, SMT
  <2> QED BY <1>2, <2>1, OverIs
<1>4. l \in Int
    BY <1>3, Modulus
<1> HIDE DEF l
<1> DEFINE e3 == l * (2 * y1) - 3 * x1 * x1
           g2 == x1 * x1 + x1 * x1 + x1 * x1 - l * l * (x1 - x1) - 2 * l * y1
<1>5. g2 = (-1) * e3 + 0 * e3
    BY <1>2, <1>4, SMTT(60)
<1>6. e3 \in Int /\ Zero(e3) /\ -1 \in Int /\ 0 \in Int
    BY <1>2, <1>3, <1>4, SMT
<1> HIDE DEF e3
<1>7. Zero(g2)
    BY <1>5, <1>6, Ideal
<1> HIDE DEF g2
<1>8. /\ s.x \in Field /\ s.y \in Field /\ s = [x |-> s.x, y |-> s.y]
      /\ Third(l, p.x, p.y, p.x, s.x, s.y)
    BY <1>3, MirroredIs
<1>9. s.x \in Int /\ s.y \in Int
    BY <1>8, Modulus
<1> HIDE DEF s
<1>10. Curve(s.x, s.y)
  <2>1. Third(l, x1, y1, x1, s.x, s.y)
      BY <1>2, <1>8, Zenon
  <2>2. Curve(x1, y1) /\ Meets(l, x1, y1, x1)
      BY <1>1, <1>7 DEF g2, Meets
  <2> QED BY <1>2, <1>4, <1>9, <2>1, <2>2, ThirdPoint
<1>11. s \in Points \ {Infinity}
    BY <1>8, <1>10, PointsAre
<1> QED BY <1>11 DEF s, l

LEMMA SumCloses ==
    ASSUME NEW p \in Points, NEW q \in Points
    PROVE  PointSum(p, q) \in Points
<1>1. CASE p = Infinity \/ q = Infinity \/ q = Opposite(p)
    BY <1>1, PointsAre DEF PointSum
<1>2. CASE p # Infinity /\ q # Infinity /\ q # Opposite(p) /\ p = q
  <2>1. ~Zero(2 * p.y)
      BY <1>2, SlopeOfTangent
  <2> QED BY <1>2, <2>1, TangentCloses DEF PointSum
<1>3. CASE p # Infinity /\ q # Infinity /\ q # Opposite(p) /\ p # q
  <2>1. ~Zero(q.x - p.x)
      BY <1>3, SlopeOfChord
  <2> QED BY <1>3, <2>1, ChordCloses DEF PointSum
<1> QED BY <1>1, <1>2, <1>3

----------------------------------------------------------------------------
LEMMA CongChain ==
    ASSUME NEW a, NEW b, NEW c
    PROVE  /\ Cong(a, a)
           /\ Cong(a, b) => Cong(b, a)
           /\ Cong(a, b) /\ Cong(b, c) => Cong(a, c)
BY DEF Cong, Same

LEMMA CongTimes ==
    ASSUME NEW a \in Int, NEW b \in Int, NEW c \in Int, Cong(a, b)
    PROVE  Cong(c * a, c * b)
<1>1. Cong(c, c)
    BY CongChain
<1> QED BY <1>1, Modulus, SameOperations DEF Cong

LEMMA Powers23 ==
    ASSUME NEW a \in Int, NEW b \in Int, Cong(a, b)
    PROVE  /\ Cong(a * a, b * b) /\ Cong(b * b, a * a)
           /\ Cong(a * (a * a), b * (b * b)) /\ Cong(b * (b * b), a * (a * a))
<1>1. Cong(a * a, b * b)
    BY Modulus, SameOperations DEF Cong
<1>2. a * a \in Int /\ b * b \in Int
    BY SMT
<1> DEFINE a2 == a * a
           b2 == b * b
<1>3. a2 \in Int /\ b2 \in Int /\ Cong(a2, b2)
    BY <1>1, <1>2
<1> HIDE DEF a2, b2
<1>4. Cong(a * a2, b * b2)
    BY <1>3, Modulus, SameOperations DEF Cong
<1> QED BY <1>1, <1>4, CongChain DEF a2, b2

(* Jacobian forms of a point.                                              *)
FormOf(a, x, y) == Cong(a.X, x * (a.Z * a.Z)) /\ Cong(a.Y, y * (a.Z * (a.Z * a.Z)))

Represents(a, p) ==
    /\ a \in Group /\ p \in Points
    /\ IF group_is_zero(a) THEN p = Infinity ELSE p # Infinity /\ FormOf(a, p.x, p.y)

LEMMA GroupIs ==
    /\ \A a \in Group : /\ a.X \in Field /\ a.Y \in Field /\ a.Z \in Field
                        /\ a = [X |-> a.X, Y |-> a.Y, Z |-> a.Z]
                        /\ a.Z # 0 <=> ~Zero(a.Z)
    /\ \A x, y, z \in Field : [X |-> x, Y |-> y, Z |-> z] \in Group
    /\ Represents(GROUP_ZERO, Infinity)
<1>1. ASSUME NEW z \in Field PROVE z # 0 <=> ~Zero(z)
    BY Modulus, EqualInField, CongChain DEF Zero
<1>2. GROUP_ZERO \in Group
    BY Modulus DEF GROUP_ZERO, Group
<1> QED BY <1>1, <1>2, PointsAre DEF Group, Represents, group_is_zero, GROUP_ZERO

(* Going back to affine coordinates finds the point.                       *)
LEMMA AffineOfForm ==
    ASSUME NEW a, NEW p, Represents(a, p)
    PROVE  affine_from_group(a) = p
<1>1. CASE a.Z = 0
    BY <1>1 DEF affine_from_group, Represents, group_is_zero, Infinity
<1>2. CASE a.Z # 0
  <2> DEFINE z  == a.Z
             i  == field_inv(z)
             i2 == field_sq(i)
             i3 == field_mul(i2, i)
             e  == z * i - 1
  <2>1. /\ a.X \in Field /\ a.Y \in Field /\ z \in Field \ {0}
        /\ p \in Points /\ p # Infinity /\ FormOf(a, p.x, p.y)
      BY <1>2, GroupIs DEF Represents, group_is_zero
  <2>2. /\ a.X \in Int /\ a.Y \in Int /\ z \in Int /\ p.x \in Int /\ p.y \in Int
        /\ p.x \in Field /\ p.y \in Field /\ p = [x |-> p.x, y |-> p.y]
      BY <2>1, PointsAre, Modulus
  <2>3. i \in Int /\ Cong(z * i, 1)
      BY <2>1, InverseIs, Modulus
  <2>4. affine_from_group(a) = [x |-> field_mul(a.X, i2), y |-> field_mul(a.Y, i3)]
      BY <1>2 DEF affine_from_group
  <2> DEFINE x == p.x
             y == p.y
             u == x * (z * z)
             v == y * (z * (z * z))
  <2>5. Cong(a.X, u) /\ Cong(a.Y, v) /\ u \in Int /\ v \in Int
      BY <2>1, <2>2, SMT DEF FormOf
  <2> HIDE DEF i
  <2>6. z * i \in Int /\ e \in Int /\ Zero(e)
    <3>1. z * i \in Int /\ 1 \in Int
        BY <2>2, <2>3, SMT
    <3>2. e \in Int
        BY <3>1
    <3> QED BY <2>3, <3>1, <3>2, CongZero
  <2> HIDE DEF z, e
  <2>7. i2 \in Field /\ Cong(i2, i * i) /\ i2 \in Int /\ i * i \in Int /\ (i * i) * i \in Int
    <3>1. i * i \in Int /\ (i * i) * i \in Int
        BY <2>3, SMT
    <3>2. Cong(i, i)
        BY CongChain
    <3>3. i2 \in Field /\ Cong(i2, i * i)
        BY <2>3, <3>2, FieldOperations
    <3> QED BY <3>1, <3>3, Modulus
  <2> HIDE DEF i2
  <2>8. i3 \in Field /\ Cong(i3, (i * i) * i) /\ i3 \in Int
    <3>1. Cong(i, i)
        BY CongChain
    <3>2. i3 \in Field /\ Cong(i3, (i * i) * i)
        BY <2>3, <2>7, <3>1, FieldOperations
    <3> QED BY <3>2, Modulus
  <2> HIDE DEF i3, u, v, x, y
  <2>9. field_mul(a.X, i2) \in Field /\ Cong(field_mul(a.X, i2), u * (i * i))
      BY <2>2, <2>5, <2>7, FieldOperations
  <2>10. field_mul(a.Y, i3) \in Field /\ Cong(field_mul(a.Y, i3), v * ((i * i) * i))
      BY <2>2, <2>5, <2>7, <2>8, FieldOperations
  <2>11. x \in Int /\ y \in Int /\ x = p.x /\ y = p.y
      BY <2>2 DEF x, y
  <2>12. Cong(u * (i * i), x)
    <3>1. u * (i * i) - x = (x * (z * i + 1)) * e + 0 * e
        BY <2>2, <2>3, <2>11, SMT DEF u, e
    <3>2. x * (z * i + 1) \in Int /\ 0 \in Int /\ u * (i * i) \in Int
        BY <2>2, <2>3, <2>5, <2>11, SMT
    <3>3. Zero((x * (z * i + 1)) * e + 0 * e)
        BY <2>6, <3>2, Ideal
    <3> QED BY <2>11, <3>1, <3>2, <3>3, CongZero
  <2>13. Cong(v * ((i * i) * i), y)
    <3> DEFINE t == z * i
    <3>4. v * ((i * i) * i) = y * (t * (t * t))
        BY <2>2, <2>3, <2>11, SMTT(30) DEF v
    <3>7. y \in Int
        BY <2>11
    <3>5. t \in Int /\ e = t - 1
        BY <2>6 DEF e
    <3>6. ASSUME NEW s \in Int
          PROVE  y * (s * (s * s)) - y = (y * (s * s + s + 1)) * (s - 1) + 0 * (s - 1)
        BY <3>7, SMTT(30)
    <3>1. v * ((i * i) * i) - y = (y * (t * t + t + 1)) * e + 0 * e
        BY <3>4, <3>5, <3>6
    <3>2. y * ((z * i) * (z * i) + z * i + 1) \in Int /\ 0 \in Int /\ v * ((i * i) * i) \in Int
        BY <2>2, <2>3, <2>5, <2>11, SMT
    <3>3. Zero((y * ((z * i) * (z * i) + z * i + 1)) * e + 0 * e)
        BY <2>6, <3>2, Ideal
    <3> QED BY <2>11, <3>1, <3>2, <3>3, CongZero
  <2>14. Cong(field_mul(a.X, i2), p.x) /\ Cong(field_mul(a.Y, i3), p.y)
      BY <2>9, <2>10, <2>11, <2>12, <2>13, CongChain
  <2>15. field_mul(a.X, i2) = p.x /\ field_mul(a.Y, i3) = p.y
      BY <2>2, <2>9, <2>10, <2>14, EqualInField
  <2> QED BY <2>2, <2>4, <2>15
<1> QED BY <1>1, <1>2

(* Doubling computes a form of the third point of the tangent.             *)
LEMMA DoubleForm ==
    ASSUME NEW a \in Group, NEW x \in Int, NEW y \in Int, FormOf(a, x, y), ~group_is_zero(a)
    PROVE  /\ group_dbl(a) \in Group
           /\ Cong(group_dbl(a).Z, 2 * (y * (a.Z * (a.Z * (a.Z * a.Z)))))
           /\ \A l, x3, y3 \in Int :
                 Zero(l * (2 * y) - 3 * x * x) /\ Third(l, x, y, x, x3, y3)
                    => FormOf(group_dbl(a), x3, y3)
<1> DEFINE z  == a.Z
           z4 == z * (z * (z * z))
           Y2 == field_sq(a.Y)
           S4 == field_mul(a.X, Y2)
           S  == field_mul(4, S4)
           M  == field_mul(3, field_sq(a.X))
           T  == field_sub(field_sq(M), field_mul(2, S))
           D  == field_sub(S, T)
           E  == field_mul(M, D)
           F  == field_mul(8, field_sq(Y2))
           Yn == field_sub(E, F)
           Zn == field_mul(2, field_mul(a.Y, a.Z))
           c  == group_dbl(a)
           u  == x * (z * z)
           v  == y * (z * (z * z))
           zn == 2 * (y * z4)
           mm == 3 * (u * u)
           ss == 4 * (u * (v * v))
<1>1. c = [X |-> T, Y |-> Yn, Z |-> Zn]
    BY DEF group_dbl
<1>2. a.X \in Int /\ a.Y \in Int /\ z \in Int /\ 2 \in Int /\ 3 \in Int /\ 4 \in Int /\ 8 \in Int
    BY GroupIs, Modulus
<1>3. Cong(a.X, u) /\ Cong(a.Y, v) /\ Cong(z, z) /\ Cong(2, 2) /\ Cong(3, 3) /\ Cong(4, 4) /\ Cong(8, 8)
    BY CongChain DEF FormOf
<1> HIDE DEF z
<1>4. z4 \in Int /\ u \in Int /\ v \in Int
    BY <1>2, SMT
<1>5. u * u \in Int /\ v * v \in Int /\ u * (v * v) \in Int /\ (v * v) * (v * v) \in Int /\ v * z \in Int
    BY <1>2, <1>4, SMT
<1> HIDE DEF z4, u, v
<1>6. zn \in Int /\ mm \in Int /\ ss \in Int
    BY <1>4, <1>5, SMT
<1>7. 2 * (v * z) = zn
    BY <1>2, SMT DEF v, z4
<1>8. Zn \in Field /\ Cong(Zn, zn) /\ Zn \in Int
  <2> DEFINE YZ == field_mul(a.Y, a.Z)
  <2>1. YZ \in Field /\ Cong(YZ, v * z)
      BY <1>2, <1>3, <1>4, FieldOperations DEF z
  <2> HIDE DEF YZ
  <2>2. field_mul(2, YZ) \in Field /\ Cong(field_mul(2, YZ), 2 * (v * z))
      BY <1>2, <1>3, <1>5, <2>1, FieldOperations, Modulus
  <2> QED BY <1>7, <2>2, Modulus DEF YZ
<1>9. Y2 \in Field /\ Cong(Y2, v * v) /\ Y2 \in Int
  <2>1. Y2 \in Field /\ Cong(Y2, v * v)
      BY <1>2, <1>3, <1>4, FieldOperations
  <2> QED BY <2>1, Modulus
<1> HIDE DEF zn, Y2
<1>10. S4 \in Field /\ Cong(S4, u * (v * v)) /\ S4 \in Int
  <2>1. S4 \in Field /\ Cong(S4, u * (v * v))
      BY <1>2, <1>3, <1>4, <1>5, <1>9, FieldOperations
  <2> QED BY <2>1, Modulus
<1> HIDE DEF S4
<1>11. S \in Field /\ Cong(S, ss) /\ S \in Int
  <2>1. S \in Field /\ Cong(S, 4 * (u * (v * v)))
      BY <1>2, <1>3, <1>5, <1>10, FieldOperations
  <2> QED BY <2>1, Modulus
<1> HIDE DEF S, ss
<1>12. M \in Field /\ Cong(M, mm) /\ M \in Int
  <2> DEFINE XX == field_sq(a.X)
  <2>1. XX \in Field /\ Cong(XX, u * u)
      BY <1>2, <1>3, <1>4, FieldOperations
  <2> HIDE DEF XX
  <2>2. field_mul(3, XX) \in Field /\ Cong(field_mul(3, XX), 3 * (u * u))
      BY <1>2, <1>3, <1>5, <2>1, FieldOperations, Modulus
  <2> QED BY <2>2, Modulus DEF XX
<1> HIDE DEF M, mm
<1>13. T \in Field /\ Cong(T, mm * mm - 2 * ss) /\ T \in Int
  <2> DEFINE MM == field_sq(M)
             SS == field_mul(2, S)
  <2>1. MM \in Field /\ Cong(MM, mm * mm) /\ SS \in Field /\ Cong(SS, 2 * ss)
      BY <1>2, <1>3, <1>6, <1>11, <1>12, FieldOperations
  <2>2. MM \in Int /\ SS \in Int /\ mm * mm \in Int /\ 2 * ss \in Int
      BY <1>6, <2>1, Modulus, SMT
  <2> HIDE DEF MM, SS
  <2>3. field_sub(MM, SS) \in Field /\ Cong(field_sub(MM, SS), mm * mm - 2 * ss)
      BY <2>1, <2>2, FieldOperations
  <2> QED BY <2>3, Modulus DEF MM, SS
<1> HIDE DEF T
<1>15. mm = 3 * (x * x) * z4 /\ ss = 4 * (x * (y * y)) * (z4 * z4) /\ zn = 2 * (y * z4)
       /\ (v * v) * (v * v) = (y * y) * (y * y) * (z4 * (z4 * z4))
    BY <1>2, SMTT(30) DEF mm, ss, zn, u, v, z4
<1>20. F \in Field /\ Cong(F, 8 * ((v * v) * (v * v))) /\ F \in Int
  <2> DEFINE Y4 == field_sq(Y2)
  <2>1. Y4 \in Field /\ Cong(Y4, (v * v) * (v * v))
      BY <1>5, <1>9, FieldOperations
  <2> HIDE DEF Y4
  <2>2. field_mul(8, Y4) \in Field /\ Cong(field_mul(8, Y4), 8 * ((v * v) * (v * v)))
      BY <1>2, <1>3, <1>5, <2>1, FieldOperations, Modulus
  <2> QED BY <2>2, Modulus DEF Y4
<1> HIDE DEF F
<1>21. D \in Field /\ D \in Int
  <2>1. Cong(S, S) /\ Cong(T, T)
      BY CongChain
  <2> QED BY <1>11, <1>13, <2>1, FieldOperations, Modulus
<1>22. E \in Field /\ E \in Int
  <2>1. Cong(M, M) /\ Cong(D, D)
      BY CongChain
  <2> HIDE DEF D
  <2> QED BY <1>12, <1>21, <2>1, FieldOperations, Modulus
<1>23. Yn \in Field
  <2>1. Cong(E, E) /\ Cong(F, F)
      BY CongChain
  <2> HIDE DEF E
  <2> QED BY <1>20, <1>22, <2>1, FieldOperations
<1> HIDE DEF Zn
<1>24. c.X = T /\ c.Y = Yn /\ c.Z = Zn /\ c \in Group
  <2> HIDE DEF Yn
  <2> QED BY <1>1, <1>8, <1>13, <1>23, GroupIs
<1> HIDE DEF c
<1>25. Cong(c.Z, 2 * (y * (a.Z * (a.Z * (a.Z * a.Z)))))
    BY <1>8, <1>24 DEF zn, z4, z
<1>26. ASSUME NEW l \in Int, NEW x3 \in Int, NEW y3 \in Int,
              Zero(l * (2 * y) - 3 * x * x), Third(l, x, y, x, x3, y3)
       PROVE  FormOf(c, x3, y3)
  <2> DEFINE e3 == l * (2 * y) - 3 * x * x
             e4 == x3 - (l * l - x - x)
             e5 == y3 - (l * (x - x3) - y)
             tt == x3 * (zn * zn)
             yn == mm * (ss - tt) - 8 * ((v * v) * (v * v))
  <2>1. e3 \in Int /\ e4 \in Int /\ e5 \in Int /\ Zero(e3) /\ Zero(e4) /\ Zero(e5)
      BY <1>26, SMT DEF Third
  <2>2. Cong(T, x3 * (zn * zn))
    <3> DEFINE f == (0 - 4) * (y * y) * (z4 * z4)
               g == (e3 - 4 * (y * l)) * (z4 * z4)
    <3>1. (mm * mm - 2 * ss) - x3 * (zn * zn) = f * e4 + g * e3
        BY <1>4, <1>15, SMTT(60)
    <3>2. f \in Int /\ g \in Int /\ x3 * (zn * zn) \in Int /\ mm * mm - 2 * ss \in Int
        BY <1>4, <1>6, <2>1, SMT
    <3> HIDE DEF f, g, e3, e4
    <3>3. Zero((mm * mm - 2 * ss) - x3 * (zn * zn))
        BY <2>1, <3>1, <3>2, Ideal
    <3> QED BY <1>13, <3>2, <3>3, CongZero, CongChain
  <2>3. tt \in Int
      BY <1>6, SMT
  <2>4. D \in Field /\ Cong(D, ss - tt) /\ D \in Int
    <3>1. Cong(T, tt)
        BY <2>2
    <3> HIDE DEF tt
    <3>2. D \in Field /\ Cong(D, ss - tt)
        BY <1>6, <1>11, <1>13, <2>3, <3>1, FieldOperations
    <3> QED BY <3>2, Modulus
  <2> HIDE DEF D
  <2>5. E \in Field /\ Cong(E, mm * (ss - tt)) /\ E \in Int
    <3>1. ss - tt \in Int
        BY <1>6, <2>3
    <3> HIDE DEF tt
    <3>2. E \in Field /\ Cong(E, mm * (ss - tt))
        BY <1>6, <1>12, <2>4, <3>1, FieldOperations
    <3> QED BY <3>2, Modulus
  <2> HIDE DEF E
  <2>6. Yn \in Field /\ Cong(Yn, yn) /\ yn \in Int
    <3>1. mm * (ss - tt) \in Int /\ 8 * ((v * v) * (v * v)) \in Int
        BY <1>5, <1>6, <2>3, SMT
    <3> HIDE DEF tt
    <3>2. Yn \in Field /\ Cong(Yn, yn)
        BY <1>20, <2>5, <3>1, FieldOperations
    <3> QED BY <3>1, <3>2
  <2> HIDE DEF Yn
  <2>7. Cong(yn, y3 * (zn * (zn * zn)))
    <3> DEFINE f == (0 - 8) * (y * (y * y)) * (z4 * (z4 * z4))
               g == (0 - 4) * (y * y) * (x - x3) * (z4 * (z4 * z4))
    <3>1. yn - y3 * (zn * (zn * zn)) = f * e5 + g * e3
        BY <1>4, <1>15, SMTT(60)
    <3>2. f \in Int /\ g \in Int /\ y3 * (zn * (zn * zn)) \in Int
        BY <1>4, <1>6, <2>1, SMT
    <3> HIDE DEF f, g, e3, e5, yn
    <3>3. Zero(yn - y3 * (zn * (zn * zn)))
        BY <2>1, <3>1, <3>2, Ideal
    <3> QED BY <2>6, <3>2, <3>3, CongZero
  <2> HIDE DEF yn, tt
  <2>8. Cong(zn * zn, Zn * Zn) /\ Cong(zn * (zn * zn), Zn * (Zn * Zn))
      BY <1>6, <1>8, Powers23
  <2>9. Cong(x3 * (zn * zn), x3 * (Zn * Zn)) /\ Cong(y3 * (zn * (zn * zn)), y3 * (Zn * (Zn * Zn)))
    <3>1. zn * zn \in Int /\ Zn * Zn \in Int /\ zn * (zn * zn) \in Int /\ Zn * (Zn * Zn) \in Int
        BY <1>6, <1>8, SMT
    <3> QED BY <2>8, <3>1, CongTimes
  <2> QED BY <1>24, <2>2, <2>6, <2>7, <2>9, CongChain DEF FormOf
<1> QED BY <1>24, <1>25, <1>26 DEF c

(* Adding two forms computes a form of the third point of the chord, and   *)
(* zero for two points of one x, whichever they are.                       *)
LEMMA AddForm ==
    ASSUME NEW a \in Group, NEW x1 \in Int, NEW y1 \in Int, FormOf(a, x1, y1),
           NEW b \in Group, NEW x2 \in Int, NEW y2 \in Int, FormOf(b, x2, y2)
    PROVE  /\ AddForms(a, b) \in Group
           /\ Cong(AddForms(a, b).Z, (x2 - x1) * ((a.Z * b.Z) * ((a.Z * b.Z) * (a.Z * b.Z))))
           /\ \A l, x3, y3 \in Int :
                 Zero(l * (x2 - x1) - (y2 - y1)) /\ Third(l, x1, y1, x2, x3, y3)
                    => FormOf(AddForms(a, b), x3, y3)
<1> DEFINE z1 == a.Z
           z2 == b.Z
           w  == z1 * z2
           w2 == w * w
           w3 == w * (w * w)
           A2 == field_sq(a.Z)
           B2 == field_sq(b.Z)
           A3 == field_mul(A2, a.Z)
           B3 == field_mul(B2, b.Z)
           U1 == field_mul(a.X, B2)
           U2 == field_mul(b.X, A2)
           S1 == field_mul(a.Y, B3)
           S2 == field_mul(b.Y, A3)
           P  == field_sub(U2, U1)
           R  == field_sub(S2, S1)
           P2 == field_sq(P)
           P3 == field_mul(P2, P)
           R2 == field_sq(R)
           V  == field_mul(field_add(U1, U2), P2)
           X3 == field_sub(R2, V)
           K  == field_mul(U1, P2)
           D  == field_sub(K, X3)
           E  == field_mul(R, D)
           F  == field_mul(S1, P3)
           Y3 == field_sub(E, F)
           Q  == field_mul(b.Z, P)
           Zc == field_mul(a.Z, Q)
           c  == AddForms(a, b)
           u1 == x1 * w2
           u2 == x2 * w2
           s1 == y1 * w3
           s2 == y2 * w3
           p  == u2 - u1
           r  == s2 - s1
           zn == (x2 - x1) * w3
           xn == r * r - (u1 + u2) * (p * p)
<1>1. c = [X |-> X3, Y |-> Y3, Z |-> Zc]
    BY DEF AddForms
<1>2. /\ a.X \in Int /\ a.Y \in Int /\ z1 \in Int /\ b.X \in Int /\ b.Y \in Int /\ z2 \in Int
    BY GroupIs, Modulus
<1>3. /\ Cong(a.X, x1 * (z1 * z1)) /\ Cong(a.Y, y1 * (z1 * (z1 * z1))) /\ Cong(z1, z1)
      /\ Cong(b.X, x2 * (z2 * z2)) /\ Cong(b.Y, y2 * (z2 * (z2 * z2))) /\ Cong(z2, z2)
    BY CongChain DEF FormOf
<1>4. /\ A2 \in Field /\ Cong(A2, z1 * z1) /\ A2 \in Int
      /\ B2 \in Field /\ Cong(B2, z2 * z2) /\ B2 \in Int
    BY <1>2, <1>3, FieldOperations, Modulus
<1> HIDE DEF A2, B2
<1>5. z1 * z1 \in Int /\ z2 * z2 \in Int
    BY <1>2, SMT
<1>6. /\ A3 \in Field /\ Cong(A3, (z1 * z1) * z1) /\ A3 \in Int
      /\ B3 \in Field /\ Cong(B3, (z2 * z2) * z2) /\ B3 \in Int
    BY <1>2, <1>3, <1>4, <1>5, FieldOperations, Modulus
<1> HIDE DEF A3, B3
<1>7. /\ x1 * (z1 * z1) \in Int /\ y1 * (z1 * (z1 * z1)) \in Int /\ (z1 * z1) * z1 \in Int
      /\ x2 * (z2 * z2) \in Int /\ y2 * (z2 * (z2 * z2)) \in Int /\ (z2 * z2) * z2 \in Int
    BY <1>2, SMT
<1>8. /\ (x1 * (z1 * z1)) * (z2 * z2) = u1 /\ (x2 * (z2 * z2)) * (z1 * z1) = u2
      /\ (y1 * (z1 * (z1 * z1))) * ((z2 * z2) * z2) = s1
      /\ (y2 * (z2 * (z2 * z2))) * ((z1 * z1) * z1) = s2
    BY <1>2, SMTT(30)
<1>9. w \in Int /\ w2 \in Int /\ w3 \in Int
    BY <1>2, SMT
<1>10. /\ U1 \in Field /\ Cong(U1, (x1 * (z1 * z1)) * (z2 * z2)) /\ U1 \in Int
       /\ U2 \in Field /\ Cong(U2, (x2 * (z2 * z2)) * (z1 * z1)) /\ U2 \in Int
  <2>1. U1 \in Field /\ Cong(U1, (x1 * (z1 * z1)) * (z2 * z2))
      BY <1>2, <1>3, <1>4, <1>5, <1>7, FieldOperations
  <2>2. U2 \in Field /\ Cong(U2, (x2 * (z2 * z2)) * (z1 * z1))
      BY <1>2, <1>3, <1>4, <1>5, <1>7, FieldOperations
  <2> QED BY <2>1, <2>2, Modulus
<1>11. /\ S1 \in Field /\ Cong(S1, (y1 * (z1 * (z1 * z1))) * ((z2 * z2) * z2)) /\ S1 \in Int
       /\ S2 \in Field /\ Cong(S2, (y2 * (z2 * (z2 * z2))) * ((z1 * z1) * z1)) /\ S2 \in Int
  <2>1. S1 \in Field /\ Cong(S1, (y1 * (z1 * (z1 * z1))) * ((z2 * z2) * z2))
      BY <1>2, <1>3, <1>6, <1>7, FieldOperations
  <2>2. S2 \in Field /\ Cong(S2, (y2 * (z2 * (z2 * z2))) * ((z1 * z1) * z1))
      BY <1>2, <1>3, <1>6, <1>7, FieldOperations
  <2> QED BY <2>1, <2>2, Modulus
<1> HIDE DEF U1, U2, S1, S2, w, w2, w3
<1>12. u1 \in Int /\ u2 \in Int /\ s1 \in Int /\ s2 \in Int /\ zn \in Int
    BY <1>9, SMT
<1>13. Cong(U1, u1) /\ Cong(U2, u2) /\ Cong(S1, s1) /\ Cong(S2, s2)
    BY <1>8, <1>10, <1>11
<1>14. /\ p = (x2 - x1) * w2 /\ r = (y2 - y1) * w3
    BY <1>9, SMT
<1> HIDE DEF u1, u2, s1, s2
<1>15. /\ P \in Field /\ Cong(P, p) /\ P \in Int /\ p \in Int
       /\ R \in Field /\ Cong(R, r) /\ R \in Int /\ r \in Int
  <2>1. P \in Field /\ Cong(P, u2 - u1)
      BY <1>10, <1>12, <1>13, FieldOperations
  <2>2. R \in Field /\ Cong(R, s2 - s1)
      BY <1>11, <1>12, <1>13, FieldOperations
  <2> QED BY <1>12, <2>1, <2>2, Modulus
<1> HIDE DEF P, R, p, r
<1>16. p * p \in Int /\ r * r \in Int /\ p * (p * p) \in Int /\ (p * p) * p \in Int /\ u1 + u2 \in Int
    BY <1>12, <1>15, SMT
<1>17. /\ P2 \in Field /\ Cong(P2, p * p) /\ P2 \in Int
       /\ R2 \in Field /\ Cong(R2, r * r) /\ R2 \in Int
    BY <1>15, FieldOperations, Modulus
<1> HIDE DEF P2, R2
<1>18. P3 \in Field /\ Cong(P3, (p * p) * p) /\ P3 \in Int
    BY <1>15, <1>16, <1>17, FieldOperations, Modulus
<1> HIDE DEF P3
<1>19. X3 \in Field /\ Cong(X3, xn) /\ X3 \in Int /\ xn \in Int
  <2> DEFINE U == field_add(U1, U2)
  <2>1. U \in Field /\ Cong(U, u1 + u2) /\ U \in Int
      BY <1>10, <1>12, <1>13, FieldOperations, Modulus
  <2> HIDE DEF U
  <2>2. field_mul(U, P2) \in Field /\ Cong(field_mul(U, P2), (u1 + u2) * (p * p))
      BY <1>16, <1>17, <2>1, FieldOperations
  <2>3. V \in Int /\ Cong(V, (u1 + u2) * (p * p)) /\ (u1 + u2) * (p * p) \in Int
      BY <1>16, <2>2, Modulus, SMT DEF U
  <2> HIDE DEF V
  <2>4. X3 \in Field /\ Cong(X3, r * r - (u1 + u2) * (p * p))
      BY <1>16, <1>17, <2>3, FieldOperations
  <2> QED BY <1>16, <2>3, <2>4, Modulus
<1> HIDE DEF X3
<1>20. Zc \in Field /\ Cong(Zc, zn) /\ Zc \in Int
  <2>1. Q \in Field /\ Cong(Q, z2 * p) /\ Q \in Int
      BY <1>2, <1>3, <1>15, FieldOperations, Modulus
  <2> HIDE DEF Q
  <2>2. z2 * p \in Int /\ z1 * (z2 * p) = zn
      BY <1>2, <1>9, <1>14, <1>15, SMT DEF w3, w2, w
  <2>3. Zc \in Field /\ Cong(Zc, z1 * (z2 * p))
      BY <1>2, <1>3, <2>1, <2>2, FieldOperations
  <2> QED BY <2>2, <2>3, Modulus
<1> HIDE DEF Zc, zn
<1>21. K \in Field /\ Cong(K, u1 * (p * p)) /\ K \in Int /\ u1 * (p * p) \in Int
  <2>1. K \in Field /\ Cong(K, u1 * (p * p))
      BY <1>10, <1>12, <1>13, <1>16, <1>17, FieldOperations
  <2>2. u1 * (p * p) \in Int
      BY <1>12, <1>16, SMT
  <2> QED BY <2>1, <2>2, Modulus
<1> HIDE DEF K
<1>22. F \in Field /\ Cong(F, s1 * ((p * p) * p)) /\ F \in Int /\ s1 * ((p * p) * p) \in Int
  <2>1. F \in Field /\ Cong(F, s1 * ((p * p) * p))
      BY <1>11, <1>12, <1>13, <1>16, <1>18, FieldOperations
  <2>2. s1 * ((p * p) * p) \in Int
      BY <1>12, <1>16, SMT
  <2> QED BY <2>1, <2>2, Modulus
<1> HIDE DEF F
<1>23. D \in Field /\ D \in Int
  <2>1. Cong(K, K) /\ Cong(X3, X3)
      BY CongChain
  <2> QED BY <1>19, <1>21, <2>1, FieldOperations, Modulus
<1>24. E \in Field /\ E \in Int
  <2>1. Cong(R, R) /\ Cong(D, D)
      BY CongChain
  <2> HIDE DEF D
  <2> QED BY <1>15, <1>23, <2>1, FieldOperations, Modulus
<1>25. Y3 \in Field
  <2>1. Cong(E, E) /\ Cong(F, F)
      BY CongChain
  <2> HIDE DEF E
  <2> QED BY <1>22, <1>24, <2>1, FieldOperations
<1>26. c \in Group /\ c.X = X3 /\ c.Y = Y3 /\ c.Z = Zc
  <2> HIDE DEF Y3
  <2> QED BY <1>1, <1>19, <1>20, <1>25, GroupIs
<1> HIDE DEF c
<1>27. Cong(c.Z, (x2 - x1) * ((a.Z * b.Z) * ((a.Z * b.Z) * (a.Z * b.Z))))
    BY <1>20, <1>26 DEF zn, w3, w
<1>28. ASSUME NEW l \in Int, NEW x3 \in Int, NEW y3 \in Int,
              Zero(l * (x2 - x1) - (y2 - y1)), Third(l, x1, y1, x2, x3, y3)
       PROVE  FormOf(c, x3, y3)
  <2> DEFINE d  == x2 - x1
             t  == y2 - y1
             e3 == l * d - t
             e4 == x3 - (l * l - x1 - x2)
             e5 == y3 - (l * (x1 - x3) - y1)
             tt == x3 * (zn * zn)
             yn == r * (u1 * (p * p) - tt) - s1 * ((p * p) * p)
  <2>1. e3 \in Int /\ e4 \in Int /\ e5 \in Int /\ Zero(e3) /\ Zero(e4) /\ Zero(e5) /\ d \in Int /\ t \in Int
      BY <1>28, SMT DEF Third
  <2>2. p = d * (w * w) /\ r = t * (w * (w * w)) /\ zn = d * (w * (w * w))
        /\ u1 = x1 * (w * w) /\ u2 = x2 * (w * w) /\ s1 = y1 * (w * (w * w))
      BY <1>14 DEF zn, u1, u2, s1, w2, w3
  <2>3. tt \in Int
      BY <1>12, SMT
  <2>4. Cong(xn, tt)
    <3> DEFINE f == (0 - d * d) * ((w * (w * w)) * (w * (w * w)))
               g == (0 - (l * d + t)) * ((w * (w * w)) * (w * (w * w)))
    <3>1. xn - tt = f * e4 + g * e3
        BY <1>9, <2>2, SMTT(60)
    <3>2. f \in Int /\ g \in Int
        BY <1>9, SMT
    <3> HIDE DEF f, g, e3, e4, tt
    <3>3. Zero(xn - tt)
        BY <2>1, <3>1, <3>2, Ideal
    <3> QED BY <1>19, <2>3, <3>3, CongZero
  <2>5. Cong(X3, tt)
      BY <1>19, <2>4, CongChain
  <2>6. D \in Field /\ Cong(D, u1 * (p * p) - tt) /\ D \in Int
    <3> HIDE DEF tt
    <3> QED BY <1>19, <1>21, <1>23, <2>3, <2>5, FieldOperations
  <2>7. E \in Field /\ Cong(E, r * (u1 * (p * p) - tt)) /\ E \in Int
    <3>1. u1 * (p * p) - tt \in Int
        BY <1>21, <2>3
    <3> HIDE DEF tt, D
    <3> QED BY <1>15, <1>24, <2>6, <3>1, FieldOperations
  <2>8. yn \in Int /\ r * (u1 * (p * p) - tt) \in Int
      BY <1>15, <1>21, <1>22, <2>3, SMT
  <2>9. Cong(Y3, yn)
    <3> HIDE DEF tt, E
    <3> QED BY <1>22, <2>7, <2>8, FieldOperations
  <2> HIDE DEF D, E, Y3
  <2>10. Cong(yn, y3 * (zn * (zn * zn)))
    <3> DEFINE w9 == (w * (w * w)) * ((w * (w * w)) * (w * (w * w)))
               f  == (0 - d * (d * d)) * w9
               g  == (0 - (d * d) * (x1 - x3)) * w9
    <3>1. yn - y3 * (zn * (zn * zn)) = f * e5 + g * e3
        BY <1>9, <2>2, SMTT(60)
    <3>2. f \in Int /\ g \in Int /\ y3 * (zn * (zn * zn)) \in Int
        BY <1>9, <1>12, SMT
    <3> HIDE DEF f, g, e3, e5, yn
    <3>3. Zero(yn - y3 * (zn * (zn * zn)))
        BY <2>1, <3>1, <3>2, Ideal
    <3> QED BY <2>8, <3>2, <3>3, CongZero
  <2>11. Cong(zn * zn, Zc * Zc) /\ Cong(zn * (zn * zn), Zc * (Zc * Zc))
      BY <1>12, <1>20, Powers23
  <2>12. Cong(x3 * (zn * zn), x3 * (Zc * Zc)) /\ Cong(y3 * (zn * (zn * zn)), y3 * (Zc * (Zc * Zc)))
    <3>1. zn * zn \in Int /\ Zc * Zc \in Int /\ zn * (zn * zn) \in Int /\ Zc * (Zc * Zc) \in Int
        BY <1>12, <1>20, SMT
    <3> QED BY <2>11, <3>1, CongTimes
  <2> HIDE DEF yn
  <2> QED BY <1>26, <2>5, <2>9, <2>10, <2>12, CongChain DEF FormOf
<1> QED BY <1>26, <1>27, <1>28 DEF c

----------------------------------------------------------------------------
(* A form of a point satisfies the equation in Jacobian coordinates.       *)
LEMMA SixthPower ==
    ASSUME NEW z \in Nat
    PROVE  Power(z)[6] = (z * (z * z)) * (z * (z * z))
<1> DEFINE f == Power(z)
<1>1. f[0] = 1 /\ \A n \in Nat : f[n + 1] = z * f[n]
    BY PowerUnfolds
<1> HIDE DEF f
<1>2. f[0 + 1] = z * f[0] /\ f[1 + 1] = z * f[1] /\ f[2 + 1] = z * f[2]
      /\ f[3 + 1] = z * f[3] /\ f[4 + 1] = z * f[4] /\ f[5 + 1] = z * f[5]
    BY <1>1
<1>3. f[1] = z /\ f[2] = z * z /\ f[3] = z * (z * z)
    BY <1>1, <1>2, SMT
<1>4. f[4] = z * (z * (z * z)) /\ f[5] = z * (z * (z * (z * z))) /\ f[6] = z * (z * (z * (z * (z * z))))
    BY <1>2, <1>3, SMT
<1>5. z * (z * (z * (z * (z * z)))) = (z * (z * z)) * (z * (z * z))
    BY SMT
<1> QED BY <1>4, <1>5 DEF f

LEMMA OnCurveForm ==
    ASSUME NEW a, NEW p, Represents(a, p)
    PROVE  group_is_on_curve(a)
<1>1. CASE group_is_zero(a)
    BY <1>1 DEF group_is_on_curve
<1>2. CASE ~group_is_zero(a)
  <2>1. PICK x, y \in Field : p = [x |-> x, y |-> y] /\ Curve(x, y)
      BY <1>2, PointsAre DEF Represents
  <2> DEFINE B  == GROUP_COEFF_B
             z  == a.Z
             z2 == z * z
             z3 == z * (z * z)
             u  == x * z2
             v  == y * z3
             X2 == field_sq(a.X)
             X3 == field_mul(X2, a.X)
             Z6 == field_pow(a.Z, 6)
             ZB == field_mul(Z6, B)
             e  == y * y - x * x * x - B
  <2>2. /\ x \in Int /\ y \in Int /\ B \in Int /\ a.X \in Int /\ a.Y \in Int /\ z \in Nat /\ a \in Group
        /\ a.X \in Field /\ a.Y \in Field
    <3>1. B \in Field /\ a \in Group
        BY CurveAssumption DEF Represents
    <3>2. a.Z \in Nat
        BY <3>1, GroupIs DEF Field
    <3> QED BY <3>1, <3>2, GroupIs, Modulus
  <2>3. Cong(a.X, u) /\ Cong(a.Y, v)
      BY <1>2, <2>1 DEF Represents, FormOf
  <2> HIDE DEF z, B
  <2>4. z2 \in Int /\ z3 \in Int /\ z3 * z3 \in Int
      BY <2>2, SMT
  <2>5. u \in Int /\ v \in Int /\ u * u \in Int
      BY <2>2, <2>4, SMT
  <2>6. Z6 \in Field /\ Cong(Z6, z3 * z3) /\ Z6 \in Int
    <3>1. Power(z)[6] = z3 * z3
        BY <2>2, SixthPower
    <3>2. (z3 * z3) % FIELD_MODULUS \in Field /\ Cong((z3 * z3) % FIELD_MODULUS, z3 * z3)
        BY <2>4, Residue
    <3> QED BY <3>1, <3>2, Modulus DEF field_pow, z
  <2>7. u * u * u - v * v + (z3 * z3) * B = (0 - z3 * z3) * e + 0 * e
      BY <2>2, SMTT(30)
  <2> HIDE DEF u, v, z2, Z6
  <2>8. X2 \in Field /\ Cong(X2, u * u) /\ X2 \in Int
      BY <2>2, <2>3, <2>5, FieldOperations, Modulus
  <2> HIDE DEF X2
  <2>9. X3 \in Field /\ Cong(X3, (u * u) * u) /\ X3 \in Int /\ (u * u) * u \in Int
    <3>1. X3 \in Field /\ Cong(X3, (u * u) * u)
        BY <2>2, <2>3, <2>5, <2>8, FieldOperations
    <3>2. (u * u) * u \in Int
        BY <2>5, SMT
    <3> QED BY <3>1, <3>2, Modulus
  <2>10. ZB \in Field /\ Cong(ZB, (z3 * z3) * B) /\ ZB \in Int /\ (z3 * z3) * B \in Int
    <3>1. Cong(B, B)
        BY CongChain
    <3>2. ZB \in Field /\ Cong(ZB, (z3 * z3) * B)
        BY <2>2, <2>4, <2>6, <3>1, FieldOperations
    <3>3. (z3 * z3) * B \in Int
        BY <2>2, <2>4, SMT
    <3> QED BY <3>2, <3>3, Modulus
  <2> HIDE DEF X3, ZB, z3
  <2>11. /\ field_add(X3, ZB) \in Field /\ Cong(field_add(X3, ZB), (u * u) * u + (z3 * z3) * B)
         /\ field_sq(a.Y) \in Field /\ Cong(field_sq(a.Y), v * v)
      BY <2>2, <2>3, <2>5, <2>9, <2>10, FieldOperations
  <2>12. Cong((u * u) * u + (z3 * z3) * B, v * v)
    <3>1. e \in Int /\ Zero(e) /\ 0 - z3 * z3 \in Int /\ 0 \in Int /\ v * v \in Int
        BY <2>1, <2>2, <2>4, <2>5, SMT DEF Curve, B
    <3> HIDE DEF e
    <3>2. Zero((0 - z3 * z3) * e + 0 * e)
        BY <3>1, Ideal
    <3>3. (u * u) * u + (z3 * z3) * B \in Int
          /\ ((u * u) * u + (z3 * z3) * B) - v * v = u * u * u - v * v + (z3 * z3) * B
        BY <2>9, <2>10, <3>1
    <3> QED BY <2>7, <3>1, <3>2, <3>3, CongZero
  <2>13. field_sq(a.Y) = field_add(X3, ZB)
      BY <2>11, <2>12, CongChain, EqualInField
  <2> QED BY <2>13 DEF group_is_on_curve, X3, X2, ZB, Z6, B
<1> QED BY <1>1, <1>2

----------------------------------------------------------------------------
(* group_dbl and group_add compute forms of the sums of chords and         *)
(* tangents, but for two different forms of one point, which they lose.    *)
LEMMA DoubleIs ==
    ASSUME NEW a, NEW p, Represents(a, p)
    PROVE  Represents(group_dbl(a), PointSum(p, p))
<1>1. CASE group_is_zero(a)
    BY <1>1 DEF Represents, group_dbl, PointSum
<1>2. CASE ~group_is_zero(a)
  <2> DEFINE x == p.x
             y == p.y
             z == a.Z
             c == group_dbl(a)
  <2>1. /\ a \in Group /\ p \in Points /\ p # Infinity /\ FormOf(a, x, y)
        /\ x \in Int /\ y \in Int /\ z \in Int /\ x \in Field /\ y \in Field /\ p = [x |-> x, y |-> y]
        /\ ~Zero(z)
    <3>1. a \in Group /\ p \in Points /\ p # Infinity /\ FormOf(a, x, y)
        BY <1>2 DEF Represents
    <3>2. x \in Field /\ y \in Field /\ p = [x |-> x, y |-> y] /\ z \in Field /\ ~Zero(z)
        BY <1>2, <3>1, PointsAre, GroupIs DEF group_is_zero
    <3> QED BY <3>1, <3>2, Modulus
  <2> HIDE DEF c
  <2>2. /\ c \in Group /\ Cong(c.Z, 2 * (y * (z * (z * (z * z)))))
        /\ \A l, x3, y3 \in Int :
              Zero(l * (2 * y) - 3 * x * x) /\ Third(l, x, y, x, x3, y3) => FormOf(c, x3, y3)
      BY <1>2, <2>1, DoubleForm DEF c
  <2>3. c.Z # 0 <=> ~Zero(c.Z)
      BY <2>2, GroupIs
  <2> HIDE DEF x, y, z
  <2> DEFINE z4 == z * (z * (z * z))
  <2>4. z4 \in Int /\ 2 * y \in Int /\ 2 * (y * z4) = (2 * y) * z4
      BY <2>1, SMT
  <2>5. CASE p = Opposite(p)
    <3>1. y = (-y) % FIELD_MODULUS
        BY <2>1, <2>5 DEF Opposite, y
    <3>2. -y \in Int /\ y - (-y) = 2 * y
        BY <2>1
    <3>3. Cong(y, -y)
        BY <3>1, <3>2, Residue
    <3>4. Zero(2 * y)
        BY <2>1, <3>2, <3>3, CongZero
    <3>5. Zero(z4 * (2 * y) + 0 * (2 * y)) /\ z4 * (2 * y) + 0 * (2 * y) = (2 * y) * z4
      <4>1. 0 \in Int /\ z4 * (2 * y) + 0 * (2 * y) = (2 * y) * z4
          BY <2>4, SMT
      <4> HIDE DEF z4
      <4> QED BY <2>4, <3>4, <4>1, Ideal
    <3>6. Zero(c.Z)
        BY <2>2, <2>4, <3>5, CongChain DEF Zero
    <3>7. PointSum(p, p) = Infinity
        BY <2>1, <2>5 DEF PointSum
    <3> QED BY <2>2, <2>3, <3>6, <3>7, PointsAre DEF Represents, group_is_zero, c
  <2>6. CASE p # Opposite(p)
    <3> DEFINE l == Over(3 * p.x * p.x, 2 * p.y)
               s == Mirrored(l, p, p)
    <3>1. ~Zero(2 * y)
        BY <2>1, <2>6, SlopeOfTangent DEF y
    <3>2. l \in Field /\ Zero(l * (2 * y) - 3 * x * x) /\ l \in Int
      <4>1. 3 * x * x \in Int
          BY <2>1, SMT
      <4> QED BY <2>4, <3>1, <4>1, OverIs, Modulus DEF x, y
    <3>3. s.x \in Field /\ s.y \in Field /\ Third(l, x, y, x, s.x, s.y) /\ s.x \in Int /\ s.y \in Int
        BY <2>1, <3>2, MirroredIs, Modulus DEF x, y
    <3>4. s \in Points \ {Infinity}
        BY <2>1, <3>1, TangentCloses DEF y
    <3>5. s = PointSum(p, p)
        BY <2>1, <2>6 DEF PointSum
    <3> HIDE DEF s, l
    <3>6. FormOf(c, s.x, s.y)
        BY <2>2, <3>2, <3>3
    <3>7. ~Zero(c.Z)
      <4>1. ~Zero(z4)
        <5>1. z * z \in Int /\ z * (z * z) \in Int
            BY <2>1, SMT
        <5> QED BY <2>1, <5>1, NoZeroDivisors
      <4> HIDE DEF z4
      <4>2. ~Zero((2 * y) * z4)
          BY <2>4, <3>1, <4>1, NoZeroDivisors
      <4> QED BY <2>2, <2>4, <4>2, CongChain DEF Zero, z4
    <3> QED BY <2>2, <2>3, <3>4, <3>5, <3>6, <3>7 DEF Represents, group_is_zero, c
  <2> QED BY <2>5, <2>6
<1> QED BY <1>1, <1>2

LEMMA AddIs ==
    ASSUME NEW a, NEW p, NEW b, NEW q, Represents(a, p), Represents(b, q)
    PROVE  /\ Twins(a, b) <=> ~group_is_zero(a) /\ ~group_is_zero(b) /\ a # b /\ p = q
           /\ Represents(group_add(a, b), IF Twins(a, b) THEN Infinity ELSE PointSum(p, q))
<1>1. affine_from_group(a) = p /\ affine_from_group(b) = q
    BY AffineOfForm
<1>2. Twins(a, b) <=> ~group_is_zero(a) /\ ~group_is_zero(b) /\ a # b /\ p = q
    BY <1>1 DEF Twins
<1>3. CASE group_is_zero(a) \/ group_is_zero(b)
    BY <1>2, <1>3 DEF Represents, group_add, PointSum
<1>4. CASE a = b
    BY <1>1, <1>2, <1>4, DoubleIs DEF group_add, Represents, PointSum
<1>5. CASE ~group_is_zero(a) /\ ~group_is_zero(b) /\ a # b
  <2> DEFINE x1 == p.x
             y1 == p.y
             x2 == q.x
             y2 == q.y
             w  == a.Z * b.Z
             w3 == w * (w * w)
             c  == AddForms(a, b)
  <2>1. /\ a \in Group /\ p \in Points /\ p # Infinity /\ FormOf(a, x1, y1)
        /\ b \in Group /\ q \in Points /\ q # Infinity /\ FormOf(b, x2, y2)
      BY <1>5 DEF Represents
  <2>2. /\ x1 \in Int /\ y1 \in Int /\ x2 \in Int /\ y2 \in Int /\ w \in Int /\ w3 \in Int /\ ~Zero(w3)
    <3>1. a.Z \in Int /\ b.Z \in Int /\ ~Zero(a.Z) /\ ~Zero(b.Z)
        BY <1>5, <2>1, GroupIs, Modulus DEF group_is_zero
    <3>2. w \in Int /\ ~Zero(w)
      <4>1. w \in Int
          BY <3>1, SMT
      <4> QED BY <3>1, <4>1, NoZeroDivisors
    <3> HIDE DEF w
    <3>3. w * w \in Int /\ w * (w * w) \in Int
        BY <3>2, SMT
    <3>4. ~Zero(w * w)
        BY <3>2, NoZeroDivisors
    <3>5. ~Zero(w3)
        BY <3>2, <3>3, <3>4, NoZeroDivisors
    <3> QED BY <2>1, <3>2, <3>3, <3>5, PointsAre, Modulus
  <2>3. group_add(a, b) = c
      BY <1>5 DEF group_add
  <2> HIDE DEF c
  <2>4. /\ c \in Group /\ Cong(c.Z, (x2 - x1) * w3)
        /\ \A l, x3, y3 \in Int :
              Zero(l * (x2 - x1) - (y2 - y1)) /\ Third(l, x1, y1, x2, x3, y3) => FormOf(c, x3, y3)
      BY <2>1, <2>2, AddForm DEF c
  <2>5. c.Z # 0 <=> ~Zero(c.Z)
      BY <2>4, GroupIs
  <2> HIDE DEF w3, w
  <2>6. CASE x1 = x2
    <3>1. (x2 - x1) * w3 = 0
        BY <2>2, <2>6, SMT
    <3>2. group_is_zero(c)
        BY <2>4, <2>5, <3>1 DEF Zero, group_is_zero
    <3>3. p = q \/ q = Opposite(p)
      <4> SUFFICES ASSUME p # q, q # Opposite(p) PROVE FALSE
          OBVIOUS
      <4>1. ~Zero(x2 - x1)
          BY <2>1, SlopeOfChord
      <4>2. x2 - x1 = 0
          BY <2>2, <2>6
      <4> QED BY <4>1, <4>2, CongChain DEF Zero
    <3> QED BY <1>2, <1>5, <2>1, <2>3, <2>4, <3>2, <3>3, PointsAre DEF Represents, PointSum
  <2>7. CASE x1 # x2
    <3> DEFINE l == Over(q.y - p.y, q.x - p.x)
               s == Mirrored(l, p, q)
    <3>1. p # q /\ q # Opposite(p) /\ ~Twins(a, b)
        BY <1>2, <2>1, <2>7, PointsAre DEF Opposite
    <3>2. ~Zero(x2 - x1) /\ x2 - x1 \in Int /\ y2 - y1 \in Int
        BY <2>1, <2>2, <3>1, SlopeOfChord
    <3>3. l \in Field /\ Zero(l * (x2 - x1) - (y2 - y1)) /\ l \in Int
        BY <3>2, OverIs, Modulus
    <3>4. s.x \in Int /\ s.y \in Int /\ Third(l, x1, y1, x2, s.x, s.y)
        BY <2>1, <3>3, MirroredIs, Modulus
    <3>5. s \in Points \ {Infinity}
        BY <2>1, <3>2, ChordCloses
    <3>6. s = PointSum(p, q)
        BY <2>1, <3>1 DEF PointSum
    <3> HIDE DEF s, l
    <3>7. FormOf(c, s.x, s.y)
        BY <2>4, <3>3, <3>4
    <3>8. ~Zero(c.Z)
      <4>1. ~Zero((x2 - x1) * w3)
          BY <2>2, <3>2, NoZeroDivisors
      <4> QED BY <2>4, <4>1, CongChain DEF Zero
    <3> QED BY <2>3, <2>4, <2>5, <3>1, <3>5, <3>6, <3>7, <3>8 DEF Represents, group_is_zero
  <2> QED BY <1>2, <2>6, <2>7
<1> QED BY <1>2, <1>3, <1>4, <1>5

----------------------------------------------------------------------------
(* Multiples of a point, of any number of times.                           *)
LEMMA Order ==
    /\ GROUP_ORDER \in Nat \ {0, 1} /\ IsPrime(GROUP_ORDER)
    /\ Scalar = 0 .. GROUP_ORDER - 1
    /\ \A k \in Int : k % GROUP_ORDER \in Scalar /\ Same(GROUP_ORDER, k % GROUP_ORDER, k)
    /\ \A k \in Scalar : k \in Nat /\ k % GROUP_ORDER = k
<1>1. GROUP_ORDER \in Nat \ {0, 1}
    BY WidthAssumption, CurveAssumption
<1>2. \A k \in Int : k % GROUP_ORDER \in 0 .. GROUP_ORDER - 1 /\ Same(GROUP_ORDER, k % GROUP_ORDER, k)
    BY <1>1, SameResidue
<1>3. \A k \in 0 .. GROUP_ORDER - 1 : k % GROUP_ORDER = k
    BY <1>1, SameResidue
<1> QED BY <1>1, <1>2, <1>3, CurveAssumption DEF Scalar, IsPrime

LEMMA MultiplesUnfold ==
    ASSUME NEW p
    PROVE  /\ Multiples(p)[0] = Infinity
           /\ \A k \in Scalar \ {0} : Multiples(p)[k] = PointSum(Multiples(p)[k - 1], p)
<1> DEFINE f == Multiples(p)
<1>1. GROUP_ORDER - 1 \in Nat /\ 0 \in Nat
    BY Order
<1>2. FiniteNatInductiveDefHypothesis(f, Infinity, LAMBDA v, k : PointSum(v, p), 0, GROUP_ORDER - 1)
    BY DEF FiniteNatInductiveDefHypothesis, Multiples, Scalar
<1>3. FiniteNatInductiveDefConclusion(f, Infinity, LAMBDA v, k : PointSum(v, p), 0, GROUP_ORDER - 1)
    BY <1>1, <1>2, FiniteNatInductiveDef
<1> HIDE DEF f
<1>4. f = [k \in 0 .. GROUP_ORDER - 1 |-> IF k = 0 THEN Infinity ELSE PointSum(f[k - 1], p)]
    BY <1>3 DEF FiniteNatInductiveDefConclusion
<1>5. 0 \in Scalar
    BY <1>1, Order
<1> QED BY <1>4, <1>5 DEF Scalar, f

LEMMA TimesSame ==
    ASSUME NEW p, NEW j, NEW k, Same(GROUP_ORDER, j, k)
    PROVE  Times(j, p) = Times(k, p)
BY DEF Times, Same

LEMMA TimesStep ==
    ASSUME NEW p \in Points, NEW k \in Nat
    PROVE  Times(0, p) = Infinity /\ Times(k + 1, p) = PointSum(Times(k, p), p)
<1> DEFINE r == k % GROUP_ORDER
           f == Multiples(p)
<1>1. r \in Scalar /\ Same(GROUP_ORDER, r, k) /\ r \in Nat /\ r <= GROUP_ORDER - 1
  <2>1. r \in Scalar /\ Same(GROUP_ORDER, r, k)
    <3>1. k \in Int
        OBVIOUS
    <3> QED BY <3>1, Order, Zenon
  <2> HIDE DEF r
  <2> QED BY <2>1, Order
<1>2. 0 % GROUP_ORDER = 0 /\ 1 \in Int /\ Same(GROUP_ORDER, 1, 1)
    BY Order, SameReflexive
<1>3. Same(GROUP_ORDER, r + 1, k + 1)
    BY <1>1, <1>2, Order, SameOperations
<1>4. Times(k, p) = f[r]
    BY DEF Times
<1> HIDE DEF r
<1>5. CASE r + 1 < GROUP_ORDER
  <2>1. r + 1 \in Scalar /\ (r + 1) % GROUP_ORDER = r + 1 /\ r + 1 # 0 /\ (r + 1) - 1 = r
    <3>1. r + 1 \in Scalar /\ r + 1 # 0 /\ (r + 1) - 1 = r
        BY <1>1, <1>5, Order
    <3> QED BY <3>1, Order
  <2>2. Times(k + 1, p) = f[r + 1]
      BY <1>3, <2>1 DEF Times, Same
  <2>3. f[r + 1] = PointSum(f[(r + 1) - 1], p)
      BY <2>1, MultiplesUnfold
  <2> QED BY <1>2, <1>4, <2>1, <2>2, <2>3, MultiplesUnfold DEF Times
<1>6. CASE r + 1 = GROUP_ORDER
  <2>1. GROUP_ORDER % GROUP_ORDER = 0
    <3>1. GROUP_ORDER = 1 * GROUP_ORDER + 0 /\ 0 \in 0 .. GROUP_ORDER - 1 /\ 1 \in Int
        BY Order
    <3>2. (1 * GROUP_ORDER + 0) % GROUP_ORDER = 0
        BY <3>1, Order, QuotientUnique
    <3> QED BY <3>1, <3>2
  <2>2. Times(k + 1, p) = f[0]
      BY <1>3, <1>6, <2>1 DEF Times, Same
  <2>3. Times(GROUP_ORDER - 1, p) = f[r] /\ r = GROUP_ORDER - 1
    <3>1. r = GROUP_ORDER - 1 /\ r % GROUP_ORDER = r
        BY <1>1, <1>6, Order
    <3> QED BY <3>1 DEF Times
  <2>4. PointSum(f[r], p) = Infinity
      BY <2>3, GroupAssumption
  <2> QED BY <1>2, <1>4, <2>2, <2>4, MultiplesUnfold DEF Times
<1>7. r + 1 < GROUP_ORDER \/ r + 1 = GROUP_ORDER
    BY <1>1, Order
<1> QED BY <1>5, <1>6, <1>7

LEMMA TimesNat ==
    ASSUME NEW p \in Points
    PROVE  \A k \in Nat : Times(k, p) \in Points
<1> DEFINE S == {k \in Nat : Times(k, p) \in Points}
<1>1. 0 \in S
    BY TimesStep, PointsAre
<1>2. ASSUME NEW k \in Nat, k \in S PROVE k + 1 \in S
    BY <1>2, TimesStep, SumCloses
<1> HIDE DEF S
<1>3. Nat \subseteq S
    BY <1>1, <1>2, InductionBySet
<1> QED BY <1>3 DEF S

LEMMA TimesIsPoint ==
    ASSUME NEW p \in Points, NEW k \in Int
    PROVE  Times(k, p) \in Points
<1>1. k % GROUP_ORDER \in Nat /\ Same(GROUP_ORDER, k % GROUP_ORDER, k)
    BY Order
<1> QED BY <1>1, TimesNat, TimesSame

LEMMA SumsOfNat ==
    ASSUME NEW p \in Points, NEW j \in Nat
    PROVE  \A k \in Nat : Times(j + k, p) = PointSum(Times(j, p), Times(k, p))
<1> DEFINE S == {k \in Nat : Times(j + k, p) = PointSum(Times(j, p), Times(k, p))}
<1>1. 0 \in S
  <2>1. j + 0 = j /\ Times(0, p) = Infinity
      BY TimesStep
  <2> QED BY <2>1 DEF PointSum
<1>2. ASSUME NEW k \in Nat, k \in S PROVE k + 1 \in S
  <2>1. Times(j, p) \in Points /\ Times(k, p) \in Points
      BY TimesNat
  <2>2. Times(j + k, p) = PointSum(Times(j, p), Times(k, p))
      BY <1>2
  <2>3. j + k \in Nat /\ j + (k + 1) = (j + k) + 1
      OBVIOUS
  <2>4. Times((j + k) + 1, p) = PointSum(Times(j + k, p), p) /\ Times(k + 1, p) = PointSum(Times(k, p), p)
      BY <2>3, TimesStep
  <2>5. PointSum(PointSum(Times(j, p), Times(k, p)), p) = PointSum(Times(j, p), PointSum(Times(k, p), p))
      BY <2>1, GroupAssumption
  <2> QED BY <2>2, <2>3, <2>4, <2>5
<1> HIDE DEF S
<1>3. Nat \subseteq S
    BY <1>1, <1>2, InductionBySet
<1> QED BY <1>3 DEF S

LEMMA Sums ==
    ASSUME NEW p \in Points, NEW j \in Int, NEW k \in Int
    PROVE  Times(j + k, p) = PointSum(Times(j, p), Times(k, p))
<1> DEFINE a == j % GROUP_ORDER
           b == k % GROUP_ORDER
<1>1. a \in Nat /\ b \in Nat /\ Same(GROUP_ORDER, a, j) /\ Same(GROUP_ORDER, b, k)
    BY Order
<1> HIDE DEF a, b
<1>2. Same(GROUP_ORDER, a + b, j + k)
    BY <1>1, Order, SameOperations
<1>3. Times(a, p) = Times(j, p) /\ Times(b, p) = Times(k, p) /\ Times(a + b, p) = Times(j + k, p)
    BY <1>1, <1>2, TimesSame
<1> QED BY <1>1, <1>3, SumsOfNat

LEMMA ProductsOfNat ==
    ASSUME NEW p \in Points, NEW k \in Int
    PROVE  \A j \in Nat : Times(j, Times(k, p)) = Times(j * k, p)
<1> DEFINE S == {j \in Nat : Times(j, Times(k, p)) = Times(j * k, p)}
           q == Times(k, p)
<1>0. q \in Points
    BY TimesIsPoint
<1>1. 0 \in S
  <2>1. 0 * k = 0 /\ Times(0, p) = Infinity /\ Times(0, q) = Infinity
      BY <1>0, TimesStep
  <2> QED BY <2>1
<1>2. ASSUME NEW j \in Nat, j \in S PROVE j + 1 \in S
  <2>1. Times(j, q) = Times(j * k, p) /\ Times(j + 1, q) = PointSum(Times(j, q), q)
      BY <1>0, <1>2, TimesStep
  <2>2. j * k \in Int /\ (j + 1) * k = j * k + k
      BY SMT
  <2>3. Times(j * k + k, p) = PointSum(Times(j * k, p), q)
      BY <2>2, Sums
  <2>4. Times((j + 1) * k, p) = Times(j * k + k, p)
      BY <2>2
  <2> QED BY <2>1, <2>3, <2>4
<1> HIDE DEF S
<1>3. Nat \subseteq S
    BY <1>1, <1>2, InductionBySet
<1> QED BY <1>3 DEF S

LEMMA Products ==
    ASSUME NEW p \in Points, NEW j \in Int, NEW k \in Int
    PROVE  Times(j, Times(k, p)) = Times(j * k, p)
<1> DEFINE a == j % GROUP_ORDER
<1>1. a \in Nat /\ Same(GROUP_ORDER, a, j) /\ Same(GROUP_ORDER, k, k)
    BY Order, SameReflexive
<1> HIDE DEF a
<1>2. Same(GROUP_ORDER, a * k, j * k)
    BY <1>1, Order, SameOperations
<1>3. Times(a, Times(k, p)) = Times(j, Times(k, p)) /\ Times(a * k, p) = Times(j * k, p)
    BY <1>1, <1>2, TimesSame
<1> QED BY <1>1, <1>3, ProductsOfNat

(* Two multiples of a point are one only if they are taken the same number *)
(* of times, up to the order.                                              *)
LEMMA TimesOne ==
    ASSUME NEW p \in Points
    PROVE  Times(1, p) = p /\ \A j \in Int : Times(j, Infinity) = Infinity
<1>1. Times(0 + 1, p) = PointSum(Times(0, p), p) /\ Times(0, p) = Infinity
    BY TimesStep
<1>2. Times(1, p) = p
    BY <1>1 DEF PointSum
<1>3. ASSUME NEW j \in Int PROVE Times(j, Infinity) = Infinity
  <2>1. Times(j, Times(0, p)) = Times(j * 0, p) /\ j * 0 = 0
      BY Products
  <2> QED BY <1>1, <2>1
<1> QED BY <1>2, <1>3

LEMMA NoSmallerOrder ==
    ASSUME NEW p \in Points \ {Infinity}, NEW k \in Int, Times(k, p) = Infinity
    PROVE  k % GROUP_ORDER = 0
<1> SUFFICES ASSUME k % GROUP_ORDER # 0 PROVE FALSE
    OBVIOUS
<1>1. PICK c \in 0 .. GROUP_ORDER - 1 : Same(GROUP_ORDER, k * c, 1)
    BY Order, PrimeInverse
<1>2. c \in Int /\ k * c = c * k
    BY Order, SMT
<1>3. Times(c, Times(k, p)) = Times(k * c, p)
    BY <1>2, Products
<1>4. Times(k * c, p) = p
    BY <1>1, TimesSame, TimesOne
<1> QED BY <1>2, <1>3, <1>4, TimesOne

LEMMA TimesDistinct ==
    ASSUME NEW p \in Points \ {Infinity}, NEW j \in Scalar, NEW k \in Scalar, Times(j, p) = Times(k, p)
    PROVE  j = k
<1>1. j \in Int /\ k \in Int /\ 0 - k \in Int /\ j - k \in Int /\ j + (0 - k) = j - k /\ k + (0 - k) = 0
    BY Order
<1>2. Times(j - k, p) = PointSum(Times(j, p), Times(0 - k, p)) /\ Times(0, p) = PointSum(Times(k, p), Times(0 - k, p))
  <2>1. Times(j + (0 - k), p) = PointSum(Times(j, p), Times(0 - k, p))
      BY <1>1, Sums, Zenon
  <2>2. Times(k + (0 - k), p) = PointSum(Times(k, p), Times(0 - k, p))
      BY <1>1, Sums, Zenon
  <2> QED BY <1>1, <2>1, <2>2
<1>3. Times(j - k, p) = Infinity
    BY <1>2, TimesStep
<1>4. (j - k) % GROUP_ORDER = 0
    BY <1>1, <1>3, NoSmallerOrder
<1>5. 0 % GROUP_ORDER = 0 /\ Same(GROUP_ORDER, k, k)
    BY Order, SameResidue, SameReflexive
<1>6. Same(GROUP_ORDER, (j - k) + k, 0 + k)
  <2>1. Same(GROUP_ORDER, j - k, 0) /\ 0 \in Int
      BY <1>4, <1>5 DEF Same
  <2> QED BY <1>1, <1>5, <2>1, Order, SameOperations
<1>7. Same(GROUP_ORDER, j, k)
  <2>1. (j - k) + k = j /\ 0 + k = k
      BY <1>1
  <2> QED BY <1>6, <2>1
<1> QED BY <1>7, Order, SameSmall

LEMMA Negative ==
    ASSUME NEW a \in Int
    PROVE  -a = 0 - a
OBVIOUS

(* A point has one opposite.                                               *)
LEMMA OppositeIs ==
    ASSUME NEW p \in Points, NEW q \in Points, PointSum(p, q) = Infinity
    PROVE  q = Opposite(p)
<1>1. CASE p = Infinity
  <2>1. Opposite(Infinity) = Infinity
    <3>1. -Infinity.y = 0
      <4>1. Infinity.y \in Int /\ Infinity.y = 0
          BY DEF Infinity
      <4>2. -Infinity.y = 0 - Infinity.y
          BY <4>1, Negative
      <4>3. 0 - Infinity.y = 0
          BY <4>1
      <4> QED BY <4>2, <4>3
    <3>2. 0 % FIELD_MODULUS = 0
        BY Modulus, SameResidue
    <3> QED BY <3>1, <3>2 DEF Opposite, Infinity
  <2> QED BY <1>1, <2>1 DEF PointSum
<1>2. CASE p # Infinity /\ q = Infinity
    BY <1>2 DEF PointSum
<1>3. CASE p # Infinity /\ q # Infinity /\ q # Opposite(p) /\ p = q
    BY <1>3, SlopeOfTangent, TangentCloses DEF PointSum
<1>4. CASE p # Infinity /\ q # Infinity /\ q # Opposite(p) /\ p # q
    BY <1>4, SlopeOfChord, ChordCloses DEF PointSum
<1> QED BY <1>1, <1>2, <1>3, <1>4

LEMMA TimesNegative ==
    ASSUME NEW p \in Points, NEW k \in Int
    PROVE  Times(-k, p) = Opposite(Times(k, p))
<1>1. -k \in Int /\ k + (-k) = 0
    OBVIOUS
<1>2. Times(0, p) = PointSum(Times(k, p), Times(-k, p)) /\ Times(0, p) = Infinity
    BY <1>1, Sums, TimesStep
<1> QED BY <1>1, <1>2, TimesIsPoint, OppositeIs

----------------------------------------------------------------------------
(* Points in and out of Jacobian coordinates.                              *)
LEMMA FormOfAffine ==
    ASSUME NEW p \in Points
    PROVE  /\ Represents(affine_to_group(p), p)
           /\ group_is_zero(affine_to_group(p)) <=> p = Infinity
           /\ p # Infinity => affine_to_group(p) = [X |-> p.x, Y |-> p.y, Z |-> 1]
<1>1. p.x \in Field /\ p.y \in Field /\ p = [x |-> p.x, y |-> p.y]
    BY PointsAre
<1>2. CASE p = Infinity
  <2>1. affine_to_group(p) = GROUP_ZERO
      BY <1>2 DEF affine_to_group, Infinity
  <2> QED BY <1>2, <2>1, GroupIs DEF group_is_zero, GROUP_ZERO
<1>3. CASE p # Infinity
  <2> DEFINE a == [X |-> p.x, Y |-> p.y, Z |-> 1]
  <2>1. affine_to_group(p) = a
      BY <1>1, <1>3 DEF affine_to_group, Infinity
  <2>2. a \in Group /\ a.X = p.x /\ a.Y = p.y /\ a.Z = 1
      BY <1>1, GroupIs, Modulus
  <2>3. p.x * (1 * 1) = p.x /\ p.y * (1 * (1 * 1)) = p.y
      BY <1>1, Modulus, SMT
  <2>4. FormOf(a, p.x, p.y)
      BY <2>2, <2>3, CongChain DEF FormOf
  <2> HIDE DEF a
  <2> QED BY <1>3, <2>1, <2>2, <2>4 DEF Represents, group_is_zero, a
<1> QED BY <1>2, <1>3

LEMMA AffineAdd ==
    ASSUME NEW p \in Points, NEW q \in Points
    PROVE  affine_add(p, q) = PointSum(p, q)
<1> DEFINE a == affine_to_group(p)
           b == affine_to_group(q)
<1>1. Represents(a, p) /\ Represents(b, q)
    BY FormOfAffine
<1>2. ~Twins(a, b)
    BY <1>1, AddIs
<1>3. Represents(group_add(a, b), PointSum(p, q))
    BY <1>1, <1>2, AddIs
<1> QED BY <1>3, AffineOfForm DEF affine_add

LEMMA AffineNegate ==
    ASSUME NEW p \in Points, NEW k \in Int
    PROVE  affine_negate(Times(k, p)) = Times(-k, p)
<1> DEFINE q == Times(k, p)
           a == affine_to_group(q)
           n == group_negate(a)
<1>1. q \in Points /\ Times(-k, p) \in Points /\ Times(-k, p) = Opposite(q)
  <2>1. -k \in Int
      OBVIOUS
  <2> QED BY <2>1, TimesIsPoint, TimesNegative
<1> HIDE DEF q
<1>2. q.x \in Field /\ q.y \in Field /\ q = [x |-> q.x, y |-> q.y] /\ q.y \in Int
    BY <1>1, PointsAre, Modulus
<1>3. Represents(a, q) /\ a \in Group
    BY <1>1, FormOfAffine DEF Represents
<1>4. n = [X |-> a.X, Y |-> field_negate(a.Y), Z |-> a.Z]
    BY <1>3, GroupIs DEF group_negate, Group
<1>5. CASE q = Infinity
  <2>1. a.Z = 0
      BY <1>1, <1>5, FormOfAffine DEF group_is_zero
  <2>2. affine_from_group(n) = Infinity
      BY <1>4, <2>1 DEF affine_from_group, Infinity
  <2>3. PointSum(Infinity, Infinity) = Infinity
      BY DEF PointSum
  <2>4. Opposite(q) = Infinity
      BY <1>5, <2>3, OppositeIs, PointsAre
  <2> QED BY <1>1, <2>2, <2>4 DEF affine_negate, q
<1>6. CASE q # Infinity
  <2>1. a = [X |-> q.x, Y |-> q.y, Z |-> 1]
      BY <1>1, <1>6, FormOfAffine
  <2> DEFINE o == Opposite(q)
  <2>2. o = [x |-> q.x, y |-> (-q.y) % FIELD_MODULUS]
      BY <1>2 DEF Opposite
  <2>3. field_negate(q.y) = (-q.y) % FIELD_MODULUS
    <3>1. -q.y = 0 - q.y
        BY <1>2, Negative
    <3> QED BY <3>1 DEF field_negate, field_sub
  <2>4. o # Infinity /\ o \in Points
    <3> SUFFICES ASSUME o = Infinity PROVE FALSE
        BY <1>1
    <3>1. Times(0 - (-k), p) = Opposite(o)
      <4>1. -k \in Int /\ -(-k) \in Int
          OBVIOUS
      <4>2. -(-k) = 0 - (-k)
          BY <4>1, Negative
      <4> QED BY <1>1, <4>1, <4>2, TimesNegative
    <3>2. 0 - (-k) = k
        OBVIOUS
    <3>3. Opposite(Infinity) = Infinity
      <4>1. PointSum(Infinity, Infinity) = Infinity
          BY DEF PointSum
      <4> QED BY <4>1, OppositeIs, PointsAre
    <3> QED BY <1>6, <3>1, <3>2, <3>3 DEF q
  <2>5. affine_to_group(o) = [X |-> o.x, Y |-> o.y, Z |-> 1] /\ Represents(affine_to_group(o), o)
      BY <2>4, FormOfAffine
  <2>6. n = affine_to_group(o)
      BY <1>4, <2>1, <2>2, <2>3, <2>5
  <2> HIDE DEF o, n, a
  <2>7. affine_from_group(n) = o
      BY <2>5, <2>6, AffineOfForm
  <2> QED BY <1>1, <2>7 DEF affine_negate, n, a, o, q
<1> QED BY <1>5, <1>6

LEMMA AffineOnCurve ==
    ASSUME NEW p \in Points
    PROVE  affine_is_on_curve(p)
BY FormOfAffine, OnCurveForm DEF affine_is_on_curve

----------------------------------------------------------------------------
(* The loop of group_scalar_mul.  Before bit i it holds a form of the      *)
(* multiple that the first i bits make.                                    *)
Prefix(k, i) == k \div Power(2)[SCALAR_BITS - i]

LEMMA PrefixIs ==
    ASSUME NEW k \in Scalar
    PROVE  /\ Prefix(k, 0) = 0 /\ Prefix(k, SCALAR_BITS) = k
           /\ \A i \in 0 .. SCALAR_BITS - 1 :
                 /\ Prefix(k, i) \in Nat /\ ScalarBit(k, i) \in {0, 1}
                 /\ Prefix(k, i + 1) = 2 * Prefix(k, i) + ScalarBit(k, i)
                 /\ 2 * Prefix(k, i) \in Scalar
<1> DEFINE B == SCALAR_BITS
<1>1. B \in Nat /\ B - 1 \in Nat /\ B >= 2 /\ k \in Nat /\ k < GROUP_ORDER /\ GROUP_ORDER \in Nat
    BY WidthAssumption, Order
<1>2. \A n \in Nat : Power(2)[n] \in Nat \ {0}
    BY PowerPositive
<1>3. \A n \in Nat : Power(2)[n + 1] = 2 * Power(2)[n]
    BY PowerUnfolds
<1>4. Prefix(k, B) = k
  <2>1. B - B = 0 /\ Power(2)[0] = 1
      BY <1>1, PowerUnfolds
  <2>2. k = k * 1 + 0 /\ 0 \in 0 .. 1 - 1 /\ 1 \in Nat \ {0}
      BY <1>1
  <2>3. (k * 1 + 0) \div 1 = k
      BY <1>1, <2>2, QuotientUnique
  <2> QED BY <2>1, <2>2, <2>3 DEF Prefix
<1>5. Prefix(k, 0) = 0
  <2>1. k < Power(2)[B]
    <3>1. Power(2)[B - 1] <= Power(2)[B]
        BY <1>1, PowerGrows
    <3>2. Power(2)[B - 1] \in Nat /\ Power(2)[B] \in Nat /\ GROUP_ORDER < Power(2)[B - 1]
        BY <1>1, <1>2, WidthAssumption
    <3> QED BY <1>1, <3>1, <3>2
  <2>2. B - 0 = B
      BY <1>1
  <2> QED BY <1>1, <1>2, <2>1, <2>2, QuotientBounds DEF Prefix
<1>6. ASSUME NEW i \in 0 .. B - 1
      PROVE  /\ Prefix(k, i) \in Nat /\ ScalarBit(k, i) \in {0, 1}
             /\ Prefix(k, i + 1) = 2 * Prefix(k, i) + ScalarBit(k, i)
             /\ 2 * Prefix(k, i) \in Scalar
  <2> DEFINE e == B - 1 - i
             m == k \div Power(2)[e]
             h == m \div 2
             t == m % 2
  <2>1. e \in Nat /\ e + 1 = B - i /\ e = B - (i + 1) /\ e = SCALAR_BITS - 1 - i
      BY <1>1
  <2>2. Power(2)[e] \in Nat \ {0} /\ Power(2)[e + 1] = Power(2)[e] * 2
    <3>1. Power(2)[e] \in Nat \ {0} /\ Power(2)[e + 1] = 2 * Power(2)[e]
        BY <1>2, <1>3, <2>1
    <3> HIDE DEF e
    <3> QED BY <3>1
  <2> HIDE DEF e
  <2>3. m \in Nat /\ m \in Int
      BY <1>1, <2>2, QuotientBounds
  <2>4. Prefix(k, i + 1) = m /\ ScalarBit(k, i) = t
      BY <2>1 DEF Prefix, ScalarBit
  <2>5. Prefix(k, i) = h
    <3>1. m \div 2 = k \div (Power(2)[e] * 2)
        BY <1>1, <2>2, DivideTwice
    <3> QED BY <2>1, <2>2, <3>1 DEF Prefix
  <2>6. m <= k
    <3>1. k \div Power(2)[e] \in Int /\ k % Power(2)[e] \in 0 .. Power(2)[e] - 1
          /\ k = (k \div Power(2)[e]) * Power(2)[e] + (k % Power(2)[e])
      <4>1. k \in Int /\ Power(2)[e] \in Nat \ {0}
          BY <1>1, <2>2
      <4> QED BY <4>1, Division, Zenon
    <3> DEFINE r == k % Power(2)[e]
               w == Power(2)[e]
    <3>2. m \in Nat /\ w \in Nat \ {0} /\ r \in Nat /\ k = m * w + r
        BY <2>2, <2>3, <3>1
    <3> HIDE DEF m, r, w
    <3>3. m * w >= m
        BY <3>2, SMT
    <3> QED BY <1>1, <3>2, <3>3
  <2> HIDE DEF m
  <2>7. h \in Nat /\ t \in 0 .. 1 /\ m = h * 2 + t
    <3>1. h \in Int /\ t \in 0 .. 2 - 1 /\ m = h * 2 + t
        BY <2>3, Division
    <3>2. h \in Nat
        BY <2>3, QuotientBounds
    <3> QED BY <3>1, <3>2
  <2> HIDE DEF h, t
  <2>8. t \in {0, 1} /\ m = 2 * h + t /\ 2 * h \in 0 .. GROUP_ORDER - 1
      BY <1>1, <2>6, <2>7
  <2> QED BY <2>4, <2>5, <2>7, <2>8, Order
<1> QED BY <1>4, <1>5, <1>6

(* One turn of the loop: the doubled point and the point added are never   *)
(* two forms of one point.                                                 *)
LEMMA LoopStep ==
    ASSUME NEW p \in Points \ {Infinity}, NEW k \in Scalar, NEW i \in 0 .. SCALAR_BITS - 1,
           NEW q, Represents(q, Times(Prefix(k, i), p))
    PROVE  /\ ~Twins(group_dbl(q), affine_to_group(p))
           /\ Represents(ScalarMulStep(q, k, i, affine_to_group(p)), Times(Prefix(k, i + 1), p))
<1> DEFINE m == Prefix(k, i)
           d == group_dbl(q)
           a == affine_to_group(p)
<1>1. /\ m \in Nat /\ ScalarBit(k, i) \in {0, 1} /\ 2 * m \in Scalar
      /\ Prefix(k, i + 1) = 2 * m + ScalarBit(k, i)
    BY PrefixIs
<1> HIDE DEF m
<1>2. Times(2 * m, p) = PointSum(Times(m, p), Times(m, p))
  <2>1. m \in Int /\ m + m = 2 * m
      BY <1>1
  <2> QED BY <2>1, Sums
<1>3. Represents(d, Times(2 * m, p))
    BY <1>2, DoubleIs DEF m
<1>4. Represents(a, p)
    BY FormOfAffine
<1>5. Times(2 * m, p) # p
  <2>1. 1 \in Scalar /\ 2 * m # 1
      BY <1>1, Order
  <2> QED BY <1>1, <2>1, TimesOne, TimesDistinct
<1> HIDE DEF d, a
<1>6. ~Twins(d, a)
    BY <1>3, <1>4, <1>5, AddIs
<1>7. Represents(group_add(d, a), Times(2 * m + 1, p))
  <2>1. Represents(group_add(d, a), PointSum(Times(2 * m, p), p))
      BY <1>3, <1>4, <1>6, AddIs
  <2>2. Times(2 * m + 1, p) = PointSum(Times(2 * m, p), p)
      BY <1>1, TimesStep
  <2> QED BY <2>1, <2>2
<1>8. CASE ScalarBit(k, i) = 1
    BY <1>1, <1>6, <1>7, <1>8 DEF ScalarMulStep, d, a
<1>9. CASE ScalarBit(k, i) = 0
  <2>1. 2 * m + 0 = 2 * m
      BY <1>1
  <2> QED BY <1>1, <1>3, <1>6, <1>9, <2>1 DEF ScalarMulStep, d, a
<1> QED BY <1>1, <1>8, <1>9

(* The whole loop: multiplying is adding so many times.                    *)
LEMMA ScalarMul ==
    ASSUME NEW p \in Points, NEW k \in Scalar
    PROVE  Represents(group_scalar_mul(k, affine_to_group(p)), Times(k, p))
<1> DEFINE a == affine_to_group(p)
<1>1. CASE group_is_zero(a) \/ k = 0
  <2>1. Times(k, p) = Infinity
    <3>1. Times(0, p) = Infinity /\ (p = Infinity => Times(k, p) = Infinity) /\ k \in Int
        BY TimesStep, TimesOne, Order
    <3>2. p = Infinity \/ k = 0
        BY <1>1, FormOfAffine
    <3> QED BY <3>1, <3>2
  <2>2. group_scalar_mul(k, a) = GROUP_ZERO
      BY <1>1 DEF group_scalar_mul
  <2> QED BY <2>1, <2>2, GroupIs
<1>2. CASE ~group_is_zero(a) /\ k # 0
  <2> DEFINE B  == SCALAR_BITS
             Def(v, i) == ScalarMulStep(v, k, i - 1, a)
             f  == CHOOSE g : g = [i \in 0 .. B |-> IF i = 0 THEN GROUP_ZERO ELSE Def(g[i - 1], i)]
  <2>1. group_scalar_mul(k, a) = f[B]
      BY <1>2 DEF group_scalar_mul
  <2>2. B \in Nat /\ 0 \in Nat
      BY WidthAssumption
  <2>3. f = [i \in 0 .. B |-> IF i = 0 THEN GROUP_ZERO ELSE Def(f[i - 1], i)]
    <3>1. FiniteNatInductiveDefHypothesis(f, GROUP_ZERO, Def, 0, B)
        BY DEF FiniteNatInductiveDefHypothesis
    <3> HIDE DEF f
    <3>2. FiniteNatInductiveDefConclusion(f, GROUP_ZERO, Def, 0, B)
        BY <2>2, <3>1, FiniteNatInductiveDef
    <3> QED BY <3>2 DEF FiniteNatInductiveDefConclusion
  <2> HIDE DEF f, Def
  <2> DEFINE S == {i \in Nat : i <= B => Represents(f[i], Times(Prefix(k, i), p))}
  <2>4. 0 \in S
    <3>1. f[0] = GROUP_ZERO
        BY <2>2, <2>3
    <3>2. Times(Prefix(k, 0), p) = Infinity
        BY PrefixIs, TimesStep
    <3> QED BY <3>1, <3>2, GroupIs
  <2>5. ASSUME NEW i \in Nat, i \in S PROVE i + 1 \in S
    <3> SUFFICES ASSUME i + 1 <= B PROVE Represents(f[i + 1], Times(Prefix(k, i + 1), p))
        OBVIOUS
    <3>1. i \in 0 .. SCALAR_BITS - 1 /\ i + 1 \in 0 .. B /\ i + 1 # 0 /\ (i + 1) - 1 = i /\ i <= B
        BY <2>2
    <3>2. f[i + 1] = ScalarMulStep(f[i], k, i, a)
        BY <2>3, <3>1 DEF Def
    <3>3. Represents(f[i], Times(Prefix(k, i), p))
        BY <2>5, <3>1
    <3>4. p # Infinity
        BY <1>2, FormOfAffine
    <3> QED BY <3>1, <3>2, <3>3, <3>4, LoopStep
  <2> HIDE DEF S
  <2>6. Nat \subseteq S
      BY <2>4, <2>5, InductionBySet
  <2>7. Represents(f[B], Times(Prefix(k, B), p))
      BY <2>2, <2>6 DEF S
  <2> QED BY <2>1, <2>7, PrefixIs
<1> QED BY <1>1, <1>2

LEMMA AffineScalarMul ==
    ASSUME NEW p \in Points, NEW k \in Scalar
    PROVE  affine_scalar_mul(k, p) = Times(k, p)
BY ScalarMul, AffineOfForm DEF affine_scalar_mul
=============================================================================
