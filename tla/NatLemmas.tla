----------------------------- MODULE NatLemmas -----------------------------
(***************************************************************************)
(* Facts about the natural numbers that the proofs of several components   *)
(* need: induction and least elements in the form of sets, division,       *)
(* powers, residues, and the parts of sequences.                           *)
(***************************************************************************)
EXTENDS Powers, NaturalsInduction, WellFoundedInduction, SequenceTheorems, TLAPS

(* A set of numbers that is not empty has a least one.                     *)
LEMMA LeastOfSet ==
    ASSUME NEW S, S \subseteq Nat, S # {}
    PROVE  \E x \in S : \A y \in S : x <= y
<1> DEFINE R == OpToRel(<, Nat)
<1>1. IsWellFoundedOn(R, Nat)
    BY NatLessThanWellFounded
<1>2. \A m, n \in Nat : m < n => <<m, n>> \in R
    BY DEF OpToRel
<1> HIDE DEF R
<1>3. PICK x \in S : \A y \in S : ~ (<<y, x>> \in R)
    BY <1>1, WFMin
<1>4. ASSUME NEW y \in S PROVE x <= y
  <2>1. x \in Nat /\ y \in Nat /\ <<y, x>> \notin R
      BY <1>3
  <2>2. ~ (y < x)
      BY <1>2, <2>1, Zenon
  <2> QED BY <2>1, <2>2
<1> QED BY <1>4

(* Induction, with the set of the numbers of which something is true.      *)
LEMMA InductionBySet ==
    ASSUME NEW S, 0 \in S, \A n \in Nat : n \in S => n + 1 \in S
    PROVE  Nat \subseteq S
<1> SUFFICES ASSUME NEW T, T = Nat \ S, T # {} PROVE FALSE
    OBVIOUS
<1>1. PICK x \in T : \A y \in T : x <= y
    BY LeastOfSet
<1>2. x \in Nat /\ x \notin S /\ x # 0
    BY <1>1
<1>3. x - 1 \in Nat /\ (x - 1) + 1 = x /\ x - 1 < x
    BY <1>2
<1>4. x - 1 \notin T
    BY <1>1, <1>3
<1> QED BY <1>2, <1>3, <1>4

LEMMA InductionTo ==
    ASSUME NEW S, NEW m \in Nat, 0 \in S, \A n \in 0 .. m - 1 : n \in S => n + 1 \in S
    PROVE  0 .. m \subseteq S
<1> DEFINE reached == {n \in Nat : n <= m => n \in S}
<1>1. 0 \in reached
    OBVIOUS
<1>2. ASSUME NEW n \in Nat, n \in reached PROVE n + 1 \in reached
  <2> SUFFICES ASSUME n + 1 <= m PROVE n + 1 \in S
      OBVIOUS
  <2>1. n \in 0 .. m - 1 /\ n <= m
      OBVIOUS
  <2> QED BY <1>2, <2>1
<1> HIDE DEF reached
<1>3. Nat \subseteq reached
    BY <1>1, <1>2, InductionBySet
<1> QED BY <1>3 DEF reached

(* Quotient and remainder are what multiplying back says they are.         *)
LEMMA QuotientUnique ==
    ASSUME NEW d \in Nat \ {0}, NEW q \in Int, NEW r \in 0 .. d - 1
    PROVE  (q * d + r) \div d = q /\ (q * d + r) % d = r
<1> DEFINE n == q * d + r
           p == n \div d
           s == n % d
<1>1. n \in Int
    BY SMT
<1>2. p \in Int /\ s \in 0 .. d - 1 /\ n = p * d + s
    BY <1>1, SMTT(30)
<1> HIDE DEF p, s
<1>3. (p - q) * d = r - s
    BY <1>2, SMT
<1>4. CASE p >= q + 1
  <2>1. (p - q) * d >= d
      BY <1>2, <1>4, SMT
  <2> QED BY <1>2, <1>3, <2>1
<1>5. CASE p <= q - 1
  <2>1. (p - q) * d <= -d
      BY <1>2, <1>5, SMT
  <2> QED BY <1>2, <1>3, <2>1
<1>6. CASE p = q
  <2>1. s = r
      BY <1>2, <1>3, <1>6, SMT
  <2> QED BY <1>6, <2>1 DEF p, s
<1>7. p >= q + 1 \/ p <= q - 1 \/ p = q
    BY <1>2
<1> QED BY <1>4, <1>5, <1>6, <1>7

LEMMA Division ==
    ASSUME NEW n \in Int, NEW d \in Nat \ {0}
    PROVE  n \div d \in Int /\ n % d \in 0 .. d - 1 /\ n = (n \div d) * d + (n % d)
BY SMTT(30)

LEMMA QuotientBounds ==
    ASSUME NEW n \in Nat, NEW d \in Nat \ {0}
    PROVE  /\ n \div d \in Nat
           /\ n \div d = 0 <=> n < d
<1>1. n \div d \in Int /\ n % d \in 0 .. d - 1 /\ n = (n \div d) * d + (n % d)
    BY Division
<1> DEFINE q == n \div d
<1> HIDE DEF q
<1>2. q \in Int /\ n % d \in 0 .. d - 1 /\ n = q * d + (n % d)
    BY <1>1 DEF q
<1>3. q <= -1 => q * d <= -d
    BY <1>2, SMT
<1>4. q >= 1 => q * d >= d
    BY <1>2, SMT
<1>5. q \in Nat
    BY <1>2, <1>3, SMT
<1>6. q = 0 => n < d
    BY <1>2, SMT
<1>7. n < d => q = 0
    BY <1>2, <1>4, <1>5, SMT
<1> QED BY <1>5, <1>6, <1>7 DEF q

(* Dividing twice is dividing by the product.                              *)
LEMMA DivideTwice ==
    ASSUME NEW n \in Nat, NEW a \in Nat \ {0}, NEW b \in Nat \ {0}
    PROVE  (n \div a) \div b = n \div (a * b)
<1> DEFINE p == n \div a
           q == p \div b
           r == n % a
           s == p % b
<1>1. p \in Int /\ r \in 0 .. a - 1 /\ n = p * a + r
    BY Division
<1>2. q \in Int /\ s \in 0 .. b - 1 /\ p = q * b + s
    BY <1>1, Division
<1> HIDE DEF p, q, r, s
<1>3. a * b \in Nat \ {0}
    BY SMT
<1>4. n = q * (a * b) + (s * a + r)
    BY <1>1, <1>2, SMTT(30)
<1>5. s * a + r \in 0 .. (a * b) - 1
  <2>1. s * a >= 0 /\ s * a \in Int
      BY <1>2, SMT
  <2>2. s * a <= (b - 1) * a
      BY <1>2, SMT
  <2>3. (b - 1) * a = a * b - a
      BY SMT
  <2> QED BY <1>1, <1>3, <2>1, <2>2, <2>3
<1>6. n \div (a * b) = q
    BY <1>2, <1>3, <1>4, <1>5, QuotientUnique
<1> QED BY <1>6 DEF q, p

----------------------------------------------------------------------------
(* What the recursion of Power computes.                                   *)
LEMMA PowerUnfolds ==
    ASSUME NEW b \in Nat
    PROVE  /\ Power(b)[0] = 1
           /\ \A n \in Nat : Power(b)[n + 1] = b * Power(b)[n]
<1> DEFINE f == Power(b)
<1>1. NatInductiveDefHypothesis(f, 1, LAMBDA v, n : b * v)
    BY DEF NatInductiveDefHypothesis, Power
<1>2. NatInductiveDefConclusion(f, 1, LAMBDA v, n : b * v)
    BY <1>1, NatInductiveDef
<1>3. f = [i \in Nat |-> IF i = 0 THEN 1 ELSE b * f[i - 1]]
    BY <1>2 DEF NatInductiveDefConclusion
<1> HIDE DEF f
<1>4. f[0] = 1
    BY <1>3
<1>5. ASSUME NEW n \in Nat PROVE f[n + 1] = b * f[n]
  <2>1. n + 1 \in Nat /\ n + 1 # 0 /\ (n + 1) - 1 = n
      OBVIOUS
  <2> QED BY <1>3, <2>1
<1> QED BY <1>4, <1>5 DEF f

LEMMA PowerPositive ==
    ASSUME NEW b \in Nat \ {0}, NEW n \in Nat
    PROVE  Power(b)[n] \in Nat \ {0}
<1> DEFINE S == {m \in Nat : Power(b)[m] \in Nat \ {0}}
<1>1. 0 \in S
    BY PowerUnfolds
<1>2. ASSUME NEW m \in Nat, m \in S PROVE m + 1 \in S
  <2>1. Power(b)[m + 1] = b * Power(b)[m]
      BY PowerUnfolds
  <2>2. \A p \in Nat \ {0} : b * p \in Nat \ {0}
      BY SMT
  <2> QED BY <1>2, <2>1, <2>2
<1> HIDE DEF S
<1>3. Nat \subseteq S
    BY <1>1, <1>2, InductionBySet
<1> QED BY <1>3 DEF S

(* A power is larger than its exponent.                                    *)
LEMMA PowerLarge ==
    ASSUME NEW b \in Nat \ {0, 1}, NEW n \in Nat
    PROVE  n < Power(b)[n]
<1> DEFINE S == {m \in Nat : m < Power(b)[m]}
<1>1. 0 \in S
    BY PowerUnfolds
<1>2. ASSUME NEW m \in Nat, m \in S PROVE m + 1 \in S
  <2>1. Power(b)[m + 1] = b * Power(b)[m] /\ Power(b)[m] \in Nat /\ m < Power(b)[m]
      BY <1>2, PowerUnfolds, PowerPositive
  <2>2. \A p \in Nat : b * p >= 2 * p
      BY SMT
  <2>3. m + 1 < 2 * Power(b)[m] \/ m = 0
      BY <2>1
  <2>4. m + 1 < b * Power(b)[m]
      BY <2>1, <2>2, SMT
  <2> QED BY <2>1, <2>4
<1> HIDE DEF S
<1>3. Nat \subseteq S
    BY <1>1, <1>2, InductionBySet
<1> QED BY <1>3 DEF S

LEMMA PowerOfSum ==
    ASSUME NEW b \in Nat \ {0}, NEW m \in Nat, NEW n \in Nat
    PROVE  Power(b)[m + n] = Power(b)[m] * Power(b)[n]
<1> DEFINE S == {k \in Nat : Power(b)[m + k] = Power(b)[m] * Power(b)[k]}
<1>1. 0 \in S
  <2>1. Power(b)[m] \in Nat /\ Power(b)[0] = 1 /\ m + 0 = m
      BY PowerUnfolds, PowerPositive
  <2> QED BY <2>1
<1>2. ASSUME NEW k \in Nat, k \in S PROVE k + 1 \in S
  <2>1. Power(b)[m + k + 1] = b * Power(b)[m + k] /\ Power(b)[k + 1] = b * Power(b)[k]
      BY PowerUnfolds
  <2>2. Power(b)[m] \in Nat /\ Power(b)[k] \in Nat
      BY PowerPositive
  <2>3. Power(b)[m + k] = Power(b)[m] * Power(b)[k]
      BY <1>2
  <2>4. \A p, q \in Nat : b * (p * q) = p * (b * q)
      BY SMT
  <2>5. m + (k + 1) = m + k + 1
      OBVIOUS
  <2> QED BY <2>1, <2>2, <2>3, <2>4, <2>5
<1> HIDE DEF S
<1>3. Nat \subseteq S
    BY <1>1, <1>2, InductionBySet
<1> QED BY <1>3 DEF S

LEMMA PowerGrows ==
    ASSUME NEW b \in Nat \ {0}, NEW m \in Nat, NEW n \in Nat, m <= n
    PROVE  Power(b)[m] <= Power(b)[n]
<1>1. n - m \in Nat /\ m + (n - m) = n
    OBVIOUS
<1>2. Power(b)[n] = Power(b)[m] * Power(b)[n - m]
    BY <1>1, PowerOfSum
<1>3. Power(b)[m] \in Nat /\ Power(b)[n - m] \in Nat \ {0}
    BY <1>1, PowerPositive
<1>4. \A p \in Nat, q \in Nat \ {0} : p <= p * q
    BY SMT
<1> QED BY <1>2, <1>3, <1>4

----------------------------------------------------------------------------
(* Numbers that are the same modulo m.                                     *)
Same(m, a, b) == a % m = b % m

LEMMA SameReflexive ==
    ASSUME NEW m, NEW a
    PROVE  Same(m, a, a)
BY DEF Same

LEMMA SameShift ==
    ASSUME NEW m \in Nat \ {0}, NEW a \in Int, NEW k \in Int
    PROVE  Same(m, a + k * m, a)
<1> DEFINE q == a \div m
           r == a % m
<1>1. q \in Int /\ r \in 0 .. m - 1 /\ a = q * m + r
    BY Division
<1> HIDE DEF q, r
<1>2. a + k * m = (q + k) * m + r
    BY <1>1, SMT
<1>3. q + k \in Int
    BY <1>1
<1>4. ((q + k) * m + r) % m = r /\ (q * m + r) % m = r
    BY <1>1, <1>3, QuotientUnique
<1> QED BY <1>1, <1>2, <1>4 DEF Same

LEMMA SameMultiple ==
    ASSUME NEW m \in Nat \ {0}, NEW a \in Int, NEW b \in Int, Same(m, a, b)
    PROVE  \E k \in Int : a = b + k * m
<1> DEFINE q == a \div m
           t == b \div m
           r == a % m
<1>1. q \in Int /\ r \in 0 .. m - 1 /\ a = q * m + r
    BY Division
<1>2. t \in Int /\ b % m \in 0 .. m - 1 /\ b = t * m + (b % m)
    BY Division
<1>3. r = b % m
    BY DEF Same
<1> HIDE DEF q, t, r
<1>4. b = t * m + r /\ r \in Int
    BY <1>1, <1>2, <1>3
<1>5. a = b + (q - t) * m
    BY <1>1, <1>2, <1>4, SMT
<1>6. q - t \in Int
    BY <1>1, <1>2
<1> QED BY <1>5, <1>6

LEMMA SameOperations ==
    ASSUME NEW m \in Nat \ {0}, NEW a \in Int, NEW b \in Int, NEW c \in Int, NEW d \in Int,
           Same(m, a, b), Same(m, c, d)
    PROVE  /\ Same(m, a + c, b + d)
           /\ Same(m, a - c, b - d)
           /\ Same(m, a * c, b * d)
<1>1. PICK k \in Int : a = b + k * m
    BY SameMultiple
<1>2. PICK l \in Int : c = d + l * m
    BY SameMultiple
<1>3. a + c = (b + d) + (k + l) * m /\ a - c = (b - d) + (k - l) * m
    BY <1>1, <1>2, SMT
<1>4. a * c = b * d + (b * l + k * d + k * (l * m)) * m
    BY <1>1, <1>2, SMTT(30)
<1>5. k + l \in Int /\ k - l \in Int /\ b * l + k * d + k * (l * m) \in Int /\ b + d \in Int /\ b - d \in Int
      /\ b * d \in Int
    BY SMT
<1>6. Same(m, a + c, b + d) /\ Same(m, a - c, b - d)
    BY <1>3, <1>5, SameShift
<1>7. Same(m, a * c, b * d)
    BY <1>4, <1>5, SameShift
<1> QED BY <1>6, <1>7

LEMMA SameResidue ==
    ASSUME NEW m \in Nat \ {0}, NEW a \in Int
    PROVE  /\ a % m \in 0 .. m - 1 /\ Same(m, a % m, a)
           /\ \A b \in 0 .. m - 1 : Same(m, a, b) => a % m = b
           /\ \A b \in 0 .. m - 1 : b % m = b
<1>1. a % m \in 0 .. m - 1
    BY Division
<1>2. ASSUME NEW b \in 0 .. m - 1 PROVE b % m = b
  <2>1. (0 * m + b) % m = b
      BY QuotientUnique
  <2>2. 0 * m + b = b
      BY SMT
  <2> QED BY <2>1, <2>2
<1> QED BY <1>1, <1>2 DEF Same

LEMMA SameSmall ==
    ASSUME NEW m \in Nat \ {0}, NEW a \in 0 .. m - 1, NEW b \in 0 .. m - 1, Same(m, a, b)
    PROVE  a = b
<1>1. a % m = a /\ b % m = b
    BY SameResidue
<1> QED BY <1>1 DEF Same

(* Modulo a prime every number but zero has an inverse.                    *)
IsPrime(m) == m \in Nat \ {0, 1} /\ \A d \in 2 .. m - 1 : m % d # 0

LEMMA PrimeInverse ==
    ASSUME NEW m, IsPrime(m), NEW b \in Int, b % m # 0
    PROVE  \E c \in 0 .. m - 1 : Same(m, b * c, 1)
<1>1. m \in Nat \ {0} /\ m >= 2
    BY DEF IsPrime
<1> DEFINE S == {r \in 1 .. m - 1 : \E c \in Int : Same(m, b * c, r)}
<1>2. b % m \in S
  <2>1. b % m \in 0 .. m - 1 /\ Same(m, b % m, b)
      BY <1>1, SameResidue
  <2>2. b % m \in 1 .. m - 1 /\ b * 1 = b
      BY <1>1, <2>1, SMT
  <2>3. Same(m, b * 1, b % m)
      BY <2>1, <2>2 DEF Same
  <2>4. \E c \in Int : Same(m, b * c, b % m)
      BY <2>3
  <2> QED BY <2>2, <2>4
<1>3. PICK g \in S : \A r \in S : g <= r
  <2>1. S \subseteq Nat
      BY <1>1, SMT
  <2>2. S # {}
      BY <1>2
  <2> HIDE DEF S
  <2> QED BY <2>1, <2>2, LeastOfSet
<1>4. PICK c \in Int : Same(m, b * c, g)
    BY <1>3
<1> DEFINE q == m \div g
           s == m % g
<1>5. g \in 1 .. m - 1 /\ q \in Int /\ s \in 0 .. g - 1 /\ m = q * g + s
  <2>1. g \in 1 .. m - 1
      BY <1>3
  <2> QED BY <1>1, <2>1, Division
<1> HIDE DEF S, q, s
<1>6. s = 0
  <2> SUFFICES ASSUME s # 0 PROVE FALSE
      OBVIOUS
  <2>1. b * c \in Int /\ q * g \in Int /\ q * (b * c) \in Int
      BY <1>5, SMT
  <2>2. Same(m, q * (b * c), q * g)
    <3>1. Same(m, q, q) /\ q \in Int /\ g \in Int
        BY <1>5, SameReflexive
    <3> QED BY <1>1, <1>4, <2>1, <3>1, SameOperations
  <2>3. Same(m, 0 - q * (b * c), 0 - q * g)
      BY <1>1, <2>1, <2>2, SameReflexive, SameOperations
  <2>4. 0 - q * g = s + (-1) * m
      BY <1>1, <1>5, <2>1
  <2>5. Same(m, s + (-1) * m, s)
    <3>1. s \in Int /\ -1 \in Int
        BY <1>1, <1>5
    <3> QED BY <1>1, <3>1, SameShift
  <2>6. 0 - q * (b * c) = b * (0 - q * c)
      BY <1>5, SMTT(30)
  <2>7. Same(m, b * (0 - q * c), s)
      BY <2>3, <2>4, <2>5, <2>6 DEF Same
  <2>8. 0 - q * c \in Int
      BY <1>5, SMT
  <2>9. s \in 1 .. m - 1
      BY <1>1, <1>5
  <2>10. s \in S
      BY <2>7, <2>8, <2>9 DEF S
  <2> QED BY <1>3, <1>5, <2>10
<1>7. g = 1
  <2>1. g \notin 2 .. m - 1
      BY <1>6 DEF IsPrime, s
  <2> QED BY <1>5, <2>1
<1>8. c % m \in 0 .. m - 1 /\ Same(m, c % m, c)
    BY <1>1, SameResidue
<1>9. Same(m, b * (c % m), b * c)
  <2>1. c % m \in Int /\ Same(m, b, b)
      BY <1>1, <1>8, SameReflexive
  <2> QED BY <1>1, <1>8, <2>1, SameOperations
<1>10. Same(m, b * (c % m), 1)
    BY <1>4, <1>7, <1>9 DEF Same
<1> QED BY <1>8, <1>10

----------------------------------------------------------------------------
(* Parts of sequences, place by place.                                     *)
LEMMA StringIs ==
    ASSUME NEW S, NEW n \in Nat, NEW s \in [1 .. n -> S]
    PROVE  s \in Seq(S) /\ Len(s) = n
BY SeqDef

IsSlice(t, s, m, n) == Len(t) = n /\ \A j \in 1 .. n : t[j] = s[m + j]
IsJoined(u, s, t) ==
    /\ Len(s) \in Nat /\ Len(t) \in Nat /\ Len(u) = Len(s) + Len(t)
    /\ \A j \in 1 .. Len(s) : u[j] = s[j]
    /\ \A j \in 1 .. Len(t) : u[Len(s) + j] = t[j]

LEMMA Slice ==
    ASSUME NEW S, NEW s \in Seq(S), NEW m \in Nat, NEW n \in Nat, m + n <= Len(s)
    PROVE  /\ SubSeq(s, m + 1, m + n) \in Seq(S)
           /\ IsSlice(SubSeq(s, m + 1, m + n), s, m, n)
<1> DEFINE a == m + 1
           b == m + n
           t == SubSeq(s, a, b)
<1>1. Len(s) \in Nat /\ a \in Int /\ b \in Int /\ b - a + 1 = n /\ (a <= b <=> n > 0)
    BY LenProperties
<1>2. \A j \in a .. b : j \in 1 .. Len(s)
    BY <1>1
<1>3. \A j \in a .. b : s[j] \in S
    BY <1>2, ElementOfSeq
<1>4. \A j \in 1 .. n : a + j - 1 = m + j
    OBVIOUS
<1> HIDE DEF a, b
<1>5. /\ t \in Seq(S)
      /\ Len(t) = IF a <= b THEN b - a + 1 ELSE 0
      /\ \A j \in 1 .. b - a + 1 : t[j] = s[a + j - 1]
    BY <1>1, <1>3, SubSeqProperties
<1> HIDE DEF t
<1>6. Len(t) = n
    BY <1>1, <1>5
<1>7. \A j \in 1 .. n : t[j] = s[m + j]
    BY <1>1, <1>4, <1>5
<1>8. IsSlice(t, s, m, n)
    BY <1>6, <1>7 DEF IsSlice
<1> QED BY <1>5, <1>8 DEF t, a, b

LEMMA Joined ==
    ASSUME NEW S, NEW s \in Seq(S), NEW t \in Seq(S)
    PROVE  s \o t \in Seq(S) /\ IsJoined(s \o t, s, t)
<1> DEFINE u == s \o t
<1>1. Len(s) \in Nat /\ Len(t) \in Nat
    BY LenProperties
<1>2. /\ u \in Seq(S) /\ Len(u) = Len(s) + Len(t)
      /\ \A j \in 1 .. Len(s) + Len(t) : u[j] = IF j <= Len(s) THEN s[j] ELSE t[j - Len(s)]
    BY ConcatProperties
<1> HIDE DEF u
<1>3. \A j \in 1 .. Len(s) : j \in 1 .. Len(s) + Len(t) /\ j <= Len(s)
    BY <1>1
<1>4. \A j \in 1 .. Len(t) : /\ Len(s) + j \in 1 .. Len(s) + Len(t) /\ ~(Len(s) + j <= Len(s))
                             /\ (Len(s) + j) - Len(s) = j
    BY <1>1
<1>5. IsJoined(u, s, t)
    BY <1>1, <1>2, <1>3, <1>4 DEF IsJoined
<1> QED BY <1>2, <1>5 DEF u
=============================================================================
