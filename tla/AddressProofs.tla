--------------------------- MODULE AddressProofs ---------------------------
(***************************************************************************)
(* Theorems about Address and Base58: for every base, every size of a      *)
(* byte, a limb, a key and a checksum, every function for the checksum,    *)
(* every text a host may send and whatever the stack holds.                *)
(***************************************************************************)
EXTENDS Address, NatLemmas

----------------------------------------------------------------------------
(* The number that digits write.                                           *)
LEMMA ValuesAre ==
    ASSUME NEW b \in Nat, NEW s \in Seq(Nat)
    PROVE  /\ Len(s) \in Nat
           /\ Values(s, b)[0] = 0
           /\ \A k \in 1 .. Len(s) : /\ k - 1 \in 0 .. Len(s) /\ k \in Nat /\ k - 1 \in Nat /\ s[k] \in Nat
                                     /\ Values(s, b)[k] = Values(s, b)[k - 1] * b + s[k]
           /\ \A k \in 0 .. Len(s) : Values(s, b)[k] \in Nat
           /\ Value(s, b) = Values(s, b)[Len(s)] /\ Value(s, b) \in Nat
<1> DEFINE v == Values(s, b)
           m == Len(s)
           Def(u, k) == u * b + s[k]
<1>1. m \in Nat /\ 0 \in Nat
    BY LenProperties
<1>2. v = [k \in 0 .. m |-> IF k = 0 THEN 0 ELSE Def(v[k - 1], k)]
  <2>1. FiniteNatInductiveDefHypothesis(v, 0, Def, 0, m)
      BY DEF FiniteNatInductiveDefHypothesis, Values
  <2> HIDE DEF v, m
  <2>2. FiniteNatInductiveDefConclusion(v, 0, Def, 0, m)
      BY <1>1, <2>1, FiniteNatInductiveDef
  <2> QED BY <2>2 DEF FiniteNatInductiveDefConclusion
<1>3. Value(s, b) = v[m]
    BY DEF Value
<1>4. \A k \in 1 .. m : s[k] \in Nat
    BY ElementOfSeq
<1> HIDE DEF v, m
<1>5. v[0] = 0 /\ \A k \in 1 .. m : v[k] = v[k - 1] * b + s[k]
    BY <1>1, <1>2
<1>6. \A k \in 0 .. m : v[k] \in Nat
  <2> DEFINE reached == {k \in 0 .. m : v[k] \in Nat}
  <2>1. 0 \in reached
      BY <1>1, <1>5
  <2>2. ASSUME NEW k \in 0 .. m - 1, k \in reached PROVE k + 1 \in reached
    <3>1. k + 1 \in 1 .. m /\ (k + 1) - 1 = k /\ k + 1 \in 0 .. m
        BY <1>1
    <3>2. v[k + 1] = v[k] * b + s[k + 1] /\ s[k + 1] \in Nat /\ v[k] \in Nat
        BY <1>4, <1>5, <2>2, <3>1
    <3>3. \A x, y \in Nat : x * b + y \in Nat
        BY SMT
    <3> QED BY <3>1, <3>2, <3>3
  <2> HIDE DEF reached
  <2>3. 0 .. m \subseteq reached
      BY <1>1, <2>1, <2>2, InductionTo
  <2> QED BY <2>3 DEF reached
<1>7. \A k \in 1 .. m : k - 1 \in 0 .. m /\ k \in Nat /\ k - 1 \in Nat
    BY <1>1
<1>8. m \in 0 .. m
    BY <1>1
<1> QED BY <1>1, <1>3, <1>4, <1>5, <1>6, <1>7, <1>8 DEF v, m

(* It depends on the digits alone, and on those of a prefix for a prefix.  *)
LEMMA SamePrefix ==
    ASSUME NEW b \in Nat, NEW s \in Seq(Nat), NEW t \in Seq(Nat), NEW m \in Nat,
           m <= Len(s), m <= Len(t), \A k \in 1 .. m : s[k] = t[k]
    PROVE  Values(s, b)[m] = Values(t, b)[m]
<1> DEFINE v == Values(s, b)
           w == Values(t, b)
           reached == {k \in 0 .. m : v[k] = w[k]}
<1>1. /\ Len(s) \in Nat /\ Len(t) \in Nat /\ v[0] = 0 /\ w[0] = 0
      /\ \A k \in 1 .. Len(s) : v[k] = v[k - 1] * b + s[k]
      /\ \A k \in 1 .. Len(t) : w[k] = w[k - 1] * b + t[k]
    BY ValuesAre
<1> HIDE DEF v, w
<1>2. 0 \in reached
    BY <1>1
<1>3. ASSUME NEW k \in 0 .. m - 1, k \in reached PROVE k + 1 \in reached
  <2>1. k + 1 \in 1 .. m /\ k + 1 \in 1 .. Len(s) /\ k + 1 \in 1 .. Len(t) /\ (k + 1) - 1 = k /\ k + 1 \in 0 .. m
      BY <1>1
  <2>2. v[k + 1] = v[k] * b + s[k + 1] /\ w[k + 1] = w[k] * b + t[k + 1] /\ s[k + 1] = t[k + 1]
      BY <1>1, <2>1
  <2> QED BY <1>3, <2>1, <2>2
<1> HIDE DEF reached
<1>4. 0 .. m \subseteq reached
    BY <1>2, <1>3, InductionTo
<1>5. m \in reached
    BY <1>4
<1> QED BY <1>5 DEF reached, v, w

LEMMA ValueOfAppend ==
    ASSUME NEW b \in Nat, NEW s \in Seq(Nat), NEW d \in Nat
    PROVE  Append(s, d) \in Seq(Nat) /\ Value(Append(s, d), b) = Value(s, b) * b + d
<1> DEFINE t == Append(s, d)
           n == Len(s)
<1>1. t \in Seq(Nat) /\ Len(t) = n + 1 /\ n \in Nat /\ t[n + 1] = d /\ \A k \in 1 .. n : t[k] = s[k]
    BY AppendProperties, LenProperties
<1> HIDE DEF t
<1>2. Value(t, b) = Values(t, b)[n + 1] /\ Value(s, b) = Values(s, b)[n]
  <2>1. Value(t, b) = Values(t, b)[Len(t)] /\ Value(s, b) = Values(s, b)[Len(s)]
      BY <1>1, ValuesAre
  <2> QED BY <1>1, <2>1
<1>3. n + 1 \in 1 .. Len(t) /\ (n + 1) - 1 = n /\ n <= Len(s) /\ n <= Len(t)
    BY <1>1
<1>4. Values(t, b)[n + 1] = Values(t, b)[n] * b + d
  <2>1. \A k \in 1 .. Len(t) : Values(t, b)[k] = Values(t, b)[k - 1] * b + t[k]
      BY <1>1, ValuesAre
  <2> QED BY <1>1, <1>3, <2>1
<1>5. Values(t, b)[n] = Values(s, b)[n]
    BY <1>1, <1>3, SamePrefix
<1> QED BY <1>1, <1>2, <1>4, <1>5 DEF t

LEMMA ValueOfPrepend ==
    ASSUME NEW b \in Nat \ {0}, NEW s \in Seq(Nat), NEW d \in Nat
    PROVE  /\ <<d>> \o s \in Seq(Nat)
           /\ Value(<<d>> \o s, b) = d * Power(b)[Len(s)] + Value(s, b)
<1> DEFINE t == <<d>> \o s
           n == Len(s)
           v == Values(s, b)
           w == Values(t, b)
           p == Power(b)
<1>1. t \in Seq(Nat) /\ Len(t) = n + 1 /\ n \in Nat /\ t[1] = d /\ \A k \in 1 .. n : t[k + 1] = s[k]
  <2>1. <<d>> \in Seq(Nat) /\ Len(<<d>>) = 1 /\ <<d>>[1] = d
      OBVIOUS
  <2>2. t \in Seq(Nat) /\ IsJoined(t, <<d>>, s)
      BY <2>1, Joined
  <2> HIDE DEF t
  <2>3. n \in Nat /\ Len(t) = 1 + n /\ \A k \in 1 .. n : t[1 + k] = s[k]
      BY <2>1, <2>2 DEF IsJoined
  <2>4. 1 \in 1 .. Len(<<d>>)
      BY <2>1
  <2>5. t[1] = d
      BY <2>1, <2>2, <2>4 DEF IsJoined
  <2>6. \A k \in 1 .. n : t[k + 1] = s[k]
    <3> TAKE k \in 1 .. n
    <3>1. k + 1 = 1 + k
        OBVIOUS
    <3> QED BY <2>3, <3>1
  <2> QED BY <2>2, <2>3, <2>5, <2>6
<1> HIDE DEF t
<1>2. /\ v[0] = 0 /\ w[0] = 0 /\ Value(s, b) = v[n] /\ Value(t, b) = w[n + 1]
      /\ \A k \in 1 .. n : v[k] = v[k - 1] * b + s[k] /\ s[k] \in Nat
      /\ \A k \in 0 .. n : v[k] \in Nat
      /\ \A k \in 1 .. n + 1 : w[k] = w[k - 1] * b + t[k]
  <2>1. b \in Nat
      OBVIOUS
  <2>2. /\ w[0] = 0 /\ Value(t, b) = w[Len(t)]
        /\ \A k \in 1 .. Len(t) : w[k] = w[k - 1] * b + t[k]
      BY <1>1, <2>1, ValuesAre
  <2>3. /\ v[0] = 0 /\ Value(s, b) = v[Len(s)]
        /\ \A k \in 1 .. Len(s) : v[k] = v[k - 1] * b + s[k] /\ s[k] \in Nat
        /\ \A k \in 0 .. Len(s) : v[k] \in Nat
      BY <2>1, ValuesAre
  <2> HIDE DEF v, w
  <2> QED BY <1>1, <2>2, <2>3
<1>3. p[0] = 1 /\ \A k \in Nat : p[k + 1] = b * p[k] /\ p[k] \in Nat
    BY PowerUnfolds, PowerPositive
<1> HIDE DEF n, v, w, p
<1> DEFINE reached == {k \in 0 .. n : w[k + 1] = d * p[k] + v[k]}
<1>4. 0 \in reached
  <2>1. w[1] = w[1 - 1] * b + t[1]
      BY <1>1, <1>2
  <2>2. 1 - 1 = 0 /\ 0 + 1 = 1 /\ 0 * b = 0 /\ 0 + d = d /\ d * 1 = d /\ d + 0 = d /\ 0 \in 0 .. n
      BY <1>1, SMT
  <2>3. w[0 + 1] = d
      BY <1>1, <1>2, <2>1, <2>2
  <2> QED BY <1>2, <1>3, <2>2, <2>3
<1>5. ASSUME NEW k \in 0 .. n - 1, k \in reached PROVE k + 1 \in reached
  <2>1. /\ k + 1 \in 1 .. n /\ k + 1 \in 0 .. n /\ (k + 1) - 1 = k /\ k \in Nat /\ k \in 0 .. n
        /\ (k + 1) + 1 \in 1 .. n + 1 /\ ((k + 1) + 1) - 1 = k + 1
      BY <1>1
  <2>2. w[(k + 1) + 1] = w[k + 1] * b + s[k + 1] /\ v[k + 1] = v[k] * b + s[k + 1]
      BY <1>1, <1>2, <2>1
  <2>3. w[k + 1] = d * p[k] + v[k]
      BY <1>5
  <2>4. p[k + 1] = b * p[k] /\ p[k] \in Nat /\ v[k] \in Nat /\ s[k + 1] \in Nat
      BY <1>2, <1>3, <2>1
  <2>5. \A x, y, z \in Nat : (d * x + y) * b + z = d * (b * x) + (y * b + z)
      BY SMTT(30)
  <2>6. (d * p[k] + v[k]) * b + s[k + 1] = d * (b * p[k]) + (v[k] * b + s[k + 1])
    <3> DEFINE Equal(x, y, z) == (d * x + y) * b + z = d * (b * x) + (y * b + z)
    <3>1. \A x, y, z \in Nat : Equal(x, y, z)
        BY <2>5, Zenon
    <3>2. Equal(p[k], v[k], s[k + 1])
      <4> HIDE DEF Equal
      <4> QED BY <2>4, <3>1
    <3> QED BY <3>2, Zenon
  <2>7. w[(k + 1) + 1] = d * p[k + 1] + v[k + 1]
      BY <2>2, <2>3, <2>4, <2>6, Zenon
  <2> QED BY <2>1, <2>7
<1> HIDE DEF reached
<1>6. 0 .. n \subseteq reached
    BY <1>1, <1>4, <1>5, InductionTo
<1>7. n \in reached
    BY <1>1, <1>6
<1>8. w[n + 1] = d * p[n] + v[n]
    BY <1>7 DEF reached
<1>9. Value(t, b) = d * p[n] + Value(s, b)
    BY <1>2, <1>8
<1> QED BY <1>1, <1>9 DEF t, n, p

(* Digits of a base.                                                       *)
Digits(b) == 0 .. b - 1

LEMMA DigitsAre ==
    ASSUME NEW b \in Nat \ {0}, NEW s \in Seq(Digits(b))
    PROVE  /\ s \in Seq(Nat) /\ s \in Seq(0 .. b) /\ Len(s) \in Nat
           /\ \A k \in 1 .. Len(s) : s[k] \in 0 .. b - 1 /\ s[k] \in Nat /\ s[k] < b
<1>1. 0 .. b - 1 \subseteq Nat /\ 0 .. b - 1 \subseteq 0 .. b
    OBVIOUS
<1>2. s \in Seq(Nat) /\ s \in Seq(0 .. b)
    BY <1>1, SeqMonotonic DEF Digits
<1>3. \A k \in 1 .. Len(s) : s[k] \in 0 .. b - 1
    BY ElementOfSeq DEF Digits
<1>4. \A k \in 1 .. Len(s) : s[k] \in Nat /\ s[k] < b
    BY <1>3
<1> QED BY <1>2, <1>3, <1>4, LenProperties

(* n digits write a number below the n-th power.                           *)
LEMMA ValueBelow ==
    ASSUME NEW b \in Nat \ {0}, NEW s \in Seq(Digits(b))
    PROVE  /\ \A k \in 0 .. Len(s) : Values(s, b)[k] \in Nat /\ Values(s, b)[k] < Power(b)[k]
           /\ Value(s, b) \in Nat /\ Value(s, b) < Power(b)[Len(s)]
<1> DEFINE v == Values(s, b)
           n == Len(s)
           p == Power(b)
           reached == {k \in 0 .. n : v[k] < p[k]}
<1>1. s \in Seq(Nat) /\ n \in Nat /\ \A k \in 1 .. n : s[k] \in Nat /\ s[k] < b
    BY DigitsAre
<1>2. /\ v[0] = 0 /\ Value(s, b) = v[n]
      /\ \A k \in 1 .. n : v[k] = v[k - 1] * b + s[k]
      /\ \A k \in 0 .. n : v[k] \in Nat
    BY <1>1, ValuesAre
<1>3. p[0] = 1 /\ \A k \in Nat : p[k + 1] = b * p[k] /\ p[k] \in Nat
    BY PowerUnfolds, PowerPositive
<1> HIDE DEF v, n, p
<1>4. 0 \in reached
  <2>1. 0 < 1 /\ 0 \in 0 .. n
      BY <1>1
  <2> QED BY <1>2, <1>3, <2>1
<1>5. ASSUME NEW k \in 0 .. n - 1, k \in reached PROVE k + 1 \in reached
  <2>1. k + 1 \in 1 .. n /\ k + 1 \in 0 .. n /\ (k + 1) - 1 = k /\ k \in Nat /\ k \in 0 .. n
      BY <1>1
  <2>2. v[k + 1] = v[k] * b + s[k + 1] /\ s[k + 1] \in Nat /\ s[k + 1] < b /\ v[k] \in Nat /\ v[k] < p[k]
      BY <1>1, <1>2, <1>5, <2>1
  <2>3. p[k + 1] = b * p[k] /\ p[k] \in Nat
      BY <1>3, <2>1
  <2>4. ASSUME NEW x \in Nat, NEW y \in Nat, NEW z \in Nat, x < y, z < b PROVE x * b + z < b * y
    <3>1. (x + 1) * b <= y * b
        BY <2>4, SMT
    <3>2. (x + 1) * b = x * b + b /\ y * b = b * y /\ x * b \in Nat /\ b * y \in Nat
        BY SMT
    <3> QED BY <2>4, <3>1, <3>2
  <2>5. v[k] * b + s[k + 1] < b * p[k]
      BY <2>2, <2>3, <2>4
  <2>6. v[k + 1] < p[k + 1]
      BY <2>2, <2>3, <2>5, Zenon
  <2> QED BY <2>1, <2>6
<1> HIDE DEF reached
<1>6. 0 .. n \subseteq reached
    BY <1>1, <1>4, <1>5, InductionTo
<1>7. \A k \in 0 .. n : v[k] < p[k]
    BY <1>6 DEF reached
<1>8. n \in 0 .. n
    BY <1>1
<1> QED BY <1>2, <1>7, <1>8 DEF v, n, p

(* The first digit says how large the number is.                           *)
LEMMA FirstDigit ==
    ASSUME NEW b \in Nat \ {0}, NEW s \in Seq(Digits(b)), Len(s) # 0
    PROVE  /\ s[1] * Power(b)[Len(s) - 1] <= Value(s, b)
           /\ Value(s, b) < (s[1] + 1) * Power(b)[Len(s) - 1]
<1> DEFINE n == Len(s) - 1
           t == SubSeq(s, 1 + 1, 1 + n)
<1>1. Len(s) \in Nat /\ n \in Nat /\ 1 + n = Len(s) /\ 1 \in 1 .. Len(s) /\ 1 \in Nat
    BY DigitsAre
<1> HIDE DEF n
<1>2. t \in Seq(Digits(b)) /\ Len(t) = n /\ \A k \in 1 .. n : t[k] = s[1 + k]
    BY <1>1, Slice DEF IsSlice
<1>3. s[1] \in Nat /\ s[1] \in Digits(b)
    BY <1>1, DigitsAre, ElementOfSeq
<1>4. s = <<s[1]>> \o t
  <2>1. <<s[1]>> \in Seq(Digits(b)) /\ Len(<<s[1]>>) = 1 /\ <<s[1]>>[1] = s[1] /\ 1 \in 1 .. 1
      BY <1>3
  <2> DEFINE u == <<s[1]>> \o t
  <2>2. u \in Seq(Digits(b)) /\ IsJoined(u, <<s[1]>>, t)
      BY <1>2, <2>1, Joined
  <2> HIDE DEF u, t
  <2>3. /\ Len(u) = 1 + n /\ u[1] = s[1]
        /\ \A k \in 1 .. n : u[1 + k] = t[k]
    <3>1. /\ Len(u) = Len(<<s[1]>>) + Len(t)
          /\ \A j \in 1 .. Len(<<s[1]>>) : u[j] = <<s[1]>>[j]
          /\ \A j \in 1 .. Len(t) : u[Len(<<s[1]>>) + j] = t[j]
        BY <2>2 DEF IsJoined
    <3>2. \A j \in 1 .. 1 : u[j] = <<s[1]>>[j]
        BY <2>1, <3>1
    <3> QED BY <1>2, <2>1, <3>1, <3>2
  <2>4. \A k \in 1 .. Len(s) : u[k] = s[k]
    <3> TAKE k \in 1 .. Len(s)
    <3>1. CASE k = 1
        BY <2>3, <3>1
    <3>2. CASE k # 1
      <4>1. k - 1 \in 1 .. n /\ 1 + (k - 1) = k
          BY <1>1, <3>2
      <4> QED BY <1>2, <2>3, <4>1
    <3> QED BY <3>1, <3>2
  <2>5. u = s
      BY <1>1, <2>2, <2>3, <2>4, SeqEqual
  <2> QED BY <2>5 DEF u
<1>5. t \in Seq(Nat) /\ Value(t, b) \in Nat /\ Value(t, b) < Power(b)[n]
    BY <1>2, DigitsAre, ValueBelow
<1>6. Value(s, b) = s[1] * Power(b)[n] + Value(t, b)
    BY <1>2, <1>3, <1>4, <1>5, ValueOfPrepend
<1>7. Power(b)[n] \in Nat
    BY <1>1, PowerPositive
<1>8. \A x, y, z \in Nat : z < y => x * y <= x * y + z /\ x * y + z < (x + 1) * y
    BY SMT
<1> QED BY <1>3, <1>5, <1>6, <1>7, <1>8 DEF n

(* Equal numbers of equally many digits have equal digits.                 *)
LEMMA SameDigits ==
    ASSUME NEW b \in Nat \ {0}, NEW s \in Seq(Digits(b)), NEW t \in Seq(Digits(b)),
           Len(s) = Len(t), Value(s, b) = Value(t, b)
    PROVE  s = t
<1> DEFINE v == Values(s, b)
           w == Values(t, b)
           n == Len(s)
           reached == {k \in 0 .. n : v[n - k] = w[n - k]}
<1>1. s \in Seq(Nat) /\ t \in Seq(Nat) /\ n \in Nat /\ \A k \in 1 .. n : s[k] \in 0 .. b - 1 /\ t[k] \in 0 .. b - 1
    BY DigitsAre
<1>2. /\ Value(s, b) = v[n] /\ Value(t, b) = w[n]
      /\ \A k \in 1 .. n : v[k] = v[k - 1] * b + s[k] /\ w[k] = w[k - 1] * b + t[k]
      /\ \A k \in 0 .. n : v[k] \in Nat /\ w[k] \in Nat
  <2>1. /\ Value(s, b) = v[n] /\ \A k \in 1 .. n : v[k] = v[k - 1] * b + s[k]
        /\ \A k \in 0 .. n : v[k] \in Nat
      BY <1>1, ValuesAre
  <2>2. /\ Value(t, b) = w[Len(t)] /\ \A k \in 1 .. Len(t) : w[k] = w[k - 1] * b + t[k]
        /\ \A k \in 0 .. Len(t) : w[k] \in Nat
      BY <1>1, ValuesAre
  <2> HIDE DEF v, w
  <2> QED BY <2>1, <2>2
<1> HIDE DEF v, w, n
<1>3. \A k \in 1 .. n : v[k] = w[k] => v[k - 1] = w[k - 1] /\ s[k] = t[k]
  <2> SUFFICES ASSUME NEW k \in 1 .. n, v[k] = w[k] PROVE v[k - 1] = w[k - 1] /\ s[k] = t[k]
      OBVIOUS
  <2>1. k - 1 \in 0 .. n
      BY <1>1
  <2>2. v[k - 1] \in Int /\ w[k - 1] \in Int /\ s[k] \in 0 .. b - 1 /\ t[k] \in 0 .. b - 1
      BY <1>1, <1>2, <2>1
  <2>3. v[k] \div b = v[k - 1] /\ v[k] % b = s[k]
      BY <1>2, <2>2, QuotientUnique
  <2>4. w[k] \div b = w[k - 1] /\ w[k] % b = t[k]
      BY <1>2, <2>2, QuotientUnique
  <2> QED BY <2>3, <2>4
<1>4. 0 \in reached
  <2>1. n - 0 = n /\ 0 \in 0 .. n
      BY <1>1
  <2> QED BY <1>2, <2>1
<1>5. ASSUME NEW k \in 0 .. n - 1, k \in reached PROVE k + 1 \in reached
  <2>1. n - k \in 1 .. n /\ (n - k) - 1 = n - (k + 1) /\ k + 1 \in 0 .. n
      BY <1>1
  <2> QED BY <1>3, <1>5, <2>1
<1> HIDE DEF reached
<1>6. 0 .. n \subseteq reached
    BY <1>1, <1>4, <1>5, InductionTo
<1>7. \A k \in 1 .. n : s[k] = t[k]
  <2> TAKE k \in 1 .. n
  <2>1. n - k \in 0 .. n /\ n - (n - k) = k
      BY <1>1
  <2>2. v[k] = w[k]
      BY <1>6, <2>1 DEF reached
  <2> QED BY <1>3, <2>2
<1> QED BY <1>7, SeqEqual DEF n

(* Zeros in front do not count.                                            *)
LEMMA ZerosAreNothing ==
    ASSUME NEW b \in Nat, NEW s \in Seq(Nat), NEW m \in Nat, m <= Len(s), \A k \in 1 .. m : s[k] = 0
    PROVE  Values(s, b)[m] = 0
<1> DEFINE v == Values(s, b)
           reached == {k \in 0 .. m : v[k] = 0}
<1>1. v[0] = 0 /\ Len(s) \in Nat /\ \A k \in 1 .. Len(s) : v[k] = v[k - 1] * b + s[k]
    BY ValuesAre
<1>2. 0 * b + 0 = 0
    BY SMT
<1> HIDE DEF v
<1>3. 0 \in reached
    BY <1>1
<1>4. ASSUME NEW k \in 0 .. m - 1, k \in reached PROVE k + 1 \in reached
  <2>1. k + 1 \in 1 .. Len(s) /\ k + 1 \in 1 .. m /\ (k + 1) - 1 = k /\ k + 1 \in 0 .. m
      BY <1>1
  <2>2. v[k + 1] = 0 * b + 0
      BY <1>1, <1>4, <2>1
  <2> QED BY <1>2, <2>1, <2>2
<1> HIDE DEF reached
<1>5. 0 .. m \subseteq reached
    BY <1>3, <1>4, InductionTo
<1>6. m \in reached
    BY <1>5
<1> QED BY <1>6 DEF reached, v

LEMMA WithoutZeros ==
    ASSUME NEW b \in Nat, NEW s \in Seq(Nat), NEW t \in Seq(Nat), NEW m \in Nat,
           Len(s) = m + Len(t), \A k \in 1 .. m : s[k] = 0, \A k \in 1 .. Len(t) : s[m + k] = t[k]
    PROVE  Value(s, b) = Value(t, b)
<1> DEFINE v == Values(s, b)
           w == Values(t, b)
           n == Len(t)
<1>1. n \in Nat /\ 0 * b = 0
    BY LenProperties, SMT
<1>2. /\ v[0] = 0 /\ w[0] = 0 /\ Value(s, b) = v[m + n] /\ Value(t, b) = w[n]
      /\ \A k \in 1 .. m + n : v[k] = v[k - 1] * b + s[k]
      /\ \A k \in 1 .. n : w[k] = w[k - 1] * b + t[k]
  <2>1. /\ v[0] = 0 /\ Value(s, b) = v[Len(s)] /\ \A k \in 1 .. Len(s) : v[k] = v[k - 1] * b + s[k]
      BY ValuesAre
  <2>2. /\ w[0] = 0 /\ Value(t, b) = w[n] /\ \A k \in 1 .. n : w[k] = w[k - 1] * b + t[k]
      BY ValuesAre
  <2> HIDE DEF v, w
  <2> QED BY <2>1, <2>2
<1> HIDE DEF v, w, n
<1>3. v[m] = 0
    BY <1>1, ZerosAreNothing DEF v, n
<1> DEFINE reached == {k \in 0 .. n : v[m + k] = w[k]}
<1>4. 0 \in reached
  <2>1. m + 0 = m /\ 0 \in 0 .. n
      BY <1>1
  <2> QED BY <1>2, <1>3, <2>1
<1>5. ASSUME NEW k \in 0 .. n - 1, k \in reached PROVE k + 1 \in reached
  <2>1. /\ k + 1 \in 1 .. n /\ (k + 1) - 1 = k /\ k + 1 \in 0 .. n
        /\ m + (k + 1) \in 1 .. m + n /\ (m + (k + 1)) - 1 = m + k
      BY <1>1
  <2>2. v[m + (k + 1)] = v[m + k] * b + s[m + (k + 1)] /\ w[k + 1] = w[k] * b + t[k + 1]
      BY <1>2, <2>1
  <2>3. s[m + (k + 1)] = t[k + 1]
      BY <2>1 DEF n
  <2> QED BY <1>5, <2>1, <2>2, <2>3
<1> HIDE DEF reached
<1>6. 0 .. n \subseteq reached
    BY <1>1, <1>4, <1>5, InductionTo
<1>7. n \in reached
    BY <1>1, <1>6
<1> QED BY <1>2, <1>7 DEF reached

----------------------------------------------------------------------------
(* b58_encode: long division.                                              *)
LEMMA LeadingZerosIs ==
    ASSUME NEW s \in Seq(Nat)
    PROVE  /\ LeadingZeros(s) \in 0 .. Len(s) /\ LeadingZeros(s) \in Nat
           /\ \A k \in 1 .. LeadingZeros(s) : s[k] = 0
           /\ LeadingZeros(s) < Len(s) => s[LeadingZeros(s) + 1] # 0
<1> DEFINE others == {i \in 1 .. Len(s) : s[i] # 0}
           z == LeadingZeros(s)
<1>1. Len(s) \in Nat /\ DOMAIN s = 1 .. Len(s)
    BY LenProperties
<1>2. z = IF others = {} THEN Len(s) ELSE Min(others) - 1
    BY <1>1 DEF LeadingZeros
<1> HIDE DEF z
<1>3. CASE others = {}
  <2>1. z = Len(s)
      BY <1>2, <1>3
  <2>2. \A k \in 1 .. Len(s) : s[k] = 0
      BY <1>3
  <2> QED BY <1>1, <2>1, <2>2 DEF z
<1>4. CASE others # {}
  <2>1. others \subseteq Nat
      BY <1>1
  <2>2. \E x \in others : \A y \in others : x <= y
      BY <1>4, <2>1, LeastOfSet
  <2>3. Min(others) \in others /\ \A y \in others : Min(others) <= y
      BY <2>2 DEF Min
  <2> DEFINE x == Min(others)
  <2>4. z = x - 1
      BY <1>2, <1>4
  <2> HIDE DEF x
  <2>5. x \in 1 .. Len(s) /\ s[x] # 0 /\ \A y \in 1 .. Len(s) : s[y] # 0 => x <= y
      BY <2>3 DEF x
  <2>6. z \in 0 .. Len(s) /\ z \in Nat /\ z + 1 = x
      BY <1>1, <2>4, <2>5
  <2>7. \A k \in 1 .. z : s[k] = 0
    <3> TAKE k \in 1 .. z
    <3>1. k \in 1 .. Len(s) /\ ~(x <= k)
        BY <1>1, <2>5, <2>6
    <3> QED BY <2>5, <3>1
  <2> QED BY <2>5, <2>6, <2>7 DEF z
<1> QED BY <1>3, <1>4

LEMMA LeadingZerosAre ==
    ASSUME NEW s \in Seq(Nat), NEW m \in 0 .. Len(s), \A k \in 1 .. m : s[k] = 0,
           m < Len(s) => s[m + 1] # 0
    PROVE  LeadingZeros(s) = m
<1> DEFINE z == LeadingZeros(s)
<1>1. Len(s) \in Nat /\ m \in Nat
    BY LenProperties
<1>2. z \in 0 .. Len(s) /\ (\A k \in 1 .. z : s[k] = 0) /\ (z < Len(s) => s[z + 1] # 0)
    BY LeadingZerosIs
<1> HIDE DEF z
<1>3. ~(z < m)
  <2> SUFFICES ASSUME z < m PROVE FALSE
      OBVIOUS
  <2>1. z + 1 \in 1 .. m /\ z < Len(s)
      BY <1>1, <1>2
  <2> QED BY <1>2, <2>1
<1>4. ~(m < z)
  <2> SUFFICES ASSUME m < z PROVE FALSE
      OBVIOUS
  <2>1. m + 1 \in 1 .. z /\ m < Len(s)
      BY <1>1, <1>2
  <2> QED BY <1>2, <2>1
<1> QED BY <1>1, <1>2, <1>3, <1>4 DEF z

(* What a long division by BASE has done when it has reached byte i.       *)
Halfway(tmp, startAt, i, acc) ==
    /\ acc.tmp \in Seq(Digits(BYTE)) /\ Len(acc.tmp) = i
    /\ \A k \in 1 .. startAt - 1 : acc.tmp[k] = 0
    /\ acc.remainder \in Digits(BASE) /\ (i = startAt - 1 => acc.remainder = 0)
    /\ Values(tmp, BYTE)[i] = Value(acc.tmp, BYTE) * BASE + acc.remainder
    /\ i >= startAt => acc.tmp[startAt] = tmp[startAt] \div BASE

LEMMA Bases ==
    /\ BASE \in Nat \ {0} /\ BASE \in Nat \ {0, 1} /\ BASE \in Nat /\ BASE \in Int
    /\ BYTE \in Nat \ {0} /\ BYTE \in Nat \ {0, 1} /\ BYTE \in Nat /\ BYTE \in Int
    /\ BASE * BASE >= BYTE /\ LimbBytes \in Nat \ {0}
BY BaseAssumption

LEMMA DivisionStep ==
    ASSUME NEW r \in Digits(BASE), NEW d \in Digits(BYTE)
    PROVE  LET t == r * BYTE + d
           IN  /\ t \in Nat
               /\ t \div BASE \in Digits(BYTE) /\ t % BASE \in Digits(BASE)
               /\ t = (t \div BASE) * BASE + (t % BASE)
<1> DEFINE t == r * BYTE + d
           q == t \div BASE
           s == t % BASE
<1>1. r \in 0 .. BASE - 1 /\ d \in 0 .. BYTE - 1 /\ r \in Nat /\ d \in Nat
    BY Bases DEF Digits
<1>2. t \in Nat /\ t < BASE * BYTE
  <2>1. r * BYTE <= (BASE - 1) * BYTE /\ (BASE - 1) * BYTE = BASE * BYTE - BYTE /\ r * BYTE \in Nat
      BY <1>1, Bases, SMT
  <2>2. BASE * BYTE \in Nat
      BY Bases, SMT
  <2> QED BY <1>1, <2>1, <2>2, Bases
<1> HIDE DEF t
<1>3. q \in Int /\ s \in 0 .. BASE - 1 /\ t = q * BASE + s /\ q \in Nat
  <2>1. t \in Int /\ t \in Nat
      BY <1>2
  <2>2. q \in Int /\ s \in 0 .. BASE - 1 /\ t = q * BASE + s
      BY <2>1, Bases, Division, Zenon
  <2>3. q \in Nat
      BY <2>1, Bases, QuotientBounds, Zenon
  <2> QED BY <2>2, <2>3
<1> HIDE DEF q, s
<1>4. q < BYTE
  <2> SUFFICES ASSUME q >= BYTE PROVE FALSE
      BY <1>3, Bases
  <2>1. q * BASE >= BYTE * BASE /\ BYTE * BASE = BASE * BYTE /\ q * BASE \in Nat
      BY <1>3, Bases, SMT
  <2> QED BY <1>2, <1>3, <2>1, Bases
<1>5. q \in 0 .. BYTE - 1
    BY <1>3, <1>4, Bases
<1> QED BY <1>2, <1>3, <1>5 DEF t, q, s, Digits

LEMMA DividesIs ==
    ASSUME NEW tmp \in Seq(Digits(BYTE)), NEW startAt \in 1 .. Len(tmp)
    PROVE  /\ Divides(tmp, startAt)[startAt - 1] = [tmp |-> SubSeq(tmp, 1, startAt - 1), remainder |-> 0]
           /\ \A i \in startAt .. Len(tmp) :
                 Divides(tmp, startAt)[i] =
                     LET before == Divides(tmp, startAt)[i - 1]
                         tmpDiv == before.remainder * BYTE + tmp[i]
                     IN  [tmp |-> Append(before.tmp, tmpDiv \div BASE), remainder |-> tmpDiv % BASE]
<1> DEFINE d == Divides(tmp, startAt)
           c == [tmp |-> SubSeq(tmp, 1, startAt - 1), remainder |-> 0]
           Def(before, i) == [tmp |-> Append(before.tmp, (before.remainder * BYTE + tmp[i]) \div BASE),
                              remainder |-> (before.remainder * BYTE + tmp[i]) % BASE]
           m == startAt - 1
           n == Len(tmp)
<1>1. n \in Nat /\ m \in Nat /\ startAt = m + 1
    BY LenProperties
<1>2. FiniteNatInductiveDefHypothesis(d, c, Def, m, n)
    BY DEF FiniteNatInductiveDefHypothesis, Divides
<1> HIDE DEF d, c, m, n
<1>3. FiniteNatInductiveDefConclusion(d, c, Def, m, n)
    BY <1>1, <1>2, FiniteNatInductiveDef
<1>4. d = [i \in m .. n |-> IF i = m THEN c ELSE Def(d[i - 1], i)]
    BY <1>3 DEF FiniteNatInductiveDefConclusion
<1>5. m \in m .. n /\ \A i \in startAt .. n : i \in m .. n /\ i # m
    BY <1>1 DEF n
<1>6. d[m] = c /\ \A i \in startAt .. n : d[i] = Def(d[i - 1], i)
    BY <1>4, <1>5
<1> QED BY <1>6 DEF d, c, m, n

LEMMA DivisionPass ==
    ASSUME NEW tmp \in Seq(Digits(BYTE)), NEW startAt \in 1 .. Len(tmp),
           \A k \in 1 .. startAt - 1 : tmp[k] = 0
    PROVE  Halfway(tmp, startAt, Len(tmp), Divides(tmp, startAt)[Len(tmp)])
<1> DEFINE d == Divides(tmp, startAt)
           v == Values(tmp, BYTE)
           n == Len(tmp)
           m == startAt - 1
           reached == {k \in 0 .. n - m : Halfway(tmp, startAt, m + k, d[m + k])}
<1>1. /\ tmp \in Seq(Nat) /\ n \in Nat /\ m \in Nat /\ startAt = m + 1 /\ m < n
      /\ \A k \in 1 .. n : tmp[k] \in Digits(BYTE) /\ tmp[k] \in Nat
      /\ \A k \in 1 .. n : v[k] = v[k - 1] * BYTE + tmp[k]
  <2>1. tmp \in Seq(Nat) /\ n \in Nat /\ \A k \in 1 .. n : tmp[k] \in Digits(BYTE) /\ tmp[k] \in Nat
      BY Bases, DigitsAre, ElementOfSeq
  <2>2. \A k \in 1 .. n : v[k] = v[k - 1] * BYTE + tmp[k]
      BY <2>1, Bases, ValuesAre
  <2> HIDE DEF v
  <2> QED BY <2>1, <2>2
<1> HIDE DEF d, n, v, m
<1>2. 0 \in reached
  <2> DEFINE u == SubSeq(tmp, 1, m)
  <2>1. d[m] = [tmp |-> u, remainder |-> 0]
      BY DividesIs DEF d, m
  <2>2. u \in Seq(Digits(BYTE)) /\ Len(u) = m /\ \A k \in 1 .. m : u[k] = tmp[k]
    <3>1. 0 \in Nat /\ 0 + 1 = 1 /\ 0 + m = m /\ 0 + m <= Len(tmp)
        BY <1>1 DEF n
    <3>2. u \in Seq(Digits(BYTE)) /\ Len(u) = m /\ \A k \in 1 .. m : u[k] = tmp[0 + k]
        BY <1>1, <3>1, Slice DEF IsSlice
    <3>3. \A k \in 1 .. m : 0 + k = k
        OBVIOUS
    <3> QED BY <3>2, <3>3
  <2> HIDE DEF u
  <2>3. u \in Seq(Nat) /\ m <= Len(u) /\ m <= Len(tmp) /\ \A k \in 1 .. m : u[k] = 0 /\ tmp[k] = 0
    <3>1. \A k \in 1 .. m : tmp[k] = 0
        BY DEF m
    <3>2. u \in Seq(Nat)
        BY <2>2, Bases, DigitsAre
    <3>3. m <= Len(u) /\ m <= Len(tmp)
        BY <1>1, <2>2 DEF n
    <3> QED BY <2>2, <3>1, <3>2, <3>3
  <2>4. Values(u, BYTE)[m] = 0 /\ v[m] = 0
      BY <1>1, <2>3, Bases, ZerosAreNothing DEF v
  <2>5. Value(u, BYTE) = 0
      BY <2>2, <2>3, <2>4, Bases, ValuesAre
  <2>6. 0 \in Digits(BASE) /\ 0 = 0 * BASE + 0
      BY Bases, SMT DEF Digits
  <2>7. d[m].tmp = u /\ d[m].remainder = 0
      BY <2>1
  <2>8. ~(m >= startAt) /\ m + 0 = m /\ 0 \in 0 .. n - m
      BY <1>1
  <2>9. Halfway(tmp, startAt, m, d[m])
      BY <2>2, <2>3, <2>4, <2>5, <2>6, <2>7, <2>8 DEF Halfway, v, m
  <2> QED BY <2>8, <2>9
<1>3. ASSUME NEW k \in 0 .. (n - m) - 1, k \in reached PROVE k + 1 \in reached
  <2> DEFINE j == m + k
             i == m + (k + 1)
             before == d[j]
             t == before.remainder * BYTE + tmp[i]
             q == t \div BASE
             s == t % BASE
  <2>1. /\ j \in Nat /\ i \in Nat /\ i \in startAt .. n /\ i \in 1 .. n /\ i - 1 = j /\ i = j + 1 /\ k + 1 \in 0 .. n - m
        /\ j >= m /\ i >= startAt /\ i # m
      BY <1>1
  <2>2. Halfway(tmp, startAt, j, before)
      BY <1>3
  <2>3. d[i] = [tmp |-> Append(before.tmp, q), remainder |-> s]
      BY <2>1, DividesIs DEF d, n
  <2> HIDE DEF i, j, before
  <2>4. /\ before.remainder \in Digits(BASE) /\ tmp[i] \in Digits(BYTE) /\ tmp[i] \in Nat
        /\ before.remainder \in Nat
      BY <1>1, <2>1, <2>2, Bases DEF Halfway, Digits
  <2>5. t \in Nat /\ q \in Digits(BYTE) /\ s \in Digits(BASE) /\ t = q * BASE + s
      BY <2>4, DivisionStep
  <2>6. d[i].tmp = Append(before.tmp, q) /\ d[i].remainder = s
      BY <2>3
  <2>7. /\ before.tmp \in Seq(Digits(BYTE)) /\ before.tmp \in Seq(Nat) /\ Len(before.tmp) = j
      BY <2>2, Bases, DigitsAre DEF Halfway
  <2> DEFINE u == Append(before.tmp, q)
  <2>8. q \in Nat /\ s \in Nat
      BY <2>5, Bases DEF Digits
  <2>9. v[i] = v[j] * BYTE + tmp[i] /\ v[j] = Value(before.tmp, BYTE) * BASE + before.remainder
      BY <1>1, <2>1, <2>2 DEF Halfway, v
  <2>10. startAt = i => q = tmp[startAt] \div BASE
    <3> SUFFICES ASSUME startAt = i PROVE q = tmp[startAt] \div BASE
        OBVIOUS
    <3>1. j = m
        BY <1>1, <2>1
    <3>2. before.remainder = 0
        BY <2>2, <3>1 DEF Halfway, m
    <3>3. 0 * BYTE + tmp[i] = tmp[i]
        BY <2>4, Bases, SMT
    <3> QED BY <3>2, <3>3
  <2> HIDE DEF t, q, s
  <2>11. u \in Seq(Digits(BYTE)) /\ Len(u) = i /\ u[i] = q /\ \A l \in 1 .. j : u[l] = before.tmp[l]
      BY <2>1, <2>5, <2>7, AppendProperties
  <2>12. Value(u, BYTE) = Value(before.tmp, BYTE) * BYTE + q /\ Value(before.tmp, BYTE) \in Nat
    <3> DEFINE w == before.tmp
    <3>1. w \in Seq(Nat)
        BY <2>7
    <3> HIDE DEF w
    <3>2. Value(Append(w, q), BYTE) = Value(w, BYTE) * BYTE + q
        BY <2>8, <3>1, Bases, ValueOfAppend
    <3>3. Value(w, BYTE) \in Nat
        BY <3>1, Bases, ValuesAre
    <3> QED BY <3>2, <3>3 DEF u, w
  <2> HIDE DEF u
  <2>13. v[i] = Value(u, BYTE) * BASE + s
    <3>1. \A w, r, d1, q1, s1 \in Nat : r * BYTE + d1 = q1 * BASE + s1
                => (w * BASE + r) * BYTE + d1 = (w * BYTE + q1) * BASE + s1
      <4> TAKE w, r, d1, q1, s1 \in Nat
      <4> HAVE r * BYTE + d1 = q1 * BASE + s1
      <4> DEFINE a == w * BASE * BYTE
                 e == r * BYTE
                 f == q1 * BASE
                 x == (w * BASE + r) * BYTE
                 y == (w * BYTE + q1) * BASE
      <4>1. x = a + e /\ a \in Nat /\ e \in Nat
          BY Bases, SMT
      <4>2. y = a + f /\ f \in Nat
          BY Bases, SMT
      <4>3. e + d1 = f + s1
          OBVIOUS
      <4> HIDE DEF a, e, f, x, y
      <4>4. x + d1 = y + s1
          BY <4>1, <4>2, <4>3
      <4> QED BY <4>4 DEF x, y
    <3>2. before.remainder * BYTE + tmp[i] = q * BASE + s
        BY <2>5 DEF t
    <3>3. (Value(before.tmp, BYTE) * BASE + before.remainder) * BYTE + tmp[i]
              = (Value(before.tmp, BYTE) * BYTE + q) * BASE + s
      <4> DEFINE w == Value(before.tmp, BYTE)
                 r == before.remainder
                 d1 == tmp[i]
      <4>1. w \in Nat /\ r \in Nat /\ d1 \in Nat /\ q \in Nat /\ s \in Nat /\ r * BYTE + d1 = q * BASE + s
          BY <2>4, <2>8, <2>12, <3>2
      <4> HIDE DEF w, r, d1
      <4>2. (w * BASE + r) * BYTE + d1 = (w * BYTE + q) * BASE + s
        <5> DEFINE Equal(w0, r0, d0, q0, s0) ==
                       r0 * BYTE + d0 = q0 * BASE + s0
                           => (w0 * BASE + r0) * BYTE + d0 = (w0 * BYTE + q0) * BASE + s0
        <5>1. \A w0, r0, d0, q0, s0 \in Nat : Equal(w0, r0, d0, q0, s0)
            BY <3>1, Zenon
        <5>2. Equal(w, r, d1, q, s)
          <6> HIDE DEF Equal
          <6> QED BY <4>1, <5>1
        <5> QED BY <4>1, <5>2, Zenon
      <4> QED BY <4>2 DEF w, r, d1
    <3> QED BY <2>9, <2>12, <3>3
  <2>14. \A l \in 1 .. startAt - 1 : u[l] = 0
    <3> TAKE l \in 1 .. startAt - 1
    <3>1. l \in 1 .. j
        BY <1>1, <2>1
    <3> QED BY <2>2, <2>11, <3>1 DEF Halfway
  <2>15. u[startAt] = tmp[startAt] \div BASE
    <3>1. CASE startAt = i
        BY <2>10, <2>11, <3>1
    <3>2. CASE startAt # i
      <4>1. j >= startAt /\ startAt \in 1 .. j
          BY <1>1, <2>1, <3>2
      <4> QED BY <2>2, <2>11, <4>1 DEF Halfway
    <3> QED BY <3>1, <3>2
  <2>16. d[i].tmp = u /\ d[i].remainder = s
      BY <2>6 DEF u
  <2>17. Halfway(tmp, startAt, i, d[i])
      BY <2>1, <2>5, <2>11, <2>13, <2>14, <2>15, <2>16 DEF Halfway, v, m
  <2> QED BY <2>1, <2>17 DEF i
<1> HIDE DEF reached
<1>4. n - m \in Nat /\ m + (n - m) = n /\ n - m \in 0 .. n - m
    BY <1>1
<1>5. 0 .. n - m \subseteq reached
    BY <1>2, <1>3, <1>4, InductionTo
<1>6. n - m \in reached
    BY <1>4, <1>5
<1> QED BY <1>4, <1>6 DEF reached, d, n

(* The state of the loop after n divisions.  There are two for each byte   *)
(* that has been used up, and one more while the next one is less than     *)
(* BASE: then another division uses it up.                                 *)
Spent(in, st) == 2 * (st.startAt - (LeadingZeros(in) + 1))
LoopInv(in, n, st) ==
    /\ st.tmp \in Seq(Digits(BYTE)) /\ Len(st.tmp) = Len(in)
    /\ st.startAt \in LeadingZeros(in) + 1 .. Len(in) + 1
    /\ \A k \in 1 .. st.startAt - 1 : st.tmp[k] = 0
    /\ st.buffer \in Seq(Digits(BASE))
    /\ Value(in, BYTE) = Value(st.tmp, BYTE) * Power(BASE)[Len(st.buffer)] + Value(st.buffer, BASE)
    /\ st.startAt <= Len(in) => Len(st.buffer) = n
    /\ \/ Len(st.buffer) <= Spent(in, st)
       \/ Len(st.buffer) = Spent(in, st) + 1 /\ st.startAt <= Len(in) /\ st.tmp[st.startAt] < BASE

LEMMA LoopStarts ==
    ASSUME NEW in \in Seq(Digits(BYTE))
    PROVE  LoopInv(in, 0, [tmp |-> in, startAt |-> LeadingZeros(in) + 1, buffer |-> <<>>])
<1> DEFINE z == LeadingZeros(in)
           st == [tmp |-> in, startAt |-> z + 1, buffer |-> <<>>]
<1>1. /\ in \in Seq(Nat) /\ Len(in) \in Nat
      /\ z \in 0 .. Len(in) /\ z \in Nat /\ \A k \in 1 .. z : in[k] = 0
    BY Bases, DigitsAre, LeadingZerosIs
<1> DEFINE empty == <<>>
<1>2. empty \in Seq(Digits(BASE)) /\ empty \in Seq(Nat) /\ Len(empty) = 0
    BY EmptySeq
<1> HIDE DEF z, empty
<1>3. Value(empty, BASE) = 0
  <2>1. Value(empty, BASE) = Values(empty, BASE)[Len(empty)] /\ Values(empty, BASE)[0] = 0
      BY <1>2, Bases, ValuesAre
  <2> QED BY <1>2, <2>1
<1>4. Power(BASE)[0] = 1 /\ Value(in, BYTE) \in Nat
    BY <1>1, Bases, PowerUnfolds, ValuesAre
<1>5. Value(in, BYTE) = Value(in, BYTE) * Power(BASE)[Len(empty)] + Value(empty, BASE)
  <2>1. \A x \in Nat : x = x * 1 + 0
      OBVIOUS
  <2> QED BY <1>2, <1>3, <1>4, <2>1
<1>6. st.tmp = in /\ st.startAt = z + 1 /\ st.buffer = empty
    BY DEF empty
<1> HIDE DEF st
<1>7. z + 1 \in z + 1 .. Len(in) + 1 /\ (z + 1) - 1 = z /\ 2 * ((z + 1) - (z + 1)) = 0 /\ 0 <= 0
    BY <1>1
<1>8. LoopInv(in, 0, st)
    BY <1>1, <1>2, <1>5, <1>6, <1>7 DEF LoopInv, Spent, z
<1> QED BY <1>8 DEF st, z, empty

LEMMA LoopStep ==
    ASSUME NEW in \in Seq(Digits(BYTE)), NEW n \in Nat, NEW st, LoopInv(in, n, st)
    PROVE  LoopInv(in, n + 1, Divide(st))
<1> DEFINE m == Len(in)
           z == LeadingZeros(in)
           at == st.startAt
           buffer == st.buffer
           b == Len(buffer)
           next == Divide(st)
<1>1. /\ m \in Nat /\ z \in Nat /\ z \in 0 .. m /\ b \in Nat
      /\ at \in z + 1 .. m + 1 /\ at \in Nat /\ at \in Int
  <2>1. in \in Seq(Nat) /\ m \in Nat
      BY Bases, DigitsAre
  <2>2. z \in Nat /\ z \in 0 .. m
      BY <2>1, LeadingZerosIs
  <2>3. at \in z + 1 .. m + 1 /\ b \in Nat
      BY LenProperties DEF LoopInv
  <2> HIDE DEF z, m, at, b
  <2> QED BY <2>1, <2>2, <2>3
<1>2. CASE at > m
  <2>1. next = st
      BY <1>2 DEF Divide, LoopInv
  <2> HIDE DEF next
  <2>2. ~(at <= m)
      BY <1>1, <1>2
  <2>3. LoopInv(in, n + 1, st)
      BY <2>2 DEF LoopInv
  <2> QED BY <2>1, <2>3 DEF next
<1>3. CASE ~(at > m)
  <2>1. at <= m /\ at \in 1 .. m /\ at \in 1 .. Len(st.tmp) /\ ~(at > Len(st.tmp))
      BY <1>1, <1>3 DEF LoopInv
  <2>2. /\ st.tmp \in Seq(Digits(BYTE)) /\ Len(st.tmp) = m /\ \A k \in 1 .. at - 1 : st.tmp[k] = 0
        /\ buffer \in Seq(Digits(BASE)) /\ b = n
      BY <2>1 DEF LoopInv
  <2> DEFINE pass == Divides(st.tmp, at)[Len(st.tmp)]
             tmp == pass.tmp
             d == pass.remainder
             buffer2 == <<d>> \o buffer
             at2 == IF tmp[at] = 0 THEN at + 1 ELSE at
  <2>3. Halfway(st.tmp, at, Len(st.tmp), pass)
      BY <2>1, <2>2, DivisionPass
  <2>4. next = [tmp |-> tmp, startAt |-> at2, buffer |-> buffer2]
      BY <2>1 DEF Divide
  <2>5. next.tmp = tmp /\ next.startAt = at2 /\ next.buffer = buffer2
      BY <2>4
  <2> HIDE DEF pass, next
  <2>6. /\ tmp \in Seq(Digits(BYTE)) /\ Len(tmp) = m /\ \A k \in 1 .. at - 1 : tmp[k] = 0
        /\ d \in Digits(BASE) /\ d \in Nat /\ tmp[at] = st.tmp[at] \div BASE
        /\ Values(st.tmp, BYTE)[m] = Value(tmp, BYTE) * BASE + d
    <3>1. d \in Digits(BASE) => d \in Nat
        BY Bases DEF Digits
    <3> QED BY <2>1, <2>2, <2>3, <3>1 DEF Halfway
  <2>7. Value(st.tmp, BYTE) = Value(tmp, BYTE) * BASE + d /\ Value(tmp, BYTE) \in Nat
    <3>1. st.tmp \in Seq(Nat) /\ tmp \in Seq(Nat)
        BY <2>2, <2>6, Bases, DigitsAre
    <3>2. Value(st.tmp, BYTE) = Values(st.tmp, BYTE)[Len(st.tmp)] /\ Value(tmp, BYTE) \in Nat
        BY <3>1, Bases, ValuesAre
    <3> QED BY <2>2, <2>6, <3>2
  <2> HIDE DEF tmp, d
  <2>8. /\ buffer2 \in Seq(Digits(BASE)) /\ Len(buffer2) = b + 1
        /\ Value(buffer2, BASE) = d * Power(BASE)[b] + Value(buffer, BASE) /\ Value(buffer, BASE) \in Nat
    <3>1. <<d>> \in Seq(Digits(BASE)) /\ Len(<<d>>) = 1
        BY <2>6
    <3>2. buffer2 \in Seq(Digits(BASE)) /\ Len(buffer2) = Len(<<d>>) + b
        BY <2>2, <3>1, ConcatProperties
    <3>3. buffer \in Seq(Nat)
        BY <2>2, Bases, DigitsAre
    <3>4. Value(buffer2, BASE) = d * Power(BASE)[b] + Value(buffer, BASE) /\ Value(buffer, BASE) \in Nat
        BY <2>6, <3>3, Bases, ValueOfPrepend, ValuesAre
    <3>5. 1 + b = b + 1
        BY <1>1
    <3> HIDE DEF buffer2, b
    <3> QED BY <3>1, <3>2, <3>4, <3>5
  <2> HIDE DEF buffer2, b, buffer
  <2>9. Value(in, BYTE) = Value(tmp, BYTE) * Power(BASE)[b + 1] + Value(buffer2, BASE)
    <3>1. Value(in, BYTE) = Value(st.tmp, BYTE) * Power(BASE)[b] + Value(buffer, BASE)
        BY DEF LoopInv, b, buffer
    <3>2. Power(BASE)[b + 1] = BASE * Power(BASE)[b] /\ Power(BASE)[b] \in Nat
        BY <1>1, Bases, PowerUnfolds, PowerPositive
    <3>3. \A x, p, r, y \in Nat : (x * BASE + r) * p + y = x * (BASE * p) + (r * p + y)
        BY Bases, SMTT(30)
    <3> DEFINE x == Value(tmp, BYTE)
               p == Power(BASE)[b]
               y == Value(buffer, BASE)
    <3>4. x \in Nat /\ p \in Nat /\ y \in Nat /\ d \in Nat
        BY <2>6, <2>7, <2>8, <3>2
    <3>5. Value(in, BYTE) = (x * BASE + d) * p + y
        BY <2>7, <3>1
    <3>6. Power(BASE)[b + 1] = BASE * p /\ Value(buffer2, BASE) = d * p + y
        BY <2>8, <3>2
    <3>7. (x * BASE + d) * p + y = x * (BASE * p) + (d * p + y)
      <4> HIDE DEF x, p, y
      <4> QED BY <3>3, <3>4
    <3> QED BY <3>5, <3>6, <3>7, Zenon
  <2>10. /\ at2 \in z + 1 .. m + 1 /\ \A k \in 1 .. at2 - 1 : tmp[k] = 0
    <3>1. CASE tmp[at] = 0
      <4>1. at2 = at + 1 /\ at2 - 1 = at /\ at2 \in z + 1 .. m + 1
          BY <1>1, <2>1, <3>1
      <4>2. \A k \in 1 .. at : k = at \/ k \in 1 .. at - 1
          BY <1>1
      <4> QED BY <2>6, <3>1, <4>1, <4>2
    <3>2. CASE tmp[at] # 0
        BY <1>1, <2>6, <3>2
    <3> QED BY <3>1, <3>2
  <2>11. \/ b + 1 <= 2 * (at2 - (z + 1))
         \/ b + 1 = 2 * (at2 - (z + 1)) + 1 /\ at2 <= m /\ tmp[at2] < BASE
    <3>1. \/ b <= 2 * (at - (z + 1))
          \/ b = 2 * (at - (z + 1)) + 1 /\ st.tmp[at] < BASE
        BY DEF LoopInv, Spent, b, buffer
    <3>2. st.tmp[at] \in Nat /\ st.tmp[at] < BYTE
        BY <2>1, <2>2, Bases, DigitsAre
    <3>3. tmp[at] < BASE
      <4>1. tmp[at] = st.tmp[at] \div BASE /\ tmp[at] \in Nat
          BY <2>6, <3>2, Bases, QuotientBounds
      <4>2. st.tmp[at] % BASE \in 0 .. BASE - 1 /\ st.tmp[at] = (st.tmp[at] \div BASE) * BASE + (st.tmp[at] % BASE)
        <5>1. st.tmp[at] \in Int
            BY <3>2
        <5> QED BY <5>1, Bases, Division, Zenon
      <4> DEFINE q == tmp[at]
                 x == st.tmp[at]
      <4>3. x >= q * BASE /\ q \in Nat /\ x \in Nat /\ x < BYTE
        <5>1. q * BASE \in Nat
            BY <4>1, Bases, SMT
        <5> QED BY <3>2, <4>1, <4>2, <5>1
      <4> HIDE DEF q, x
      <4>4. q >= BASE => q * BASE >= BASE * BASE
          BY <4>3, Bases, SMT
      <4>5. q * BASE \in Nat /\ BASE * BASE \in Nat
          BY <4>3, Bases, SMT
      <4>6. q < BASE
          BY <4>3, <4>4, <4>5, Bases
      <4> QED BY <4>6 DEF q
    <3>4. CASE tmp[at] = 0
      <4>1. at2 = at + 1
          BY <3>4
      <4> HIDE DEF at2
      <4>2. b <= 2 * (at - (z + 1)) + 1
          BY <1>1, <3>1
      <4> DEFINE c == at - (z + 1)
      <4>3. c \in Int /\ at2 - (z + 1) = c + 1
          BY <1>1, <4>1
      <4>4. b <= 2 * c + 1
          BY <4>2
      <4> HIDE DEF c
      <4>5. b + 1 <= 2 * (c + 1)
          BY <1>1, <4>3, <4>4
      <4> QED BY <4>3, <4>5
    <3>5. CASE tmp[at] # 0
      <4>1. at2 = at
          BY <3>5
      <4>2. ~(st.tmp[at] < BASE)
          BY <2>6, <3>2, <3>5, Bases, QuotientBounds
      <4>3. b <= 2 * (at - (z + 1))
          BY <3>1, <4>2
      <4> HIDE DEF at2
      <4> QED BY <1>1, <2>1, <3>3, <4>1, <4>3
    <3> QED BY <3>4, <3>5
  <2> HIDE DEF at2
  <2>12. LoopInv(in, n + 1, next)
      BY <2>2, <2>5, <2>6, <2>8, <2>9, <2>10, <2>11 DEF LoopInv, Spent, m, z
  <2> QED BY <2>12 DEF next
<1> QED BY <1>2, <1>3

LEMMA DivisionsAre ==
    ASSUME NEW in \in Seq(Digits(BYTE))
    PROVE  LoopInv(in, 3 * Len(in), Divided(in))
<1> DEFINE st == Divisions(in)
           c == [tmp |-> in, startAt |-> LeadingZeros(in) + 1, buffer |-> <<>>]
           Def(before, k) == Divide(before)
           n == 3 * Len(in)
           reached == {k \in 0 .. n : LoopInv(in, k, st[k])}
<1>1. n \in Nat /\ 0 \in Nat
  <2>1. Len(in) \in Nat
      BY LenProperties
  <2> QED BY <2>1
<1>2. FiniteNatInductiveDefHypothesis(st, c, Def, 0, n)
    BY DEF FiniteNatInductiveDefHypothesis, Divisions
<1>3. Divided(in) = st[n]
    BY DEF Divided
<1>4. LoopInv(in, 0, c)
    BY LoopStarts
<1> HIDE DEF st, c, n
<1>5. FiniteNatInductiveDefConclusion(st, c, Def, 0, n)
    BY <1>1, <1>2, FiniteNatInductiveDef
<1>6. st = [k \in 0 .. n |-> IF k = 0 THEN c ELSE Def(st[k - 1], k)]
    BY <1>5 DEF FiniteNatInductiveDefConclusion
<1>7. st[0] = c
    BY <1>1, <1>6
<1>8. 0 \in reached
    BY <1>1, <1>4, <1>7
<1>9. ASSUME NEW k \in 0 .. n - 1, k \in reached PROVE k + 1 \in reached
  <2>1. k + 1 \in 0 .. n /\ k + 1 # 0 /\ (k + 1) - 1 = k /\ k \in Nat
      BY <1>1
  <2>2. st[k + 1] = Divide(st[k])
      BY <1>6, <2>1
  <2>3. LoopInv(in, k, st[k])
      BY <1>9
  <2>4. LoopInv(in, k + 1, Divide(st[k]))
      BY <2>1, <2>3, LoopStep
  <2> QED BY <2>1, <2>2, <2>4
<1> HIDE DEF reached
<1>10. 0 .. n \subseteq reached
    BY <1>1, <1>8, <1>9, InductionTo
<1>11. n \in reached
    BY <1>1, <1>10
<1> QED BY <1>3, <1>11 DEF reached, n

(* The text b58_encode has when it looks at maxoutlen.                     *)
Characters(in) ==
    Zeros(LeadingZeros(in)) \o
        SubSeq(Divided(in).buffer, LeadingZeros(Divided(in).buffer) + 1, Len(Divided(in).buffer))

LEMMA ZerosIs ==
    ASSUME NEW n \in Nat, NEW S, 0 \in S
    PROVE  Zeros(n) \in Seq(S) /\ Len(Zeros(n)) = n /\ \A k \in 1 .. n : Zeros(n)[k] = 0
<1>1. Zeros(n) = [k \in 1 .. n |-> 0]
    BY DEF Zeros
<1>2. Zeros(n) \in [1 .. n -> S]
    BY <1>1
<1> QED BY <1>1, <1>2, StringIs

(* The loop of b58_encode ends in its buffer, with the characters of the   *)
(* number it was given.                                                    *)
LEMMA EncodeIs ==
    ASSUME NEW in \in Seq(Digits(BYTE))
    PROVE  /\ Divided(in).startAt > Len(in)
           /\ Len(Divided(in).buffer) + LeadingZeros(in) <= 2 * Len(in)
           /\ Characters(in) \in Seq(Digits(BASE)) /\ Len(Characters(in)) \in Nat
           /\ Len(Characters(in)) <= 2 * Len(in)
           /\ Value(Characters(in), BASE) = Value(in, BYTE)
           /\ LeadingZeros(Characters(in)) = LeadingZeros(in)
           /\ \A max \in Nat : b58_encode(in, max) = IF max < Len(Characters(in)) THEN Fail ELSE Characters(in)
<1> DEFINE st == Divided(in)
           m == Len(in)
           z == LeadingZeros(in)
           at == st.startAt
           buffer == st.buffer
           b == Len(buffer)
           y == LeadingZeros(buffer)
           rest == SubSeq(buffer, y + 1, b)
           chars == Characters(in)
<1>1. /\ in \in Seq(Nat) /\ m \in Nat /\ z \in 0 .. m /\ z \in Nat
      /\ Value(in, BYTE) \in Nat
    BY Bases, DigitsAre, LeadingZerosIs, ValuesAre
<1>2. LoopInv(in, 3 * m, st)
    BY DivisionsAre
<1> HIDE DEF st, m, z
<1>3. /\ at \in z + 1 .. m + 1 /\ buffer \in Seq(Digits(BASE)) /\ buffer \in Seq(Nat) /\ b \in Nat
      /\ at <= m => b = 3 * m
      /\ \/ b <= 2 * (at - (z + 1))
         \/ b = 2 * (at - (z + 1)) + 1 /\ at <= m
  <2>1. /\ at \in z + 1 .. m + 1 /\ buffer \in Seq(Digits(BASE))
        /\ at <= m => b = 3 * m
        /\ \/ b <= 2 * (at - (z + 1))
           \/ b = 2 * (at - (z + 1)) + 1 /\ at <= m
      BY <1>2 DEF LoopInv, Spent, m, z
  <2>2. buffer \in Seq(Nat) /\ b \in Nat
      BY <2>1, Bases, DigitsAre
  <2> HIDE DEF at, b
  <2> QED BY <2>1, <2>2
<1>4. at > m /\ b + z <= 2 * m
  <2> HIDE DEF at, b
  <2> QED BY <1>1, <1>3
<1>5. Value(in, BYTE) = Value(buffer, BASE)
  <2>1. /\ st.tmp \in Seq(Digits(BYTE)) /\ st.tmp \in Seq(Nat) /\ Len(st.tmp) = m
        /\ \A k \in 1 .. at - 1 : st.tmp[k] = 0
        /\ Value(in, BYTE) = Value(st.tmp, BYTE) * Power(BASE)[b] + Value(buffer, BASE)
      BY <1>2, Bases, DigitsAre DEF LoopInv, m
  <2>2. \A k \in 1 .. m : st.tmp[k] = 0
    <3> TAKE k \in 1 .. m
    <3>1. k \in 1 .. at - 1
        BY <1>1, <1>3, <1>4
    <3> QED BY <2>1, <3>1
  <2>3. Values(st.tmp, BYTE)[m] = 0
    <3>1. m \in Nat /\ m <= Len(st.tmp)
        BY <1>1, <2>1
    <3> DEFINE tmp == st.tmp
    <3>2. tmp \in Seq(Nat) /\ m <= Len(tmp) /\ \A k \in 1 .. m : tmp[k] = 0
        BY <2>1, <2>2, <3>1
    <3> HIDE DEF tmp
    <3>3. Values(tmp, BYTE)[m] = 0
        BY <3>1, <3>2, Bases, ZerosAreNothing
    <3> QED BY <3>3 DEF tmp
  <2>4. Value(st.tmp, BYTE) = 0
      BY <2>1, <2>3, Bases, ValuesAre
  <2>5. Power(BASE)[b] \in Nat /\ Value(buffer, BASE) \in Nat
      BY <1>3, Bases, PowerPositive, ValuesAre
  <2>6. \A x, p \in Nat : 0 * p + x = x
      BY SMT
  <2> QED BY <2>1, <2>4, <2>5, <2>6, Zenon
<1>6. y \in 0 .. b /\ y \in Nat /\ (\A k \in 1 .. y : buffer[k] = 0) /\ (y < b => buffer[y + 1] # 0)
    BY <1>3, LeadingZerosIs
<1> HIDE DEF y, b, buffer
<1>7. /\ rest \in Seq(Digits(BASE)) /\ Len(rest) = b - y /\ b - y \in Nat
      /\ \A k \in 1 .. b - y : rest[k] = buffer[y + k]
  <2> DEFINE l == b - y
  <2>1. l \in Nat /\ y + l = b /\ y + l <= Len(buffer)
      BY <1>3, <1>6 DEF b
  <2> HIDE DEF l
  <2>2. rest = SubSeq(buffer, y + 1, y + l)
      BY <2>1
  <2> HIDE DEF rest
  <2>3. rest \in Seq(Digits(BASE)) /\ Len(rest) = l /\ \A k \in 1 .. l : rest[k] = buffer[y + k]
    <3> DEFINE D == Digits(BASE)
    <3>1. buffer \in Seq(D) /\ y \in Nat
        BY <1>3, <1>6
    <3> HIDE DEF D
    <3>2. SubSeq(buffer, y + 1, y + l) \in Seq(D) /\ IsSlice(SubSeq(buffer, y + 1, y + l), buffer, y, l)
        BY <2>1, <3>1, Slice
    <3> QED BY <2>2, <3>2 DEF IsSlice, D
  <2> QED BY <2>1, <2>3 DEF l
<1>8. chars = Zeros(z) \o rest
    BY DEF Characters, st, z, buffer, y, b
<1> HIDE DEF rest, chars
<1>9. rest \in Seq(Nat) /\ Value(rest, BASE) = Value(buffer, BASE)
  <2>1. rest \in Seq(Nat)
      BY <1>7, Bases, DigitsAre
  <2>2. Len(buffer) = y + Len(rest) /\ \A k \in 1 .. Len(rest) : buffer[y + k] = rest[k]
      BY <1>3, <1>6, <1>7 DEF b
  <2>3. Value(buffer, BASE) = Value(rest, BASE)
      BY <1>3, <1>6, <2>1, <2>2, Bases, WithoutZeros
  <2> QED BY <2>1, <2>3
<1>10. /\ chars \in Seq(Digits(BASE)) /\ Len(chars) = z + (b - y)
       /\ \A k \in 1 .. z : chars[k] = 0
       /\ \A k \in 1 .. b - y : chars[z + k] = rest[k]
  <2>1. 0 \in Digits(BASE)
      BY Bases DEF Digits
  <2>2. Zeros(z) \in Seq(Digits(BASE)) /\ Len(Zeros(z)) = z /\ \A k \in 1 .. z : Zeros(z)[k] = 0
      BY <1>1, <2>1, ZerosIs
  <2>3. chars \in Seq(Digits(BASE)) /\ IsJoined(chars, Zeros(z), rest)
      BY <1>7, <1>8, <2>2, Joined
  <2>4. /\ Len(chars) = Len(Zeros(z)) + Len(rest)
        /\ \A j \in 1 .. Len(Zeros(z)) : chars[j] = Zeros(z)[j]
        /\ \A j \in 1 .. Len(rest) : chars[Len(Zeros(z)) + j] = rest[j]
      BY <2>3 DEF IsJoined
  <2> QED BY <1>7, <2>2, <2>3, <2>4
<1>11. chars \in Seq(Nat) /\ Len(chars) \in Nat
    BY <1>10, Bases, DigitsAre
<1>12. Len(chars) <= 2 * m
    BY <1>1, <1>3, <1>4, <1>6, <1>10
<1>13. Value(chars, BASE) = Value(rest, BASE)
  <2>1. Len(chars) = z + Len(rest) /\ \A k \in 1 .. Len(rest) : chars[z + k] = rest[k]
      BY <1>7, <1>10
  <2> QED BY <1>1, <1>9, <1>10, <1>11, <2>1, Bases, WithoutZeros
<1>14. LeadingZeros(chars) = z
  <2>1. z \in 0 .. Len(chars)
      BY <1>1, <1>7, <1>10
  <2>2. ASSUME z < Len(chars) PROVE chars[z + 1] # 0
    <3>1. y < b /\ 1 \in 1 .. b - y
        BY <1>1, <1>3, <1>6, <1>10, <2>2
    <3>2. chars[z + 1] = rest[1] /\ rest[1] = buffer[y + 1]
        BY <1>7, <1>10, <3>1
    <3> QED BY <1>6, <3>1, <3>2
  <2> QED BY <1>10, <1>11, <2>1, <2>2, LeadingZerosAre
<1>15. \A max \in Nat : b58_encode(in, max) = IF max < Len(chars) THEN Fail ELSE chars
    BY DEF b58_encode, Characters, chars
<1> QED BY <1>4, <1>5, <1>9, <1>10, <1>11, <1>12, <1>13, <1>14, <1>15 DEF at, st, m, z, b, buffer, chars

----------------------------------------------------------------------------
(* b58_decode: multiplication in limbs.                                    *)
LEMMA PowerOfPower ==
    ASSUME NEW b \in Nat \ {0}, NEW m \in Nat, NEW n \in Nat
    PROVE  Power(Power(b)[m])[n] = Power(b)[m * n]
<1> DEFINE p == Power(b)[m]
           reached == {k \in Nat : Power(p)[k] = Power(b)[m * k]}
<1>1. p \in Nat \ {0} /\ p \in Nat
    BY PowerPositive
<1>2. Power(b)[0] = 1
    BY PowerUnfolds
<1>3. p = Power(b)[m]
    OBVIOUS
<1> HIDE DEF p
<1>4. Power(p)[0] = 1 /\ \A k \in Nat : Power(p)[k + 1] = p * Power(p)[k] /\ Power(p)[k] \in Nat
    BY <1>1, PowerUnfolds, PowerPositive
<1>5. 0 \in reached
  <2>1. m * 0 = 0
      BY SMT
  <2> QED BY <1>2, <1>4, <2>1
<1>6. ASSUME NEW k \in Nat, k \in reached PROVE k + 1 \in reached
  <2>1. m * (k + 1) = m + m * k /\ m * k \in Nat
      BY SMT
  <2>2. Power(b)[m + m * k] = p * Power(b)[m * k]
      BY <1>3, <2>1, PowerOfSum
  <2>3. Power(p)[k] = Power(b)[m * k]
      BY <1>6
  <2>4. Power(p)[k + 1] = p * Power(p)[k]
      BY <1>4
  <2>5. Power(p)[k + 1] = Power(b)[m * (k + 1)]
      BY <2>1, <2>2, <2>3, <2>4, Zenon
  <2> QED BY <2>5
<1> HIDE DEF reached
<1>7. Nat \subseteq reached
    BY <1>5, <1>6, InductionBySet
<1>8. Power(p)[n] = Power(b)[m * n]
    BY <1>7 DEF reached
<1> QED BY <1>8 DEF p

LEMMA LimbsHold ==
    /\ LimbSize \in Nat \ {0} /\ LimbSize \in Nat
    /\ \A n \in Nat : /\ Power(LimbSize)[n] = Power(BYTE)[LimbBytes * n]
                      /\ Power(LimbSize)[n] \in Nat \ {0}
<1>1. LimbSize \in Nat \ {0} /\ LimbSize \in Nat
    BY Bases, PowerPositive DEF LimbSize
<1>2. ASSUME NEW n \in Nat
      PROVE  Power(LimbSize)[n] = Power(BYTE)[LimbBytes * n] /\ Power(LimbSize)[n] \in Nat \ {0}
  <2>1. Power(LimbSize)[n] = Power(BYTE)[LimbBytes * n]
      BY Bases, PowerOfPower DEF LimbSize
  <2>2. Power(LimbSize)[n] \in Nat \ {0}
      BY <1>1, PowerPositive
  <2> QED BY <2>1, <2>2
<1> QED BY <1>1, <1>2

(* Whole limbs, and the bytes of one that is not whole.                    *)
LEMMA LimbsOfBytes ==
    ASSUME NEW binsz \in Nat \ {0}
    PROVE  /\ outisz(binsz) \in Nat \ {0} /\ bytesleft(binsz) \in Nat
           /\ IF bytesleft(binsz) = 0 THEN binsz = LimbBytes * outisz(binsz)
              ELSE /\ bytesleft(binsz) < LimbBytes
                   /\ binsz = LimbBytes * (outisz(binsz) - 1) + bytesleft(binsz)
<1> DEFINE q == binsz \div LimbBytes
           r == bytesleft(binsz)
           n == outisz(binsz)
           l == LimbBytes
<1>1. l \in Nat \ {0} /\ l \in Int /\ binsz \in Int /\ binsz \in Nat
    BY Bases
<1>2. q \in Int /\ r \in 0 .. l - 1 /\ binsz = q * l + r /\ q \in Nat
  <2>1. q \in Int /\ r \in 0 .. l - 1 /\ binsz = q * l + r
      BY <1>1, Division, Zenon DEF bytesleft
  <2>2. q \in Nat
      BY <1>1, QuotientBounds, Zenon
  <2> QED BY <2>1, <2>2
<1>3. n = (binsz + l - 1) \div l
    BY DEF outisz
<1> HIDE DEF q, r, n, l
<1>4. l * q \in Nat /\ q * l = l * q /\ (q + 1) * l = q * l + l
    BY <1>1, <1>2, SMT
<1>5. CASE r = 0
  <2>1. binsz + l - 1 = q * l + (l - 1) /\ l - 1 \in 0 .. l - 1
      BY <1>1, <1>2, <1>4, <1>5
  <2>2. n = q
      BY <1>1, <1>2, <1>3, <2>1, QuotientUnique
  <2>3. q # 0
    <3>1. l * 0 = 0
        BY <1>1, SMT
    <3> QED BY <1>1, <1>2, <1>4, <1>5, <3>1
  <2> QED BY <1>1, <1>2, <1>4, <1>5, <2>2, <2>3 DEF n, r, l
<1>6. CASE r # 0
  <2>1. binsz + l - 1 = (q + 1) * l + (r - 1) /\ r - 1 \in 0 .. l - 1 /\ q + 1 \in Int
      BY <1>1, <1>2, <1>4, <1>6
  <2>2. n = q + 1
      BY <1>1, <1>3, <2>1, QuotientUnique
  <2>3. n - 1 = q /\ n \in Nat \ {0}
      BY <1>2, <2>2
  <2>4. binsz = l * (n - 1) + r /\ r \in Nat /\ r < l
      BY <1>1, <1>2, <1>4, <2>3
  <2> QED BY <1>6, <2>3, <2>4 DEF n, r, l
<1> QED BY <1>5, <1>6

LEMMA MultipliesAre ==
    ASSUME NEW outi \in Seq(Nat), NEW c \in Nat
    PROVE  /\ Multiplies(outi, c)[0] = [outi |-> <<>>, carry |-> c]
           /\ \A n \in 1 .. Len(outi) :
                 Multiplies(outi, c)[n] =
                     [outi  |-> <<(outi[Len(outi) + 1 - n] * BASE + Multiplies(outi, c)[n - 1].carry) % LimbSize>>
                                    \o Multiplies(outi, c)[n - 1].outi,
                      carry |-> (outi[Len(outi) + 1 - n] * BASE + Multiplies(outi, c)[n - 1].carry) \div LimbSize]
<1> DEFINE f == Multiplies(outi, c)
           start == [outi |-> <<>>, carry |-> c]
           Def(after, n) ==
               [outi |-> <<(outi[Len(outi) + 1 - n] * BASE + after.carry) % LimbSize>> \o after.outi,
                carry |-> (outi[Len(outi) + 1 - n] * BASE + after.carry) \div LimbSize]
           m == Len(outi)
<1>1. m \in Nat /\ 0 \in Nat
    BY LenProperties
<1>2. FiniteNatInductiveDefHypothesis(f, start, Def, 0, m)
    BY DEF FiniteNatInductiveDefHypothesis, Multiplies
<1> HIDE DEF f, start, m
<1>3. FiniteNatInductiveDefConclusion(f, start, Def, 0, m)
    BY <1>1, <1>2, FiniteNatInductiveDef
<1>4. f = [n \in 0 .. m |-> IF n = 0 THEN start ELSE Def(f[n - 1], n)]
    BY <1>3 DEF FiniteNatInductiveDefConclusion
<1>5. 0 \in 0 .. m /\ \A n \in 1 .. m : n \in 0 .. m /\ n # 0
    BY <1>1
<1>6. f[0] = start /\ \A n \in 1 .. m : f[n] = Def(f[n - 1], n)
    BY <1>4, <1>5
<1> QED BY <1>6 DEF f, start, m

(* What the multiplication has done with the last n limbs.                 *)
Multiplied(outi, c, n, acc) ==
    /\ acc.outi \in Seq(Digits(LimbSize)) /\ Len(acc.outi) = n /\ acc.carry \in Nat
    /\ Value(SubSeq(outi, Len(outi) - n + 1, Len(outi)), LimbSize) * BASE + c
           = acc.carry * Power(LimbSize)[n] + Value(acc.outi, LimbSize)

LEMMA MultiplyStep ==
    ASSUME NEW x \in Nat, NEW c \in Nat, NEW v \in Nat, NEW p \in Nat, NEW carry \in Nat, NEW w \in Nat,
           v * BASE + c = carry * p + w
    PROVE  /\ (x * BASE + carry) \div LimbSize \in Nat
           /\ (x * BASE + carry) % LimbSize \in Digits(LimbSize) /\ (x * BASE + carry) % LimbSize \in Nat
           /\ (x * p + v) * BASE + c = ((x * BASE + carry) \div LimbSize) * (LimbSize * p)
                                           + (((x * BASE + carry) % LimbSize) * p + w)
<1> DEFINE l == LimbSize
           t == x * BASE + carry
           q == t \div l
           r == t % l
<1>1. l \in Nat \ {0} /\ l \in Nat
    BY LimbsHold
<1>2. t \in Nat /\ t \in Int
    BY Bases, SMT
<1>3. t = x * BASE + carry
    OBVIOUS
<1> HIDE DEF t, l
<1>4. q \in Int /\ r \in 0 .. l - 1 /\ t = q * l + r
    BY <1>1, <1>2, Division, Zenon
<1>5. q \in Nat
    BY <1>1, <1>2, QuotientBounds, Zenon
<1>6. r \in Nat
    BY <1>1, <1>4
<1> HIDE DEF q, r
<1> DEFINE a == x * p
<1>7. /\ (a + v) * BASE = a * BASE + v * BASE /\ a * BASE = (x * BASE) * p
      /\ a \in Nat /\ v * BASE \in Nat /\ a * BASE \in Nat
    BY Bases, SMT
<1>8. t * p = (x * BASE) * p + carry * p /\ carry * p \in Nat /\ (x * BASE) * p \in Nat
  <2> DEFINE e == x * BASE
  <2>1. e \in Nat
      BY Bases, SMT
  <2>2. t = e + carry
      BY <1>3
  <2> HIDE DEF e
  <2>3. (e + carry) * p = e * p + carry * p /\ carry * p \in Nat /\ e * p \in Nat
      BY <2>1, SMT
  <2> QED BY <2>2, <2>3 DEF e
<1>9. t * p = q * (l * p) + r * p /\ q * (l * p) \in Nat /\ r * p \in Nat
  <2>1. (q * l + r) * p = q * (l * p) + r * p /\ q * (l * p) \in Nat /\ r * p \in Nat
      BY <1>1, <1>5, <1>6, SMT
  <2> QED BY <1>4, <2>1
<1> DEFINE b1 == a * BASE
           b2 == v * BASE
           b3 == carry * p
           b4 == t * p
           b5 == q * (l * p)
           b6 == r * p
           b7 == (a + v) * BASE
<1>10. b7 = b1 + b2 /\ b4 = b1 + b3 /\ b4 = b5 + b6 /\ b2 + c = b3 + w
    BY <1>7, <1>8, <1>9, Zenon
<1>11. b1 \in Nat /\ b2 \in Nat /\ b3 \in Nat /\ b5 \in Nat /\ b6 \in Nat
    BY <1>7, <1>8, <1>9
<1> HIDE DEF b1, b2, b3, b4, b5, b6, b7
<1>12. b7 + c = b5 + (b6 + w)
    BY <1>10, <1>11
<1> QED BY <1>4, <1>5, <1>6, <1>12 DEF b5, b6, b7, a, q, r, t, l, Digits

LEMMA MultiplyAddIs ==
    ASSUME NEW outi \in Seq(Digits(LimbSize)), NEW c \in Nat
    PROVE  LET next == MultiplyAdd(outi, c)
           IN  /\ next.outi \in Seq(Digits(LimbSize)) /\ Len(next.outi) = Len(outi) /\ next.carry \in Nat
               /\ Value(outi, LimbSize) * BASE + c
                      = next.carry * Power(LimbSize)[Len(outi)] + Value(next.outi, LimbSize)
<1> DEFINE f == Multiplies(outi, c)
           m == Len(outi)
           l == LimbSize
           reached == {n \in 0 .. m : Multiplied(outi, c, n, f[n])}
<1>1. m \in Nat /\ l \in Nat \ {0} /\ l \in Nat
    BY LenProperties, LimbsHold
<1>2. \A n \in 1 .. m : outi[n] \in Nat
    BY LimbsHold, DigitsAre
<1>10. /\ f[0] = [outi |-> <<>>, carry |-> c]
       /\ \A n \in 1 .. m :
             f[n] = [outi |-> <<(outi[m + 1 - n] * BASE + f[n - 1].carry) % l>> \o f[n - 1].outi,
                     carry |-> (outi[m + 1 - n] * BASE + f[n - 1].carry) \div l]
  <2> HIDE DEF f, m, l
  <2>1. outi \in Seq(Nat)
      BY LimbsHold, DigitsAre
  <2>2. /\ Multiplies(outi, c)[0] = [outi |-> <<>>, carry |-> c]
        /\ \A n \in 1 .. Len(outi) :
              Multiplies(outi, c)[n] =
                  [outi  |-> <<(outi[Len(outi) + 1 - n] * BASE + Multiplies(outi, c)[n - 1].carry) % LimbSize>>
                                 \o Multiplies(outi, c)[n - 1].outi,
                   carry |-> (outi[Len(outi) + 1 - n] * BASE + Multiplies(outi, c)[n - 1].carry) \div LimbSize]
      BY <2>1, MultipliesAre
  <2> QED BY <2>2, Zenon DEF f, m, l
<1>3. 0 \in reached
  <2> DEFINE empty == <<>>
  <2>1. f[0].outi = empty /\ f[0].carry = c
      BY <1>10
  <2>2. empty \in Seq(Digits(l)) /\ empty \in Seq(Nat) /\ Len(empty) = 0
      BY EmptySeq
  <2>3. SubSeq(outi, m - 0 + 1, m) = empty
    <3>1. m - 0 + 1 \in Int /\ m \in Int /\ m < m - 0 + 1
        BY <1>1
    <3> QED BY <3>1, SubSeqEmpty
  <2> HIDE DEF empty, f, l
  <2>4. Value(empty, l) = 0
    <3>1. Value(empty, l) = Values(empty, l)[Len(empty)] /\ Values(empty, l)[0] = 0
        BY <1>1, <2>2, ValuesAre
    <3> QED BY <2>2, <3>1
  <2>5. Power(l)[0] = 1 /\ 0 * BASE + c = c * 1 + 0 /\ 0 \in 0 .. m
      BY <1>1, Bases, PowerUnfolds, SMT
  <2>6. Multiplied(outi, c, 0, f[0])
      BY <2>1, <2>2, <2>3, <2>4, <2>5 DEF Multiplied, l, m
  <2> QED BY <2>5, <2>6
<1>4. ASSUME NEW n \in 0 .. m - 1, n \in reached PROVE n + 1 \in reached
  <2> DEFINE k == m - n
             x == outi[k]
             after == f[n]
             u == SubSeq(outi, k + 1, m)
             t == x * BASE + after.carry
             q == t \div l
             r == t % l
  <2>1. /\ k \in 1 .. m /\ m \in k .. m /\ m - n + 1 = k + 1 /\ m - (n + 1) + 1 = k /\ n + 1 \in 0 .. m
        /\ n \in Nat /\ n + 1 \in 1 .. m /\ (n + 1) - 1 = n /\ m + 1 - (n + 1) = k /\ m - k = n
        /\ k + n = m /\ k + n <= Len(outi) /\ k \in Nat
      BY <1>1
  <2>2. Multiplied(outi, c, n, after)
      BY <1>4
  <2>3. f[n + 1] = [outi |-> <<r>> \o after.outi, carry |-> q]
    <3> HIDE DEF f, l
    <3>1. f[n + 1] = [outi |-> <<(outi[m + 1 - (n + 1)] * BASE + f[(n + 1) - 1].carry) % l>> \o f[(n + 1) - 1].outi,
                      carry |-> (outi[m + 1 - (n + 1)] * BASE + f[(n + 1) - 1].carry) \div l]
        BY <1>10, <2>1, Zenon
    <3> QED BY <2>1, <3>1
  <2>4. x \in Nat /\ x \in Digits(l)
      BY <1>2, <2>1, ElementOfSeq
  <2> HIDE DEF k, x, after
  <2>5. f[n + 1].outi = <<r>> \o after.outi /\ f[n + 1].carry = q
      BY <2>3
  <2>6. /\ after.outi \in Seq(Digits(l)) /\ Len(after.outi) = n /\ after.carry \in Nat
        /\ Value(u, l) * BASE + c = after.carry * Power(l)[n] + Value(after.outi, l)
      BY <2>1, <2>2 DEF Multiplied
  <2>7. u \in Seq(Digits(l)) /\ Len(u) = n
    <3>1. u = SubSeq(outi, k + 1, k + n)
        BY <2>1
    <3> HIDE DEF u
    <3>2. u \in Seq(Digits(l)) /\ Len(u) = n
        BY <2>1, <3>1, Slice DEF IsSlice
    <3> QED BY <3>2
  <2>8. SubSeq(outi, k, m) = <<x>> \o u
      BY <2>1, SubSeqRecursiveFirst DEF x
  <2> HIDE DEF u, f, l
  <2>9. /\ u \in Seq(Nat) /\ after.outi \in Seq(Nat)
        /\ Value(u, l) \in Nat /\ Value(after.outi, l) \in Nat
    <3>1. u \in Seq(Nat) /\ after.outi \in Seq(Nat)
        BY <1>1, <2>6, <2>7, DigitsAre
    <3> QED BY <1>1, <3>1, ValuesAre
  <2>10. Power(l)[n] \in Nat /\ Power(l)[n + 1] = l * Power(l)[n]
      BY <1>1, <2>1, PowerUnfolds, PowerPositive
  <2> DEFINE p == Power(l)[n]
             v == Value(u, l)
             w == Value(after.outi, l)
             carry == after.carry
  <2>11. p \in Nat /\ v \in Nat /\ w \in Nat /\ carry \in Nat /\ v * BASE + c = carry * p + w
      BY <2>6, <2>9, <2>10
  <2>12. t = x * BASE + carry
      OBVIOUS
  <2> HIDE DEF p, v, w
  <2>13. /\ q \in Nat /\ r \in Digits(l) /\ r \in Nat
         /\ (x * p + v) * BASE + c = q * (l * p) + (r * p + w)
    <3> HIDE DEF carry, t, q, r
    <3>1. x \in Nat /\ c \in Nat /\ v \in Nat /\ p \in Nat /\ carry \in Nat /\ w \in Nat /\ v * BASE + c = carry * p + w
        BY <2>4, <2>11
    <3> DEFINE Step(x1, c1, v1, p1, y1, w1) ==
                   v1 * BASE + c1 = y1 * p1 + w1 =>
                      /\ (x1 * BASE + y1) \div LimbSize \in Nat
                      /\ (x1 * BASE + y1) % LimbSize \in Digits(LimbSize) /\ (x1 * BASE + y1) % LimbSize \in Nat
                      /\ (x1 * p1 + v1) * BASE + c1 = ((x1 * BASE + y1) \div LimbSize) * (LimbSize * p1)
                                                         + (((x1 * BASE + y1) % LimbSize) * p1 + w1)
    <3>2. \A x1, c1, v1, p1, y1, w1 \in Nat : Step(x1, c1, v1, p1, y1, w1)
        BY MultiplyStep
    <3>3. Step(x, c, v, p, carry, w)
      <4> HIDE DEF Step
      <4> QED BY <3>1, <3>2
    <3>4. /\ (x * BASE + carry) \div LimbSize \in Nat
          /\ (x * BASE + carry) % LimbSize \in Digits(LimbSize) /\ (x * BASE + carry) % LimbSize \in Nat
          /\ (x * p + v) * BASE + c = ((x * BASE + carry) \div LimbSize) * (LimbSize * p)
                                          + (((x * BASE + carry) % LimbSize) * p + w)
        BY <3>1, <3>3, Zenon
    <3>5. q = (x * BASE + carry) \div LimbSize /\ r = (x * BASE + carry) % LimbSize /\ l = LimbSize
        BY DEF q, r, t, l, carry
    <3> QED BY <3>4, <3>5, Zenon
  <2> HIDE DEF q, r, t
  <2>14. Value(SubSeq(outi, k, m), l) = x * p + v
      BY <1>1, <2>4, <2>7, <2>8, <2>9, ValueOfPrepend DEF p, v
  <2>15. /\ <<r>> \o after.outi \in Seq(Digits(l)) /\ Len(<<r>> \o after.outi) = n + 1
         /\ Value(<<r>> \o after.outi, l) = r * p + w
    <3>1. <<r>> \in Seq(Digits(l)) /\ Len(<<r>>) = 1
        BY <2>13
    <3>2. <<r>> \o after.outi \in Seq(Digits(l)) /\ Len(<<r>> \o after.outi) = 1 + n
        BY <2>6, <3>1, ConcatProperties
    <3>3. Value(<<r>> \o after.outi, l) = r * p + w
        BY <1>1, <2>6, <2>9, <2>13, ValueOfPrepend DEF p, w
    <3> QED BY <2>1, <3>2, <3>3
  <2>16. Power(l)[n + 1] = l * p
      BY <2>10 DEF p
  <2> DEFINE acc == f[n + 1]
  <2>17. acc.outi = <<r>> \o after.outi /\ acc.carry = q
      BY <2>5
  <2> HIDE DEF acc
  <2>18. /\ acc.outi \in Seq(Digits(l)) /\ Len(acc.outi) = n + 1 /\ acc.carry \in Nat
         /\ Value(acc.outi, l) = r * p + w
      BY <2>13, <2>15, <2>17
  <2>19. Value(SubSeq(outi, k, m), l) * BASE + c = acc.carry * Power(l)[n + 1] + Value(acc.outi, l)
      BY <2>13, <2>14, <2>16, <2>17, <2>18
  <2>20. Multiplied(outi, c, n + 1, acc)
      BY <2>1, <2>18, <2>19 DEF Multiplied, l, m
  <2> QED BY <2>1, <2>20 DEF acc
<1> HIDE DEF reached
<1>5. 0 .. m \subseteq reached
    BY <1>1, <1>3, <1>4, InductionTo
<1>6. m \in reached
    BY <1>1, <1>5
<1>7. Multiplied(outi, c, m, f[m])
    BY <1>6 DEF reached
<1>8. m - m + 1 = 1 /\ SubSeq(outi, 1, m) = outi
    BY <1>1, SubSeqFull
<1>9. MultiplyAdd(outi, c) = f[m]
    BY DEF MultiplyAdd
<1> HIDE DEF f
<1> QED BY <1>7, <1>8, <1>9 DEF Multiplied, m

(* The test after each character: carry, and the unused bytes of the first *)
(* limb.                                                                   *)
LEMMA TooBigIs ==
    ASSUME NEW binsz \in Nat \ {0}, NEW next, next.outi \in Seq(Digits(LimbSize)),
           Len(next.outi) = outisz(binsz), next.carry \in Nat
    PROVE  TooBig(next, binsz) <=>
               next.carry * Power(LimbSize)[outisz(binsz)] + Value(next.outi, LimbSize) >= Power(BYTE)[binsz]
<1> DEFINE n == outisz(binsz)
           b == bytesleft(binsz)
           l == LimbSize
           s == next.outi
           x == Value(s, l)
           p == Power(l)[n]
           e == Power(BYTE)[binsz]
           carry == next.carry
<1>1. n \in Nat \ {0} /\ n \in Nat /\ n - 1 \in Nat /\ b \in Nat /\ binsz \in Nat
    BY LimbsOfBytes
<1>2. l \in Nat \ {0} /\ p \in Nat \ {0} /\ e \in Nat \ {0} /\ carry \in Nat
    BY <1>1, Bases, LimbsHold, PowerPositive
<1>3. x \in Nat /\ x < p /\ s[1] \in Nat
  <2>1. x \in Nat /\ x < p
      BY <1>2, ValueBelow
  <2>2. 1 \in 1 .. Len(s)
      BY <1>1
  <2>3. s[1] \in Nat
      BY <1>2, <2>2, DigitsAre
  <2> QED BY <2>1, <2>3
<1>4. TooBig(next, binsz) <=> carry # 0 \/ (b # 0 /\ s[1] >= Power(BYTE)[b])
    BY DEF TooBig
<1>5. e <= p
  <2>1. binsz <= LimbBytes * n /\ LimbBytes * n \in Nat
    <3>1. LimbBytes * (n - 1) = LimbBytes * n - LimbBytes /\ LimbBytes * n \in Nat
        BY <1>1, Bases, SMT
    <3>2. IF b = 0 THEN binsz = LimbBytes * n ELSE b < LimbBytes /\ binsz = LimbBytes * (n - 1) + b
        BY LimbsOfBytes
    <3> QED BY <1>1, Bases, <3>1, <3>2
  <2>2. p = Power(BYTE)[LimbBytes * n]
      BY <1>1, LimbsHold
  <2> QED BY <1>1, <2>1, <2>2, Bases, PowerGrows
<1>6. carry # 0 => carry * p >= p
  <2>1. \A i, j \in Nat \ {0} : i * j >= j
      BY SMT
  <2> QED BY <1>2, <2>1
<1>7. carry * p \in Nat /\ (carry = 0 => carry * p = 0)
    BY <1>2, SMT
<1>8. CASE carry # 0
  <2> HIDE DEF x, p, e, carry, b, s
  <2>1. carry * p + x >= e
      BY <1>2, <1>3, <1>5, <1>6, <1>7, <1>8
  <2>2. TooBig(next, binsz)
      BY <1>4, <1>8
  <2> QED BY <2>1, <2>2 DEF x, p, e, carry, l, s
<1>9. CASE carry = 0 /\ b = 0
  <2>1. p = e
      BY <1>1, <1>9, LimbsOfBytes, LimbsHold
  <2> HIDE DEF x, p, e, carry, b, s
  <2>2. ~(carry * p + x >= e)
      BY <1>2, <1>3, <1>7, <1>9, <2>1
  <2>3. ~TooBig(next, binsz)
      BY <1>4, <1>9
  <2> QED BY <2>2, <2>3 DEF x, p, e, carry, l, s
<1>10. CASE carry = 0 /\ b # 0
  <2> DEFINE h == Power(l)[n - 1]
             d == Power(BYTE)[b]
             a == s[1]
  <2>1. h \in Nat \ {0} /\ d \in Nat /\ a \in Nat
      BY <1>1, <1>2, <1>3, Bases, LimbsHold, PowerPositive
  <2>2. e = d * h
    <3>1. binsz = LimbBytes * (n - 1) + b
        BY <1>10, LimbsOfBytes
    <3>2. LimbBytes * (n - 1) \in Nat
        BY <1>1, Bases, SMT
    <3>3. e = Power(BYTE)[LimbBytes * (n - 1)] * d
      <4> DEFINE g == LimbBytes * (n - 1)
      <4>1. g \in Nat /\ binsz = g + b
          BY <3>1, <3>2
      <4> HIDE DEF g, b
      <4>2. Power(BYTE)[g + b] = Power(BYTE)[g] * Power(BYTE)[b]
          BY <1>1, <4>1, Bases, PowerOfSum
      <4> QED BY <4>1, <4>2 DEF g
    <3>4. Power(BYTE)[LimbBytes * (n - 1)] = h
        BY <1>1, LimbsHold
    <3> HIDE DEF h, d, e
    <3>5. h * d = d * h
        BY <2>1, SMT
    <3> QED BY <3>3, <3>4, <3>5
  <2>3. a * h <= x /\ x < (a + 1) * h
    <3>1. Len(s) # 0 /\ Len(s) = n
        BY <1>1
    <3>2. s[1] * Power(l)[Len(s) - 1] <= x /\ x < (s[1] + 1) * Power(l)[Len(s) - 1]
        BY <1>2, <3>1, FirstDigit
    <3> QED BY <3>1, <3>2
  <2>4. TooBig(next, binsz) <=> a >= d
      BY <1>4, <1>10
  <2> HIDE DEF h, d, a, x, e, p, carry, s
  <2>5. a >= d => a * h >= d * h
      BY <2>1, SMT
  <2>6. ~(a >= d) => (a + 1) * h <= d * h
    <3>1. ASSUME a + 1 <= d PROVE (a + 1) * h <= d * h
        BY <2>1, <3>1, SMT
    <3>2. ~(a >= d) => a + 1 <= d
        BY <2>1
    <3> QED BY <3>1, <3>2
  <2>7. a * h \in Nat /\ d * h \in Nat /\ (a + 1) * h \in Nat
      BY <2>1, SMT
  <2>8. a >= d <=> x >= e
      BY <1>3, <2>2, <2>3, <2>5, <2>6, <2>7
  <2>9. carry * p + x = x
      BY <1>3, <1>7, <1>10
  <2> QED BY <2>4, <2>8, <2>9 DEF x, p, e, carry, l, s
<1> QED BY <1>8, <1>9, <1>10

(* A digit is what its place of the number divides to.                     *)
LEMMA DigitOf ==
    ASSUME NEW b \in Nat \ {0}, NEW s \in Seq(Digits(b))
    PROVE  \A k \in 1 .. Len(s) : s[k] = (Value(s, b) \div Power(b)[Len(s) - k]) % b
<1> DEFINE v == Values(s, b)
           n == Len(s)
           p == Power(b)
           x == Value(s, b)
           reached == {j \in 0 .. n : v[n - j] = x \div p[j]}
<1>1. /\ n \in Nat /\ b \in Nat /\ x \in Nat /\ x = v[n]
      /\ \A k \in 1 .. n : v[k] = v[k - 1] * b + s[k] /\ s[k] \in 0 .. b - 1
      /\ \A k \in 0 .. n : v[k] \in Nat
    BY DigitsAre, ValuesAre
<1>2. p[0] = 1 /\ \A k \in Nat : p[k] \in Nat \ {0} /\ p[k + 1] = b * p[k]
    BY PowerUnfolds, PowerPositive
<1> HIDE DEF v, n, p, x
<1>3. \A k \in 1 .. n : v[k - 1] = v[k] \div b /\ s[k] = v[k] % b
  <2> TAKE k \in 1 .. n
  <2>1. k - 1 \in 0 .. n
      BY <1>1
  <2> DEFINE q == v[k - 1]
             r == s[k]
  <2>2. q \in Int /\ r \in 0 .. b - 1 /\ v[k] = q * b + r
      BY <1>1, <2>1
  <2> HIDE DEF q, r
  <2>3. (q * b + r) \div b = q /\ (q * b + r) % b = r
      BY <2>2, QuotientUnique
  <2> QED BY <2>2, <2>3 DEF q, r
<1>4. 0 \in reached
  <2>1. x \div 1 = x /\ n - 0 = n /\ 0 \in 0 .. n
      BY <1>1
  <2>2. v[n - 0] = x \div p[0]
      BY <1>1, <1>2, <2>1
  <2> QED BY <2>1, <2>2
<1>5. ASSUME NEW j \in 0 .. n - 1, j \in reached PROVE j + 1 \in reached
  <2>1. n - j \in 1 .. n /\ (n - j) - 1 = n - (j + 1) /\ j \in Nat /\ j + 1 \in 0 .. n
      BY <1>1
  <2>2. v[n - j] = x \div p[j] /\ v[n - (j + 1)] = v[n - j] \div b
      BY <1>3, <1>5, <2>1
  <2>3. p[j] \in Nat \ {0} /\ p[j + 1] = p[j] * b
    <3>1. \A y \in Nat : b * y = y * b
        BY <1>1, SMT
    <3> QED BY <1>2, <2>1, <3>1
  <2>4. (x \div p[j]) \div b = x \div (p[j] * b)
      BY <1>1, <2>3, DivideTwice
  <2> QED BY <2>1, <2>2, <2>3, <2>4
<1> HIDE DEF reached
<1>6. 0 .. n \subseteq reached
    BY <1>1, <1>4, <1>5, InductionTo
<1>7. \A k \in 1 .. n : s[k] = (x \div p[n - k]) % b
  <2> TAKE k \in 1 .. n
  <2>1. n - k \in 0 .. n /\ n - (n - k) = k
      BY <1>1
  <2>2. v[n - (n - k)] = x \div p[n - k]
      BY <1>6, <2>1 DEF reached
  <2> QED BY <1>3, <2>1, <2>2
<1> QED BY <1>7 DEF n, x, p

(* Such digits, enough of them, write the number.                          *)
LEMMA DigitsWrite ==
    ASSUME NEW b \in Nat \ {0}, NEW s \in Seq(Nat), NEW x \in Nat, x < Power(b)[Len(s)],
           \A k \in 1 .. Len(s) : s[k] = (x \div Power(b)[Len(s) - k]) % b
    PROVE  s \in Seq(Digits(b)) /\ Value(s, b) = x
<1> DEFINE v == Values(s, b)
           n == Len(s)
           p == Power(b)
           reached == {k \in 0 .. n : v[k] = x \div p[n - k]}
<1>1. /\ n \in Nat /\ b \in Nat /\ Value(s, b) = v[n] /\ v[0] = 0
      /\ \A k \in 1 .. n : v[k] = v[k - 1] * b + s[k] /\ s[k] \in Nat
      /\ \A k \in 0 .. n : v[k] \in Nat
    BY ValuesAre
<1>2. p[0] = 1 /\ \A k \in Nat : p[k] \in Nat \ {0} /\ p[k + 1] = b * p[k]
    BY PowerUnfolds, PowerPositive
<1>3. x < p[n] /\ \A k \in 1 .. n : s[k] = (x \div p[n - k]) % b
    OBVIOUS
<1> HIDE DEF v, n, p
<1>4. 0 \in reached
  <2>1. x \div p[n] = 0
      BY <1>1, <1>2, <1>3, QuotientBounds
  <2>2. n - 0 = n /\ 0 \in 0 .. n
      BY <1>1
  <2> QED BY <1>1, <2>1, <2>2
<1>5. ASSUME NEW j \in 0 .. n - 1, j \in reached PROVE j + 1 \in reached
  <2> DEFINE m == n - (j + 1)
             y == x \div p[m]
  <2>1. j + 1 \in 1 .. n /\ (j + 1) - 1 = j /\ m \in Nat /\ n - j = m + 1 /\ j + 1 \in 0 .. n
      BY <1>1
  <2>2. v[j + 1] = v[j] * b + s[j + 1] /\ s[j + 1] = y % b
      BY <1>1, <1>3, <2>1
  <2>3. v[j] = x \div p[n - j]
      BY <1>5
  <2> HIDE DEF m
  <2>4. p[m] \in Nat \ {0} /\ p[n - j] = p[m] * b
    <3>1. \A z \in Nat : b * z = z * b
        BY <1>1, SMT
    <3> QED BY <1>2, <2>1, <3>1
  <2>5. y \div b = x \div (p[m] * b)
      BY <2>4, DivideTwice
  <2>6. y \in Nat /\ y \in Int
      BY <2>4, QuotientBounds
  <2>7. y = (y \div b) * b + (y % b)
    <3> HIDE DEF y
    <3> QED BY <2>6, Division, Zenon
  <2>8. v[j + 1] = y
    <3> HIDE DEF y
    <3> QED BY <2>2, <2>3, <2>4, <2>5, <2>7
  <2> QED BY <2>1, <2>8 DEF m
<1> HIDE DEF reached
<1>6. 0 .. n \subseteq reached
    BY <1>1, <1>4, <1>5, InductionTo
<1>7. v[n] = x \div p[n - n]
    BY <1>1, <1>6 DEF reached
<1>8. v[n] = x
  <2>1. n - n = 0 /\ x \div 1 = x
      BY <1>1
  <2> QED BY <1>2, <1>7, <2>1
<1>9. s \in Seq(Digits(b))
  <2>1. \A k \in 1 .. n : s[k] \in Digits(b)
    <3> TAKE k \in 1 .. n
    <3>1. n - k \in Nat
        BY <1>1
    <3>2. x \div p[n - k] \in Int
      <4>1. p[n - k] \in Nat \ {0}
          BY <1>2, <3>1
      <4>2. x \div p[n - k] \in Nat
          BY <4>1, QuotientBounds, Zenon
      <4> QED BY <4>2
    <3> DEFINE y == x \div p[n - k]
    <3>3. y \in Int /\ s[k] = y % b
        BY <1>3, <3>2
    <3> HIDE DEF y
    <3>4. y % b \in 0 .. b - 1
        BY <3>3, Division, Zenon
    <3> QED BY <3>3, <3>4 DEF Digits
  <2>2. s = [k \in 1 .. n |-> s[k]]
      BY DEF n
  <2>3. s \in [1 .. n -> Digits(b)]
      BY <2>1, <2>2
  <2> QED BY <1>1, <2>3, StringIs
<1> QED BY <1>1, <1>8, <1>9

(* The lower digits of a number are those of its residue.                  *)
LEMMA DigitOfResidue ==
    ASSUME NEW b \in Nat \ {0}, NEW m \in Nat, NEW k \in 0 .. m - 1, NEW y \in Nat
    PROVE  ((y % Power(b)[m]) \div Power(b)[k]) % b = (y \div Power(b)[k]) % b
<1> DEFINE p == Power(b)
           d == p[k]
           h == p[m - k - 1]
           q == y \div p[m]
           r == y % p[m]
           i == r \div d
           j == r % d
<1>1. m \in Nat /\ k \in Nat /\ m - k - 1 \in Nat /\ m - k \in Nat /\ (m - k - 1) + 1 = m - k /\ (m - k) + k = m
    OBVIOUS
<1>2. d \in Nat \ {0} /\ h \in Nat \ {0} /\ p[m] \in Nat \ {0} /\ d \in Nat /\ h \in Nat /\ b \in Nat
    BY <1>1, PowerPositive
<1>3. p[m] = (b * h) * d
  <2>1. p[m - k] = b * h
      BY <1>1, PowerUnfolds
  <2>2. p[(m - k) + k] = p[m - k] * d
      BY <1>1, PowerOfSum
  <2> QED BY <1>1, <2>1, <2>2
<1> HIDE DEF d, h
<1>4. q \in Nat /\ r \in 0 .. p[m] - 1 /\ y = q * p[m] + r /\ r \in Nat
  <2>1. y \in Int
      OBVIOUS
  <2> HIDE DEF p
  <2>2. r \in 0 .. p[m] - 1 /\ y = q * p[m] + r
      BY <1>2, <2>1, Division, Zenon
  <2>3. q \in Nat
      BY <1>2, QuotientBounds
  <2> QED BY <2>2, <2>3
<1> HIDE DEF p, q, r
<1>5. i \in Nat /\ j \in 0 .. d - 1 /\ r = i * d + j /\ i \in Int
  <2>1. r \in Int
      BY <1>4
  <2>2. j \in 0 .. d - 1 /\ r = i * d + j
      BY <1>2, <2>1, Division, Zenon
  <2>3. i \in Nat
      BY <1>2, <1>4, QuotientBounds
  <2> QED BY <2>2, <2>3
<1> HIDE DEF i, j
<1> DEFINE c == q * h
<1>6. c \in Int /\ i + c * b \in Int /\ y = (i + c * b) * d + j
  <2>1. c \in Nat /\ c * b \in Nat
      BY <1>2, <1>4, SMT
  <2>2. q * ((b * h) * d) = (c * b) * d
    <3>1. \A x1, x2, x3, x4 \in Nat : x1 * ((x2 * x3) * x4) = ((x1 * x3) * x2) * x4
        BY SMT
    <3> QED BY <1>2, <1>4, <3>1
  <2>3. (i + c * b) * d = i * d + (c * b) * d /\ i * d \in Nat /\ (c * b) * d \in Nat
    <3> DEFINE e == c * b
    <3>1. e \in Nat
        BY <2>1
    <3> HIDE DEF e
    <3>2. (i + e) * d = i * d + e * d /\ i * d \in Nat /\ e * d \in Nat
        BY <1>2, <1>5, <3>1, SMT
    <3> QED BY <3>2 DEF e
  <2>4. y = (c * b) * d + (i * d + j)
      BY <1>3, <1>4, <1>5, <2>2
  <2> HIDE DEF c
  <2>5. (c * b) * d + (i * d + j) = (i * d + (c * b) * d) + j
    <3>1. \A x1, x2, x3 \in Nat : x1 + (x2 + x3) = (x2 + x1) + x3
        OBVIOUS
    <3>2. j \in Nat
        BY <1>2, <1>5
    <3> QED BY <2>3, <3>1, <3>2
  <2> QED BY <1>5, <2>1, <2>3, <2>4, <2>5
<1> HIDE DEF c
<1>7. y \div d = i + c * b
  <2> DEFINE z == i + c * b
  <2>1. z \in Int /\ y = z * d + j
      BY <1>6
  <2> HIDE DEF z
  <2>2. y \div d = z
      BY <1>2, <1>5, <2>1, QuotientUnique
  <2> QED BY <2>2 DEF z
<1>8. (i + c * b) % b = i % b
    BY <1>5, <1>6, SameShift DEF Same
<1> QED BY <1>7, <1>8 DEF i, r, d, p

(* The bytes taken from the limbs write the number the limbs write.        *)
LEMMA ByteIs ==
    ASSUME NEW binsz \in Nat \ {0}, NEW outi \in Seq(Digits(LimbSize)), Len(outi) = outisz(binsz),
           NEW e \in 0 .. binsz - 1
    PROVE  (outi[Len(outi) - e \div LimbBytes] \div Power(BYTE)[e % LimbBytes]) % BYTE
               = (Value(outi, LimbSize) \div Power(BYTE)[e]) % BYTE
<1> DEFINE m == outisz(binsz)
           l == LimbBytes
           p == Power(BYTE)
           x == Value(outi, LimbSize)
           r == e \div l
           t == e % l
           y == x \div Power(LimbSize)[r]
<1>1. m \in Nat \ {0} /\ l \in Nat \ {0} /\ l \in Nat /\ binsz <= l * m /\ l * m \in Nat
  <2>1. outisz(binsz) \in Nat \ {0} /\ bytesleft(binsz) \in Nat /\ LimbBytes \in Nat \ {0}
      BY LimbsOfBytes, Bases
  <2>2. LimbBytes * (outisz(binsz) - 1) = LimbBytes * outisz(binsz) - LimbBytes /\ LimbBytes * outisz(binsz) \in Nat
      BY <2>1, SMT
  <2>3. IF bytesleft(binsz) = 0 THEN binsz = LimbBytes * outisz(binsz)
        ELSE bytesleft(binsz) < LimbBytes /\ binsz = LimbBytes * (outisz(binsz) - 1) + bytesleft(binsz)
      BY LimbsOfBytes
  <2> QED BY <2>1, <2>2, <2>3
<1>2. x \in Nat
    BY LimbsHold, ValueBelow
<1>3. e \in Nat /\ e \in Int /\ e < binsz
    OBVIOUS
<1> HIDE DEF m, l, p, x
<1>4. r \in Nat /\ t \in 0 .. l - 1 /\ e = r * l + t /\ t \in Nat
  <2>1. t \in 0 .. l - 1 /\ e = r * l + t
      BY <1>1, <1>3, Division, Zenon
  <2>2. r \in Nat
      BY <1>1, <1>3, QuotientBounds
  <2> QED BY <1>1, <2>1, <2>2
<1> HIDE DEF r, t, y
<1>5. r < m
  <2>1. ASSUME r >= m PROVE r * l >= l * m
      BY <1>1, <1>4, <2>1, SMT
  <2>2. r * l \in Nat
      BY <1>1, <1>4, SMT
  <2> QED BY <1>1, <1>3, <1>4, <2>1, <2>2
<1>6. m - r \in 1 .. m /\ m - (m - r) = r
    BY <1>1, <1>4, <1>5
<1>7. outi[m - r] = y % p[l]
  <2>1. outi[m - r] = (x \div Power(LimbSize)[m - (m - r)]) % LimbSize
    <3>1. m - r \in 1 .. Len(outi) /\ m = Len(outi)
        BY <1>6 DEF m
    <3> QED BY <3>1, LimbsHold, DigitOf DEF x
  <2> QED BY <1>6, <2>1 DEF y, p, l, LimbSize
<1>8. y \in Nat
  <2>1. Power(LimbSize)[r] \in Nat \ {0}
      BY <1>4, LimbsHold
  <2> QED BY <1>2, <2>1, QuotientBounds DEF y
<1>9. ((y % p[l]) \div p[t]) % BYTE = (y \div p[t]) % BYTE
    BY <1>1, <1>4, <1>8, Bases, DigitOfResidue DEF p
<1>10. y \div p[t] = x \div p[e]
  <2> DEFINE h == Power(LimbSize)[r]
             g == l * r
  <2>1. h \in Nat \ {0} /\ h = p[g] /\ p[t] \in Nat \ {0}
      BY <1>4, LimbsHold, Bases, PowerPositive DEF p, l
  <2>2. g \in Nat /\ g + t = e
    <3>1. l * r = r * l /\ l * r \in Nat
        BY <1>1, <1>4, SMT
    <3> QED BY <1>4, <3>1
  <2>3. y = x \div h
      BY DEF y
  <2> HIDE DEF h, g
  <2>4. (x \div h) \div p[t] = x \div (h * p[t])
      BY <1>2, <2>1, DivideTwice
  <2>5. p[g + t] = p[g] * p[t]
      BY <1>4, <2>2, Bases, PowerOfSum DEF p
  <2> QED BY <2>1, <2>2, <2>3, <2>4, <2>5
<1>11. (outi[m - r] \div p[t]) % BYTE = (x \div p[e]) % BYTE
    BY <1>7, <1>9, <1>10
<1> QED BY <1>11 DEF m, r, t, l, p, x

LEMMA BytesAre ==
    ASSUME NEW binsz \in Nat \ {0}, NEW outi \in Seq(Digits(LimbSize)), Len(outi) = outisz(binsz),
           Value(outi, LimbSize) < Power(BYTE)[binsz]
    PROVE  /\ Bytes(binsz, outi) \in Seq(Digits(BYTE)) /\ Len(Bytes(binsz, outi)) = binsz
           /\ Value(Bytes(binsz, outi), BYTE) = Value(outi, LimbSize)
<1> DEFINE bytes == Bytes(binsz, outi)
           x == Value(outi, LimbSize)
           p == Power(BYTE)
<1>1. x \in Nat
    BY LimbsHold, ValueBelow
<1>2. /\ bytes = [n \in 1 .. binsz |-> bytes[n]]
      /\ \A n \in 1 .. binsz : bytes[n] = (x \div p[binsz - n]) % BYTE
  <2>1. bytes = [n \in 1 .. binsz |->
                    (outi[Len(outi) - (binsz - n) \div LimbBytes] \div Power(BYTE)[(binsz - n) % LimbBytes]) % BYTE]
      BY DEF Bytes
  <2> DEFINE f(n) == (outi[Len(outi) - (binsz - n) \div LimbBytes] \div Power(BYTE)[(binsz - n) % LimbBytes]) % BYTE
  <2>2. \A n \in 1 .. binsz : f(n) = (x \div p[binsz - n]) % BYTE
    <3> TAKE n \in 1 .. binsz
    <3> DEFINE e == binsz - n
    <3>1. e \in 0 .. binsz - 1
        OBVIOUS
    <3> HIDE DEF e, x, p
    <3>2. (outi[Len(outi) - e \div LimbBytes] \div Power(BYTE)[e % LimbBytes]) % BYTE
               = (Value(outi, LimbSize) \div Power(BYTE)[e]) % BYTE
        BY <3>1, ByteIs
    <3> QED BY <3>2 DEF e, x, p
  <2>3. bytes = [n \in 1 .. binsz |-> f(n)]
      BY <2>1
  <2> HIDE DEF f, bytes, x, p
  <2> QED BY <2>2, <2>3
<1>3. x < p[binsz]
    OBVIOUS
<1> HIDE DEF bytes, x, p
<1>4. \A n \in 1 .. binsz : bytes[n] \in Nat
  <2> TAKE n \in 1 .. binsz
  <2> DEFINE y == x \div p[binsz - n]
  <2>1. y \in Int
    <3>1. binsz - n \in Nat
        OBVIOUS
    <3>2. p[binsz - n] \in Nat \ {0}
        BY <3>1, Bases, PowerPositive DEF p
    <3>3. y \in Nat
        BY <1>1, <3>2, QuotientBounds, Zenon
    <3> QED BY <3>3
  <2>2. bytes[n] = y % BYTE
      BY <1>2
  <2> HIDE DEF y
  <2>3. y % BYTE \in 0 .. BYTE - 1
      BY <2>1, Bases, Division, Zenon
  <2> QED BY <2>2, <2>3, Bases
<1>5. bytes \in Seq(Nat) /\ Len(bytes) = binsz
  <2>1. bytes \in [1 .. binsz -> Nat]
      BY <1>2, <1>4
  <2> QED BY <2>1, StringIs
<1>6. bytes \in Seq(Digits(BYTE)) /\ Value(bytes, BYTE) = x
    BY <1>1, <1>2, <1>3, <1>5, Bases, DigitsWrite DEF p
<1> QED BY <1>5, <1>6 DEF bytes, x

(* The limbs of the first k characters of a text.                          *)
Fits(binsz, s, k) ==
    (\A i \in 1 .. k : s[i] < BASE) /\ Values(s, BASE)[k] < Power(BYTE)[binsz]
Held(binsz, s, k, outi) ==
    IF Fits(binsz, s, k)
    THEN /\ outi \in Seq(Digits(LimbSize)) /\ Len(outi) = outisz(binsz)
         /\ Value(outi, LimbSize) = Values(s, BASE)[k]
    ELSE outi = Fail

LimbsStep(binsz, outi, c) ==
    IF outi = Fail \/ c = BASE THEN Fail
    ELSE IF TooBig(MultiplyAdd(outi, c), binsz) THEN Fail ELSE MultiplyAdd(outi, c).outi

LEMMA LimbsUnfold ==
    ASSUME NEW binsz, NEW s \in Seq(Nat)
    PROVE  /\ Limbs(binsz, s)[0] = Zeros(outisz(binsz))
           /\ \A k \in 1 .. Len(s) : Limbs(binsz, s)[k] = LimbsStep(binsz, Limbs(binsz, s)[k - 1], s[k])
<1> DEFINE f == Limbs(binsz, s)
           start == Zeros(outisz(binsz))
           Def(outi, k) == LimbsStep(binsz, outi, s[k])
           m == Len(s)
<1>1. m \in Nat /\ 0 \in Nat
    BY LenProperties
<1>2. FiniteNatInductiveDefHypothesis(f, start, Def, 0, m)
    BY DEF FiniteNatInductiveDefHypothesis, Limbs, LimbsStep
<1> HIDE DEF f, start, m
<1>3. FiniteNatInductiveDefConclusion(f, start, Def, 0, m)
    BY <1>1, <1>2, FiniteNatInductiveDef
<1>4. f = [k \in 0 .. m |-> IF k = 0 THEN start ELSE Def(f[k - 1], k)]
    BY <1>3 DEF FiniteNatInductiveDefConclusion
<1>5. 0 \in 0 .. m /\ \A k \in 1 .. m : k \in 0 .. m /\ k # 0
    BY <1>1
<1>6. f[0] = start /\ \A k \in 1 .. m : f[k] = Def(f[k - 1], k)
    BY <1>4, <1>5
<1> QED BY <1>6 DEF f, start, m

LEMMA DigitsAreNotFail ==
    ASSUME NEW s \in Seq(Nat)
    PROVE  s # Fail
<1>1. SUFFICES ASSUME s = Fail PROVE FALSE
    OBVIOUS
<1>2. Len(s) = 1 /\ s[1] = -1
    BY <1>1 DEF Fail
<1>3. s[1] \in Nat
    BY <1>2, ElementOfSeq
<1> QED BY <1>2, <1>3

LEMMA TextIs ==
    ASSUME NEW s \in Seq(0 .. BASE)
    PROVE  s \in Seq(Nat) /\ Len(s) \in Nat /\ \A k \in 1 .. Len(s) : s[k] \in 0 .. BASE
<1>1. \A i \in 0 .. BASE : i \in Nat
    OBVIOUS
<1>2. s \in [1 .. Len(s) -> 0 .. BASE] /\ Len(s) \in Nat
    BY LenProperties
<1>3. \A k \in 1 .. Len(s) : s[k] \in 0 .. BASE
    BY <1>2
<1>4. s \in [1 .. Len(s) -> Nat]
    BY <1>1, <1>2
<1>5. s \in Seq(Nat)
    BY <1>2, <1>4, StringIs
<1> QED BY <1>2, <1>3, <1>5

(* One more character.                                                     *)
LEMMA LimbsStepHeld ==
    ASSUME NEW binsz \in Nat \ {0}, NEW s \in Seq(0 .. BASE), NEW k \in 1 .. Len(s), NEW outi,
           Held(binsz, s, k - 1, outi)
    PROVE  Held(binsz, s, k, LimbsStep(binsz, outi, s[k]))
<1> DEFINE v == Values(s, BASE)
           c == s[k]
           e == Power(BYTE)[binsz]
           m == outisz(binsz)
           next == MultiplyAdd(outi, c)
           p == Power(LimbSize)[m]
<1>1. /\ k \in Nat /\ k - 1 \in Nat /\ c \in 0 .. BASE /\ c \in Nat /\ s \in Seq(Nat)
      /\ \A i \in 1 .. k : i \in 1 .. k - 1 \/ i = k
      /\ \A i \in 1 .. k - 1 : i \in 1 .. k
      /\ k \in 1 .. k
  <2>1. k \in Nat /\ k - 1 \in Nat /\ k \in 1 .. k
      BY TextIs
  <2>2. c \in 0 .. BASE /\ c \in Nat /\ s \in Seq(Nat)
      BY TextIs
  <2> HIDE DEF c
  <2> QED BY <2>1, <2>2
<1>2. v[k - 1] \in Nat /\ v[k] \in Nat /\ v[k] = v[k - 1] * BASE + c
  <2>1. k \in 0 .. Len(s)
      BY LenProperties
  <2> QED BY <1>1, <2>1, Bases, ValuesAre
<1>3. e \in Nat
    BY Bases, PowerPositive
<1>4. Fits(binsz, s, k) <=> (\A i \in 1 .. k - 1 : s[i] < BASE) /\ c < BASE /\ v[k] < e
    BY <1>1 DEF Fits
<1>5. Fits(binsz, s, k - 1) <=> (\A i \in 1 .. k - 1 : s[i] < BASE) /\ v[k - 1] < e
    BY DEF Fits
<1>6. v[k] >= v[k - 1]
  <2>1. \A x \in Nat : x * BASE >= x /\ x * BASE \in Nat
      BY Bases, SMT
  <2> DEFINE x == v[k - 1]
  <2>2. x \in Nat /\ v[k] = x * BASE + c
      BY <1>2
  <2> HIDE DEF x
  <2> DEFINE y == x * BASE
  <2>3. y \in Nat /\ y >= x /\ v[k] = y + c
      BY <2>1, <2>2
  <2> HIDE DEF y, v, c
  <2>4. v[k] >= x
      BY <1>1, <2>2, <2>3
  <2> QED BY <2>4 DEF x
<1> HIDE DEF v, c, e, m, p
<1>7. CASE ~Fits(binsz, s, k - 1)
  <2>1. ~Fits(binsz, s, k)
      BY <1>2, <1>3, <1>4, <1>5, <1>6, <1>7
  <2>2. outi = Fail
      BY <1>7 DEF Held
  <2>3. LimbsStep(binsz, outi, s[k]) = Fail
      BY <2>2 DEF LimbsStep
  <2> QED BY <2>1, <2>3 DEF Held
<1>8. CASE Fits(binsz, s, k - 1) /\ c = BASE
  <2>1. ~Fits(binsz, s, k)
      BY <1>4, <1>8, Bases
  <2>2. LimbsStep(binsz, outi, s[k]) = Fail
      BY <1>8 DEF LimbsStep, c
  <2> QED BY <2>1, <2>2 DEF Held
<1>9. CASE Fits(binsz, s, k - 1) /\ c # BASE
  <2>1. /\ outi \in Seq(Digits(LimbSize)) /\ Len(outi) = m
        /\ Value(outi, LimbSize) = v[k - 1]
      BY <1>9 DEF Held, m, v
  <2>2. c < BASE
      BY <1>1, <1>9, Bases
  <2> HIDE DEF next
  <2>3. /\ next.outi \in Seq(Digits(LimbSize)) /\ Len(next.outi) = m /\ next.carry \in Nat
        /\ v[k] = next.carry * p + Value(next.outi, LimbSize)
    <3>1. /\ next.outi \in Seq(Digits(LimbSize)) /\ Len(next.outi) = Len(outi) /\ next.carry \in Nat
          /\ Value(outi, LimbSize) * BASE + c
                 = next.carry * Power(LimbSize)[Len(outi)] + Value(next.outi, LimbSize)
        BY <1>1, <2>1, MultiplyAddIs DEF next
    <3> QED BY <1>2, <2>1, <3>1 DEF p
  <2>4. TooBig(next, binsz) <=> v[k] >= e
    <3>1. TooBig(next, binsz) <=> next.carry * Power(LimbSize)[outisz(binsz)] + Value(next.outi, LimbSize) >= Power(BYTE)[binsz]
        BY <2>3, TooBigIs DEF m
    <3> QED BY <2>3, <3>1 DEF p, m, e
  <2>5. outi # Fail
    <3>1. outi \in Seq(Nat)
        BY <2>1, LimbsHold, DigitsAre
    <3> QED BY <3>1, DigitsAreNotFail
  <2>6. LimbsStep(binsz, outi, s[k]) = IF TooBig(next, binsz) THEN Fail ELSE next.outi
      BY <1>9, <2>5 DEF LimbsStep, next, c
  <2>7. Fits(binsz, s, k) <=> ~TooBig(next, binsz)
      BY <1>2, <1>3, <1>4, <1>5, <1>9, <2>2, <2>4
  <2>8. ASSUME ~TooBig(next, binsz) PROVE Value(next.outi, LimbSize) = v[k]
    <3>1. next.carry = 0
        BY <2>8 DEF TooBig
    <3>2. p \in Nat
      <4>1. m \in Nat
          BY LimbsOfBytes DEF m
      <4> QED BY <4>1, LimbsHold DEF p
    <3>3. 0 * p = 0
        BY <3>2
    <3>4. Value(next.outi, LimbSize) \in Nat
        BY <2>3, LimbsHold, ValueBelow
    <3> QED BY <2>3, <3>1, <3>3, <3>4
  <2> QED BY <2>3, <2>6, <2>7, <2>8 DEF Held, m, v
<1> QED BY <1>7, <1>8, <1>9

LEMMA LimbsAre ==
    ASSUME NEW binsz \in Nat \ {0}, NEW s \in Seq(0 .. BASE)
    PROVE  Held(binsz, s, Len(s), Limbs(binsz, s)[Len(s)])
<1> DEFINE f == Limbs(binsz, s)
           n == Len(s)
           m == outisz(binsz)
           reached == {k \in 0 .. n : Held(binsz, s, k, f[k])}
<1>1. n \in Nat /\ s \in Seq(Nat) /\ m \in Nat
  <2>1. s \in Seq(Nat) /\ n \in Nat
      BY TextIs
  <2> QED BY <2>1, LimbsOfBytes
<1>2. f[0] = Zeros(m) /\ \A k \in 1 .. n : f[k] = LimbsStep(binsz, f[k - 1], s[k])
    BY <1>1, LimbsUnfold
<1>3. 0 \in reached
  <2> DEFINE z == Zeros(m)
  <2>1. z \in Seq(Digits(LimbSize)) /\ z \in Seq(Nat) /\ Len(z) = m /\ \A k \in 1 .. m : z[k] = 0
    <3>1. 0 \in Digits(LimbSize) /\ 0 \in Nat
        BY LimbsHold DEF Digits
    <3> QED BY <1>1, <3>1, ZerosIs
  <2> HIDE DEF z, f, m
  <2>2. Value(z, LimbSize) = 0
    <3>1. Values(z, LimbSize)[m] = 0
        BY <1>1, <2>1, LimbsHold, ZerosAreNothing
    <3> QED BY <2>1, <3>1, LimbsHold, ValuesAre
  <2>3. Values(s, BASE)[0] = 0
      BY <1>1, Bases, ValuesAre
  <2>4. Held(binsz, s, 0, z)
    <3>1. Power(BYTE)[binsz] \in Nat \ {0}
        BY Bases, PowerPositive
    <3>2. Values(s, BASE)[0] < Power(BYTE)[binsz]
        BY <2>3, <3>1
    <3>3. Fits(binsz, s, 0)
        BY <3>2 DEF Fits
    <3> QED BY <2>1, <2>2, <2>3, <3>3 DEF Held, m
  <2>5. f[0] = z /\ 0 \in 0 .. n
      BY <1>1, <1>2 DEF z
  <2> QED BY <2>4, <2>5
<1>4. ASSUME NEW k \in 0 .. n - 1, k \in reached PROVE k + 1 \in reached
  <2>1. k + 1 \in 1 .. n /\ (k + 1) - 1 = k /\ k + 1 \in 0 .. n
      BY <1>1
  <2>2. Held(binsz, s, (k + 1) - 1, f[k])
      BY <1>4, <2>1
  <2> HIDE DEF f
  <2>3. Held(binsz, s, k + 1, LimbsStep(binsz, f[k], s[k + 1]))
      BY <2>1, <2>2, LimbsStepHeld
  <2>4. f[k + 1] = LimbsStep(binsz, f[k], s[k + 1])
      BY <1>2, <2>1
  <2> QED BY <2>1, <2>3, <2>4
<1> HIDE DEF reached
<1>5. 0 .. n \subseteq reached
    BY <1>1, <1>3, <1>4, InductionTo
<1>6. n \in reached
    BY <1>1, <1>5
<1> QED BY <1>6 DEF reached, f, n

(* b58_decode, whatever is in the buffer.                                  *)
LEMMA DecodeIs ==
    ASSUME NEW bin \in Seq(Digits(BYTE)), Len(bin) # 0, NEW s \in Seq(0 .. BASE)
    PROVE  /\ b58_decode(bin, s).ok <=>
                  (\A n \in DOMAIN s : s[n] < BASE) /\ Value(s, BASE) < Power(BYTE)[Len(bin)]
           /\ b58_decode(bin, s).ok => /\ b58_decode(bin, s).bin \in Seq(Digits(BYTE))
                                       /\ Len(b58_decode(bin, s).bin) = Len(bin)
                                       /\ Value(b58_decode(bin, s).bin, BYTE) = Value(s, BASE)
           /\ ~b58_decode(bin, s).ok => b58_decode(bin, s).bin = bin
<1> DEFINE n == Len(bin)
           outi == Limbs(n, s)[Len(s)]
           result == b58_decode(bin, s)
<1>1. n \in Nat \ {0}
    BY LenProperties
<1> HIDE DEF n
<1>2. Held(n, s, Len(s), outi)
    BY <1>1, LimbsAre
<1>3. Fits(n, s, Len(s)) <=> (\A i \in DOMAIN s : s[i] < BASE) /\ Value(s, BASE) < Power(BYTE)[n]
  <2>1. DOMAIN s = 1 .. Len(s)
      BY LenProperties
  <2> QED BY <2>1 DEF Fits, Value
<1> HIDE DEF outi
<1>4. CASE ~Fits(n, s, Len(s))
  <2>1. outi = Fail
      BY <1>2, <1>4 DEF Held
  <2>2. ~result.ok /\ result.bin = bin
      BY <2>1 DEF b58_decode, outi, n
  <2> HIDE DEF result
  <2> QED BY <1>3, <1>4, <2>2 DEF result, n
<1>5. CASE Fits(n, s, Len(s))
  <2>1. outi \in Seq(Digits(LimbSize)) /\ Len(outi) = outisz(n) /\ Value(outi, LimbSize) = Value(s, BASE)
      BY <1>2, <1>5 DEF Held, Value
  <2>2. outi # Fail
    <3>1. outi \in Seq(Nat)
        BY <2>1, LimbsHold, DigitsAre
    <3> QED BY <3>1, DigitsAreNotFail
  <2>3. result.ok /\ result.bin = Bytes(n, outi)
      BY <2>2 DEF b58_decode, outi, n
  <2>4. Value(outi, LimbSize) < Power(BYTE)[n]
      BY <1>3, <1>5, <2>1
  <2> HIDE DEF result
  <2>5. result.bin \in Seq(Digits(BYTE)) /\ Len(result.bin) = n /\ Value(result.bin, BYTE) = Value(s, BASE)
      BY <1>1, <2>1, <2>3, <2>4, BytesAre
  <2> QED BY <1>3, <1>5, <2>3, <2>5 DEF result, n
<1> QED BY <1>4, <1>5

----------------------------------------------------------------------------
(* The bytes of an address.                                                *)
LEMMA ReverseIs ==
    ASSUME NEW S, NEW s \in Seq(S)
    PROVE  /\ Reverse(s) \in Seq(S) /\ Len(Reverse(s)) = Len(s)
           /\ \A j \in 1 .. Len(s) : Reverse(s)[j] = s[Len(s) - j + 1] /\ Len(s) - j + 1 \in 1 .. Len(s)
           /\ Reverse(Reverse(s)) = s
<1> DEFINE n == Len(s)
           t == Reverse(s)
<1>1. n \in Nat /\ \A j \in 1 .. n : s[j] \in S
    BY LenProperties, ElementOfSeq
<1>2. \A j \in 1 .. n : n - j + 1 \in 1 .. n /\ n - (n - j + 1) + 1 = j /\ (n - j) + 1 \in 1 .. n
    BY <1>1
<1>3. t = [j \in 1 .. n |-> s[(n - j) + 1]]
    BY DEF Reverse
<1> HIDE DEF n, t
<1>4. t \in [1 .. n -> S]
    BY <1>1, <1>2, <1>3
<1>5. t \in Seq(S) /\ Len(t) = n
    BY <1>1, <1>4, StringIs
<1>6. \A j \in 1 .. n : t[j] = s[n - j + 1]
    BY <1>2, <1>3
<1>7. Reverse(t) = s
  <2>1. Reverse(t) = [j \in 1 .. n |-> t[(n - j) + 1]]
      BY <1>5 DEF Reverse
  <2>2. \A j \in 1 .. n : t[(n - j) + 1] = s[j]
      BY <1>2, <1>6
  <2>3. s = [j \in 1 .. n |-> s[j]]
      BY LenProperties DEF n
  <2> QED BY <2>1, <2>2, <2>3
<1> QED BY <1>2, <1>5, <1>6, <1>7 DEF n, t

(* The bytes of the x-coordinate in an address.                            *)
XBytes(raw) == SubSeq(payload(raw), 3, PayloadBytes - 1)

LEMMA Sizes ==
    /\ FIELD_BYTES \in Nat \ {0} /\ FIELD_BYTES \in Nat /\ CHECKSUM_BYTES \in Nat \ {0} /\ CHECKSUM_BYTES \in Nat
    /\ PayloadBytes = FIELD_BYTES + 3 /\ PayloadBytes \in Nat
    /\ RawBytes = FIELD_BYTES + 4 + CHECKSUM_BYTES /\ RawBytes \in Nat \ {0} /\ RawBytes \in Nat
    /\ MINA_ADDRESS_LEN \in Nat \ {0, 1}
    BY SizesAssumption DEF PayloadBytes, RawBytes

LEMMA RawLayout ==
    ASSUME NEW raw \in Seq(Digits(BYTE)), Len(raw) = RawBytes
    PROVE  /\ Summed(raw) \in Seq(Digits(BYTE)) /\ IsSlice(Summed(raw), raw, 0, 1 + PayloadBytes)
           /\ checksum(raw) \in Seq(Digits(BYTE)) /\ IsSlice(checksum(raw), raw, 1 + PayloadBytes, CHECKSUM_BYTES)
           /\ payload(raw) \in Seq(Digits(BYTE)) /\ IsSlice(payload(raw), raw, 1, PayloadBytes)
           /\ XBytes(raw) \in Seq(Digits(BYTE)) /\ IsSlice(XBytes(raw), raw, 3, FIELD_BYTES)
           /\ IsSlice(SubSeq(raw, 1, 3), raw, 0, 3) /\ SubSeq(raw, 1, 3) \in Seq(Digits(BYTE))
<1> DEFINE f == FIELD_BYTES
           c == CHECKSUM_BYTES
           D == Digits(BYTE)
           y == payload(raw)
<1>1. /\ f \in Nat /\ c \in Nat /\ PayloadBytes = f + 3 /\ RawBytes = f + 4 + c
      /\ 0 \in Nat /\ 1 \in Nat /\ 2 \in Nat /\ 3 \in Nat /\ f + 4 \in Nat /\ f + 3 \in Nat
      /\ 0 + (f + 4) <= RawBytes /\ (f + 4) + c <= RawBytes /\ 1 + (f + 3) <= RawBytes /\ 0 + 3 <= RawBytes
      /\ 2 + f <= f + 3
    BY Sizes
<1>2. /\ 0 + 1 = 1 /\ 0 + (f + 4) = 1 + PayloadBytes /\ f + 4 = 1 + PayloadBytes
      /\ (f + 4) + 1 = 2 + PayloadBytes /\ (f + 4) + c = RawBytes
      /\ 1 + 1 = 2 /\ 1 + (f + 3) = 1 + PayloadBytes /\ 2 + 1 = 3 /\ 2 + f = PayloadBytes - 1 /\ 0 + 3 = 3
    BY <1>1
<1> HIDE DEF f, c, D, y
<1>3. SubSeq(raw, 0 + 1, 0 + (f + 4)) \in Seq(D) /\ IsSlice(SubSeq(raw, 0 + 1, 0 + (f + 4)), raw, 0, f + 4)
    BY <1>1, Slice DEF D
<1>4. SubSeq(raw, (f + 4) + 1, (f + 4) + c) \in Seq(D) /\ IsSlice(SubSeq(raw, (f + 4) + 1, (f + 4) + c), raw, f + 4, c)
    BY <1>1, Slice DEF D
<1>5. SubSeq(raw, 1 + 1, 1 + (f + 3)) \in Seq(D) /\ IsSlice(SubSeq(raw, 1 + 1, 1 + (f + 3)), raw, 1, f + 3)
    BY <1>1, Slice DEF D
<1>6. SubSeq(raw, 0 + 1, 0 + 3) \in Seq(D) /\ IsSlice(SubSeq(raw, 0 + 1, 0 + 3), raw, 0, 3)
    BY <1>1, Slice DEF D
<1>7. Summed(raw) \in Seq(D) /\ IsSlice(Summed(raw), raw, 0, 1 + PayloadBytes)
    BY <1>2, <1>3, Zenon DEF Summed
<1>8. checksum(raw) \in Seq(D) /\ IsSlice(checksum(raw), raw, 1 + PayloadBytes, c)
    BY <1>2, <1>4, Zenon DEF checksum
<1>9. y \in Seq(D) /\ IsSlice(y, raw, 1, PayloadBytes)
    BY <1>1, <1>2, <1>5, Zenon DEF payload, y
<1>10. SubSeq(raw, 1, 3) \in Seq(D) /\ IsSlice(SubSeq(raw, 1, 3), raw, 0, 3)
    BY <1>2, <1>6, Zenon
<1>11. XBytes(raw) \in Seq(D) /\ IsSlice(XBytes(raw), raw, 3, f)
  <2>1. Len(y) = f + 3 /\ \A j \in 1 .. f + 3 : y[j] = raw[1 + j]
      BY <1>1, <1>9 DEF IsSlice
  <2>2. SubSeq(y, 2 + 1, 2 + f) \in Seq(D) /\ IsSlice(SubSeq(y, 2 + 1, 2 + f), y, 2, f)
      BY <1>1, <1>9, <2>1, Slice
  <2>3. XBytes(raw) = SubSeq(y, 2 + 1, 2 + f)
      BY <1>2 DEF XBytes, y
  <2>4. \A j \in 1 .. f : y[2 + j] = raw[3 + j]
    <3> TAKE j \in 1 .. f
    <3>1. 2 + j \in 1 .. f + 3 /\ 1 + (2 + j) = 3 + j
        BY <1>1
    <3> QED BY <2>1, <3>1
  <2> HIDE DEF y
  <2> QED BY <2>2, <2>3, <2>4 DEF IsSlice
<1> QED BY <1>7, <1>8, <1>9, <1>10, <1>11 DEF f, c, D, y

(* What generate_address encodes.                                          *)
SummedOf(pub_key) == <<VERSION, 1, 1>> \o Reverse(pub_key.x) \o <<IF pub_key.is_odd THEN 1 ELSE 0>>
RawOf(pub_key)    == SummedOf(pub_key) \o Checksum(SummedOf(pub_key))

IsKey(pub_key) ==
    /\ pub_key.x \in Seq(Digits(BYTE)) /\ Len(pub_key.x) = FIELD_BYTES /\ pub_key.is_odd \in BOOLEAN
    /\ pub_key = [x |-> pub_key.x, is_odd |-> pub_key.is_odd]

LEMMA KeysAreKeys ==
    ASSUME NEW k \in PubKeys
    PROVE  IsKey(k)
<1>1. k \in [x : [1 .. FIELD_BYTES -> 0 .. BYTE - 1], is_odd : BOOLEAN]
    BY BytesAssumption
<1>2. k.x \in [1 .. FIELD_BYTES -> 0 .. BYTE - 1] /\ k.is_odd \in BOOLEAN /\ k = [x |-> k.x, is_odd |-> k.is_odd]
    BY <1>1
<1>3. k.x \in Seq(Digits(BYTE)) /\ Len(k.x) = FIELD_BYTES
    BY <1>2, Sizes, StringIs DEF Digits
<1> QED BY <1>2, <1>3 DEF IsKey

LEMMA ChecksumIs ==
    ASSUME NEW s \in Seq(Digits(BYTE)), Len(s) = 1 + PayloadBytes
    PROVE  Checksum(s) \in Seq(Digits(BYTE)) /\ Len(Checksum(s)) = CHECKSUM_BYTES
<1>1. s \in [1 .. 1 + PayloadBytes -> 0 .. BYTE - 1]
    BY LenProperties DEF Digits
<1>2. Checksum(s) \in [1 .. CHECKSUM_BYTES -> 0 .. BYTE - 1]
    BY <1>1, BytesAssumption
<1> DEFINE t == Checksum(s)
<1>3. t \in [1 .. CHECKSUM_BYTES -> Digits(BYTE)]
    BY <1>2 DEF Digits
<1> HIDE DEF t
<1>4. t \in Seq(Digits(BYTE)) /\ Len(t) = CHECKSUM_BYTES
    BY <1>3, Sizes, StringIs
<1> QED BY <1>4 DEF t

LEMMA SummedOfKey ==
    ASSUME NEW k, IsKey(k)
    PROVE  LET s == SummedOf(k) IN
           /\ s \in Seq(Digits(BYTE)) /\ Len(s) = 1 + PayloadBytes
           /\ s[1] = VERSION /\ s[2] = 1 /\ s[3] = 1
           /\ \A j \in 1 .. FIELD_BYTES : s[3 + j] = Reverse(k.x)[j]
           /\ s[FIELD_BYTES + 4] = IF k.is_odd THEN 1 ELSE 0
<1> DEFINE D == Digits(BYTE)
           parity == IF k.is_odd THEN 1 ELSE 0
           a == <<VERSION, 1, 1>>
           b == Reverse(k.x)
           c == <<parity>>
           f == FIELD_BYTES
           s == SummedOf(k)
<1>1. f \in Nat /\ PayloadBytes = f + 3
    BY Sizes
<1>2. VERSION \in D /\ 0 \in D /\ 1 \in D /\ parity \in D
    BY VersionAssumption, Bases DEF Digits
<1>3. b \in Seq(D) /\ Len(b) = f
    BY ReverseIs DEF IsKey
<1> HIDE DEF D, b, parity
<1>4. a \in Seq(D) /\ Len(a) = 3 /\ a[1] = VERSION /\ a[2] = 1 /\ a[3] = 1
    BY <1>2
<1>5. c \in Seq(D) /\ Len(c) = 1 /\ c[1] = parity
    BY <1>2
<1>6. s = (a \o b) \o c
    BY DEF SummedOf, b, parity
<1> HIDE DEF a, c, s, f
<1> DEFINE t == a \o b
<1>7. t \in Seq(D) /\ IsJoined(t, a, b)
    BY <1>3, <1>4, Joined
<1> HIDE DEF t
<1>8. s \in Seq(D) /\ IsJoined(s, t, c)
    BY <1>5, <1>6, <1>7, Joined DEF t
<1>9. Len(t) = 3 + f /\ t[1] = VERSION /\ t[2] = 1 /\ t[3] = 1 /\ \A j \in 1 .. f : t[3 + j] = b[j]
    BY <1>3, <1>4, <1>7 DEF IsJoined
<1>10. Len(s) = 1 + PayloadBytes /\ s[1] = VERSION /\ s[2] = 1 /\ s[3] = 1
    BY <1>1, <1>5, <1>8, <1>9 DEF IsJoined
<1>11. \A j \in 1 .. f : s[3 + j] = b[j]
  <2> TAKE j \in 1 .. f
  <2>1. 3 + j \in 1 .. Len(t)
      BY <1>1, <1>9
  <2> QED BY <1>8, <1>9, <2>1 DEF IsJoined
<1>12. s[f + 4] = parity
  <2>1. Len(t) + 1 = f + 4 /\ 1 \in 1 .. Len(c)
      BY <1>1, <1>5, <1>9
  <2> QED BY <1>5, <1>8, <2>1 DEF IsJoined
<1> QED BY <1>8, <1>10, <1>11, <1>12 DEF s, D, b, f, parity

LEMMA RawOfKey ==
    ASSUME NEW k, IsKey(k)
    PROVE  LET raw == RawOf(k) IN
           /\ raw \in Seq(Digits(BYTE)) /\ Len(raw) = RawBytes /\ raw[1] = VERSION
           /\ SubSeq(raw, 1, 3) = <<VERSION, 1, 1>>
           /\ IsSummed(raw) /\ Standard(raw)
           /\ Reverse(XBytes(raw)) = k.x /\ (payload(raw)[PayloadBytes] # 0 <=> k.is_odd)
<1> DEFINE D == Digits(BYTE)
           s == SummedOf(k)
           t == Checksum(s)
           raw == s \o t
           f == FIELD_BYTES
           parity == IF k.is_odd THEN 1 ELSE 0
           b == Reverse(k.x)
<1>1. f \in Nat /\ PayloadBytes = f + 3 /\ PayloadBytes \in Nat /\ CHECKSUM_BYTES \in Nat
      /\ RawBytes = 1 + PayloadBytes + CHECKSUM_BYTES
    BY Sizes DEF RawBytes
<1>2. /\ s \in Seq(D) /\ Len(s) = 1 + PayloadBytes
      /\ s[1] = VERSION /\ s[2] = 1 /\ s[3] = 1
      /\ \A j \in 1 .. f : s[3 + j] = b[j]
      /\ s[f + 4] = parity
    BY SummedOfKey
<1>3. b \in Seq(D) /\ Len(b) = f /\ Reverse(b) = k.x
    BY ReverseIs DEF IsKey
<1> HIDE DEF s, f, b, D
<1>4. t \in Seq(D) /\ Len(t) = CHECKSUM_BYTES
    BY <1>2, ChecksumIs DEF D
<1> HIDE DEF t
<1>5. raw \in Seq(D) /\ IsJoined(raw, s, t)
    BY <1>2, <1>4, Joined
<1> HIDE DEF raw, parity
<1>6. /\ Len(raw) = RawBytes /\ \A j \in 1 .. 1 + PayloadBytes : raw[j] = s[j]
      /\ \A j \in 1 .. CHECKSUM_BYTES : raw[1 + PayloadBytes + j] = t[j]
    BY <1>1, <1>2, <1>4, <1>5 DEF IsJoined
<1>7. raw[1] = VERSION /\ raw[2] = 1 /\ raw[3] = 1 /\ (\A j \in 1 .. f : raw[3 + j] = b[j]) /\ raw[f + 4] = parity
  <2>1. \A j \in 1 .. f : 3 + j \in 1 .. 1 + PayloadBytes
      BY <1>1
  <2>2. 1 \in 1 .. 1 + PayloadBytes /\ 2 \in 1 .. 1 + PayloadBytes /\ 3 \in 1 .. 1 + PayloadBytes
        /\ f + 4 \in 1 .. 1 + PayloadBytes
      BY <1>1
  <2> QED BY <1>2, <1>6, <2>1, <2>2
<1>8. /\ Summed(raw) \in Seq(D) /\ IsSlice(Summed(raw), raw, 0, 1 + PayloadBytes)
      /\ checksum(raw) \in Seq(D) /\ IsSlice(checksum(raw), raw, 1 + PayloadBytes, CHECKSUM_BYTES)
      /\ payload(raw) \in Seq(D) /\ IsSlice(payload(raw), raw, 1, PayloadBytes)
      /\ XBytes(raw) \in Seq(D) /\ IsSlice(XBytes(raw), raw, 3, f)
      /\ IsSlice(SubSeq(raw, 1, 3), raw, 0, 3) /\ SubSeq(raw, 1, 3) \in Seq(D)
    BY <1>5, <1>6, RawLayout DEF D, f
<1>9. Summed(raw) = s
  <2>1. Len(Summed(raw)) = 1 + PayloadBytes /\ \A j \in 1 .. 1 + PayloadBytes : Summed(raw)[j] = s[j]
      BY <1>1, <1>6, <1>8 DEF IsSlice
  <2> QED BY <1>2, <1>8, <2>1, SeqEqual
<1>10. checksum(raw) = t
  <2>1. Len(checksum(raw)) = CHECKSUM_BYTES /\ \A j \in 1 .. CHECKSUM_BYTES : checksum(raw)[j] = t[j]
      BY <1>1, <1>6, <1>8 DEF IsSlice
  <2> QED BY <1>4, <1>8, <2>1, SeqEqual
<1>11. SubSeq(raw, 1, 3) = <<VERSION, 1, 1>>
  <2> DEFINE u == SubSeq(raw, 1, 3)
             w == <<VERSION, 1, 1>>
  <2>1. Len(u) = 3 /\ u[1] = VERSION /\ u[2] = 1 /\ u[3] = 1 /\ u \in Seq(D)
      BY <1>7, <1>8 DEF IsSlice
  <2>2. w \in Seq(D) /\ Len(w) = 3 /\ w[1] = VERSION /\ w[2] = 1 /\ w[3] = 1
    <3>1. VERSION \in D /\ 1 \in D
        BY VersionAssumption, Bases DEF D, Digits
    <3> QED BY <3>1
  <2> HIDE DEF u, w
  <2>3. \A j \in 1 .. 3 : u[j] = w[j]
      BY <2>1, <2>2
  <2>4. u = w
      BY <2>1, <2>2, <2>3, SeqEqual
  <2> QED BY <2>4 DEF u, w
<1>12. XBytes(raw) = b
  <2>1. Len(XBytes(raw)) = f /\ \A j \in 1 .. f : XBytes(raw)[j] = b[j]
      BY <1>7, <1>8 DEF IsSlice
  <2> QED BY <1>3, <1>8, <2>1, SeqEqual
<1>13. payload(raw)[PayloadBytes] = parity
  <2>1. PayloadBytes \in 1 .. PayloadBytes /\ 1 + PayloadBytes = f + 4
      BY <1>1
  <2>2. payload(raw)[PayloadBytes] = raw[1 + PayloadBytes]
      BY <1>8, <2>1 DEF IsSlice
  <2> QED BY <1>7, <2>1, <2>2
<1>14. parity \in {0, 1} /\ (parity # 0 <=> k.is_odd)
    BY DEF parity, IsKey
<1>15. IsSummed(raw) /\ Standard(raw)
    BY <1>9, <1>10, <1>11, <1>13, <1>14 DEF IsSummed, Standard, t
<1>16. raw = RawOf(k)
    BY DEF raw, RawOf, s, t
<1> QED BY <1>3, <1>5, <1>6, <1>7, <1>11, <1>12, <1>13, <1>14, <1>15, <1>16 DEF D

(* Behind the version whatever follows has one number of characters.       *)
LEMMA OneLength ==
    ASSUME NEW raw \in Seq(Digits(BYTE)), Len(raw) = RawBytes, raw[1] = VERSION
    PROVE  /\ Characters(raw) \in Seq(Digits(BASE)) /\ Len(Characters(raw)) = MINA_ADDRESS_LEN - 1
           /\ Value(Characters(raw), BASE) = Value(raw, BYTE)
           /\ b58_encode(raw, MINA_ADDRESS_LEN) = Characters(raw)
<1> DEFINE t == Characters(raw)
           n == Len(t)
           x == Value(raw, BYTE)
           h == Power(BYTE)[RawBytes - 1]
           p == Power(BASE)
           max == MINA_ADDRESS_LEN
<1>1. /\ t \in Seq(Digits(BASE)) /\ n \in Nat /\ Value(t, BASE) = x /\ LeadingZeros(t) = LeadingZeros(raw)
      /\ \A m \in Nat : b58_encode(raw, m) = IF m < n THEN Fail ELSE t
    BY EncodeIs
<1>2. max \in Nat /\ max - 2 \in Nat /\ max - 1 \in Nat
    BY Sizes
<1>3. x \in Nat /\ VERSION * h <= x /\ x < (VERSION + 1) * h
  <2>1. raw[1] * Power(BYTE)[Len(raw) - 1] <= Value(raw, BYTE) /\ Value(raw, BYTE) < (raw[1] + 1) * Power(BYTE)[Len(raw) - 1]
      BY Sizes, Bases, FirstDigit
  <2>2. x \in Nat
      BY Bases, ValueBelow
  <2> QED BY <2>1, <2>2
<1>4. VERSION \in Nat \ {0} /\ p[max - 2] <= VERSION * h /\ (VERSION + 1) * h <= p[max - 1]
    BY VersionAssumption, Bases
<1>5. h \in Nat \ {0} /\ \A m \in Nat : p[m] \in Nat \ {0}
  <2>1. RawBytes - 1 \in Nat
      BY Sizes
  <2> QED BY <2>1, Bases, PowerPositive
<1>6. LeadingZeros(raw) = 0
  <2>1. raw \in Seq(Nat) /\ Len(raw) \in Nat
      BY Bases, DigitsAre
  <2>2. 0 \in 0 .. Len(raw) /\ raw[0 + 1] # 0 /\ \A j \in 1 .. 0 : raw[j] = 0
      BY <1>4, <2>1
  <2> QED BY <2>1, <2>2, LeadingZerosAre
<1> HIDE DEF t, x, h, p, max
<1>7. p[max - 2] <= x /\ x < p[max - 1]
  <2>1. VERSION * h \in Nat /\ (VERSION + 1) * h \in Nat
      BY <1>4, <1>5, SMT
  <2> DEFINE i == VERSION * h
             j == (VERSION + 1) * h
  <2>2. i \in Nat /\ j \in Nat /\ i <= x /\ x < j /\ p[max - 2] <= i /\ j <= p[max - 1]
      BY <1>3, <1>4, <2>1
  <2>3. p[max - 2] \in Nat /\ p[max - 1] \in Nat
      BY <1>2, <1>5
  <2> HIDE DEF i, j
  <2> QED BY <1>3, <2>2, <2>3
<1>8. n # 0 /\ t[1] \in Nat \ {0} /\ n - 1 \in Nat
  <2>1. n # 0
    <3>1. SUFFICES ASSUME n = 0 PROVE FALSE
        OBVIOUS
    <3>2. x < p[0]
        BY <1>1, <3>1, Bases, ValueBelow DEF p
    <3>3. p[0] = 1
        BY Bases, PowerUnfolds DEF p
    <3>4. p[max - 2] \in Nat \ {0}
        BY <1>2, <1>5
    <3> QED BY <1>3, <1>7, <3>2, <3>3, <3>4
  <2>2. t \in Seq(Nat) /\ t[1] \in Nat
    <3>1. 1 \in 1 .. n
        BY <1>1, <2>1
    <3> QED BY <1>1, <3>1, Bases, DigitsAre
  <2>3. t[1] # 0
    <3>1. LeadingZeros(t) < n => t[LeadingZeros(t) + 1] # 0
        BY <2>2, LeadingZerosIs
    <3>2. LeadingZeros(t) = 0 /\ 0 < n /\ 0 + 1 = 1
        BY <1>1, <1>6, <2>1
    <3> QED BY <3>1, <3>2
  <2> QED BY <1>1, <2>1, <2>2, <2>3
<1>9. p[n - 1] <= x /\ x < p[n]
  <2>1. t[1] * p[n - 1] <= x
      BY <1>1, <1>8, Bases, FirstDigit DEF p
  <2>2. \A i, j \in Nat \ {0} : i * j >= j /\ i * j \in Nat
      BY SMT
  <2>3. p[n - 1] \in Nat \ {0}
      BY <1>5, <1>8
  <2> DEFINE i == t[1] * p[n - 1]
  <2>4. i \in Nat /\ i >= p[n - 1] /\ i <= x
      BY <1>8, <2>1, <2>2, <2>3
  <2> HIDE DEF i
  <2>5. p[n - 1] <= x
      BY <1>3, <2>3, <2>4
  <2>6. x < p[n]
      BY <1>1, Bases, ValueBelow DEF p
  <2> QED BY <2>5, <2>6
<1>10. n = max - 1
  <2>1. n <= max - 1
    <3>1. SUFFICES ASSUME max - 1 <= n - 1 PROVE FALSE
        BY <1>1, <1>2
    <3>2. p[max - 1] <= p[n - 1]
        BY <1>2, <1>8, <3>1, Bases, PowerGrows DEF p
    <3>3. p[max - 1] \in Nat /\ p[n - 1] \in Nat
        BY <1>2, <1>5, <1>8
    <3> QED BY <1>3, <1>7, <1>9, <3>2, <3>3
  <2>2. n >= max - 1
    <3>1. SUFFICES ASSUME n <= max - 2 PROVE FALSE
        BY <1>1, <1>2
    <3>2. p[n] <= p[max - 2]
        BY <1>1, <1>2, <3>1, Bases, PowerGrows DEF p
    <3>3. p[n] \in Nat /\ p[max - 2] \in Nat
        BY <1>1, <1>2, <1>5
    <3> QED BY <1>3, <1>7, <1>9, <3>2, <3>3
  <2> QED BY <1>1, <1>2, <2>1, <2>2
<1>11. b58_encode(raw, max) = t
  <2>1. ~(max < n)
      BY <1>2, <1>10
  <2> QED BY <1>1, <1>2, <2>1
<1> QED BY <1>1, <1>10, <1>11 DEF t, x, max

(* Whatever bytes are encoded, decoding into as many gives them back, all  *)
(* of them counted, and leaves nothing of what the buffer held: b58_encode *)
(* and b58_decode, one a division of bytes, the other a multiplication of  *)
(* limbs, are inverse.                                                     *)
THEOREM Base58ComesBack ==
    ASSUME NEW in \in Seq(Digits(BYTE)), Len(in) # 0,
           NEW bin \in Seq(Digits(BYTE)), Len(bin) = Len(in)
    PROVE  b58_decode(bin, b58_encode(in, 2 * Len(in))) = [ok |-> TRUE, bin |-> in, binsz |-> Len(in)]
<1> DEFINE t == Characters(in)
           n == Len(in)
           result == b58_decode(bin, t)
<1>1. /\ t \in Seq(Digits(BASE)) /\ Len(t) \in Nat /\ Len(t) <= 2 * n
      /\ Value(t, BASE) = Value(in, BYTE) /\ LeadingZeros(t) = LeadingZeros(in)
      /\ \A m \in Nat : b58_encode(in, m) = IF m < Len(t) THEN Fail ELSE t
    BY EncodeIs
<1>2. n \in Nat /\ in \in Seq(Nat) /\ t \in Seq(0 .. BASE) /\ \A j \in DOMAIN t : t[j] < BASE
  <2>1. t \in Seq(0 .. BASE) /\ \A j \in 1 .. Len(t) : t[j] < BASE
      BY <1>1, Bases, DigitsAre
  <2> QED BY <1>1, <2>1, Bases, DigitsAre, LenProperties
<1>3. Value(in, BYTE) < Power(BYTE)[n]
    BY Bases, ValueBelow
<1> HIDE DEF t
<1>4. b58_encode(in, 2 * n) = t
  <2>1. 2 * n \in Nat /\ ~(2 * n < Len(t))
      BY <1>1, <1>2
  <2> QED BY <1>1, <2>1
<1>5. /\ result.ok <=> (\A j \in DOMAIN t : t[j] < BASE) /\ Value(t, BASE) < Power(BYTE)[Len(bin)]
      /\ result.ok => /\ result.bin \in Seq(Digits(BYTE))
                      /\ Len(result.bin) = Len(bin)
                      /\ Value(result.bin, BYTE) = Value(t, BASE)
    BY <1>2, DecodeIs
<1>6. result.ok => result = [ok |-> TRUE, bin |-> result.bin,
                            binsz |-> Len(result.bin) - LeadingZeros(result.bin) + LeadingZeros(t)]
    BY DEF b58_decode
<1> HIDE DEF result
<1>7. result.ok
    BY <1>1, <1>2, <1>3, <1>5
<1>8. result.bin = in
    BY <1>1, <1>5, <1>7, Bases, SameDigits
<1>9. n - LeadingZeros(in) + LeadingZeros(t) = n
  <2>1. LeadingZeros(in) \in Nat
      BY <1>2, LeadingZerosIs
  <2> QED BY <1>1, <1>2, <2>1
<1> QED BY <1>4, <1>6, <1>7, <1>8, <1>9 DEF result, n

LEMMA DecodesBack ==
    ASSUME NEW raw \in Seq(Digits(BYTE)), Len(raw) = RawBytes,
           NEW bin \in Seq(Digits(BYTE)), Len(bin) = RawBytes
    PROVE  b58_decode(bin, Characters(raw)).ok /\ b58_decode(bin, Characters(raw)).bin = raw
<1>1. Len(raw) # 0 /\ Len(bin) = Len(raw) /\ 2 * Len(raw) \in Nat
    BY Sizes
<1>2. b58_encode(raw, 2 * Len(raw)) = Characters(raw)
  <2>1. /\ Len(Characters(raw)) \in Nat /\ Len(Characters(raw)) <= 2 * Len(raw)
        /\ \A m \in Nat : b58_encode(raw, m) = IF m < Len(Characters(raw)) THEN Fail ELSE Characters(raw)
      BY EncodeIs
  <2> DEFINE m == 2 * Len(raw)
             t == Characters(raw)
  <2>2. m \in Nat /\ ~(m < Len(t))
      BY <1>1, <2>1
  <2> HIDE DEF m, t
  <2>3. b58_encode(raw, m) = t
      BY <2>1, <2>2 DEF t
  <2> QED BY <2>3 DEF m, t
<1>3. b58_decode(bin, Characters(raw)) = [ok |-> TRUE, bin |-> raw, binsz |-> Len(raw)]
    BY <1>1, <1>2, Base58ComesBack
<1> QED BY <1>3

(* The buffer matters only when there is nothing to write into it.         *)
LEMMA BufferIsOverwritten ==
    ASSUME NEW bin \in Seq(Digits(BYTE)), Len(bin) = RawBytes,
           NEW other \in Seq(Digits(BYTE)), Len(other) = RawBytes, NEW s \in Seq(0 .. BASE)
    PROVE  /\ b58_decode(bin, s).ok <=> b58_decode(other, s).ok
           /\ b58_decode(bin, s).ok => b58_decode(bin, s).bin = b58_decode(other, s).bin
<1> DEFINE r1 == b58_decode(bin, s)
           r2 == b58_decode(other, s)
           fits == (\A n \in DOMAIN s : s[n] < BASE) /\ Value(s, BASE) < Power(BYTE)[RawBytes]
<1>1. Len(bin) # 0 /\ Len(other) # 0
    BY Sizes
<1>2. /\ r1.ok <=> fits
      /\ r1.ok => r1.bin \in Seq(Digits(BYTE)) /\ Len(r1.bin) = RawBytes /\ Value(r1.bin, BYTE) = Value(s, BASE)
    BY <1>1, DecodeIs
<1>3. /\ r2.ok <=> fits
      /\ r2.ok => r2.bin \in Seq(Digits(BYTE)) /\ Len(r2.bin) = RawBytes /\ Value(r2.bin, BYTE) = Value(s, BASE)
    BY <1>1, DecodeIs
<1> HIDE DEF r1, r2, fits
<1>4. r1.ok <=> r2.ok
    BY <1>2, <1>3
<1>5. r1.ok => r1.bin = r2.bin
    BY <1>2, <1>3, <1>4, Bases, SameDigits
<1> QED BY <1>4, <1>5 DEF r1, r2

(* The text shown for a key, and what comes of it, over whatever buffer.   *)
LEMMA AddressOfKey ==
    ASSUME NEW k, IsKey(k)
    PROVE  LET t == generate_address(k, MINA_ADDRESS_LEN) IN
           /\ t = Characters(RawOf(k)) /\ t \in Seq(0 .. BASE) /\ Len(t) = MINA_ADDRESS_LEN - 1
           /\ \A bin \in Seq(Digits(BYTE)) : Len(bin) = RawBytes =>
                 /\ b58_decode(bin, t).ok /\ b58_decode(bin, t).bin = RawOf(k)
                 /\ validate_address(t, bin)
                 /\ read_public_key_compressed(t, bin) = k
<1> DEFINE raw == RawOf(k)
           t == Characters(raw)
<1>1. /\ raw \in Seq(Digits(BYTE)) /\ Len(raw) = RawBytes /\ raw[1] = VERSION
      /\ IsSummed(raw) /\ Reverse(XBytes(raw)) = k.x /\ (payload(raw)[PayloadBytes] # 0 <=> k.is_odd)
    BY RawOfKey
<1> HIDE DEF raw
<1>2. /\ t \in Seq(Digits(BASE)) /\ Len(t) = MINA_ADDRESS_LEN - 1
      /\ b58_encode(raw, MINA_ADDRESS_LEN) = t
    BY <1>1, OneLength
<1>3. t \in Seq(0 .. BASE) /\ t \in Seq(Nat)
    BY <1>2, Bases, DigitsAre
<1>4. t # Fail
    BY <1>3, DigitsAreNotFail
<1>5. generate_address(k, MINA_ADDRESS_LEN) = t
  <2> HIDE DEF t
  <2>1. raw = SummedOf(k) \o Checksum(SummedOf(k))
      BY DEF raw, RawOf
  <2>2. generate_address(k, MINA_ADDRESS_LEN) =
            LET address == b58_encode(raw, MINA_ADDRESS_LEN)
            IN  IF address = Fail \/ Len(address) # MINA_ADDRESS_LEN - 1 THEN Blank ELSE address
      BY <2>1, Zenon DEF generate_address, SummedOf
  <2> QED BY <1>2, <1>4, <2>2
<1>6. ASSUME NEW bin \in Seq(Digits(BYTE)), Len(bin) = RawBytes
      PROVE  /\ b58_decode(bin, t).ok /\ b58_decode(bin, t).bin = raw
             /\ validate_address(t, bin)
             /\ read_public_key_compressed(t, bin) = k
  <2>1. b58_decode(bin, t).ok /\ b58_decode(bin, t).bin = raw
      BY <1>1, <1>6, DecodesBack
  <2> HIDE DEF t
  <2>2. validate_address(t, bin)
      BY <1>1, <1>2, <2>1 DEF validate_address, IsSummed
  <2>3. read_public_key_compressed(t, bin) = [x |-> Reverse(XBytes(raw)), is_odd |-> payload(raw)[PayloadBytes] # 0]
      BY <2>1 DEF read_public_key_compressed, XBytes
  <2>4. (payload(raw)[PayloadBytes] # 0) = k.is_odd
      BY <1>1 DEF IsKey
  <2>5. k = [x |-> k.x, is_odd |-> k.is_odd]
      BY DEF IsKey
  <2> QED BY <1>1, <2>1, <2>2, <2>3, <2>4, <2>5
<1> QED BY <1>2, <1>3, <1>5, <1>6 DEF raw

(* A standard address is that of the key read from it.                     *)
KeyIn(raw) == [x |-> Reverse(XBytes(raw)), is_odd |-> payload(raw)[PayloadBytes] # 0]

LEMMA StandardIsRaw ==
    ASSUME NEW raw \in Seq(Digits(BYTE)), Len(raw) = RawBytes, IsSummed(raw), Standard(raw)
    PROVE  IsKey(KeyIn(raw)) /\ RawOf(KeyIn(raw)) = raw /\ raw[1] = VERSION
<1> DEFINE D == Digits(BYTE)
           f == FIELD_BYTES
           k == KeyIn(raw)
           y == XBytes(raw)
           s == SummedOf(k)
           u == Summed(raw)
           w == checksum(raw)
<1>1. f \in Nat /\ PayloadBytes = f + 3 /\ PayloadBytes \in Nat /\ CHECKSUM_BYTES \in Nat
      /\ RawBytes = 1 + PayloadBytes + CHECKSUM_BYTES
    BY Sizes DEF RawBytes
<1>2. /\ u \in Seq(D) /\ IsSlice(u, raw, 0, 1 + PayloadBytes)
      /\ w \in Seq(D) /\ IsSlice(w, raw, 1 + PayloadBytes, CHECKSUM_BYTES)
      /\ IsSlice(payload(raw), raw, 1, PayloadBytes)
      /\ y \in Seq(D) /\ IsSlice(y, raw, 3, f)
      /\ IsSlice(SubSeq(raw, 1, 3), raw, 0, 3)
    BY RawLayout
<1>3. Reverse(y) \in Seq(D) /\ Len(Reverse(y)) = f /\ Reverse(Reverse(y)) = y
    BY <1>2, ReverseIs DEF IsSlice
<1>4. IsKey(k) /\ k.x = Reverse(y) /\ (k.is_odd <=> payload(raw)[PayloadBytes] # 0)
    BY <1>3 DEF KeyIn, IsKey
<1>5. /\ s \in Seq(D) /\ Len(s) = 1 + PayloadBytes /\ s[1] = VERSION /\ s[2] = 1 /\ s[3] = 1
      /\ \A j \in 1 .. f : s[3 + j] = Reverse(k.x)[j]
      /\ s[f + 4] = IF k.is_odd THEN 1 ELSE 0
    BY <1>4, SummedOfKey
<1>6. SubSeq(raw, 1, 3) = <<VERSION, 1, 1>> /\ payload(raw)[PayloadBytes] \in {0, 1} /\ w = Checksum(u)
    BY DEF Standard, IsSummed
<1> HIDE DEF D, f, k, y, s, u, w
<1>7. raw[1] = VERSION /\ raw[2] = 1 /\ raw[3] = 1
  <2> DEFINE a == SubSeq(raw, 1, 3)
             b == <<VERSION, 1, 1>>
  <2>1. a = b /\ b[1] = VERSION /\ b[2] = 1 /\ b[3] = 1
      BY <1>6
  <2>2. a[1] = raw[0 + 1] /\ a[2] = raw[0 + 2] /\ a[3] = raw[0 + 3]
      BY <1>2 DEF IsSlice
  <2> HIDE DEF a, b
  <2> QED BY <2>1, <2>2
<1>8. \A j \in 1 .. f : s[3 + j] = raw[3 + j]
    BY <1>2, <1>3, <1>4, <1>5 DEF IsSlice
<1>9. s[f + 4] = raw[f + 4]
  <2>1. PayloadBytes \in 1 .. PayloadBytes /\ 1 + PayloadBytes = f + 4
      BY <1>1
  <2>2. payload(raw)[PayloadBytes] = raw[f + 4]
      BY <1>2, <2>1 DEF IsSlice
  <2>3. payload(raw)[PayloadBytes] = IF k.is_odd THEN 1 ELSE 0
      BY <1>4, <1>6
  <2> QED BY <1>5, <2>2, <2>3
<1>10. s = u
  <2>1. \A j \in 1 .. 1 + PayloadBytes : s[j] = raw[j]
    <3> TAKE j \in 1 .. 1 + PayloadBytes
    <3>1. CASE j <= 3
      <4>1. j = 1 \/ j = 2 \/ j = 3
          BY <3>1
      <4> QED BY <1>5, <1>7, <4>1
    <3>2. CASE j = f + 4
        BY <1>9, <3>2
    <3>3. CASE ~(j <= 3) /\ j # f + 4
      <4> DEFINE i == j - 3
      <4>1. i \in 1 .. f /\ j = 3 + i
          BY <1>1, <3>3
      <4> HIDE DEF i
      <4> QED BY <1>8, <4>1
    <3> QED BY <3>1, <3>2, <3>3
  <2>2. Len(u) = 1 + PayloadBytes /\ \A j \in 1 .. 1 + PayloadBytes : u[j] = raw[j]
      BY <1>1, <1>2 DEF IsSlice
  <2>3. \A j \in 1 .. Len(s) : s[j] = u[j]
      BY <1>5, <2>1, <2>2
  <2> QED BY <1>2, <1>5, <2>2, <2>3, SeqEqual
<1>11. u \o w = raw
  <2> DEFINE r == u \o w
  <2>1. r \in Seq(D) /\ IsJoined(r, u, w)
      BY <1>2, Joined
  <2> HIDE DEF r
  <2>2. Len(u) = 1 + PayloadBytes /\ \A j \in 1 .. 1 + PayloadBytes : u[j] = raw[j]
      BY <1>1, <1>2 DEF IsSlice
  <2>3. Len(w) = CHECKSUM_BYTES /\ \A j \in 1 .. CHECKSUM_BYTES : w[j] = raw[(1 + PayloadBytes) + j]
      BY <1>2 DEF IsSlice
  <2>4. /\ Len(r) = RawBytes /\ \A j \in 1 .. 1 + PayloadBytes : r[j] = raw[j]
        /\ \A j \in 1 .. CHECKSUM_BYTES : r[(1 + PayloadBytes) + j] = raw[(1 + PayloadBytes) + j]
      BY <1>1, <2>1, <2>2, <2>3 DEF IsJoined
  <2>5. \A j \in 1 .. RawBytes : r[j] = raw[j]
    <3> TAKE j \in 1 .. RawBytes
    <3>1. CASE j <= 1 + PayloadBytes
      <4>1. j \in 1 .. 1 + PayloadBytes
          BY <1>1, <3>1
      <4> QED BY <2>4, <4>1
    <3>2. CASE ~(j <= 1 + PayloadBytes)
      <4> DEFINE i == j - (1 + PayloadBytes)
      <4>1. i \in 1 .. CHECKSUM_BYTES /\ j = (1 + PayloadBytes) + i
          BY <1>1, <3>2
      <4> HIDE DEF i
      <4> QED BY <2>4, <4>1
    <3> QED BY <3>1, <3>2
  <2>6. raw \in Seq(D)
      BY DEF D
  <2>7. r = raw
      BY <2>1, <2>4, <2>5, <2>6, SeqEqual
  <2> QED BY <2>7 DEF r
<1>12. RawOf(k) = raw
    BY <1>6, <1>10, <1>11 DEF RawOf, s
<1> QED BY <1>4, <1>7, <1>12 DEF k

(* The buffers of the three functions.                                     *)
LEMMA StackIs ==
    ASSUME NEW junk \in Stack
    PROVE  junk \in Seq(Digits(BYTE)) /\ Len(junk) = RawBytes
<1>1. junk \in [1 .. RawBytes -> Digits(BYTE)]
    BY BytesAssumption DEF Digits
<1> QED BY <1>1, Sizes, StringIs

LEMMA CleanIs ==
    Zeros(RawBytes) \in Seq(Digits(BYTE)) /\ Len(Zeros(RawBytes)) = RawBytes
<1>1. 0 \in Digits(BYTE)
    BY Bases DEF Digits
<1> QED BY <1>1, Sizes, ZerosIs

(* Two texts of one length that decode never decode to the same bytes: one *)
(* that decodes to a standard address is what is shown for the key in it.  *)
LEMMA OnlyText ==
    ASSUME NEW s \in Seq(0 .. BASE), Len(s) = MINA_ADDRESS_LEN - 1,
           NEW bin \in Seq(Digits(BYTE)), Len(bin) = RawBytes,
           b58_decode(bin, s).ok, IsSummed(b58_decode(bin, s).bin), Standard(b58_decode(bin, s).bin)
    PROVE  s = generate_address(KeyIn(b58_decode(bin, s).bin), MINA_ADDRESS_LEN)
<1> DEFINE result == b58_decode(bin, s)
           raw == result.bin
           t == Characters(raw)
<1>1. Len(bin) # 0
    BY Sizes
<1>2. /\ \A n \in DOMAIN s : s[n] < BASE
      /\ raw \in Seq(Digits(BYTE)) /\ Len(raw) = RawBytes /\ Value(raw, BYTE) = Value(s, BASE)
  <2>1. /\ result.ok <=> (\A n \in DOMAIN s : s[n] < BASE) /\ Value(s, BASE) < Power(BYTE)[Len(bin)]
        /\ result.ok => /\ raw \in Seq(Digits(BYTE)) /\ Len(raw) = Len(bin)
                        /\ Value(raw, BYTE) = Value(s, BASE)
      BY <1>1, DecodeIs
  <2> HIDE DEF result
  <2>2. result.ok
      BY DEF result
  <2> QED BY <2>1, <2>2
<1>3. IsSummed(raw) /\ Standard(raw)
    OBVIOUS
<1> HIDE DEF raw
<1>4. IsKey(KeyIn(raw)) /\ RawOf(KeyIn(raw)) = raw /\ raw[1] = VERSION
    BY <1>2, <1>3, StandardIsRaw
<1>5. t \in Seq(Digits(BASE)) /\ Len(t) = MINA_ADDRESS_LEN - 1 /\ Value(t, BASE) = Value(raw, BYTE)
    BY <1>2, <1>4, OneLength
<1>6. s \in Seq(Digits(BASE))
  <2>1. Len(s) \in Nat /\ \A j \in 1 .. Len(s) : s[j] \in 0 .. BASE
      BY TextIs
  <2>2. s \in [1 .. Len(s) -> 0 .. BASE] /\ DOMAIN s = 1 .. Len(s)
      BY LenProperties
  <2>3. \A j \in 1 .. Len(s) : s[j] \in Digits(BASE)
    <3> TAKE j \in 1 .. Len(s)
    <3> DEFINE d == s[j]
    <3>1. d \in 0 .. BASE /\ d < BASE
        BY <1>2, <2>1, <2>2
    <3> HIDE DEF d
    <3>2. d \in 0 .. BASE - 1
        BY <3>1, Bases
    <3> QED BY <3>2 DEF d, Digits
  <2>4. s \in [1 .. Len(s) -> Digits(BASE)]
      BY <2>2, <2>3
  <2> QED BY <2>1, <2>4, StringIs
<1> HIDE DEF t
<1>7. s = t
    BY <1>2, <1>5, <1>6, Bases, SameDigits
<1>8. generate_address(KeyIn(raw), MINA_ADDRESS_LEN) = Characters(RawOf(KeyIn(raw)))
    BY <1>4, AddressOfKey
<1> QED BY <1>4, <1>7, <1>8 DEF raw, t

----------------------------------------------------------------------------
(* The text of a key that has left the device is the one generate_address  *)
(* makes, wherever it is, and what it is taken for is the key.             *)
AddressInv ==
    /\ text \in Seq(0 .. BASE)
    /\ key # NoKey => key \in PubKeys
    /\ pc \in {"key", "shown"} => key \in PubKeys
    /\ pc = "shown" \/ (key # NoKey /\ pc # "key") => text = generate_address(key, MINA_ADDRESS_LEN)
    /\ key # NoKey => pc # "refused"
    /\ key # NoKey /\ pc = "read" => out = key

LEMMA AddressInvStarts == Init => AddressInv
<1> SUFFICES ASSUME Init PROVE AddressInv
    OBVIOUS
<1>1. CASE key \in PubKeys /\ text = Blank /\ pc = "key"
  <2>1. text \in Seq(0 .. BASE)
      BY <1>1 DEF Blank
  <2> QED BY <1>1, <2>1 DEF AddressInv
<1>2. CASE key = NoKey /\ text \in Texts /\ pc = "received"
  <2>1. text \in Seq(0 .. BASE)
      BY <1>2, BytesAssumption
  <2> QED BY <1>2, <2>1 DEF AddressInv
<1> QED BY <1>1, <1>2 DEF Init

LEMMA AddressInvStays == AddressInv /\ [Next]_vars => AddressInv'
<1> SUFFICES ASSUME AddressInv, [Next]_vars PROVE AddressInv'
    OBVIOUS
<1>1. CASE Show
  <2>1. key \in PubKeys /\ text' = generate_address(key, MINA_ADDRESS_LEN) /\ pc' = "shown" /\ key' = key
      BY <1>1 DEF Show, AddressInv
  <2>2. text' \in Seq(0 .. BASE)
      BY <2>1, KeysAreKeys, AddressOfKey
  <2> QED BY <2>1, <2>2 DEF AddressInv
<1>2. CASE SendBack
    BY <1>2 DEF SendBack, AddressInv
<1>3. CASE Validate
  <2>1. pc = "received" /\ key' = key /\ text' = text /\ out' = out
      BY <1>3 DEF Validate
  <2>2. PICK junk \in Stack : pc' = IF validate_address(text, junk) THEN "accepted" ELSE "refused"
      BY <1>3 DEF Validate
  <2>3. ASSUME key # NoKey PROVE validate_address(text, junk)
    <3>1. key \in PubKeys /\ text = generate_address(key, MINA_ADDRESS_LEN)
        BY <2>1, <2>3 DEF AddressInv
    <3>2. IsKey(key)
        BY <3>1, KeysAreKeys
    <3>3. junk \in Seq(Digits(BYTE)) /\ Len(junk) = RawBytes
        BY StackIs
    <3> QED BY <3>1, <3>2, <3>3, AddressOfKey
  <2>4. pc' \in {"accepted", "refused"} /\ (key # NoKey => pc' = "accepted")
      BY <2>2, <2>3
  <2>5. key # NoKey => key \in PubKeys /\ text = generate_address(key, MINA_ADDRESS_LEN)
      BY <2>1 DEF AddressInv
  <2>6. text \in Seq(0 .. BASE)
      BY DEF AddressInv
  <2> QED BY <2>1, <2>4, <2>5, <2>6 DEF AddressInv
<1>4. CASE Read
  <2>1. pc = "accepted" /\ pc' = "read" /\ key' = key /\ text' = text
      BY <1>4 DEF Read
  <2>2. PICK junk \in Stack : out' = read_public_key_compressed(text, junk)
      BY <1>4 DEF Read
  <2>3. key # NoKey => key \in PubKeys /\ text = generate_address(key, MINA_ADDRESS_LEN)
      BY <2>1 DEF AddressInv
  <2>4. ASSUME key # NoKey PROVE out' = key
    <3>1. IsKey(key)
        BY <2>3, <2>4, KeysAreKeys
    <3>2. junk \in Seq(Digits(BYTE)) /\ Len(junk) = RawBytes
        BY StackIs
    <3>3. read_public_key_compressed(generate_address(key, MINA_ADDRESS_LEN), junk) = key
        BY <3>1, <3>2, AddressOfKey
    <3> QED BY <2>2, <2>3, <2>4, <3>3
  <2>5. text \in Seq(0 .. BASE)
      BY DEF AddressInv
  <2> QED BY <2>1, <2>3, <2>4, <2>5 DEF AddressInv
<1>5. CASE UNCHANGED vars
    BY <1>5 DEF vars, AddressInv
<1> QED BY <1>1, <1>2, <1>3, <1>4, <1>5 DEF Next

(* Two keys never have one address on screen.                              *)
THEOREM AddressesDiffer ==
    ASSUME NEW k1 \in PubKeys, NEW k2 \in PubKeys,
           generate_address(k1, MINA_ADDRESS_LEN) = generate_address(k2, MINA_ADDRESS_LEN)
    PROVE  k1 = k2
<1> DEFINE clean == Zeros(RawBytes)
           t1 == generate_address(k1, MINA_ADDRESS_LEN)
           t2 == generate_address(k2, MINA_ADDRESS_LEN)
<1>1. clean \in Seq(Digits(BYTE)) /\ Len(clean) = RawBytes
    BY CleanIs
<1> HIDE DEF clean
<1>2. read_public_key_compressed(t1, clean) = k1
    BY <1>1, KeysAreKeys, AddressOfKey
<1>3. read_public_key_compressed(t2, clean) = k2
    BY <1>1, KeysAreKeys, AddressOfKey
<1> QED BY <1>2, <1>3

LEMMA AddressInvHolds == Spec => []AddressInv
<1> QED BY AddressInvStarts, AddressInvStays, PTL DEF Spec

(* Every key has an address of the one length that validate_address        *)
(* accepts, and it comes back as the key it was made from, whatever is on  *)
(* the stack.                                                              *)
THEOREM AddressKeyComesBack == Spec => []KeyComesBack
<1>1. AddressInv => KeyComesBack
  <2> SUFFICES ASSUME AddressInv PROVE KeyComesBack
      OBVIOUS
  <2>1. ASSUME pc = "shown" PROVE Len(text) = MINA_ADDRESS_LEN - 1
    <3>1. key \in PubKeys /\ text = generate_address(key, MINA_ADDRESS_LEN)
        BY <2>1 DEF AddressInv
    <3> QED BY <3>1, KeysAreKeys, AddressOfKey
  <2> QED BY <2>1 DEF KeyComesBack, AddressInv
<1> QED BY <1>1, AddressInvHolds, PTL

(* b58_decode gives the number that the text writes in base 58, in as many *)
(* bytes as were asked for, and refuses, leaving the buffer alone, exactly *)
(* the texts with a foreign character or a number that needs more bytes.   *)
THEOREM AddressDecodeIsValue == Spec => []DecodeIsValue
<1>1. AddressInv => DecodeIsValue
  <2> SUFFICES ASSUME AddressInv, NEW junk \in Stack
      PROVE  LET result == b58_decode(junk, text) IN
                /\ result.ok <=> (\A n \in DOMAIN text : text[n] < BASE) /\ Value(text, BASE) < Power(BYTE)[RawBytes]
                /\ result.ok => Value(result.bin, BYTE) = Value(text, BASE) /\ Len(result.bin) = RawBytes
                /\ ~result.ok => result.bin = junk
      BY DEF DecodeIsValue
  <2>1. junk \in Seq(Digits(BYTE)) /\ Len(junk) = RawBytes /\ Len(junk) # 0
      BY StackIs, Sizes
  <2>2. text \in Seq(0 .. BASE)
      BY DEF AddressInv
  <2> QED BY <2>1, <2>2, DecodeIs
<1> QED BY <1>1, AddressInvHolds, PTL

(* The loop of b58_encode, which has no bound of its own, is through       *)
(* within its buffer of two characters for each byte, and writes the       *)
(* number it was given.                                                    *)
THEOREM AddressEncodeFits == Spec => []EncodeFits
<1>1. AddressInv => EncodeFits
  <2> SUFFICES ASSUME AddressInv PROVE EncodeFits
      OBVIOUS
  <2> DEFINE result == b58_decode(Zeros(RawBytes), text)
             in == result.bin
             t == Characters(in)
  <2>1. in \in Seq(Digits(BYTE)) /\ Len(in) = RawBytes
    <3>1. Zeros(RawBytes) \in Seq(Digits(BYTE)) /\ Len(Zeros(RawBytes)) = RawBytes /\ Len(Zeros(RawBytes)) # 0
        BY CleanIs, Sizes
    <3>2. text \in Seq(0 .. BASE)
        BY DEF AddressInv
    <3>3. /\ result.ok => in \in Seq(Digits(BYTE)) /\ Len(in) = Len(Zeros(RawBytes))
          /\ ~result.ok => in = Zeros(RawBytes)
        BY <3>1, <3>2, DecodeIs
    <3> HIDE DEF result
    <3> QED BY <3>1, <3>3
  <2>2. /\ Divided(in).startAt > RawBytes /\ Len(Divided(in).buffer) + LeadingZeros(in) <= 2 * RawBytes
        /\ Value(t, BASE) = Value(in, BYTE) /\ LeadingZeros(t) = LeadingZeros(in)
        /\ b58_encode(in, 2 * RawBytes) = t
    <3> HIDE DEF in
    <3>1. /\ Divided(in).startAt > Len(in) /\ Len(Divided(in).buffer) + LeadingZeros(in) <= 2 * Len(in)
          /\ Len(t) \in Nat /\ Len(t) <= 2 * Len(in)
          /\ Value(t, BASE) = Value(in, BYTE) /\ LeadingZeros(t) = LeadingZeros(in)
          /\ \A max \in Nat : b58_encode(in, max) = IF max < Len(t) THEN Fail ELSE t
        BY <2>1, EncodeIs
    <3> HIDE DEF t
    <3>2. 2 * RawBytes \in Nat /\ ~(2 * RawBytes < Len(t))
        BY <2>1, <3>1, Sizes
    <3>3. b58_encode(in, 2 * RawBytes) = t
        BY <3>1, <3>2
    <3> QED BY <2>1, <3>1, <3>3
  <2> HIDE DEF t
  <2> QED BY <2>2 DEF EncodeFits
<1> QED BY <1>1, AddressInvHolds, PTL

----------------------------------------------------------------------------
(* What ParseTx makes of a text, case by case.                             *)
LEMMA ReadIs ==
    ASSUME NEW s, NEW bin
    PROVE  read_public_key_compressed(s, bin) = KeyIn(b58_decode(bin, s).bin)
    BY DEF read_public_key_compressed, KeyIn, XBytes

LEMMA ForeignIsNothing ==
    ASSUME NEW bin \in Seq(Digits(BYTE)), Len(bin) = RawBytes
    PROVE  b58_decode(bin, <<BASE>>).bin = bin
<1> DEFINE s == <<BASE>>
           result == b58_decode(bin, s)
<1>1. s \in Seq(0 .. BASE) /\ 1 \in DOMAIN s /\ ~(s[1] < BASE)
    BY Bases
<1>2. Len(bin) # 0
    BY Sizes
<1> HIDE DEF s
<1>3. /\ result.ok <=> (\A n \in DOMAIN s : s[n] < BASE) /\ Value(s, BASE) < Power(BYTE)[Len(bin)]
      /\ ~result.ok => result.bin = bin
    BY <1>1, <1>2, DecodeIs
<1> HIDE DEF result
<1>4. result.bin = bin
    BY <1>1, <1>3
<1> QED BY <1>4 DEF result, s

LEMMA ReceivedStandsFor ==
    ASSUME NEW s \in Seq(0 .. BASE), NEW validated \in Stack, NEW reading \in Stack
    PROVE  LET abstract == AddressOf(s)
               residue == ResidueOf(validated, reading)
           IN  /\ validate_address(s, validated) <=> Parse!validate_address(abstract, residue)
               /\ validate_address(s, validated) =>
                      read_public_key_compressed(s, reading)
                          = Parse!read_public_key_compressed(abstract, residue)
<1> DEFINE clean == Zeros(RawBytes)
           result == b58_decode(clean, s)
           rv == b58_decode(validated, s)
           rr == b58_decode(reading, s)
           abstract == AddressOf(s)
           residue == ResidueOf(validated, reading)
           short == Len(s) # MINA_ADDRESS_LEN - 1
<1>1. /\ clean \in Seq(Digits(BYTE)) /\ Len(clean) = RawBytes
      /\ validated \in Seq(Digits(BYTE)) /\ Len(validated) = RawBytes
      /\ reading \in Seq(Digits(BYTE)) /\ Len(reading) = RawBytes
    BY CleanIs, StackIs
<1>2. /\ rv.ok <=> result.ok
      /\ rr.ok <=> result.ok
      /\ result.ok => result.bin = rv.bin /\ result.bin = rr.bin
    BY <1>1, BufferIsOverwritten
<1>3. ~rv.ok => rv.bin = validated
    BY <1>1, Sizes, DecodeIs
<1>4. ~rr.ok => rr.bin = reading
    BY <1>1, Sizes, DecodeIs
<1>5. validate_address(s, validated) <=> ~short /\ IsSummed(rv.bin)
    BY DEF validate_address, IsSummed
<1>6. read_public_key_compressed(s, reading) = KeyIn(rr.bin)
    BY ReadIs
<1>7. /\ abstract.pk = KeyIn(result.bin)
      /\ abstract.enc = IF short THEN "badsum"
                        ELSE IF ~result.ok THEN "undecodable"
                        ELSE IF ~IsSummed(result.bin) THEN "badsum"
                        ELSE IF Standard(result.bin) THEN "mina" ELSE "other"
    BY ReadIs DEF AddressOf
<1>8. (residue.passes <=> IsSummed(validated)) /\ residue.key = KeyIn(reading)
  <2>1. read_public_key_compressed(<<BASE>>, reading) = KeyIn(reading)
      BY <1>1, ReadIs, ForeignIsNothing
  <2> QED BY <2>1 DEF ResidueOf
<1>9. /\ Parse!validate_address(abstract, residue) <=>
             abstract.enc \in {"mina", "other"} \/ (abstract.enc = "undecodable" /\ residue.passes)
      /\ Parse!read_public_key_compressed(abstract, residue) =
             IF abstract.enc = "undecodable" THEN residue.key ELSE abstract.pk
    BY DEF Parse!validate_address, Parse!read_public_key_compressed
<1> HIDE DEF clean, result, rv, rr, abstract, residue, short
<1>10. /\ validate_address(s, validated) <=> Parse!validate_address(abstract, residue)
       /\ validate_address(s, validated) =>
              read_public_key_compressed(s, reading) = Parse!read_public_key_compressed(abstract, residue)
  <2>1. CASE short
      BY <1>5, <1>7, <1>9, <2>1
  <2>2. CASE ~short /\ ~result.ok
      BY <1>2, <1>3, <1>4, <1>5, <1>6, <1>7, <1>8, <1>9, <2>2
  <2>3. CASE ~short /\ result.ok
      BY <1>2, <1>5, <1>6, <1>7, <1>9, <2>3
  <2> QED BY <2>1, <2>2, <2>3
<1> QED BY <1>10 DEF abstract, residue

(* ParseTx accepts the addresses the code accepts and reads the keys the   *)
(* code reads, also from buffers that were not written, and an address it  *)
(* takes to be that of a key is, character by character, the text the      *)
(* device shows for this key.                                              *)
THEOREM AddressStandsFor == Spec => []StandsFor
<1>1. AddressInv => StandsFor
  <2> SUFFICES ASSUME AddressInv PROVE StandsFor
      OBVIOUS
  <2>1. text \in Seq(0 .. BASE)
      BY DEF AddressInv
  <2>2. \A validated, reading \in Stack :
            /\ validate_address(text, validated)
                   <=> Parse!validate_address(AddressOf(text), ResidueOf(validated, reading))
            /\ validate_address(text, validated) =>
                   read_public_key_compressed(text, reading)
                       = Parse!read_public_key_compressed(AddressOf(text), ResidueOf(validated, reading))
      BY <2>1, ReceivedStandsFor
  <2> DEFINE clean == Zeros(RawBytes)
             result == b58_decode(clean, text)
             abstract == AddressOf(text)
  <2>3. clean \in Seq(Digits(BYTE)) /\ Len(clean) = RawBytes
      BY CleanIs
  <2>4. /\ abstract = [pk |-> abstract.pk, enc |-> abstract.enc]
        /\ abstract.pk = KeyIn(result.bin)
        /\ abstract.enc = IF Len(text) # MINA_ADDRESS_LEN - 1 THEN "badsum"
                          ELSE IF ~result.ok THEN "undecodable"
                          ELSE IF ~IsSummed(result.bin) THEN "badsum"
                          ELSE IF Standard(result.bin) THEN "mina" ELSE "other"
      BY ReadIs DEF AddressOf
  <2>5. abstract.enc = "mina" => text = generate_address(abstract.pk, MINA_ADDRESS_LEN)
    <3>1. SUFFICES ASSUME abstract.enc = "mina" PROVE text = generate_address(abstract.pk, MINA_ADDRESS_LEN)
        OBVIOUS
    <3>2. Len(text) = MINA_ADDRESS_LEN - 1 /\ result.ok /\ IsSummed(result.bin) /\ Standard(result.bin)
      <4> HIDE DEF abstract, result
      <4> QED BY <2>4, <3>1
    <3>3. text = generate_address(KeyIn(result.bin), MINA_ADDRESS_LEN)
        BY <2>1, <2>3, <3>2, OnlyText
    <3> HIDE DEF abstract, result
    <3> QED BY <2>4, <3>3
  <2>6. pc = "shown" => abstract = Parse!generate_address(key)
    <3>1. SUFFICES ASSUME pc = "shown" PROVE abstract = Parse!generate_address(key)
        OBVIOUS
    <3>2. key \in PubKeys /\ text = generate_address(key, MINA_ADDRESS_LEN)
        BY <3>1 DEF AddressInv
    <3>3. IsKey(key)
        BY <3>2, KeysAreKeys
    <3>4. /\ Len(text) = MINA_ADDRESS_LEN - 1 /\ result.ok /\ result.bin = RawOf(key)
          /\ read_public_key_compressed(text, clean) = key
        BY <2>3, <3>2, <3>3, AddressOfKey
    <3>5. IsSummed(RawOf(key)) /\ Standard(RawOf(key))
        BY <3>3, RawOfKey
    <3>6. read_public_key_compressed(text, clean) = KeyIn(result.bin)
        BY ReadIs
    <3>7. Parse!generate_address(key) = [pk |-> key, enc |-> "mina"]
        BY DEF Parse!generate_address
    <3> HIDE DEF abstract, result, clean
    <3>8. abstract.pk = key /\ abstract.enc = "mina"
        BY <2>4, <3>4, <3>5, <3>6
    <3> QED BY <2>4, <3>7, <3>8
  <2> QED BY <2>2, <2>5, <2>6, Zenon DEF StandsFor
<1> QED BY <1>1, AddressInvHolds, PTL
=============================================================================
